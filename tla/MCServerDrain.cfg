CONSTANTS
    MaxTrack = 1
    TrackLen = 2
    MaxConn = 1
    Capacities = {3}
    MaxRead = 2
    MaxWrite = 2
    Prebuffer = 1
    MayShutDown = FALSE
SPECIFICATION Spec
PROPERTIES DrainThenClose
CHECK_DEADLOCK FALSE
