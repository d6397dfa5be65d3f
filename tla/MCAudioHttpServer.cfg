CONSTANTS
    MaxTrack = 2
    TrackLen = 3
    MaxConn = 2
    Capacities = {3}
    MaxRead = 2
    MaxWrite = 2
    Prebuffer = 1
    MayShutDown = FALSE
SPECIFICATION Spec
INVARIANTS TypeOK ConnectionCarriesOneTrack RingHoldsOnlyThisTrack HeaderMatchesBody
VIEW LiveState
CHECK_DEADLOCK FALSE
