CONSTANTS
    MaxTrack = 1
    TrackLen = 2
    MaxConn = 1
    Capacities = {2}
    MaxRead = 1
    MaxWrite = 1
    Prebuffer = 1
    MayShutDown = TRUE
SPECIFICATION FairSpec
PROPERTIES StopEndsAudioThread EndOfStreamCloses StopJoinsServer
CHECK_DEADLOCK FALSE
