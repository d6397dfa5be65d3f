CONSTANTS
    MaxTrack = 3
    MaxCuts = 1
    Formats <- Formats2
    Kinds <- LongKinds
    Events = {"stop", "drop"}
SPECIFICATION AlternateSpec
INVARIANTS OneAudioThread SpawnIsSafe
PROPERTIES StopEnds CommandReturns
CHECK_DEADLOCK FALSE
