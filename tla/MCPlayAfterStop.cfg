CONSTANTS
    MaxTrack = 2
    MaxCuts = 1
    Formats <- Formats2
    Kinds <- LongKinds
    Events = {"stop"}
SPECIFICATION Spec
PROPERTY NoPlayAfterStop
CHECK_DEADLOCK FALSE
