CONSTANTS
    MaxTrack = 3
    MaxCuts = 1
    Formats <- Formats2
    Kinds <- LongKinds
    Events = {"stop"}
SPECIFICATION Spec
INVARIANT JoinNeverBlocks
CHECK_DEADLOCK FALSE
