CONSTANTS
    MaxTrack = 3
    MaxCuts = 1
    Formats <- Formats2
    Kinds <- LongKinds
    Events = {"stop", "pause", "drop"}
SPECIFICATION FlacFirstSpec
INVARIANTS TypeOK OneAudioThread SpawnIsSafe JoinBlocksAfterDetachOnly RingOfOneTrack WritesCurrentSlot
PROPERTY SlotKept
CONSTRAINT UntilDetached
CHECK_DEADLOCK FALSE
