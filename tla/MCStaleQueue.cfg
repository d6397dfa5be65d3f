CONSTANTS
    MaxTrack = 3
    MaxCuts = 1
    Formats <- Formats2
    Kinds <- OneKind
    Events = {}
SPECIFICATION Spec
PROPERTIES ChainsLatest
CHECK_DEADLOCK FALSE
