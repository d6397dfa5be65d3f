SPECIFICATION FairSpec
CONSTANTS
    MaxBoots = 2
    MaxUuid = 2
    Filters <- MCFilters
    InName <- MCInName
    InUuid <- MCInUuid
    Requests <- MCRequests
INVARIANT SessionsDontOverlap
PROPERTIES
    AdoptsOnlyMatches
    OfflineWhenGone
    OnlineWhenBack
    ShutdownEnds
CHECK_DEADLOCK FALSE
