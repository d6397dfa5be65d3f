SPECIFICATION FairSpec
CONSTANTS
    MaxBoots = 2
    MaxUuid = 2
    Filters <- MCFilters
    InName <- MCInName
    InUuid <- MCInUuid
    Requests <- ByUrl
PROPERTY BackOnline
CHECK_DEADLOCK FALSE
