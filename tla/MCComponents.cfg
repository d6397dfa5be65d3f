SPECIFICATION AllSpec
CONSTANTS
    b0 = b0
    b1 = b1
    Byte <- MCByte
    Zero = b0
    Capacities = {3, 5}
    MaxRead = 3
    MaxWrite = 3
    ReadSizes = {65536, 65535, 32768}
    AudioLen = 4
    MetaInts = {0, 2}
    Headers <- MCHeaders
    HeaderLimit = 9
    MetaUnit = 2
    MaxUnits = 1
    DiscardLen = 2
    MaxLen = 2
    Rates = {44100, 96000}
    Depths = {8, 24}
    Channels = {1, 2}
    Seconds = {200}
    Scripts <- MCScripts
    MaxEvents = 1
    Levels = {0, 50}
    Defaults = {100}
    MaxLevels = 3
    MaxOptions = 3
    Second = 2
    MaxNumber = 2
    Lengths = {9}
    MaxPauses = 1
    Prompt = FALSE
INVARIANTS
    RingTypeOK
    SpaceAccounted
    TypeOK
    PrebufferNeverBlocks
    HttpTypeOK
    DeliversAudio
    DeliversAll
    FormatChangeSeen
    ServedAsWhatItIs
    CommandsInOrder
    StartsAsAsked
PROPERTIES
    RefinesQueue
    ReaderReturns
    FramesWhole
    HeartbeatAnswered
    LastLevelArrives
    TailWithinASecond
CHECK_DEADLOCK FALSE
