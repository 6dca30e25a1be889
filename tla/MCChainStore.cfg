CONSTANTS
    Forks = {"a", "b"}
    MaxHeight = 3
    MaxBlockCache = 2
    KeepEventsForHeights = 1
    MaxCrashes = 1
    MaxRequests = 1
    MaxFetches = 2
SPECIFICATION Spec
CHECK_DEADLOCK FALSE
INVARIANTS
    CacheIsEndOfChain
    TablesAgree
    EventsKept
    ReadsAreOfTheChain
