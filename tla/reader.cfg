SPECIFICATION FairSpec
CONSTANTS
    LastPart = 2
    PartsInSlice = 2
    MaxConcurrentRequests = 1
    MaxErrors = 2
    MaxDrops = 1
    MaxSem = 2
    Stops = TRUE
CHECK_DEADLOCK FALSE
INVARIANT NothingSleptPast
INVARIANT LoadingIsOnItsWay
PROPERTY ReadsEnd
