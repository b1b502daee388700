CONSTANTS
    MaxPts = 3
    Counts <- CountsOne
    MaxZeros = 0
    MaxFails = 1
    KnownPts <- KnownOnly
SPECIFICATION FairSpec
PROPERTY FailedIsRetried
CHECK_DEADLOCK FALSE
