SPECIFICATION FairSpec
CONSTANTS
    MaxPts = 4
    Counts <- CountsOneTwo
    MaxZeros = 1
    MaxFails = 1
    KnownPts <- EitherWay
INVARIANT NoGap
INVARIANT HeldBackIsWatched
PROPERTY HeardIsConfirmed
PROPERTY ShownIsPolled
CHECK_DEADLOCK FALSE
