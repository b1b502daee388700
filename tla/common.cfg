SPECIFICATION FairSpec
CONSTANTS
    MaxPts = 4
    Counts <- CountsOneTwo
    MaxZeros = 1
    MaxFails = 1
    Answers <- AllAnswers
INVARIANT NoGap
INVARIANT HeldBackIsWatched
INVARIANT RequestingIsAnswered
PROPERTY ConfirmedNeverMovesBack
PROPERTY HeardIsConfirmed
CHECK_DEADLOCK FALSE
