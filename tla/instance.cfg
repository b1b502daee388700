SPECIFICATION FairSpec
CONSTANTS
    Reqs <- TwoReqs
    Dcs <- TwoDcs
    Main = 1
    AfterOf <- SecondAfterFirst
    MaxErrors = 3
    MaxDelay = 2
    Refusals = TRUE
CHECK_DEADLOCK FALSE
INVARIANT InOnePlace
INVARIANT NoneStranded
INVARIANT DelayedInTime
PROPERTY CalledInTheEnd
