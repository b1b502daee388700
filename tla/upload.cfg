SPECIFICATION FairSpec
CONSTANTS
    Files <- ThreeFiles
    Small <- ThreeSmall
    DocSize <- ThreeDoc
    PartSizes <- DoublingSizes
    SizeLimits <- Limits
    MaxParts = 2
    MaxParallel = 2
    Sessions <- TwoSessions
    MaxErrors = 2
    MaxPauses = 1
CHECK_DEADLOCK FALSE
INVARIANT ReadyIsWhole
INVARIANT SentIsCurrent
INVARIANT SizesAgree
PROPERTY UploadsEnd
