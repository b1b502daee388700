SPECIFICATION FairSpec
CONSTANTS
    Reqs <- TwoReqs
    Handlers <- OneReq
    IdsBuffer = 1
    Limits <- AllLimits
CHECK_DEADLOCK FALSE
INVARIANT ExecutedOnce
INVARIANT HandledOnce
INVARIANT NoneForgotten
PROPERTY Answered
