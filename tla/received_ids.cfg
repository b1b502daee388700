SPECIFICATION ReceivedSpec
CONSTANTS
    MsgIds <- SixIds
    kIdsBufferSize = 2
INVARIANT NoneRepeated
INVARIANT StateTold
