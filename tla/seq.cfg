SPECIFICATION SeqFairSpec
CONSTANTS
    MaxSeq = 3
    MaxDate = 4
    MaxFails = 1
    MaxSessions = 1
    Servers <- AllServers
INVARIANT NothingForgotten
PROPERTY StoredIsReached
CHECK_DEADLOCK FALSE
