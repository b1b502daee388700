CONSTANTS
    k1 = k1 k2 = k2 v1 = v1 v2 = v2 p1 = p1 p2 = p2
    Keys <- OneKey
    Values <- OneValue
    Places <- TwoPlaces
    None = None
    Torn = Torn
    MaxBundled = 2
    CompactAfterExcess = 1
    MaxLog = 4
    MaxLate = 2
    Faults <- AllFaults
SPECIFICATION FairSpec
PROPERTIES RemovalsWritten CompactionEnds
