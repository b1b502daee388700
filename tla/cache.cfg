CONSTANTS
    k1 = k1 k2 = k2 v1 = v1 v2 = v2 p1 = p1 p2 = p2
    Keys <- TwoKeys
    Values <- TwoValues
    Places <- TwoPlaces
    None = None
    Torn = Torn
    MaxBundled = 2
    CompactAfterExcess = 1
    MaxLog = 4
    MaxLate = 1
    Faults <- CompactFaults
SPECIFICATION Spec
INVARIANTS CompactedAgrees ExcessIsGarbage RemovalsWait NewEntriesSpared
PROPERTIES CrashSafe ImplementsLossyCache
SYMMETRY Interchangeable
