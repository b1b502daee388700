SPECIFICATION SlicesSpec
CONSTANTS
    Files <- AllFiles
    kPartSize = 16
    kPartsInSlice = 2
    kSlicesInMemory = 2
CHECK_DEADLOCK FALSE
INVARIANT PartsInPlace
INVARIANT AssertionsHold
INVARIANT LoadingIsMissing
PROPERTY SavedIsKept
