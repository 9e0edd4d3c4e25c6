CONSTANTS
    NumPages = 2
    PageWords = 2
    NumVars = 3
    Radix = 2
    MaxLen = 1
    CountBits = 1
    MaxErrors = 0
SPECIFICATION Spec
INVARIANTS TypeOK HandleMatchesFlash ReadsDurable
PROPERTIES StoreSpec
