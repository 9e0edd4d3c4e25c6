CONSTANTS
    NumPages = 3
    PageWords = 2
    NumVars = 1
    Radix = 2
    MaxLen = 0
    CountBits = 3
    MaxErrors = 2
SPECIFICATION FairSpec
INVARIANTS IndexOK OneActive
PROPERTIES EraseCountSteady ComesUp
