CONSTANTS
    MaxRedundancy = 3
    Flash = TRUE
    FirstPage = 2
    Indices = {0}
    Sizes = {4}
    Files = 2
    Coded = 4
SPECIFICATION Spec
INVARIANT Reassembled
