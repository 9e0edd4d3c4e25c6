CONSTANTS
    MaxRedundancy = 3
    Flash = FALSE
    FirstPage = 2
    Indices = {0, 1}
    Sizes = {4, 6}
    Files = 2
    Coded = 4
SPECIFICATION Spec
INVARIANTS TypeOK Reassembled FailureReported Timely
