SPECIFICATION FairSpec
CONSTANTS
    Slots = 2
    MaxTransactions = 3
    MaxReads = 2
    MaxAcl = 1
    MaxQueue = 2
    MaxSends = 4
    MaxReports = 1
    MaxFaults = 2
    FaultPhases <- Operation
INVARIANTS Attended UpMeansInitialised
PROPERTIES Settles Reinitialised
CHECK_DEADLOCK FALSE
