SPECIFICATION FairSpec
CONSTANTS
    Slots = 2
    MaxTransactions = 3
    MaxReads = 2
    MaxAcl = 1
    MaxQueue = 2
    MaxSends = 2
    MaxReports = 1
    MaxFaults = 1
    FaultPhases <- Anytime
PROPERTY Reinitialised
CHECK_DEADLOCK FALSE
