CONSTANTS
    QueueLen = 3
    Tokens = 3
    MaxResync = 1
    Scenarios <- Covered
SPECIFICATION FairSpec
INVARIANTS TypeOK SettingsRestored Requested SwitchGoesOn
PROPERTIES ClockStaysRight AdrReturns SessionEnds
