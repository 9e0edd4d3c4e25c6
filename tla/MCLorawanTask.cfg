SPECIFICATION FairSpec
CONSTANTS
    cli = cli
    app = app
    None = None
    Senders <- OneSender
    QueueLen = 2
    RxDelays = {2}
    Second = 2
    AckTimeouts = {2}
    NbTrans = 2
    MaxSessions = 1
    PortTimeout = 5
    MaxSends = 3
    MaxNotes = 1
INVARIANTS CommandsCovered PortOnForTask PortOnForWindow UplinkTriedAgain
PROPERTIES UplinksEnd
CHECK_DEADLOCK FALSE
