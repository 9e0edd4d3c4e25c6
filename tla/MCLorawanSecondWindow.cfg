SPECIFICATION Spec
CONSTANTS
    cli = cli
    app = app
    None = None
    Senders <- OneSender
    QueueLen = 2
    RxDelays = {2}
    Second = 2
    AckTimeouts = {2}
    NbTrans = 2
    MaxSessions = 1
    PortTimeout = 5
    MaxSends = 2
    MaxNotes = 2
PROPERTIES SecondWindowKept
CHECK_DEADLOCK FALSE
