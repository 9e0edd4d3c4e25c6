SPECIFICATION FairSpec
CONSTANTS
    t1 = t1
    t2 = t2
    Timers <- Two
    NumHandlers = 2
    Driver = 1
    Durations = {1, 2}
    Clk = 2
    Modulus = 8
    MaxMessages = 1
    CommandLen = 1
    MaxWork = 2
    MaxHeld = 1
    MaxAge = 12
    Slack = 3
INVARIANTS TypeOK SleepsCovered NotLate
PROPERTIES WorkEnds
