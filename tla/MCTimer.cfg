SPECIFICATION Spec
CONSTANTS
    t1 = t1
    t2 = t2
    t3 = t3
    None = None
    Timers = {t1, t2, t3}
    Width = 4
    MinTicks = 1
    Scenarios <- PromptOrLoaded
INVARIANTS AlarmForHead NotLate
PROPERTIES NeverEarly InOrder
SYMMETRY Symmetry
CHECK_DEADLOCK FALSE
