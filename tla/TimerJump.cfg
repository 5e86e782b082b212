SPECIFICATION Spec
CONSTANTS
    Timers = {t1, t2}
    Pollers = {p1}
    Delays = {1}
    Start = 3
    MaxTime = 4
    Hour = 1
    MaxJumps = 1
    MaxOps = 1
INVARIANT OneFate
SYMMETRY TimerSymmetry
CHECK_DEADLOCK FALSE
