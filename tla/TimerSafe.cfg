SPECIFICATION Spec
CONSTANTS
    Timers = {t1, t2}
    Pollers = {p1, p2}
    Delays = {0, 1}
    Start = 2
    MaxTime = 4
    Hour = 1
    MaxJumps = 0
    MaxOps = 1
INVARIANT OneFate
INVARIANT SetMatchesTimers
INVARIANT FrontAnnounced
PROPERTY NeverEarly
SYMMETRY TimerSymmetry
CHECK_DEADLOCK FALSE
