SPECIFICATION FairSpec
CONSTANTS
    t1 = t1
    t2 = t2
    b = b
    x = x
    Any_ = Any_
    User = User
    Threads = {t1, t2}
    Jobs = {b}
    Pin <- Bound
    IoJobs = {b}
    Yields <- Twice
    TimerIds = {x}
    Delay <- BeyondTheCap
    MAX_TIMEOUT = 1
    IntMax = 4
    Capacity = 9
INVARIANT DelayBounded
INVARIANT WorkConserved
PROPERTY WorkDone
PROPERTY StopEnds
CHECK_DEADLOCK FALSE
