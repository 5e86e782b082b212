SPECIFICATION FairSpec
CONSTANTS
    w1 = w1
    w2 = w2
    a = a
    b = b
    c = c
    Main = Main
    AnyThread = AnyThread
    None = None
    Workers = {w1, w2}
    UseCaller = TRUE
    Jobs = {a, b, c}
    FiberJobs = {a}
    Parent <- TreeParent
    Pin <- CallerPins
    HoldJobs = {}
    YieldJobs = {b}
    MaxYields = 2
    MaxStarts = 1
    MaxStops = 1
    WakeAfterPark = TRUE
PROPERTY StopTerminates
PROPERTY EveryJobFinishes
PROPERTY PoolSpec
CHECK_DEADLOCK FALSE
