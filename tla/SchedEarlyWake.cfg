SPECIFICATION Spec
CONSTANTS
    w1 = w1
    w2 = w2
    a = a
    b = b
    c = c
    Main = Main
    AnyThread = AnyThread
    None = None
    Workers = {w1, w2}
    UseCaller = FALSE
    Jobs = {a}
    FiberJobs = {a}
    Parent <- TreeParent
    Pin <- NoPins
    HoldJobs = {a}
    YieldJobs = {}
    MaxYields = 0
    MaxStarts = 1
    MaxStops = 1
    WakeAfterPark = FALSE
INVARIANT OneThreadPerFiber
CHECK_DEADLOCK FALSE
