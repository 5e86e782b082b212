SPECIFICATION Spec
CONSTANTS
    w1 = w1
    w2 = w2
    a = a
    b = b
    c = c
    Main = Main
    AnyThread = AnyThread
    None = None
    Workers = {w1, w2}
    UseCaller = FALSE
    Jobs = {a, b, c}
    FiberJobs = {a}
    Parent <- TreeParent
    Pin <- NoPins
    HoldJobs = {a, b}
    YieldJobs = {a, b, c}
    MaxYields = 1
    MaxStarts = 1
    MaxStops = 1
    WakeAfterPark = TRUE
INVARIANT OneThreadPerFiber
INVARIANT NoAbort
INVARIANT CountsExact
INVARIANT NoJobLostOrDuplicated
PROPERTY StopDrains
SYMMETRY WorkerSymmetry
CHECK_DEADLOCK FALSE
