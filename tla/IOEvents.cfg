SPECIFICATION Spec
CONSTANTS
    u1 = u1
    u2 = u2
    None = None
    Users = {u1, u2}
    Pollers = {p1, p2}
    Fds = {0, 2}
    InitSize = 2
    MayAdd <- Mixed
    CallKinds = {"del", "cancel", "cancelAll"}
    Faults = FALSE
    MayClose = TRUE
    MaxCalls = 3
    MaxGen = 2
INVARIANT NoContextLost
INVARIANT WatchedIsRegistered
INVARIANT PendingExact
INVARIANT WaiterInOneContext
SYMMETRY PollerSymmetry
CHECK_DEADLOCK FALSE
