SPECIFICATION FairSpec
CONSTANTS
    c1 = c1
    c2 = c2
    a = a
    b = b
    x = x
    y = y
    star = star
    Conns = {c1}
    Script <- TwoClients
    Writes = {5}
    m_isKeepalive = TRUE
    BuffSize = 4
    Uris = {x}
    Globs = {star}
    Matches <- Everything
    Endings <- LeavesY
    MaxChanges = 2
    Addrs = {a, b}
    Binds <- OneOrTwo
    Patient = TRUE
    MaxSocks = 2
    MaxStarts = 2
    MaxStops = 1
INVARIANT AnswersMatch
INVARIANT OneLoopPerSocket
PROPERTY EveryRequestAnswered
PROPERTY StopEndsLoops
CHECK_DEADLOCK FALSE
