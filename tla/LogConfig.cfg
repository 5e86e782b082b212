SPECIFICATION Spec
CONSTANTS
    t1 = t1
    t2 = t2
    w1 = w1
    w2 = w2
    Bad = Bad
    Threads = {t1}
    Docs <- Documents
    MaxLoads = 3
    Writers = {w1, w2}
    Order <- ByName
    Files = {"f"}
    EventLevels = {2}
    Sizes = {4, 8}
    MaxEvents = 2
    MaxTime = 2
    PatternLength = 5
INVARIANT ConfigInForce
INVARIANT EventsReachAppender
INVARIANT PatternsExact
CHECK_DEADLOCK FALSE
