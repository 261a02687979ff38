SPECIFICATION FairSpec
CONSTANTS
    p1 = p1
    p2 = p2
    Pids = {p1, p2}
    Observers = {o1}
    Unreadable = {}
    AcquireRaceLimit = 2
    MaxStarts = 2
    MaxSessions = 2
    StoreFaults = FALSE
    LegacyWaiters <- NoLegacyWaiters
    NoRow = NoRow
INVARIANTS TypeOK RefusalLeavesNothing
PROPERTIES WaitersServed
CHECK_DEADLOCK FALSE
