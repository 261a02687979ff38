SPECIFICATION Spec
CONSTANTS
    p1 = p1
    p2 = p2
    Pids = {p1, p2}
    Observers = {}
    Unreadable = {p1}
    AcquireRaceLimit = 2
    MaxStarts = 2
    MaxSessions = 2
    StoreFaults = TRUE
    LegacyWaiters <- OneLegacyWaiter
    NoRow = NoRow
INVARIANTS MutualExclusion
PROPERTIES LiveLeaseKept ImplementsFifo
CHECK_DEADLOCK FALSE
