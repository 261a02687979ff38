SPECIFICATION Spec
CONSTANTS
    p1 = p1
    p2 = p2
    Pids = {p1, p2}
    Observers = {o1}
    Unreadable = {}
    AcquireRaceLimit = 2
    MaxStarts = 1
    MaxSessions = 2
    StoreFaults = FALSE
    LegacyWaiters <- NoLegacyWaiters
    NoRow = NoRow
INVARIANTS ReleaseIsFinal
CHECK_DEADLOCK FALSE
