SPECIFICATION Spec
CONSTANTS
    p1 = p1
    p2 = p2
    c1 = c1
    c2 = c2
    c3 = c3
    c4 = c4
    b1 = b1
    b2 = b2
    None = None
    Procs = {p1, p2}
    First = {p1}
    Calls = {c1, c2, c3, c4}
    Bodies = {b1}
    TTL = 1
    MaxTime = 1
    Modes <- AllModes
CHECK_DEADLOCK FALSE
SYMMETRY SymmCalls
INVARIANTS TypeOK ResultsLanded ReservationHasRun
PROPERTIES AtMostOnce AttachedOutcome
