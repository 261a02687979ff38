SPECIFICATION FairSpec
CONSTANTS
    Lanes = {l1}
    Slots = {0, 1}
    Rows = {r1, r2}
    HighRisk = {1}
    MaxAttempts = 2
    MaxDispatch = 2
    MaxRequeues = 1
    MaxHead = 2
    MaxEvents = 2
    Reconciler = rec
    None = none
INVARIANTS OneReviewer VerdictSeen
PROPERTIES ClaimKept ReviewReached HighRiskSettles
CHECK_DEADLOCK FALSE
