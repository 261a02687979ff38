SPECIFICATION Spec
CONSTANTS
    Natives = {n1}
    Launches = {l1}
    Rebinding = {l1}
    Installers = {i1}
    Observers = {}
    MaxOps = 2
    Crashes = TRUE
    NoPending = NoPending
INVARIANTS  RecordKept
CHECK_DEADLOCK FALSE
