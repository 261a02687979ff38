SPECIFICATION FairSpec
CONSTANTS
    Natives = {n1}
    Launches = {}
    Rebinding = {}
    Installers = {i1}
    Observers = {o1}
    MaxOps = 2
    Crashes = TRUE
    NoPending = NoPending
PROPERTIES AdmissionReopens
CHECK_DEADLOCK FALSE
