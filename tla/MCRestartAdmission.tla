------------------------- MODULE MCRestartAdmission -------------------------
EXTENDS RestartAdmission, TLC
=============================================================================
