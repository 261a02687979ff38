--------------------------- MODULE MCMissionLock ---------------------------
(* Instances of MissionLock for TLC. *)
EXTENDS MissionLock

CONSTANTS p1, p2, k1
=============================================================================
