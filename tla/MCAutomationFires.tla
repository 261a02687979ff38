-------------------------- MODULE MCAutomationFires --------------------------
(* Instances of AutomationFires for TLC. *)
EXTENDS AutomationFires, TLC

EverySlot == {Slots}
SomeSchedules == {Slots, {MaxTime}}

Perms == Permutations(Workers) \cup Permutations(Calls)
=============================================================================
