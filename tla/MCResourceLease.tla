-------------------------- MODULE MCResourceLease --------------------------
(* Instances of ResourceLease for TLC. *)
EXTENDS ResourceLease, TLC

CONSTANTS p1, p2

NoLegacyWaiters == {}

\* A row of the older schema, of the process that now runs under p1.
OneLegacyWaiter ==
    {[owner |-> [pid |-> p1, start |-> 1], claim |-> NoClaim, seq |-> 0]}
=============================================================================
