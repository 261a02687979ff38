------------------------------ MODULE MCJobQueue ------------------------------
(* Instances of JobQueue for TLC. *)
EXTENDS JobQueue, TLC

CONSTANTS k1, k2, k3, p1, c1, c2, w1, w2

\* The requests k1 and k2 are launches of one packet, or fires of one
\* repository with different limits; k3 is of neither.
PacketOfTwo == [k \in Requests |-> IF k = k3 THEN None ELSE p1]
KeyOfTwo == [k \in Requests |-> IF k = k3 THEN "other" ELSE "repo"]
Lowered == [k \in Requests |-> IF k = k2 THEN 2 ELSE 1]

TwoThenOne == [k \in Requests |-> IF k = k2 THEN 1 ELSE 2]

Perms == Permutations(Workers) \cup Permutations(Controls)
=============================================================================
