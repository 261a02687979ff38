------------------------- MODULE MCIdempotencyStore -------------------------
\* The idempotency guard on small instances.
EXTENDS IdempotencyStore, TLC

CONSTANTS p1, p2, c1, c2, c3, c4, b1, b2

Mode(attach, faults) == [attach |-> attach, storeFaults |-> faults, probeFails |-> faults]
\* Verbs that bind their body, in a sound environment.
Binding == {Mode(FALSE, FALSE)}
\* Those, and verbs that attach in an environment that fails.
AllModes == Binding \cup {Mode(TRUE, TRUE)}

SymmCalls == Permutations(Calls)
=============================================================================
