----------------------------- MODULE FifoLease -----------------------------
(***************************************************************************)
(* What the lease of one named resource promises, without tables, probes,  *)
(* retries or polls: one holder at a time, who alone acts and who keeps    *)
(* the lease until it leaves or dies, and grants in the order of arrival.  *)
(*                                                                         *)
(* ResourceLease implements this specification (ResourceLease!Fifo).       *)
(***************************************************************************)
EXTENDS Naturals

CONSTANTS
    Owners,    \* identities of processes, each used once
    Claims,    \* tokens of their calls
    NoHolder

Call == [owner : Owners, claim : Claims]
Ticket == [owner : Owners, claim : Claims, seq : Nat]

VARIABLES
    live,      \* the identities of running processes
    holder,    \* the call that holds the lease, or NoHolder
    queue,     \* the tickets of the calls that wait
    acting,    \* the processes inside their governed action
    leaving    \* the processes about to give the lease back

vars == <<live, holder, queue, acting, leaving>>

CallOf(ticket) == [owner |-> ticket.owner, claim |-> ticket.claim]
First(ticket) == ticket \in queue /\ \A t \in queue : ticket.seq <= t.seq

Init ==
    /\ live \subseteq Owners
    /\ holder = NoHolder
    /\ queue \subseteq Ticket
    /\ acting = {}
    /\ leaving = {}

\* A call of a running process joins the end of the queue.
Join(ticket) ==
    /\ ticket.owner \in live
    /\ \A t \in queue : t.seq < ticket.seq
    /\ queue' = queue \cup {ticket}
    /\ UNCHANGED <<live, holder, acting, leaving>>

\* Tickets of calls that give up, or whose process died.
Leave ==
    /\ queue' \subseteq queue
    /\ \A t \in queue \ queue' : t.owner \notin acting
    /\ UNCHANGED <<live, holder, acting, leaving>>

\* The free lease goes to the first of the queue, with all its tickets.
Grant(ticket) ==
    /\ holder = NoHolder
    /\ First(ticket)
    /\ holder' = CallOf(ticket)
    /\ queue' = {t \in queue : CallOf(t) # CallOf(ticket)}
    /\ UNCHANGED <<live, acting, leaving>>

\* Nobody waits: a caller takes the free lease and acts.
TakeFree(call) ==
    /\ holder = NoHolder
    /\ queue = {}
    /\ call.owner \in live
    /\ holder' = call
    /\ acting' = acting \cup {call.owner}
    /\ UNCHANGED <<live, queue, leaving>>

\* The holder acts, and stops acting.
Enter ==
    /\ holder # NoHolder
    /\ holder.owner \in live \ leaving
    /\ acting' = acting \cup {holder.owner}
    /\ UNCHANGED <<live, holder, queue, leaving>>

Exit(owner) ==
    /\ acting' = acting \ {owner}
    /\ UNCHANGED <<live, holder, queue, leaving>>

\* The holder, no longer acting, gives the lease back, or fails to.
BeginRelease ==
    /\ holder # NoHolder
    /\ holder.owner \in live \ acting
    /\ leaving' = leaving \cup {holder.owner}
    /\ UNCHANGED <<live, holder, queue, acting>>

EndRelease(owner) ==
    /\ owner \in leaving
    /\ leaving' = leaving \ {owner}
    /\ \/ holder # NoHolder /\ holder.owner = owner /\ holder' = NoHolder
       \/ UNCHANGED holder
    /\ UNCHANGED <<live, queue, acting>>

\* The lease of a dead holder is free again.
Reap ==
    /\ holder # NoHolder
    /\ holder.owner \notin live
    /\ holder' = NoHolder
    /\ UNCHANGED <<live, queue, acting, leaving>>

Die(owner) ==
    /\ live' = live \ {owner}
    /\ acting' = acting \ {owner}
    /\ leaving' = leaving \ {owner}
    /\ UNCHANGED <<holder, queue>>

Start(owner) ==
    /\ owner \notin acting \cup leaving
    /\ live' = live \cup {owner}
    /\ UNCHANGED <<holder, queue, acting, leaving>>

Next ==
    \/ \E t \in queue' : Join(t)
    \/ \E t \in queue : Grant(t)
    \/ holder' # NoHolder /\ TakeFree(holder')
    \/ Leave \/ Enter \/ BeginRelease \/ Reap
    \/ \E owner \in live : Exit(owner) \/ EndRelease(owner) \/ Die(owner)
    \/ \E owner \in live' : Start(owner)

Spec == Init /\ [][Next]_vars
=============================================================================
