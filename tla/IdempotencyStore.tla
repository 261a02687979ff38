-------------------------- MODULE IdempotencyStore --------------------------
(***************************************************************************)
(* The persisted idempotency guard of the control verbs (dispatch, rerun,  *)
(* merge, ...): reserve a row, run the operation, finalize the row with    *)
(* its receipt; a duplicate replays the receipt or is told the operation   *)
(* is in progress.  The row survives the process.                          *)
(*                                                                         *)
(* Sources: src/lib/orchestrator/idempotency-store.ts and                  *)
(* src/lib/db/idempotency-reservation-recovery.ts (opening the database).  *)
(*                                                                         *)
(* Grain.  One key, with the client-mutation binding of its client key.  A *)
(* step is the code between two awaits, or one statement of it where       *)
(* another process on the same database could come between.  A process is  *)
(* one incarnation: a restart is another process.  The operation itself is *)
(* external: it may land its effect, and it throws only when it did not.   *)
(* The database is there (without it routes refuse, or nothing is guarded).*)
(***************************************************************************)
EXTENDS Naturals, FiniteSets

CONSTANTS
    Procs,       \* process incarnations on one database
    First,       \* the processes that have the database open already
    Calls,       \* requests carrying the key
    Bodies,      \* what the requests ask for
    TTL,         \* life of a receipt and of a binding
    MaxTime,     \* bound: the clock stops here
    Modes,       \* the verbs and environments considered
    None         \* no row, no call, no process

ASSUME StoreAssumption ==
    /\ First \subseteq Procs
    /\ TTL \in Nat \ {0}
    /\ MaxTime \in Nat
    /\ Modes \subseteq [attach : BOOLEAN, storeFaults : BOOLEAN, probeFails : BOOLEAN]
    /\ None \notin Procs \cup Calls \cup Bodies

VARIABLES
    mode,      \* what holds of this verb and its environment, for good: callers
               \* attach in flight, or else they bind their body; statements on
               \* the database may throw; a process may fail to read its identity
    clock,     \* wall time
    status,    \* status[p]: "off", "up" or "down"
    identity,  \* identity[p]: the memoized promise of p's own identity
    binding,   \* the client-mutation row: a body and its expiry, or None
    row,       \* the row of the key, or None
    fallback,  \* fallback[p]: a receipt p could not persist, or None
    active,    \* active[p]: the execution that duplicates in p attach to
    pc,        \* pc[c]: the step call c takes next
    fr,        \* fr[c]: the locals of call c
    landed,    \* the calls whose effect has landed
    until      \* until[c]: expiry of the receipt of c, 0 while it has none

vars == <<mode, clock, status, identity, binding, row, fallback, active, pc, fr,
          landed, until>>
procs == <<status, identity>>
effects == <<landed, until>>

Row == [rid : Calls, owner : Procs \cup {None}, done : BOOLEAN, exp : Nat]
ASSUME RowAssumption == None \notin Row \cup [of : Calls, exp : Nat]
                                        \cup [body : Bodies, exp : Nat]

Kinds == {"none", "result", "inProgress", "unresolved", "threw", "refused"}
NoFrame == [proc |-> None, body |-> None, now |-> 0, seen |-> None,
            raced |-> FALSE, leader |-> None, kind |-> "none", of |-> None]

Init ==
    /\ mode \in Modes
    /\ clock = 0
    /\ status = [p \in Procs |-> IF p \in First THEN "up" ELSE "off"]
    /\ identity = [p \in Procs |-> "unread"]
    /\ binding = None
    /\ row = None
    /\ fallback = [p \in Procs |-> None]
    /\ active = [p \in Procs |-> None]
    /\ pc = [c \in Calls |-> "idle"]
    /\ fr = [c \in Calls |-> NoFrame]
    /\ landed = {}
    /\ until = [c \in Calls |-> 0]

At(c, label) == pc[c] = label
Goto(c, label) == pc' = [pc EXCEPT ![c] = label]
Owner(c) == fr[c].proc
Dead(p) == p \in Procs => status[p] = "down"

\* Variant: a reservation counts as a receipt.
AnyRow(r) == r # None
Completed(r) == r # None /\ r.done
Unfinished(r) == r # None /\ ~r.done

\* Variant: reservations expire like receipts.
FreshAnyRow(r, now) == IF r # None /\ r.exp <= now THEN None ELSE r
\* pruneExpired deletes expired receipts only; selectFresh hides them.
Fresh(r, now) == IF Completed(r) /\ r.exp <= now THEN None ELSE r

\* The call ends; when it was the active execution it stops being it.
Answer(c, kind, of) ==
    /\ Goto(c, "done")
    /\ fr' = [fr EXCEPT ![c].kind = kind, ![c].of = of]
    /\ active' = [active EXCEPT ![Owner(c)] = IF @ = c THEN None ELSE @]

----------------------------------------------------------------------------
(* A request: bindIdempotencyClientMutation, then withIdempotency *)

\* Bind the client key to the body, unless an unexpired binding names another.
Bind(c, p, b) ==
    /\ At(c, "idle")
    /\ status[p] = "up"
    /\ LET old == IF binding # None /\ binding.exp <= clock THEN None
                                                             ELSE binding
           same == mode.attach \/ old = None \/ old.body = b
       IN /\ binding' = IF mode.attach THEN binding
                        ELSE IF old = None THEN [body |-> b, exp |-> clock + TTL]
                        ELSE old
          /\ Goto(c, IF same THEN "enter" ELSE "done")
          /\ fr' = [fr EXCEPT ![c].proc = p, ![c].body = b,
                              ![c].kind = IF same THEN "none" ELSE "refused"]
    /\ UNCHANGED <<mode, clock, procs, row, fallback, active, effects>>

\* Variants: the execution is not registered for duplicates; the map holds the
\* process.
RegisterNone(c) == [active EXCEPT ![Owner(c)] = None]
RegisterOwner(c) == [active EXCEPT ![Owner(c)] = Owner(c)]
Register(c) == IF mode.attach THEN [active EXCEPT ![Owner(c)] = c] ELSE active

\* Replay a receipt, look into an unfinished reservation, or go for the row.
Enter(c) ==
    /\ At(c, "enter")
    /\ UNCHANGED <<mode, clock, procs, binding, fallback, effects>>
    /\ \/ /\ mode.attach /\ active[Owner(c)] # None
          /\ Goto(c, "attached")
          /\ fr' = [fr EXCEPT ![c].leader = active[Owner(c)]]
          /\ UNCHANGED <<row, active>>
       \/ /\ ~(mode.attach /\ active[Owner(c)] # None)
          /\ row' = Fresh(row, clock)
          /\ LET kept == fallback[Owner(c)]
             IN \/ /\ kept # None /\ kept.exp > clock
                   /\ Answer(c, "result", kept.of)
                \/ /\ ~(kept # None /\ kept.exp > clock)
                   /\ Completed(row') /\ Answer(c, "result", row'.rid)
                \/ /\ ~(kept # None /\ kept.exp > clock)
                   /\ ~Completed(row')
                   /\ Goto(c, IF row' # None THEN "probe" ELSE "reserve")
                   /\ fr' = [fr EXCEPT ![c].now = clock, ![c].seen = row']
                   /\ active' = Register(c)

\* A duplicate in the process of the active execution awaits its outcome.
FollowLeader(c) ==
    /\ At(c, "attached")
    /\ At(fr[c].leader, "done")
    /\ Answer(c, fr[fr[c].leader].kind, fr[fr[c].leader].of)
    /\ UNCHANGED <<mode, clock, procs, binding, row, fallback, effects>>

----------------------------------------------------------------------------
(* Somebody else's unfinished reservation *)

\* The owner lives, or its probe cannot tell, or it died since.
OwnerLives(c) ==
    /\ At(c, "probe")
    /\ fr[c].seen.owner # None
    /\ Answer(c, "inProgress", None)
    /\ UNCHANGED <<mode, clock, procs, binding, row, fallback, effects>>

OwnerDead(c) ==
    /\ At(c, "probe")
    /\ Dead(fr[c].seen.owner)
    /\ \/ Answer(c, "unresolved", None)
       \/ ~fr[c].raced /\ Goto(c, "reconcile") /\ UNCHANGED <<fr, active>>
    /\ UNCHANGED <<mode, clock, procs, binding, row, fallback, effects>>

\* The reconciler of the verb found no proof, or threw.
NoProof(c) ==
    /\ At(c, "reconcile")
    /\ Answer(c, "unresolved", None)
    /\ UNCHANGED <<mode, clock, procs, binding, row, fallback, effects>>

\* finalizeUnresolved compares the whole reservation that was read.
Unchanged(c) == Unfinished(row) /\ row.rid = fr[c].seen.rid
                                /\ row.owner = fr[c].seen.owner

\* It proved that the effect landed, and the receipt is rebuilt from it; a
\* reservation that changed meanwhile is read again.
Rebuilt(c) ==
    /\ At(c, "reconcile")
    /\ fr[c].seen.rid \in landed
    /\ IF Unchanged(c)
       THEN /\ row' = [row EXCEPT !.done = TRUE, !.owner = None,
                                  !.exp = fr[c].now + TTL]
            /\ until' = [until EXCEPT ![row.rid] = fr[c].now + TTL]
            /\ Answer(c, "result", row.rid)
       ELSE /\ UNCHANGED <<row, until>>
            /\ IF Completed(Fresh(row, clock)) THEN Answer(c, "result", row.rid)
                                               ELSE Answer(c, "unresolved", None)
    /\ UNCHANGED <<mode, clock, procs, binding, fallback, landed>>

----------------------------------------------------------------------------
(* Our own execution *)

\* INSERT OR IGNORE.
Reserve(c) ==
    /\ At(c, "reserve")
    /\ identity[Owner(c)] # "failed"
    /\ identity' = [identity EXCEPT ![Owner(c)] = "read"]
    /\ IF row = None
       THEN /\ row' = [rid |-> c, owner |-> Owner(c), done |-> FALSE,
                       exp |-> fr[c].now + TTL]
            /\ Goto(c, "running")
       ELSE UNCHANGED row /\ Goto(c, "lost")
    /\ UNCHANGED <<mode, clock, status, binding, fallback, active, fr, effects>>

\* The loser reads the winner's row, which may be gone again.
LoserLooks(c) ==
    /\ At(c, "lost")
    /\ LET raced == Fresh(row, fr[c].now)
       IN \/ Completed(raced) /\ Answer(c, "result", raced.rid)
          \/ raced = None /\ Answer(c, "inProgress", None)
          \/ /\ Unfinished(raced)
             /\ Goto(c, "probe")
             /\ fr' = [fr EXCEPT ![c].seen = raced, ![c].raced = TRUE]
             /\ UNCHANGED active
    /\ UNCHANGED <<mode, clock, procs, binding, row, fallback, effects>>

\* The process cannot read its own identity; the rejected promise is kept.
IdentityFails(c) ==
    /\ At(c, "reserve")
    /\ \/ identity[Owner(c)] = "failed"
       \/ mode.probeFails /\ identity[Owner(c)] = "unread"
    /\ identity' = [identity EXCEPT ![Owner(c)] = "failed"]
    /\ Answer(c, "refused", None)
    /\ UNCHANGED <<mode, clock, status, binding, row, fallback, effects>>

\* The effect lands while the operation runs, or after its process is gone.
Land(c) ==
    /\ pc[c] \in {"running", "adrift"}
    /\ c \notin landed
    /\ landed' = landed \cup {c}
    /\ UNCHANGED <<mode, clock, procs, binding, row, fallback, active, pc, fr, until>>

Mine(c) == Unfinished(row) /\ row.rid = c

\* finalize, or the receipt is kept in the process.
RunReturns(c) ==
    /\ At(c, "running")
    /\ c \in landed
    /\ \/ /\ row' = IF Mine(c) /\ row.owner = Owner(c)
                    THEN [row EXCEPT !.done = TRUE, !.owner = None,
                                     !.exp = clock + TTL]
                    ELSE row
          /\ until' = [until EXCEPT ![c] = clock + TTL]
          /\ UNCHANGED fallback
       \/ /\ mode.storeFaults
          /\ fallback' = [fallback EXCEPT
                ![Owner(c)] = [of |-> c, exp |-> clock + TTL]]
          /\ UNCHANGED <<row, until>>
    /\ Answer(c, "result", c)
    /\ UNCHANGED <<mode, clock, procs, binding, landed>>

\* Variant: a failure leaves the reservation.
KeepReservation(c) == c \in Calls /\ row' = row
Release(c) == row' = IF Mine(c) THEN None ELSE row

\* A failure is retryable: the reservation is dropped, unless that fails too.
RunThrows(c) ==
    /\ At(c, "running")
    /\ c \notin landed
    /\ Release(c) \/ (mode.storeFaults /\ UNCHANGED row)
    /\ Answer(c, "threw", None)
    /\ UNCHANGED <<mode, clock, procs, binding, fallback, effects>>

\* A statement before the run throws: so does the guard.
StoreThrows(c) ==
    /\ mode.storeFaults
    /\ pc[c] \in {"enter", "reserve", "lost"}
    /\ Answer(c, "refused", None)
    /\ UNCHANGED <<mode, clock, procs, binding, row, fallback, effects>>

----------------------------------------------------------------------------
(* Processes and time *)

\* Opening the database detaches a dead owner from its reservation.
Quarantine == row' = IF Unfinished(row) /\ Dead(row.owner)
                     THEN [row EXCEPT !.owner = None] ELSE row

Open(p) ==
    /\ status[p] = "off"
    /\ status' = [status EXCEPT ![p] = "up"]
    /\ Quarantine \/ (mode.storeFaults /\ UNCHANGED row)
    /\ UNCHANGED <<mode, clock, identity, binding, fallback, active, pc, fr, effects>>

Crash(p) ==
    /\ status[p] = "up"
    /\ status' = [status EXCEPT ![p] = "down"]
    /\ pc' = [c \in Calls |->
                IF Owner(c) = p /\ At(c, "running") THEN "adrift"
                ELSE IF Owner(c) = p /\ pc[c] \notin {"done", "adrift"}
                THEN "gone" ELSE pc[c]]
    /\ fallback' = [fallback EXCEPT ![p] = None]
    /\ active' = [active EXCEPT ![p] = None]
    /\ UNCHANGED <<mode, clock, identity, binding, row, fr, effects>>

Tick ==
    /\ clock < MaxTime
    /\ clock' = clock + 1
    /\ UNCHANGED <<mode, procs, binding, row, fallback, active, pc, fr, effects>>

CallStep(c) ==
    \/ Enter(c) \/ FollowLeader(c) \/ OwnerLives(c) \/ OwnerDead(c)
    \/ NoProof(c) \/ Rebuilt(c) \/ Reserve(c) \/ LoserLooks(c)
    \/ IdentityFails(c) \/ RunReturns(c) \/ RunThrows(c) \/ StoreThrows(c)

\* Whoever awaits an execution continues when it settles, before any other code
\* of its process runs.
Resuming(p) ==
    \E d \in Calls : Owner(d) = p /\ At(d, "attached") /\ At(fr[d].leader, "done")

Next ==
    \/ \E c \in Calls : Land(c)
    \/ \E c \in Calls : (Resuming(Owner(c)) => At(c, "attached")) /\ CallStep(c)
    \/ \E c \in Calls, p \in Procs, b \in Bodies : ~Resuming(p) /\ Bind(c, p, b)
    \/ \E p \in Procs : Open(p) \/ Crash(p)
    \/ Tick

Spec == Init /\ [][Next]_vars

----------------------------------------------------------------------------
(* Properties *)

Labels == {"idle", "enter", "attached", "probe", "reconcile", "reserve",
           "lost", "running", "done", "gone", "adrift"}
Frame == [proc : Procs \cup {None}, body : Bodies \cup {None}, now : Nat,
          seen : Row \cup {None}, raced : BOOLEAN, leader : Calls \cup {None},
          kind : Kinds, of : Calls \cup {None}]

\* Every variable keeps to the shape of the rows and locals it models.
TypeOK ==
    /\ mode \in Modes
    /\ clock \in Nat
    /\ status \in [Procs -> {"off", "up", "down"}]
    /\ identity \in [Procs -> {"unread", "read", "failed"}]
    /\ binding \in [body : Bodies, exp : Nat] \cup {None}
    /\ row \in Row \cup {None}
    /\ fallback \in [Procs -> [of : Calls, exp : Nat] \cup {None}]
    /\ active \in [Procs -> Calls \cup {None}]
    /\ pc \in [Calls -> Labels]
    /\ fr \in [Calls -> Frame]
    /\ landed \subseteq Calls
    /\ until \in [Calls -> Nat]

\* A run that was started and did not fail: its effect landed or still may.
Begun(c) == pc[c] \in {"running", "adrift"} \/ c \in landed

\* The operation runs at most once per key and life of its receipt, across
\* crashes, restarts, failed receipts, duplicates and reconciliations: a run
\* starts only when every earlier one failed or its receipt has expired.
AtMostOnce ==
    [][\A c \in Calls : pc[c] # "running" /\ pc'[c] = "running" =>
         \A d \in Calls : Begun(d) => until[d] \in 1..clock]_vars

\* A call that has not ended belongs to a process that is up, and looks into a
\* reservation it has read; it reconciles one whose owner is dead for good.
CallInv(c) ==
    /\ pc[c] \notin {"idle", "done", "gone", "adrift"} =>
         Owner(c) \in Procs /\ status[Owner(c)] = "up"
    /\ pc[c] \in {"probe", "reconcile"} => fr[c].seen \in Row
    /\ pc[c] = "reconcile" => Dead(fr[c].seen.owner)
    /\ pc[c] = "attached" => fr[c].leader \in Calls

\* Why: a run that may have landed keeps the row, as a reservation until it
\* has a receipt and as that receipt until it expires; and one that is running
\* has its process as the owner.
Guarded(c) ==
    /\ c \in landed => pc[c] \in {"running", "adrift", "done"}
    /\ ~Begun(c) => until[c] = 0
    /\ Begun(c) /\ until[c] = 0 => Mine(c)
    /\ Begun(c) /\ until[c] > clock =>
         Completed(row) /\ row.rid = c /\ row.exp = until[c]
    /\ pc[c] = "running" => until[c] = 0 /\ row.owner = Owner(c)

\* A receipt tells of an effect that landed, wherever it is kept.
ReceiptsLanded ==
    /\ Completed(row) => row.rid \in landed
    /\ \A p \in Procs : fallback[p] # None => fallback[p].of \in landed

StoreInv == /\ \A c \in Calls : CallInv(c) /\ Guarded(c)
            /\ ReceiptsLanded

\* A caller who is told that the operation succeeded is told of an effect that
\* landed, whichever process or fallback the answer came from.
ResultsLanded ==
    \A c \in Calls : fr[c].kind = "result" => fr[c].of \in landed

\* While the database answers, an unfinished reservation always stands for a
\* run that is under way or was cut off: a failed run leaves no row that would
\* turn every retry away.
ReservationHasRun ==
    ~mode.storeFaults /\ Unfinished(row) => pc[row.rid] \in {"running", "adrift"}

\* Callers that attach in flight are never told "in progress" about a run of
\* their own process: they get its outcome.
AttachedOutcome ==
    [][mode.attach => \A c, d \in Calls :
         pc[c] # "done" /\ pc'[c] = "done" /\ fr'[c].kind = "inProgress"
           => ~(pc[d] = "running" /\ Owner(d) = Owner(c))]_vars

=============================================================================
