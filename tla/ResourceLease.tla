--------------------------- MODULE ResourceLease ---------------------------
(***************************************************************************)
(* The named resource lease: one holder row and a FIFO table of waiter     *)
(* rows in SQLite, shared by every local o8 process, and the guard         *)
(* withResourceLease that runs a governed action under it.                 *)
(*                                                                         *)
(* Sources: src/lib/leases/resource-lease-service.ts (the store),          *)
(* resource-lease-guard.ts (the guard), resource-lease-participant.ts and  *)
(* lane/repo-action-lock.ts (one guard at a time per process and           *)
(* repository).                                                            *)
(*                                                                         *)
(* Grain.  The rows of one resource never touch another's, so one resource *)
(* is modelled.  A step is one SQLite write transaction, or the reads      *)
(* between two of them or between a write and an await; everything else    *)
(* may interleave, since the database is shared by several OS processes.   *)
(* An await on a process probe is a pair of steps: one that reads the row  *)
(* and starts the probe, one that consumes the answer.  Probe answers are  *)
(* exact about the identity in the row (a dead identity stays dead: a      *)
(* reused pid has another start id), but may be old when they are used.    *)
(***************************************************************************)
EXTENDS Naturals, FiniteSets

CONSTANTS
    Pids,              \* OS process slots that run guards on the resource
    Observers,         \* status, list, heartbeat and start-up reconciles in flight
    Unreadable,        \* the pids whose probe may answer "unknown"
    AcquireRaceLimit,  \* attempts of acquire and of promoteHead
    MaxStarts,         \* bound: incarnations of one pid
    MaxSessions,       \* bound: guard calls
    StoreFaults,       \* TRUE: any statement on the database may throw
    LegacyWaiters,     \* waiter rows of the older schema: no claim authority
    NoRow              \* no lease row

ASSUME LeaseAssumption ==
    /\ Pids \cap Observers = {}
    /\ Unreadable \subseteq Pids
    /\ AcquireRaceLimit \in Nat \ {0}
    /\ StoreFaults \in BOOLEAN

Threads == Pids \cup Observers

\* An exact process identity: a pid and the start id of one incarnation.
Identity == [pid : Pids, start : Nat]

\* A claim is the private token of one guard call; the older schema has none.
NoClaim == 0

\* The owner process of a guard is its waiter process too.
HolderRow == [owner : Identity, claim : Nat, lease : Nat]
WaiterRow == [owner : Identity, claim : Nat, seq : Nat]

ASSUME RowAssumption ==
    /\ NoRow \notin HolderRow \cup WaiterRow \cup [owner : Identity, claim : Nat]
    /\ LegacyWaiters \subseteq {w \in WaiterRow : w.claim = NoClaim /\ w.seq = 0}
    /\ \A v, w \in LegacyWaiters : v = w

VARIABLES
    alive,     \* alive[p]: pid p names a running process
    start,     \* start[p]: the start id of p's latest incarnation
    held,      \* the row of resource_leases, or NoRow
    waiters,   \* the rows of resource_lease_waiters
    nextId,    \* source of lease ids and queue sequence numbers
    sessions,  \* guard calls so far, the source of claim tokens
    pc,        \* pc[t]: the step thread t takes next
    fr         \* fr[t]: the locals of t's current call

vars == <<alive, start, held, waiters, nextId, sessions, pc, fr>>
tables == <<held, waiters, nextId>>
procs == <<alive, start, sessions>>

Alive(id) == alive[id.pid] /\ start[id.pid] = id.start
\* Variant: the pid alone, without its start id.
MePidOnly(p) == p
Me(p) == [pid |-> p, start |-> start[p]]

\* The locals: ret names what to do when reconcile returns.
NoCall == [ret |-> "none", row |-> NoRow, wasLive |-> FALSE, kept |-> FALSE,
           blocked |-> FALSE, todo |-> {}, tries |-> 0, attempt |-> 0,
           claim |-> NoClaim, timedOut |-> FALSE]

Init ==
    /\ alive = [p \in Pids |-> TRUE]
    /\ start = [p \in Pids |-> 1]
    /\ held = NoRow
    /\ waiters = LegacyWaiters
    /\ nextId = 1
    /\ sessions = 0
    /\ pc = [t \in Threads |-> "idle"]
    /\ fr = [t \in Threads |-> NoCall]

----------------------------------------------------------------------------
(* Steps of one thread. *)

\* A guard runs in its process; an observer may be any process.
Running(t) == t \in Pids => alive[t]
At(t, label) == pc[t] = label /\ Running(t)
Goto(t, label) == pc' = [pc EXCEPT ![t] = label]

\* A call of reconcile that continues with ret.
Reconcile(t, ret) ==
    /\ Goto(t, "readHolder")
    /\ fr' = [fr EXCEPT ![t] = [NoCall EXCEPT
                !.ret = ret, !.attempt = fr[t].attempt,
                !.claim = fr[t].claim, !.timedOut = fr[t].timedOut]]

\* reconcile returns to its caller, reporting a blocked resource.
Return(t, blocked) ==
    /\ Goto(t, fr[t].ret)
    /\ fr' = [fr EXCEPT ![t] = [NoCall EXCEPT
                !.blocked = fr[t].blocked \/ blocked, !.attempt = fr[t].attempt,
                !.claim = fr[t].claim, !.timedOut = fr[t].timedOut]]

\* What an awaited probe of id may answer, where wasLive was sampled when it
\* started: live if it was then, dead if it is now.
SaysLive(t) == fr[t].wasLive
SaysUnknown(id) == id.pid \in Unreadable
\* Variant: an unanswered probe counts as death.
SaysDeadWhenUnknown(id) == ~Alive(id) \/ SaysUnknown(id)
SaysDead(id) == ~Alive(id)

\* Start the probe of row and wait for it.
Probe(t, row, label) ==
    /\ Goto(t, label)
    /\ fr' = [fr EXCEPT ![t].row = row, ![t].wasLive = Alive(row.owner)]

IsFirst(w, S) == w \in S /\ \A v \in S : w.seq <= v.seq

\* Rows are matched by waiter id and identity; a guard call draws its waiter id
\* and its claim together, and may insert the pair more than once.
SameWaiter(v, w) == v.owner = w.owner /\ v.claim = w.claim
DeleteWaiter(row) == waiters' = {w \in waiters : ~SameWaiter(w, row)}

----------------------------------------------------------------------------
(* reconcileHolder *)

ReadHolder(t) ==
    /\ At(t, "readHolder")
    /\ \/ /\ held = NoRow
          /\ Goto(t, "readWaiters")
          /\ UNCHANGED fr
       \/ held # NoRow /\ Probe(t, held, "probeHolder")
    /\ UNCHANGED <<tables, procs>>

HolderStays(t) ==
    /\ At(t, "probeHolder")
    /\ \E unknown \in BOOLEAN :
          /\ IF unknown THEN SaysUnknown(fr[t].row.owner) ELSE SaysLive(t)
          /\ fr' = [fr EXCEPT ![t].kept = TRUE, ![t].blocked = unknown]
    /\ Goto(t, "readWaiters")
    /\ UNCHANGED <<tables, procs>>

\* Variant: the deletion does not compare the lease id.
DeleteHeldBlindly(row) == held' = IF row = NoRow THEN held ELSE NoRow

\* DELETE ... WHERE lease_id and owner_identity_json are those of the row.
DeleteHeld(row) == held' = IF held # NoRow /\ held.lease = row.lease
                             /\ held.owner = row.owner THEN NoRow ELSE held

ReapHolder(t) ==
    /\ At(t, "probeHolder")
    /\ SaysDead(fr[t].row.owner)
    /\ DeleteHeld(fr[t].row)
    /\ fr' = [fr EXCEPT ![t].kept = (held' # NoRow)]
    /\ Goto(t, "readWaiters")
    /\ UNCHANGED <<waiters, nextId, procs>>

----------------------------------------------------------------------------
(* reconcileWaiters *)

\* Probe the first of the rows left to inspect; a retained holder ends the
\* call after the last, otherwise promoteHead follows.
NextWaiter(t, rest, blocked) ==
    \/ rest = {} /\ fr[t].kept /\ Return(t, blocked)
    \/ /\ rest = {} /\ ~fr[t].kept
       /\ Goto(t, "readHead")
       /\ fr' = [fr EXCEPT ![t].todo = {}, ![t].row = NoRow,
                           ![t].wasLive = FALSE, ![t].blocked = blocked]
    \/ \E w \in rest :
       /\ IsFirst(w, rest)
       /\ Goto(t, "probeWaiter")
       /\ fr' = [fr EXCEPT ![t].todo = rest \ {w}, ![t].row = w,
                           ![t].wasLive = Alive(w.owner), ![t].blocked = blocked]

ReadWaiters(t) ==
    /\ At(t, "readWaiters")
    /\ NextWaiter(t, waiters, fr[t].blocked)
    /\ UNCHANGED <<tables, procs>>

WaiterStays(t) ==
    /\ At(t, "probeWaiter")
    /\ \E unknown \in BOOLEAN :
          /\ IF unknown THEN SaysUnknown(fr[t].row.owner) ELSE SaysLive(t)
          /\ NextWaiter(t, fr[t].todo,
                        fr[t].blocked \/ unknown \/ fr[t].row.claim = NoClaim)
    /\ UNCHANGED <<tables, procs>>

ReapWaiter(t) ==
    /\ At(t, "probeWaiter")
    /\ SaysDead(fr[t].row.owner)
    /\ DeleteWaiter(fr[t].row)
    /\ NextWaiter(t, fr[t].todo, fr[t].blocked)
    /\ UNCHANGED <<held, nextId, procs>>

----------------------------------------------------------------------------
(* promoteHead *)

\* A lost race: read again, unless the attempts are used up.
Retry(t) ==
    IF fr[t].tries + 1 < AcquireRaceLimit
    THEN /\ Goto(t, "readHead")
         /\ fr' = [fr EXCEPT ![t].row = NoRow, ![t].wasLive = FALSE,
                             ![t].tries = @ + 1]
    ELSE Return(t, FALSE)

ReadHead(t) ==
    /\ At(t, "readHead")
    /\ \/ (held # NoRow \/ waiters = {}) /\ Return(t, FALSE)
       \/ /\ held = NoRow
          /\ \E w \in waiters : IsFirst(w, waiters) /\ Probe(t, w, "probeHead")
    /\ UNCHANGED <<tables, procs>>

HeadBlocks(t) ==
    /\ At(t, "probeHead")
    /\ \/ SaysUnknown(fr[t].row.owner)
       \/ fr[t].row.claim = NoClaim /\ SaysLive(t)
    /\ Return(t, TRUE)
    /\ UNCHANGED <<tables, procs>>

ReapHead(t) ==
    /\ At(t, "probeHead")
    /\ SaysDead(fr[t].row.owner)
    /\ DeleteWaiter(fr[t].row)
    /\ Retry(t)
    /\ UNCHANGED <<held, nextId, procs>>

\* The transaction of promote checks that the resource is free and that the
\* row still heads the queue.
Promotable(row) ==
    held = NoRow /\ \E w \in waiters : IsFirst(w, waiters) /\ SameWaiter(w, row)

Promote(t) ==
    /\ At(t, "probeHead")
    /\ SaysLive(t)
    /\ fr[t].row.claim # NoClaim
    /\ IF Promotable(fr[t].row)
       THEN /\ held' = [owner |-> fr[t].row.owner, claim |-> fr[t].row.claim,
                        lease |-> nextId]
            /\ DeleteWaiter(fr[t].row)
            /\ nextId' = nextId + 1
            /\ Return(t, FALSE)
       ELSE Retry(t) /\ UNCHANGED tables
    /\ UNCHANGED procs

----------------------------------------------------------------------------
(* acquire, called by the guard with wait: TRUE *)

Mine(p, row) == row # NoRow /\ row.owner = Me(p) /\ row.claim = fr[p].claim
Queued(p) == \E w \in waiters : w.owner = Me(p) /\ w.claim = fr[p].claim

\* One more attempt of the acquire loop, or a last status and a refusal.
AcquireAgain(p) ==
    IF fr[p].attempt + 1 < AcquireRaceLimit
    THEN /\ Goto(p, "readHolder")
         /\ fr' = [fr EXCEPT ![p] = [NoCall EXCEPT !.ret = "acquire",
                       !.attempt = fr[p].attempt + 1, !.claim = fr[p].claim]]
    ELSE Reconcile(p, "poll")

\* The reads after reconcile: my row is a replay, another claim of this same
\* process is a refusal, a free resource with no queue is taken directly.
Decide(p) ==
    /\ At(p, "acquire")
    /\ \/ Mine(p, held) /\ Goto(p, "action")
       \/ /\ \/ held # NoRow /\ held.owner = Me(p) /\ ~Mine(p, held)
             \/ ~Mine(p, held) /\ \E w \in waiters : w.owner = Me(p)
                                              /\ w.claim # fr[p].claim
          /\ Goto(p, "poll")
       \/ /\ held = NoRow /\ waiters = {} /\ ~fr[p].blocked
          /\ Goto(p, "direct")
       \/ /\ held = NoRow => waiters # {} \/ fr[p].blocked
          /\ held # NoRow => held.owner # Me(p)
          /\ \A w \in waiters : w.owner = Me(p) => w.claim = fr[p].claim
          /\ Goto(p, "enqueue")
    /\ UNCHANGED <<tables, procs, fr>>

\* The conditions its transaction checks again, and a variant that does not.
DirectIfNoWaiter(p) == waiters = {} /\ p \in Pids
DirectAllowed(p) == held = NoRow /\ waiters = {} /\ p \in Pids

\* tryAcquireDirect: its transaction checks the tables again.
AcquireDirect(p) ==
    /\ At(p, "direct")
    /\ IF DirectAllowed(p)
       THEN /\ held' = [owner |-> Me(p), claim |-> fr[p].claim, lease |-> nextId]
            /\ nextId' = nextId + 1
            /\ Goto(p, "action")
            /\ UNCHANGED <<waiters, fr>>
       ELSE AcquireAgain(p) /\ UNCHANGED tables
    /\ UNCHANGED procs

\* The transaction of enqueue checks for a waiter row of this owner; it does
\* not look at the holder.
Enqueue(p) ==
    /\ At(p, "enqueue")
    /\ IF \E w \in waiters : w.owner = Me(p)
       THEN UNCHANGED <<waiters, nextId>>
       ELSE /\ waiters' = waiters \cup
                 {[owner |-> Me(p), claim |-> fr[p].claim, seq |-> nextId]}
            /\ nextId' = nextId + 1
    /\ Reconcile(p, "queued")
    /\ UNCHANGED <<held, procs>>

AfterQueue(p) ==
    /\ At(p, "queued")
    /\ \/ Mine(p, held) /\ Goto(p, "action") /\ UNCHANGED fr
       \/ ~Mine(p, held) /\ Queued(p) /\ Goto(p, "poll") /\ UNCHANGED fr
       \/ ~Mine(p, held) /\ ~Queued(p) /\ AcquireAgain(p)
    /\ UNCHANGED <<tables, procs>>

----------------------------------------------------------------------------
(* release, ending with what after names: "done" or "status" *)

ReleaseCheck(p) ==
    /\ At(p, "release")
    /\ \/ /\ Mine(p, held)
          /\ Goto(p, "deleteHolder")
          /\ fr' = [fr EXCEPT ![p].row = held]
       \/ /\ ~Mine(p, held)
          /\ IF fr[p].timedOut THEN Reconcile(p, "done")
                               ELSE Goto(p, "done") /\ UNCHANGED fr
    /\ UNCHANGED <<tables, procs>>

DeleteHolder(p) ==
    /\ At(p, "deleteHolder")
    /\ DeleteHeld(fr[p].row)
    /\ Reconcile(p, IF held' = held THEN "release"
                    ELSE IF fr[p].timedOut THEN "released" ELSE "done")
    /\ UNCHANGED <<waiters, nextId, procs>>

\* timeoutWait ends with a status after its release.
Released(p) ==
    /\ At(p, "released")
    /\ Reconcile(p, "done")
    /\ UNCHANGED <<tables, procs>>

----------------------------------------------------------------------------
(* withResourceLease *)

\* The chain of repo-action-lock.ts admits one call per process; observing the
\* caller's own process must answer live, or the call is refused at once.
Begin(p) ==
    /\ At(p, "idle")
    /\ sessions < MaxSessions
    /\ sessions' = sessions + 1
    /\ Goto(p, "readHolder")
    /\ fr' = [fr EXCEPT ![p] = [NoCall EXCEPT !.ret = "acquire",
                                              !.claim = sessions']]
    /\ UNCHANGED <<tables, alive, start>>

\* Variant: the wait loop reads the tables again without reconciling them.
PollPassively(p) ==
    /\ At(p, "poll")
    /\ Goto(p, "queued")
    /\ UNCHANGED <<tables, procs, fr>>

\* Not acquired: wait briefly and ask again.
Poll(p) ==
    /\ At(p, "poll")
    /\ Goto(p, "readHolder")
    /\ fr' = [fr EXCEPT ![p] = [NoCall EXCEPT !.ret = "acquire",
                                              !.claim = fr[p].claim]]
    /\ UNCHANGED <<tables, procs>>

\* timeoutWait deletes the waiter row by waiter id and claim.
CancelWait(p) ==
    /\ waiters' = {w \in waiters : w.claim # fr[p].claim}
    /\ Goto(p, "timedOut")
    /\ fr' = [fr EXCEPT ![p] = [NoCall EXCEPT !.claim = fr[p].claim,
                                              !.timedOut = TRUE]]

\* The deadline passed.
TimeOut(p) ==
    /\ At(p, "poll")
    /\ CancelWait(p)
    /\ UNCHANGED <<held, nextId, procs>>

\* Variant: the lease granted meanwhile is forgotten.
TimedOutForgets(p) ==
    /\ At(p, "timedOut")
    /\ Reconcile(p, "done")
    /\ UNCHANGED <<tables, procs>>

\* ... and releases a lease that was granted meanwhile.
TimedOut(p) ==
    /\ At(p, "timedOut")
    /\ Reconcile(p, IF Mine(p, held) THEN "release" ELSE "done")
    /\ UNCHANGED <<tables, procs>>

\* The governed action returns or throws; the finally clause releases.
FinishAction(p) ==
    /\ At(p, "action")
    /\ Reconcile(p, "release")
    /\ UNCHANGED <<tables, procs>>

Done(t) ==
    /\ At(t, "done")
    /\ Goto(t, "idle")
    /\ fr' = [fr EXCEPT ![t] = NoCall]
    /\ UNCHANGED <<tables, procs>>

\* An observer reconciles; heartbeat's update and the snapshots are not state
\* that decides anything.
Observe(o) ==
    /\ pc[o] = "idle"
    /\ Reconcile(o, "done")
    /\ UNCHANGED <<tables, procs>>

\* A statement throws and its transaction rolls back.  Before the action the
\* guard falls back to timeoutWait, once; after it the error reaches the caller.
Acquiring(p) == pc[p] \in {"acquire", "direct", "enqueue", "queued", "poll"}
                \/ fr[p].ret \in {"acquire", "queued", "poll"}

StoreThrows(t) ==
    /\ StoreFaults
    /\ Running(t)
    /\ pc[t] \notin {"idle", "action", "done"}
    /\ \/ Goto(t, "done") /\ UNCHANGED <<fr, waiters>>
       \/ Acquiring(t) /\ CancelWait(t)
    /\ UNCHANGED <<held, nextId, procs>>

----------------------------------------------------------------------------
(* Processes *)

\* A crash ends the process and the call it was making; its rows stay.
Crash(p) ==
    /\ alive[p]
    /\ alive' = [alive EXCEPT ![p] = FALSE]
    /\ Goto(p, "idle")
    /\ fr' = [fr EXCEPT ![p] = NoCall]
    /\ UNCHANGED <<tables, start, sessions>>

\* A new process under a pid that was freed: another start id.
Restart(p) ==
    /\ ~alive[p]
    /\ start[p] < MaxStarts
    /\ alive' = [alive EXCEPT ![p] = TRUE]
    /\ start' = [start EXCEPT ![p] = @ + 1]
    /\ UNCHANGED <<tables, sessions, pc, fr>>

----------------------------------------------------------------------------
ReconcileStep(t) ==
    \/ ReadHolder(t) \/ HolderStays(t) \/ ReapHolder(t)
    \/ ReadWaiters(t) \/ WaiterStays(t) \/ ReapWaiter(t)
    \/ ReadHead(t) \/ HeadBlocks(t) \/ ReapHead(t) \/ Promote(t)
    \/ Done(t)

GuardStep(p) ==
    \/ Decide(p) \/ AcquireDirect(p) \/ Enqueue(p) \/ AfterQueue(p)
    \/ ReleaseCheck(p) \/ DeleteHolder(p) \/ Released(p)
    \/ Poll(p) \/ TimeOut(p) \/ TimedOut(p) \/ FinishAction(p)

Next ==
    \/ \E t \in Threads : ReconcileStep(t) \/ StoreThrows(t)
    \/ \E p \in Pids : GuardStep(p) \/ Begin(p) \/ Crash(p) \/ Restart(p)
    \/ \E o \in Observers : Observe(o)

Spec == Init /\ [][Next]_vars

\* Fairness: a call that was begun keeps making steps while its process lives
\* (Node runs every ready continuation, timers fire, governed actions end).
\* Nothing forces a deadline, a crash, a new call or an observer.
FairSpec == Spec /\ \A p \in Pids : WF_vars(ReconcileStep(p) \/ GuardStep(p))

----------------------------------------------------------------------------
(* Properties *)

Labels == {"idle", "readHolder", "probeHolder", "readWaiters", "probeWaiter",
           "readHead", "probeHead", "acquire", "direct", "enqueue", "queued",
           "poll", "action", "release", "deleteHolder", "timedOut",
           "released", "done"}
Returns == {"none", "acquire", "queued", "poll", "release", "released", "done"}

Frame == [ret : Returns, row : HolderRow \cup WaiterRow \cup {NoRow},
          wasLive : BOOLEAN, kept : BOOLEAN, blocked : BOOLEAN,
          todo : SUBSET WaiterRow, tries : Nat, attempt : Nat,
          claim : Nat, timedOut : BOOLEAN]

\* Every variable keeps to the shape of the tables and locals it models.
TypeOK ==
    /\ alive \in [Pids -> BOOLEAN]
    /\ start \in [Pids -> Nat]
    /\ held \in HolderRow \cup {NoRow}
    /\ waiters \subseteq WaiterRow
    /\ nextId \in Nat
    /\ sessions \in Nat
    /\ pc \in [Threads -> Labels]
    /\ fr \in [Threads -> Frame]

\* No two processes are inside a governed action of the resource at once,
\* whatever dies, times out, throws or answers late (withResourceLease, used
\* to serialize Git publication per repository).
MutualExclusion ==
    \A p, q \in Pids : pc[p] = "action" /\ pc[q] = "action" => p = q

\* What makes exclusion hold after every step: a process in its action owns
\* the row, a thread about to delete a row has a row of its own call, and a
\* lease id names one grant for ever, so an old copy of a row is either still
\* the row or nothing.
ThreadInv(t) ==
    /\ pc[t] \in {"readHolder", "probeHolder", "readWaiters", "probeWaiter",
                  "readHead", "probeHead"} => fr[t].ret # "none"
    /\ pc[t] \in {"probeHolder", "deleteHolder"} =>
         /\ fr[t].row \in HolderRow
         /\ fr[t].row.lease < nextId
         /\ held # NoRow /\ held.lease = fr[t].row.lease => held = fr[t].row
    /\ pc[t] \in {"probeWaiter", "probeHead"} => fr[t].row \in WaiterRow
    /\ t \in Pids =>
         /\ pc[t] # "idle" => alive[t]
         /\ pc[t] = "action" => Mine(t, held)
         /\ pc[t] = "deleteHolder" => Mine(t, fr[t].row)

LeaseInv ==
    /\ held # NoRow => held.lease < nextId
    /\ \A t \in Threads : ThreadInv(t)

\* A lease row goes away only once its owner process is gone or by the
\* release of the call that holds it: no stale probe and no late deletion
\* takes the lease of a live owner (reapHolder, release, timeoutWait).
LiveLeaseKept ==
    [][held # NoRow /\ held' # held =>
         \/ ~Alive(held.owner)
         \/ LET p == held.owner.pid
            IN pc[p] = "deleteHolder" /\ held.claim = fr[p].claim]_vars

\* The store and its guards do no more than a first-come-first-served lease:
\* every transaction, probe and poll is a step of FifoLease or changes nothing
\* that it can see.  FifoLease has neither retries nor stale answers.
Fifo == INSTANCE FifoLease WITH
    Owners <- Identity,
    Claims <- Nat,
    NoHolder <- NoRow,
    live <- {Me(p) : p \in {q \in Pids : alive[q]}},
    holder <- IF held = NoRow THEN NoRow
              ELSE [owner |-> held.owner, claim |-> held.claim],
    queue <- waiters,
    acting <- {Me(p) : p \in {q \in Pids : pc[q] = "action"}},
    leaving <- {Me(p) : p \in {q \in Pids : pc[q] = "deleteHolder"}}

ImplementsFifo == Fifo!Spec

\* A call refused at its deadline leaves nothing behind: no waiter row that
\* could be granted later and no lease, even one granted while it gave up
\* (timeoutWait against a concurrent promote).
RefusalLeavesNothing ==
    \A p \in Pids : pc[p] = "done" /\ fr[p].timedOut =>
        ~Mine(p, held) /\ ~Queued(p)

Waiting(p) == pc[p] # "idle" /\ Acquiring(p)

\* A lease of a live process whose call has ended: nothing will release it
\* before that process dies.
Orphan == held # NoRow /\ Alive(held.owner) /\ fr[held.owner.pid].claim # held.claim

\* Every waiting call is granted, times out or dies, unless an orphan holds
\* the resource: holders that crash, waiters that crash in front of the queue
\* and lost races never leave the queue stuck (the poll loop of the guard).
WaitersServed == \A p \in Pids : Waiting(p) ~> ~Waiting(p) \/ Orphan

\* A lease is held until its release: once the release of a call is over, its
\* claim does not hold the resource again (docs/internals/api.md:187).
ReleaseIsFinal ==
    \A p \in Pids : pc[p] = "done" /\ ~fr[p].timedOut => ~Mine(p, held)
=============================================================================
