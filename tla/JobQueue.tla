------------------------------ MODULE JobQueue ------------------------------
(***************************************************************************)
(* The durable job queue of src/lib/cloud: SQLite rows for jobs and for    *)
(* the steer and abort controls sent to them, the lease a worker holds on  *)
(* the job it runs, and the drain that precedes an application restart.    *)
(* Cloud workers (scripts/worker) and the automation scheduler are its     *)
(* clients.  Every method of SqliteCloudJobStore is one immediate          *)
(* transaction, so one action here; what interleaves is the order of the   *)
(* calls, the answers that get lost and the leases that run out.  The rows *)
(* of one team are modelled, and client says whose they are: cloud workers *)
(* hold packets and get controls and drains, the scheduler's fires carry a *)
(* concurrency key and retry after a delay.                                *)
(*                                                                         *)
(* Time is abstracted to what the statements compare: a lease or delivery  *)
(* lease has run out or not, a delayed retry is due or not.  A lease token *)
(* is the claim it was made by, a delivery token the delivery.             *)
(***************************************************************************)
EXTENDS Integers, FiniteSets

CONSTANTS
  Requests,     \* the idempotency keys of enqueue calls; each names its job
  Controls,     \* the ids of controls; a follow-up job is keyed by one
  Workers,
  None,
  Packets,
  Clients,      \* which of {"worker", "scheduler"} the team may belong to
  PacketOf,     \* [Requests -> Packets \cup {None}], of a worker's launch
  KeyOf,        \* [Requests -> keys \cup {None}], the concurrency key of a fire
  LimitOf,      \* [Requests -> Nat \ {0}], its limit
  MaxLeased,    \* maxConcurrent of the scheduler's claims
  MaxAttempts,  \* max_attempts of a job
  MaxClaims,    \* [Requests -> Nat], bound of the model on claim_count
  MaxFollowed,  \* the same for follow-ups
  MaxDeliveries,\* bound of the model on delivery_count
  MaxInputs     \* bound of the model on the jobs and controls that are sent

ASSUME QueueAssumption ==
  /\ IsFiniteSet(Requests) /\ IsFiniteSet(Controls)
  /\ Requests \cap Controls = {}
  /\ None \notin Requests \cup Controls \cup Workers \cup Packets
  /\ PacketOf \in [Requests -> Packets \cup {None}]
  /\ DOMAIN KeyOf = Requests
  /\ LimitOf \in [Requests -> Nat \ {0}]
  /\ MaxLeased \in Nat /\ MaxAttempts \in Nat \ {0}
  /\ Clients \subseteq {"worker", "scheduler"}
  /\ MaxClaims \in [Requests -> Nat]
  /\ MaxFollowed \in Nat /\ MaxDeliveries \in Nat /\ MaxInputs \in Nat

VARIABLES
  job,    \* cloud_jobs
  ctl,    \* cloud_job_controls
  top,    \* MAX(cursor) over cloud_jobs
  drain,  \* whose boot id cloud_job_drain_state holds
  run,    \* per worker: the job it is executing, its token, a control it holds
  cur,    \* per worker: the cursor in worker-state.json
  client  \* whose rows these are

vars == <<job, ctl, top, drain, run, cur, client>>

Scheduled == client = "scheduler"

JobIds == Requests \cup Controls
Active == {"pending", "leased"}
Ended == {"completed", "parked", "cancelled"}
OpenStates == {"pending", "delivered"}

Job == [status : Active \cup Ended \cup {"absent"}, cursor : Nat,
        session : Requests \cup {None}, by : Workers \cup {None},
        expired : BOOLEAN, due : BOOLEAN, claims : Nat, recovered : BOOLEAN,
        tries : Nat]
Control == [status : OpenStates \cup {"applied", "follow_up", "superseded", "absent"},
            type : {"steer", "abort"}, job : JobIds \cup {None}, seq : Nat,
            deliveries : Nat, live : BOOLEAN, follow : JobIds \cup {None}]
Run == [job : JobIds \cup {None}, token : Nat, held : Controls \cup {None}, delivery : Nat]

NoJob == [status |-> "absent", cursor |-> 0, session |-> None, by |-> None,
          expired |-> FALSE, due |-> TRUE, claims |-> 0, recovered |-> FALSE, tries |-> 0]
NoControl == [status |-> "absent", type |-> "steer", job |-> None, seq |-> 0,
              deliveries |-> 0, live |-> FALSE, follow |-> None]
Idle == [job |-> None, token |-> 0, held |-> None, delivery |-> 0]

Init ==
  /\ job = [j \in JobIds |-> NoJob]
  /\ ctl = [c \in Controls |-> NoControl]
  /\ top = 0
  /\ drain = "none"
  /\ run = [w \in Workers |-> Idle]
  /\ cur = [w \in Workers |-> 0]
  /\ client \in Clients

-----------------------------------------------------------------------------
(* Rows.  J and C stand for the two tables at a point inside a transaction. *)

PendingRow(session, cursor) ==
  [NoJob EXCEPT !.status = "pending", !.session = session, !.cursor = cursor]

\* The lease columns are cleared and the row has its new status.
Unleased(row, status) == [row EXCEPT !.status = status, !.by = None, !.expired = FALSE]

\* Variant: only what was never handed out counts as open.
OpenOfPending(C, j, type) ==
  {c \in Controls : C[c].job = j /\ C[c].type = type /\ C[c].status = "pending"}

OpenOf(C, j, type) ==
  {c \in Controls : C[c].job = j /\ C[c].type = type /\ C[c].status \in OpenStates}

First(C, S) == CHOOSE c \in S : \A d \in S : C[c].seq <= C[d].seq

\* promoteSteerControls for the rows E that just ended: the open steers of a
\* row become one follow-up job, whose key is that of the first of them.
FollowUps(C, E) ==
  {First(C, OpenOf(C, j, "steer")) : j \in {e \in E : OpenOf(C, e, "steer") # {}}}

\* Rows are visited in cursor order and each insert takes MAX(cursor) + 1.
Rank(J, C, F, f) == Cardinality({g \in F : J[C[g].job].cursor <= J[C[f].job].cursor})

PromotedJobs(J, C, E) ==
  [j \in JobIds |->
     IF j \in FollowUps(C, E)
     THEN PendingRow(J[C[j].job].session, top + Rank(J, C, FollowUps(C, E), j))
     ELSE J[j]]

PromotedControls(C, E) ==
  [c \in Controls |->
     IF \E e \in E : c \in OpenOf(C, e, "steer")
     THEN [C[c] EXCEPT !.status = "follow_up", !.live = FALSE,
                       !.follow = First(C, OpenOf(C, C[c].job, "steer"))]
     ELSE C[c]]

\* Write the tables J and C with the steers of the ended rows E promoted.
Promote(J, C, E) ==
  /\ job' = PromotedJobs(J, C, E)
  /\ ctl' = PromotedControls(C, E)
  /\ top' = top + Cardinality(FollowUps(C, E))

\* recoverLeaseWithin for the rows X: an open abort ends the job, without one
\* it goes back to the queue.
AbortedIn(X) == {j \in X : OpenOf(ctl, j, "abort") # {}}
\* Variant: a row with an open abort goes back to the queue as well.
RequeuedJobs(X) ==
  [j \in JobIds |->
     IF j \in X THEN [Unleased(job[j], "pending") EXCEPT !.recovered = TRUE, !.due = TRUE]
     ELSE job[j]]

RecoveredJobs(X) ==
  [j \in JobIds |->
     IF j \in AbortedIn(X) THEN [Unleased(job[j], "cancelled") EXCEPT !.recovered = TRUE]
     ELSE IF j \in X THEN [Unleased(job[j], "pending") EXCEPT !.recovered = TRUE, !.due = TRUE]
     ELSE job[j]]
RecoveredControls(X) ==
  [c \in Controls |->
     IF \E j \in AbortedIn(X) : c = First(ctl, OpenOf(ctl, j, "abort"))
     THEN [ctl[c] EXCEPT !.status = "applied", !.live = FALSE]
     ELSE ctl[c]]

Overdue == {j \in JobIds : job[j].status = "leased" /\ job[j].expired}

-----------------------------------------------------------------------------
(* The claim of the next job: a worker's poll, or the scheduler's.          *)

\* A follow-up is inserted without the concurrency columns of its parent.
JobKey(j) == IF Scheduled /\ j \in Requests THEN KeyOf[j] ELSE None

LeasedIn(J) == {j \in JobIds : J[j].status = "leased"}
Sharing(J, j) == {i \in LeasedIn(J) : JobKey(i) = JobKey(j)}

\* Variant: the limits of the rows that hold the key are not looked at.
KeyFreeByOwnLimit(J, j) ==
  JobKey(j) # None => Cardinality(Sharing(J, j)) < LimitOf[j]

KeyFree(J, j) ==
  JobKey(j) # None =>
    \A i \in Sharing(J, j) \cup {j} : Cardinality(Sharing(J, j)) < LimitOf[i]

Claimable(J, w) ==
  {j \in JobIds :
     /\ Scheduled => Cardinality(LeasedIn(J)) < MaxLeased
     /\ J[j].status = "pending"
     /\ J[j].due
     /\ J[j].cursor >= cur[w] \/ J[j].recovered
     /\ KeyFree(J, j)
     /\ J[j].claims < IF j \in Requests THEN MaxClaims[j] ELSE MaxFollowed}

Leased(row, w) == [row EXCEPT !.status = "leased", !.by = w, !.expired = FALSE,
                              !.claims = @ + 1]

\* The tables after the leases that ran out have been recovered.
SweptJobs == PromotedJobs(RecoveredJobs(Overdue), RecoveredControls(Overdue), AbortedIn(Overdue))

\* A poll while this boot drains answers nothing and changes nothing; any
\* other poll forgets the drain of an earlier boot and sweeps.
PollNothing(w) ==
  /\ run[w] = Idle /\ drain # "this"
  /\ Claimable(SweptJobs, w) = {}
  /\ Promote(RecoveredJobs(Overdue), RecoveredControls(Overdue), AbortedIn(Overdue))
  /\ drain' = "none"
  /\ UNCHANGED <<run, cur, client>>

\* A claimable row is leased.  The worker may never see the answer (heard is
\* FALSE): then it has no run and has not saved the cursor.  The scheduler
\* always asks from cursor 0.
ClaimRow(w, j, heard) ==
  /\ run[w] = Idle /\ drain # "this"
  /\ j \in Claimable(SweptJobs, w)
  /\ job' = [SweptJobs EXCEPT ![j] = Leased(@, w)]
  /\ ctl' = PromotedControls(RecoveredControls(Overdue), AbortedIn(Overdue))
  /\ top' = top + Cardinality(FollowUps(RecoveredControls(Overdue), AbortedIn(Overdue)))
  /\ drain' = "none"
  /\ run' = IF heard
            THEN [run EXCEPT ![w] = [Idle EXCEPT !.job = j, !.token = SweptJobs[j].claims + 1]]
            ELSE run
  /\ cur' = IF heard /\ ~Scheduled /\ SweptJobs[j].cursor > cur[w]
            THEN [cur EXCEPT ![w] = SweptJobs[j].cursor] ELSE cur
  /\ UNCHANGED client

\* The oldest one; the manual route of an automation names the row it wants.
PollJob(w, j, heard) ==
  /\ ClaimRow(w, j, heard)
  /\ \A i \in Claimable(SweptJobs, w) : SweptJobs[j].cursor <= SweptJobs[i].cursor
PollNamed(w, j, heard) == Scheduled /\ ClaimRow(w, j, heard)

\* recoverExpiredLeases called on its own.
Sweep ==
  /\ Overdue # {}
  /\ Promote(RecoveredJobs(Overdue), RecoveredControls(Overdue), AbortedIn(Overdue))
  /\ UNCHANGED <<drain, run, cur, client>>

-----------------------------------------------------------------------------
(* What a worker reports about the job it runs.  A heartbeat or a chunk that *)
(* is accepted only moves lease_expires_at, which is no change here.         *)

\* Variant: any worker that once ran a leased row may report on it.
HoldsLeased(w) == run[w] # Idle /\ job[run[w].job].status = "leased"

\* The token and the worker id of the request are those of the row.
Holds(w) ==
  LET j == run[w].job IN
  /\ run[w] # Idle
  /\ job[j].status = "leased" /\ job[j].claims = run[w].token /\ job[j].by = w

Accepted(w) == Holds(w) /\ ~job[run[w].job].expired

\* Once the worker has seen an abort it sends nothing but the receipt.
Stopping(w) == run[w].held # None /\ ctl[run[w].held].type = "abort"

Complete(w) ==
  LET j == run[w].job IN
  /\ Accepted(w) /\ ~Stopping(w)
  /\ Promote([job EXCEPT ![j] = Unleased(@, "completed")], ctl, {j})
  /\ run' = [run EXCEPT ![w] = Idle]
  /\ UNCHANGED <<drain, cur, client>>

\* Variant: one failure more than the budget.
ParkedLate(j, terminal) == terminal \/ job[j].tries + 1 > MaxAttempts

Parked(j, terminal) == terminal \/ job[j].tries + 1 >= MaxAttempts

\* An errored event.  The scheduler may call a failure terminal, and has its
\* retries wait; the worker's route does neither.
Fail(w, terminal) ==
  LET j == run[w].job
      parked == Parked(j, terminal)
      row == [Unleased(job[j], IF parked THEN "parked" ELSE "pending")
                EXCEPT !.tries = @ + 1, !.due = parked \/ ~Scheduled] IN
  /\ Accepted(w) /\ ~Stopping(w)
  /\ terminal => Scheduled
  /\ Promote([job EXCEPT ![j] = row], ctl, IF parked THEN {j} ELSE {})
  /\ run' = [run EXCEPT ![w] = Idle]
  /\ UNCHANGED <<drain, cur, client>>

\* A request whose lease is gone: refused, and if it is the current one that
\* ran out, the row is recovered first.  The worker stops its process.
Refused(w) ==
  LET X == IF Holds(w) THEN {run[w].job} ELSE {} IN
  /\ run[w] # Idle /\ ~Accepted(w)
  /\ Promote(RecoveredJobs(X), RecoveredControls(X), AbortedIn(X))
  /\ run' = [run EXCEPT ![w] = Idle]
  /\ UNCHANGED <<drain, cur, client>>

\* The worker process dies, is shut down, or its last post is lost.
Stop(w) ==
  /\ run[w] # Idle
  /\ run' = [run EXCEPT ![w] = Idle]
  /\ UNCHANGED <<job, ctl, top, drain, cur, client>>

\* The control that is next for job j: aborts first, then by sequence.
NextFor(j) ==
  IF OpenOf(ctl, j, "abort") # {} THEN First(ctl, OpenOf(ctl, j, "abort"))
  ELSE First(ctl, OpenOf(ctl, j, "steer"))

\* claimControl.  A delivered abort is never handed out again, a delivered
\* steer once its delivery lease is over.  The answer may be lost.
PollControl(w, heard) ==
  LET j == run[w].job
      c == NextFor(j) IN
  /\ Accepted(w) /\ ~Stopping(w)
  /\ OpenOf(ctl, j, "abort") \cup OpenOf(ctl, j, "steer") # {}
  /\ ctl[c].status = "delivered" => ctl[c].type = "steer" /\ ~ctl[c].live
  /\ ctl[c].deliveries < MaxDeliveries
  /\ ctl' = [ctl EXCEPT ![c].status = "delivered", ![c].deliveries = @ + 1, ![c].live = TRUE]
  /\ run' = IF heard
            THEN [run EXCEPT ![w].held = c, ![w].delivery = ctl[c].deliveries + 1]
            ELSE run
  /\ UNCHANGED <<job, top, drain, cur, client>>

DeliveryCurrent(w) ==
  LET c == run[w].held IN
  c # None /\ ctl[c].status = "delivered" /\ ctl[c].deliveries = run[w].delivery

\* acknowledgeControl of a steer, and of the abort that ends the job.
AcknowledgeSteer(w) ==
  LET c == run[w].held IN
  /\ Accepted(w) /\ ~Stopping(w) /\ DeliveryCurrent(w)
  /\ ctl' = [ctl EXCEPT ![c].status = "applied", ![c].live = FALSE]
  /\ run' = [run EXCEPT ![w].held = None, ![w].delivery = 0]
  /\ UNCHANGED <<job, top, drain, cur, client>>

AcknowledgeAbort(w) ==
  LET j == run[w].job
      c == run[w].held IN
  /\ Accepted(w) /\ Stopping(w) /\ DeliveryCurrent(w)
  /\ Promote([job EXCEPT ![j] = Unleased(@, "cancelled")],
             [ctl EXCEPT ![c].status = "applied", ![c].live = FALSE], {j})
  /\ run' = [run EXCEPT ![w] = Idle]
  /\ UNCHANGED <<drain, cur, client>>

-----------------------------------------------------------------------------
(* The coordinator's side: launches, controls, cancellation, drain.         *)

PacketFor(k) == IF Scheduled THEN None ELSE PacketOf[k]
Packet(j) == IF job[j].session = None THEN None ELSE PacketFor(job[j].session)

\* Variant: a row that waits does not hold its packet.
PacketLeased(p) == p # None /\ \E j \in JobIds : job[j].status = "leased" /\ Packet(j) = p

\* The unique index on the packet of active rows.
PacketTaken(p) == p # None /\ \E j \in JobIds : job[j].status \in Active /\ Packet(j) = p

\* The bound on what callers send.
Room ==
  Cardinality({k \in Requests : job[k].status # "absent"}
              \cup {c \in Controls : ctl[c].status # "absent"}) < MaxInputs

\* A repeated key answers with the existing row, a taken packet throws.
Enqueue(k) ==
  /\ job[k].status = "absent" /\ Room /\ ~PacketTaken(PacketFor(k))
  /\ job' = [job EXCEPT ![k] = PendingRow(k, top + 1)]
  /\ top' = top + 1
  /\ UNCHANGED <<ctl, drain, run, cur, client>>

Newest(s) ==
  CHOOSE j \in JobIds : /\ job[j].session = s
                        /\ \A i \in JobIds : job[i].session = s => job[i].cursor <= job[j].cursor

NextSeq(j) == 1 + Cardinality({c \in Controls : ctl[c].job = j})

WithControl(c, type, j, status) ==
  [ctl EXCEPT ![c] = [NoControl EXCEPT !.status = status, !.type = type, !.job = j,
                                       !.seq = NextSeq(j)]]

\* queueControl on the newest row of the session.  On an ended row a steer
\* becomes a follow-up at once, unless its packet has another active row (the
\* index throws and the transaction leaves nothing), and an abort is moot.  An
\* abort of a row nobody runs cancels it here.
QueueSteer(c, s) ==
  LET j == Newest(s)
      ended == job[j].status \in Ended IN
  /\ ~Scheduled
  /\ job[s].status # "absent" /\ ctl[c].status = "absent" /\ Room
  /\ ended => ~PacketTaken(PacketFor(s))
  /\ Promote(job, WithControl(c, "steer", j, "pending"), IF ended THEN {j} ELSE {})
  /\ UNCHANGED <<drain, run, cur, client>>

QueueAbort(c, s) ==
  LET j == Newest(s)
      idle == job[j].status = "pending"
      status == IF idle THEN "applied"
                ELSE IF job[j].status = "leased" THEN "pending" ELSE "superseded" IN
  /\ ~Scheduled
  /\ job[s].status # "absent" /\ ctl[c].status = "absent" /\ Room
  /\ Promote(IF idle THEN [job EXCEPT ![j] = Unleased(@, "cancelled")] ELSE job,
             WithControl(c, "abort", j, status), IF idle THEN {j} ELSE {})
  /\ UNCHANGED <<drain, run, cur, client>>

\* Variant: whatever the status of the row.
CancelAny(j) ==
  /\ job[j].status # "absent"
  /\ Promote([job EXCEPT ![j] = Unleased(@, "cancelled")], ctl, {j})
  /\ UNCHANGED <<drain, run, cur, client>>

\* Disabling an automation cancels what waits only.
Cancel(j) ==
  /\ job[j].status \in IF Scheduled THEN {"pending"} ELSE Active
  /\ Promote([job EXCEPT ![j] = Unleased(@, "cancelled")], ctl, {j})
  /\ UNCHANGED <<drain, run, cur, client>>

BeginDrain ==
  /\ ~Scheduled
  /\ drain' = "this"
  /\ UNCHANGED <<job, ctl, top, run, cur, client>>

\* finishDrain hands every lease back before the application restarts.
FinishDrain ==
  /\ ~Scheduled
  /\ drain' = "this"
  /\ job' = [j \in JobIds |->
               IF job[j].status = "leased" THEN Unleased(job[j], "pending") ELSE job[j]]
  /\ UNCHANGED <<ctl, top, run, cur, client>>

\* The application starts again, with a new boot id.
Restart ==
  /\ drain = "this"
  /\ drain' = "earlier"
  /\ UNCHANGED <<job, ctl, top, run, cur, client>>

-----------------------------------------------------------------------------
(* Time.                                                                    *)

LeaseRunsOut(j) ==
  /\ job[j].status = "leased" /\ ~job[j].expired
  /\ job' = [job EXCEPT ![j].expired = TRUE]
  /\ UNCHANGED <<ctl, top, drain, run, cur, client>>

DeliveryRunsOut(c) ==
  /\ ctl[c].status = "delivered" /\ ctl[c].live
  /\ ctl' = [ctl EXCEPT ![c].live = FALSE]
  /\ UNCHANGED <<job, top, drain, run, cur, client>>

RetryIsDue(j) ==
  /\ job[j].status = "pending" /\ ~job[j].due
  /\ job' = [job EXCEPT ![j].due = TRUE]
  /\ UNCHANGED <<ctl, top, drain, run, cur, client>>

\* The end of a run, whatever the end.
EndRun(w) ==
  \/ Complete(w) \/ Refused(w) \/ Stop(w) \/ AcknowledgeAbort(w)
  \/ \E terminal \in BOOLEAN : Fail(w, terminal)

Poll(w) == \/ PollNothing(w)
           \/ \E j \in JobIds, heard \in BOOLEAN :
             PollJob(w, j, heard) \/ PollNamed(w, j, heard)

Next ==
  \/ \E w \in Workers : \/ Poll(w) \/ EndRun(w) \/ AcknowledgeSteer(w)
                        \/ \E heard \in BOOLEAN : PollControl(w, heard)
  \/ \E k \in Requests : Enqueue(k)
  \/ \E c \in Controls, s \in Requests : QueueSteer(c, s) \/ QueueAbort(c, s)
  \/ \E j \in JobIds : Cancel(j) \/ LeaseRunsOut(j) \/ RetryIsDue(j)
  \/ \E c \in Controls : DeliveryRunsOut(c)
  \/ Sweep \/ BeginDrain \/ FinishDrain \/ Restart

Spec == Init /\ [][Next]_vars

-----------------------------------------------------------------------------
(* Properties.                                                              *)

\* The rows of the two tables, and what the workers remember, are well formed.
TypeOK ==
  /\ job \in [JobIds -> Job]
  /\ ctl \in [Controls -> Control]
  /\ top \in Nat
  /\ drain \in {"none", "this", "earlier"}
  /\ run \in [Workers -> Run]
  /\ cur \in [Workers -> Nat]
  /\ client \in Clients

\* A session has one active row at most, and it is the newest of the session;
\* a packet has one at most.  No guard of a completion, a cancellation or a
\* recovery says so, yet each may insert a follow-up: were it false, the unique
\* indexes would throw and roll back the report of a finished job.
Serial ==
  /\ \A i, j \in JobIds :
       i # j /\ job[i].status \in Active /\ job[j].session = job[i].session
         => job[j].status \notin Active /\ job[j].cursor < job[i].cursor
  /\ \A i, j \in JobIds :
       i # j /\ job[i].status \in Active /\ job[j].status \in Active
         => Packet(i) = None \/ Packet(i) # Packet(j)

\* A steer the operator was told is persisted is not lost: while it is open its
\* job is active, and once it is a follow-up that follow-up is a later row of
\* the same session, under the key of a steer of the same ended job.
SteerKept ==
  \A c \in Controls : ctl[c].type = "steer" =>
    /\ ctl[c].status \in OpenStates => job[ctl[c].job].status \in Active
    /\ ctl[c].status = "follow_up" =>
         LET f == ctl[c].follow IN
         /\ job[f].status # "absent" /\ job[f].session = job[ctl[c].job].session
         /\ job[f].cursor > job[ctl[c].job].cursor
         /\ job[ctl[c].job].status \in Ended
         /\ ctl[f].job = ctl[c].job /\ ctl[f].status = "follow_up"

\* An abort that counts as applied has cancelled its job, whichever of the
\* receipt, the recovery of the lease or the queue itself applied it.
AbortCancels ==
  \A c \in Controls : ctl[c].type = "abort" =>
    /\ ctl[c].status = "applied" => job[ctl[c].job].status = "cancelled"
    /\ ctl[c].status = "superseded" => job[ctl[c].job].status \in Ended

\* The lease of a row is in the hands of one worker at most: after crashes,
\* lost answers, recoveries and drains no two runs carry a token that the
\* store would accept, and no run carries one of a later claim.
OneHolder ==
  /\ \A v, w \in Workers : Holds(v) /\ Holds(w) /\ run[v].job = run[w].job => v = w
  /\ \A w \in Workers : run[w] # Idle => run[w].token <= job[run[w].job].claims

\* What has settled stays settled: no late report, stale receipt or recovery
\* reopens a row that ended or a control that was applied or became a follow-up.
Settled ==
  [][/\ \A j \in JobIds : job[j].status \in Ended => job'[j] = job[j]
     /\ \A c \in Controls :
          ctl[c].status \notin OpenStates \cup {"absent"} => ctl'[c] = ctl[c]]_vars

\* Leases respect the cap and, for each concurrency key, the smallest limit
\* among the rows that hold it, whatever the order the claims came in.
Limits ==
  /\ Scheduled => Cardinality(LeasedIn(job)) <= MaxLeased
  /\ \A i, j \in LeasedIn(job) :
       JobKey(i) # None /\ JobKey(i) = JobKey(j) => Cardinality(Sharing(job, i)) <= LimitOf[j]

\* Recoveries and drains do not spend the budget of failures, and a row is
\* parked when it is spent, or by a failure that is terminal.
Budget ==
  \A j \in JobIds :
    /\ job[j].status \in Active => job[j].tries < MaxAttempts
    /\ job[j].status = "parked" => job[j].tries = MaxAttempts \/ (Scheduled /\ job[j].tries > 0)
    /\ job[j].tries <= job[j].claims

=============================================================================
