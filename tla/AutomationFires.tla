-------------------------- MODULE AutomationFires --------------------------
(***************************************************************************)
(* One automation of src/lib/automations: the slots of its schedule that   *)
(* the scheduler's tick turns into fires, the fires an operator asks for,  *)
(* and the runs that claim a fire, run its precheck and launch its agent.  *)
(* A fire is a row of the durable job queue: it is inserted and deleted in *)
(* one transaction with its job, so the fire exists iff the job does, and  *)
(* claims, leases, retries and settlements are the steps of JobQueue.      *)
(*                                                                         *)
(* The scheduler runs in one process and the routes of the user interface  *)
(* in another; each statement or transaction is a step.  A worker here is  *)
(* one execution of runClaimedAutomationFire.  Time is counted in slots.   *)
(* Fires of watches, which have no schedule, are left out.                 *)
(***************************************************************************)
EXTENDS Integers, FiniteSets

CONSTANTS
  MaxTime,      \* bound of the model: the last slot there can be
  Calls,        \* the client mutation ids of the calls to run it now
  Workers,
  Schedules,    \* the schedules it may be given, as sets of slots
  Policies,     \* the catch-up policies it may be created with
  MaxAllSlots,  \* the slots one tick fires under the policy "all"
  RepoLimit,    \* repo_concurrency_limit
  Guarded,      \* whether it may have a precheck command: a set of BOOLEANs
  MaxLeased, MaxAttempts, MaxClaims,  \* as in JobQueue
  MaxEvents,    \* bound of the model on calls, claims, stops and lost leases
  None

Slots == 1..MaxTime
Slot(s) == <<"slot", s>>
Manual(c) == <<"manual", c>>
Fires == {Slot(s) : s \in Slots} \cup {Manual(c) : c \in Calls}

ASSUME FiresAssumption ==
  /\ MaxTime \in Nat \ {0} /\ IsFiniteSet(Calls)
  /\ None \notin Fires \cup Workers \cup Nat
  /\ {} \notin Schedules /\ Schedules \subseteq SUBSET Slots
  /\ Policies \subseteq {"latest", "all", "skip"}
  /\ {MaxAllSlots, RepoLimit, MaxAttempts} \subseteq Nat \ {0}
  /\ Guarded \subseteq BOOLEAN
  /\ {MaxLeased, MaxClaims, MaxEvents} \subseteq Nat

VARIABLES
  now,
  auto,  \* the row of automations
  fire,  \* per fire: the columns of automation_fires that are not the job's
  thr,   \* per worker: how far the execution of its fire is
  past,  \* per fire: what its executions did, whether or not it was recorded
  events, \* how many of those there were
  missed,\* the slots given up by a call to run now, or by an edit of the schedule
  job, top, run  \* the queue

vars == <<now, auto, fire, thr, past, events, missed, job, top, run>>

Q == INSTANCE JobQueue WITH
       Requests <- Fires, Controls <- {}, Packets <- {}, Clients <- {"scheduler"},
       PacketOf <- [k \in Fires |-> None], KeyOf <- [k \in Fires |-> "repo"],
       LimitOf <- [k \in Fires |-> RepoLimit], MaxClaims <- [k \in Fires |-> MaxClaims],
       MaxFollowed <- 0, MaxDeliveries <- 0, MaxInputs <- Cardinality(Fires),
       ctl <- [c \in {} |-> None], drain <- "none", cur <- [w \in Workers |-> 0],
       client <- "scheduler"

Prechecks == {"none", "pending", "running", "passed", "skipped", "error", "bypassed"}
Automation == [exists : BOOLEAN, enabled : BOOLEAN, slots : Schedules \cup {{}},
               next : Slots \cup {None}, policy : Policies, precheck : Guarded]
Stages == {"idle", "precheck", "launch", "launched", "failed", "skip", "error"}
Execution == [at : Stages, slots : Schedules \cup {{}}, next : Slots \cup {None},
              claimed : 0..MaxTime]
Past == [checks : Nat, passed : BOOLEAN, lanes : Nat, lost : BOOLEAN]

NoFire == [precheck |-> "none", born |-> 0]
NoPast == [checks |-> 0, passed |-> FALSE, lanes |-> 0, lost |-> FALSE]
NotRunning == [at |-> "idle", slots |-> {}, next |-> None, claimed |-> 0]

-----------------------------------------------------------------------------
(* The schedule.                                                            *)

Least(S) == CHOOSE s \in S : \A r \in S : s <= r
Greatest(S) == CHOOSE s \in S : \A r \in S : r <= s
Before(S, s) == {r \in S : r < s}

computeNextRunAt(slots, t) ==
  LET later == slots \ 0..t IN IF later = {} THEN None ELSE Least(later)

computePreviousRunAt(slots, t) ==
  LET past_ == slots \cap 0..t IN IF past_ = {} THEN None ELSE Greatest(past_)

Event == events < MaxEvents /\ events' = events + 1

Exists(k) == job[k].status # "absent"

\* Created with a schedule, or to be run by hand only.
Init ==
  /\ now = 0
  /\ \E slots \in Schedules \cup {{}}, policy \in Policies, precheck \in Guarded :
       auto = [exists |-> TRUE, enabled |-> TRUE, slots |-> slots,
               next |-> computeNextRunAt(slots, 0), policy |-> policy, precheck |-> precheck]
  /\ fire = [k \in Fires |-> NoFire]
  /\ thr = [w \in Workers |-> NotRunning]
  /\ past = [k \in Fires |-> NoPast]
  /\ events = 0
  /\ missed = {}
  /\ job = [k \in Fires |-> Q!NoJob]
  /\ top = 0
  /\ run = [w \in Workers |-> Q!Idle]

\* dueSlots: the slots that get a fire now.  next_run_at need not be a slot of
\* the schedule (a settlement may have put an older one back).
DueSlots ==
  LET latest == computePreviousRunAt(auto.slots, now)
      due == {auto.next} \cup {s \in auto.slots : auto.next < s /\ s <= now} IN
  CASE auto.policy = "skip" -> {}
    [] auto.policy = "latest" -> {IF latest # None /\ latest >= auto.next THEN latest
                                  ELSE auto.next}
    [] auto.policy = "all" -> {s \in due : Cardinality(Before(due, s)) < MaxAllSlots}

NextAfterDue ==
  computeNextRunAt(auto.slots, IF auto.policy = "all" THEN Greatest(DueSlots) ELSE now)

\* The tick's transaction.  A slot that has a fire gets no second one.
Materialize ==
  LET new == {s \in DueSlots : ~Exists(Slot(s))}
      ids == {Slot(s) : s \in new} IN
  /\ auto.exists /\ auto.enabled /\ auto.slots # {}
  /\ auto.next # None /\ auto.next <= now
  /\ job' = [k \in Fires |->
               IF k \in ids THEN Q!PendingRow(k, top + 1 + Cardinality(Before(new, k[2])))
               ELSE job[k]]
  /\ top' = top + Cardinality(new)
  /\ fire' = [k \in Fires |->
                IF k \in ids
                THEN [NoFire EXCEPT !.precheck = IF auto.precheck THEN "pending" ELSE "none"]
                ELSE fire[k]]
  /\ auto' = [auto EXCEPT !.next = NextAfterDue]
  /\ UNCHANGED <<now, thr, past, events, missed, run>>

\* A call to run it now persists its fire; the same call again finds it there.
RunNow(c, bypass) ==
  /\ auto.exists /\ auto.enabled /\ Event
  /\ Q!Enqueue(Manual(c))
  /\ fire' = [fire EXCEPT ![Manual(c)] =
       [precheck |-> IF bypass THEN "bypassed" ELSE IF auto.precheck THEN "pending" ELSE "none",
        born |-> now]]
  /\ UNCHANGED <<now, auto, thr, past, missed>>

-----------------------------------------------------------------------------
(* Execution of a fire.                                                     *)

\* Variant: a precheck that was begun and not recorded is run again.
DecisionRerun(status) ==
  CASE status \in {"none", "bypassed", "passed"} -> "launch"
    [] status = "skipped" -> "skip"
    [] status = "error" -> "error"
    [] status \in {"pending", "running"} -> "precheck"

\* ensureAutomationPrecheck on the status the claim read: one that is running
\* belongs to an execution that is gone, and fails closed.
Decision(status) ==
  CASE status \in {"none", "bypassed", "passed"} -> "launch"
    [] status = "skipped" -> "skip"
    [] status \in {"error", "running"} -> "error"
    [] status = "pending" -> "precheck"

\* What follows a claim in the same synchronous stretch: the automation is read
\* and the precheck judged or begun.  A process that stops after the claim
\* (heard is FALSE) does none of it.
Begin(w, k, claimed, heard) ==
  LET decision == Decision(fire[k].precheck) IN
  /\ IF heard
     THEN /\ thr' = [thr EXCEPT ![w] = [at |-> decision, slots |-> auto.slots,
                                        next |-> auto.next,
                                        claimed |-> claimed]]
          /\ fire' = [fire EXCEPT ![k].precheck =
                        IF decision = "precheck" THEN "running"
                        ELSE IF @ = "running" THEN "error" ELSE @]
          /\ past' = [past EXCEPT ![k].checks = @ + (IF decision = "precheck" THEN 1 ELSE 0)]
     ELSE UNCHANGED <<thr, fire, past>>
  /\ Event
  /\ UNCHANGED <<now, auto, missed>>

\* The scheduler claims the oldest fire, with the time its tick began; that is
\* used only for the fire of a call.  The route claims the fire of its own call.
ClaimNext(w, k, heard) ==
  \E claimed \in IF k[1] = "manual" THEN fire[k].born..now ELSE {0} :
    Q!PollJob(w, k, heard) /\ Begin(w, k, claimed, heard)

ClaimCall(w, c, heard) ==
  /\ auto.exists /\ auto.enabled
  /\ Q!PollNamed(w, Manual(c), heard) /\ Begin(w, Manual(c), now, heard)

\* The command ends and its result is recorded, unless another execution has
\* recorded one.  This execution goes on by its own result.
PrecheckEnds(w, answer) ==
  LET k == run[w].job IN
  /\ thr[w].at = "precheck"
  /\ fire' = [fire EXCEPT ![k].precheck = IF @ = "running" THEN answer ELSE @]
  /\ thr' = [thr EXCEPT ![w].at =
               CASE answer = "passed" -> "launch"
                 [] answer = "skipped" -> "skip"
                 [] answer = "error" -> "error"]
  /\ past' = [past EXCEPT ![k].passed = answer = "passed"]
  /\ UNCHANGED <<now, auto, events, missed, job, top, run>>

\* runAutomation opens a lane, then binds a worktree and launches the agent; or
\* it fails before there is a lane.
Launch(w, opened) ==
  /\ thr[w].at = "launch"
  /\ thr' = [thr EXCEPT ![w].at = IF opened THEN "launched" ELSE "failed"]
  /\ past' = [past EXCEPT ![run[w].job].lanes = @ + (IF opened THEN 1 ELSE 0)]
  /\ UNCHANGED <<now, auto, fire, events, missed, job, top, run>>

\* Variants: next_run_at is computed again after every fire of a schedule; a
\* failure is retried although a lane was opened.
NextAfterAny(w) ==
  IF thr[w].slots # {} THEN computeNextRunAt(thr[w].slots, now) ELSE thr[w].next

TerminalErrorOnly(w, threw) == thr[w].at = "error"

\* What the statement after the settlement writes: the value read when the
\* execution began, or for a call the slot after the claim.
NextWritten(w) ==
  IF run[w].job[1] = "manual" /\ thr[w].slots # {}
  THEN computeNextRunAt(thr[w].slots, thr[w].claimed)
  ELSE thr[w].next

\* The slots that write gives up: a call takes the place of those due when it
\* was claimed, and a schedule edited since the execution began loses those
\* before the value that is put back.
GivenUp(w) ==
  (IF run[w].job[1] = "manual" /\ thr[w].slots # {} THEN Slots \cap 0..thr[w].claimed ELSE {})
    \cup (IF auto.slots # thr[w].slots
          THEN {s \in Slots : NextWritten(w) = None \/ s < NextWritten(w)} ELSE {})

\* A failure is retried unless the precheck failed or a lane is known.
Terminal(w, threw) == thr[w].at = "error" \/ (thr[w].at = "launched" /\ ~threw)

\* settleAutomationFire accepted by the queue: what was launched succeeded, or
\* failed and the lane is reported, or threw and it is not (lost).  The process
\* may stop before the automation is written (written is FALSE).
Settle(w, ok, threw, written) ==
  /\ ok => thr[w].at \in {"launched", "skip"} /\ ~threw /\ Q!Complete(w)
  /\ ~ok => thr[w].at \in {"launched", "failed", "error"} /\ Q!Fail(w, Terminal(w, threw))
  /\ threw => thr[w].at = "launched"
  /\ thr' = [thr EXCEPT ![w] = NotRunning]
  /\ past' = [past EXCEPT ![run[w].job].lost = @ \/ threw]
  /\ auto' = IF written THEN [auto EXCEPT !.next = NextWritten(w)] ELSE auto
  /\ missed' = IF written THEN missed \cup GivenUp(w) ELSE missed
  /\ UNCHANGED <<now, fire, events>>

\* The lease was lost, or the fire is deleted: nothing more is written.
SettleRefused(w) ==
  /\ thr[w].at \in {"launched", "failed", "skip", "error"}
  /\ Q!Refused(w)
  /\ thr' = [thr EXCEPT ![w] = NotRunning]
  /\ UNCHANGED <<now, auto, fire, past, events, missed>>

\* The process stops.
Crash(w) ==
  /\ Q!Stop(w) /\ Event
  /\ thr' = [thr EXCEPT ![w] = NotRunning]
  /\ UNCHANGED <<now, auto, fire, past, missed>>

-----------------------------------------------------------------------------
(* The operator, and time.                                                  *)

Edited == auto.exists /\ Event

\* PATCH of the trigger: next_run_at is computed from now.  No schedule stands
\* for the trigger kind manual.
EditSchedule(slots) ==
  /\ Edited
  /\ auto' = [auto EXCEPT !.slots = slots, !.next = computeNextRunAt(slots, now)]
  /\ missed' = missed \cup (Slots \cap 0..now)
  /\ UNCHANGED <<now, fire, thr, past, job, top, run>>

\* PATCH of enabled.  Disabling also cancels the fires that wait, in a second
\* transaction that a stop of the process may prevent.
Enable ==
  /\ Edited /\ ~auto.enabled
  /\ auto' = [auto EXCEPT !.enabled = TRUE]
  /\ UNCHANGED <<now, fire, thr, past, missed, job, top, run>>

Disable(cancelled) ==
  /\ Edited
  /\ auto' = [auto EXCEPT !.enabled = FALSE]
  /\ job' = [k \in Fires |->
               IF cancelled /\ job[k].status = "pending"
               THEN Q!Unleased(job[k], "cancelled") ELSE job[k]]
  /\ UNCHANGED <<now, fire, thr, past, missed, top, run>>

\* Variant: the rows of the fires stay.
DeleteJobs ==
  /\ Edited
  /\ auto' = [auto EXCEPT !.exists = FALSE]
  /\ job' = [k \in Fires |-> Q!NoJob]
  /\ UNCHANGED <<now, fire, thr, past, missed, top, run>>

\* DELETE takes the fires with it, and a trigger takes their jobs.
Delete ==
  /\ Edited
  /\ auto' = [auto EXCEPT !.exists = FALSE]
  /\ fire' = [k \in Fires |-> NoFire]
  /\ job' = [k \in Fires |-> Q!NoJob]
  /\ past' = [k \in Fires |-> NoPast]
  /\ UNCHANGED <<now, thr, missed, top, run>>

Advance ==
  /\ now < MaxTime /\ auto.exists
  /\ now' = now + 1
  /\ UNCHANGED <<auto, fire, thr, past, events, missed, job, top, run>>

LeaseEnds(k) == Q!LeaseRunsOut(k) /\ Event /\ UNCHANGED <<now, auto, fire, thr, past, missed>>
RetryDue(k) == Q!RetryIsDue(k) /\ UNCHANGED <<now, auto, fire, thr, past, events, missed>>

\* A claim that finds nothing to claim takes the overdue leases back.
Recover == Q!Sweep /\ UNCHANGED <<now, auto, fire, thr, past, events, missed>>

Next ==
  \/ Materialize \/ Enable \/ Delete \/ Advance \/ Recover
  \/ \E c \in Calls, bypass \in BOOLEAN : RunNow(c, bypass)
  \/ \E slots \in Schedules \cup {{}} : EditSchedule(slots)
  \/ \E cancelled \in BOOLEAN : Disable(cancelled)
  \/ \E k \in Fires : LeaseEnds(k) \/ RetryDue(k)
  \/ \E w \in Workers :
       \/ \E k \in Fires, heard \in BOOLEAN : Exists(k) /\ ClaimNext(w, k, heard)
       \/ \E c \in Calls, heard \in BOOLEAN : ClaimCall(w, c, heard)
       \/ \E answer \in {"passed", "skipped", "error"} : PrecheckEnds(w, answer)
       \/ \E opened \in BOOLEAN : Launch(w, opened)
       \/ \E ok, threw, written \in BOOLEAN : Settle(w, ok, threw, written)
       \/ SettleRefused(w) \/ Crash(w)

Spec == Init /\ [][Next]_vars

-----------------------------------------------------------------------------
(* Properties.                                                              *)

\* The rows are well formed, those of the queue too; no fire outlives its job
\* (every read of it would throw), and an execution is somewhere iff it has a
\* run.
TypeOK ==
  /\ now \in 0..MaxTime
  /\ auto \in Automation
  /\ fire \in [Fires -> [precheck : Prechecks, born : 0..MaxTime]]
  /\ thr \in [Workers -> Execution]
  /\ past \in [Fires -> Past]
  /\ events \in 0..MaxEvents
  /\ missed \subseteq Slots
  /\ Q!TypeOK
  /\ \A k \in Fires : ~Exists(k) => fire[k] = NoFire
  /\ \A w \in Workers : run[w] = Q!Idle <=> thr[w].at = "idle"

\* No slot is dropped.  Ticks, settlements and events all write next_run_at,
\* from values they read at different times; still every slot of the schedule
\* that lies before it has its fire, or under the policy "latest" a later slot
\* has, or it was given up as GivenUp and EditSchedule say.
SlotsKept ==
  auto.exists /\ auto.policy # "skip" =>
    \A s \in auto.slots : auto.next = None \/ s < auto.next =>
      \/ s \in missed
      \/ Exists(Slot(s))
      \/ auto.policy = "latest" /\ \E r \in auto.slots : s < r /\ Exists(Slot(r))

\* The precheck command of a fire starts once at most, over stops, lost leases
\* and retries, and without an operator's bypass a lane is opened only if that
\* command passed.
PrecheckOnce ==
  \A k \in Fires :
    /\ past[k].checks <= 1
    /\ past[k].lanes > 0 /\ fire[k].precheck \notin {"none", "bypassed"}
         => past[k].passed

\* A second lane for one fire has one of two causes: the lease of an execution
\* was recovered, or an execution threw after it had opened the first.
LaunchedOnce ==
  \A k \in Fires : past[k].lanes > 1 => job[k].recovered \/ past[k].lost \/ ~auto.exists

=============================================================================
