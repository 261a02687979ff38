----------------------------- MODULE ReviewGate -----------------------------
(***************************************************************************)
(* Automatic review of finished packets (src/src/lib/lane/auto-review.ts,  *)
(* review-queue.ts, review-attempt-head.ts, review-drain-recovery.ts and   *)
(* their helpers): a worker commits in a lane's worktree, the server keys  *)
(* a durable queue row to the commit, a drain claims rows into reviewer    *)
(* slots, a reviewer turn records one verdict per packet, a high-risk      *)
(* verdict gets a blind second pass, an agreement dispatches the merge     *)
(* through a ledger, and a reconciler looks for what a restart dropped.    *)
(*                                                                         *)
(* The server is one Node process, so an action is the code between two    *)
(* awaits; the worker commits between any two.  Git commits are the        *)
(* numbers 1..MaxHead and HEAD never returns to an earlier one.  The       *)
(* nonce of a claim is the slot that holds it: a slot is not claimed again *)
(* before its continuation ended, which settles a row it still owns.       *)
(* Rows that are completed or failed leave the model.                      *)
(***************************************************************************)
EXTENDS Integers, FiniteSets

CONSTANTS Lanes,       \* lanes, one packet each
          Slots,       \* REVIEW_CONCURRENCY_LIMIT reviewer slots
          Rows,        \* identities of the active queue rows, a bound
          HighRisk,    \* commits whose diff is classified high risk
          MaxAttempts, \* MAX_REVIEW_ATTEMPTS of a row
          MaxDispatch, \* MAX_MERGE_DISPATCH_ATTEMPTS of an approval
          MaxRequeues, \* MAX_RECONCILE_REQUEUES of an approval
          MaxHead,     \* bound: commits of a worker
          MaxEvents,   \* bound: steers, stops, busy sessions, lost claims and restarts
          Reconciler,  \* the recovery pass, as a process that dispatches
          None

\* There are rows for a claimed one and its successor in every lane.
ASSUME RowsAssumption ==
    /\ IsFiniteSet(Lanes) /\ IsFiniteSet(Rows)
    /\ Cardinality(Rows) >= 2 * Cardinality(Lanes)

\* Slots are numbered; the first that is free is taken.
ASSUME SlotsAssumption == Slots \subseteq Nat

ASSUME LimitsAssumption ==
    /\ {MaxAttempts, MaxHead} \subseteq Nat \ {0}
    /\ {MaxDispatch, MaxRequeues, MaxEvents} \subseteq Nat
    /\ Reconciler \notin Slots

VARIABLES head,      \* [Lanes -> commit at the worktree HEAD]
          status,    \* [Lanes -> lane status]
          q,         \* the queue rows, their order, and what is cancelled
          slot,      \* [Slots -> the continuation of the claim, or None]
          reviewing, \* [Lanes -> the slot that reviews the lane, or None]
          verdict,   \* [Lanes -> the packet's review approval, or None]
          ledger,    \* [Lanes -> merge_dispatch_* receipts of that approval]
          merge,     \* [Slots and Reconciler -> the merge they await, or None]
          seen,      \* history: what turns and passes really looked at
          stopped,   \* lanes of a stopped packet whose archive has not come yet
          events     \* of those that MaxEvents bounds, so far

record == <<verdict, ledger, seen>>
env == <<stopped, events>>
vars == <<head, status, q, slot, reviewing, record, merge, env>>

Heads == 1..MaxHead
Mergers == Slots \cup {Reconciler}
Statuses == {"running", "reviewing", "merging", "awaiting", "completed"}

Row == [lane : Lanes, st : {"pending", "claimed"}, head : Heads,
        attempts : 0..MaxAttempts, owner : Slots \cup {None}]
Queue == [rows : [Rows -> Row \cup {None}], ahead : [Rows -> SUBSET Rows],
          cancelled : SUBSET Slots, aborted : SUBSET Slots]
Continuation == [lane : Lanes, row : Rows, head : Heads, attempts : 0..MaxAttempts,
                 pc : {"start", "turn", "record", "blind", "dispatch"},
                 pending : 0..MaxHead]
Verdict == [head : Heads, approved : BOOLEAN, second : BOOLEAN, agreed : BOOLEAN,
            blockedAt : SUBSET Heads, requeues : 0..MaxRequeues]
Ledger == [attempts : 0..MaxDispatch,
           st : {"none", "attempted", "deferred", "succeeded", "failed", "routed"},
           late : BOOLEAN]
Merge == [lane : Lanes, pc : {"gates", "lease", "publish"}]

\* What stands for nothing is nothing else.
ASSUME NoneAssumption ==
    None \notin Row \cup Continuation \cup Verdict \cup Merge \cup Slots

NoReceipt == [attempts |-> 0, st |-> "none", late |-> FALSE]

-----------------------------------------------------------------------------
(* The queue: rows, the order the drain claims them in, and cancellation. *)

Active(qs, l) == {r \in Rows : qs.rows[r] # None /\ qs.rows[r].lane = l}
PendingRows(qs, l) == {r \in Active(qs, l) : qs.rows[r].st = "pending"}
Owned(s) == slot[s] # None /\ q.rows[slot[s].row] # None
            /\ q.rows[slot[s].row].owner = s

\* The order of updated_at: per pending row those that are claimed before it.
\* Rows that leave the pending ones are ahead of nothing; rows that join them
\* at once, updated_at is now, are behind those that are there.
Waiting(qs) == {r \in Rows : qs.rows[r] # None /\ qs.rows[r].st = "pending"}
Leave(qs, gone) == [r \in Rows |-> IF r \in gone THEN {} ELSE qs.ahead[r] \ gone]
Join(qs, new) == [r \in Rows |-> IF r \in new THEN Waiting(qs) \ new ELSE qs.ahead[r] \ new]

\* A row that is completed or failed is no longer active.
Drop(qs, r) == [qs EXCEPT !.rows[r] = None, !.ahead = Leave(qs, {r})]

\* A row goes back to pending, behind the others.
ToPending(qs, r, n) ==
    [qs EXCEPT !.rows[r] = [@ EXCEPT !.st = "pending", !.owner = None, !.attempts = n],
               !.ahead = Join(qs, {r})]

\* Abort every reviewer turn of the lane.
StopTurns(qs, l) ==
    [qs EXCEPT !.aborted = @ \cup {s \in Slots : slot[s] # None /\ slot[s].lane = l
                                                 /\ slot[s].pc \in {"turn", "blind"}}]

\* Rows keyed to another commit are settled; a claimed one is cancelled too.
Superseded(qs, l, h) ==
    LET old == {r \in Active(qs, l) : qs.rows[r].head # h}
        own == {qs.rows[r].owner : r \in old} \ {None}
        off == [rows |-> [r \in Rows |-> IF r \in old THEN None ELSE qs.rows[r]],
                ahead |-> Leave(qs, old),
                cancelled |-> qs.cancelled \cup own, aborted |-> qs.aborted]
    IN  IF own = {} THEN off ELSE StopTurns(off, l)

\* One pending row for the lane's HEAD, unless one is pending, or is running
\* and the caller did not ask for a successor.
Enqueue(qs, l, after) ==
    LET clean == Superseded(qs, l, head[l])
        fresh == CHOOSE r \in Rows : clean.rows[r] = None
    IN  IF PendingRows(clean, l) # {} \/ (Active(clean, l) # {} /\ ~after)
        THEN clean
        ELSE [clean EXCEPT !.rows[fresh] = [lane |-> l, st |-> "pending", head |-> head[l],
                                            attempts |-> 0, owner |-> None],
                           !.ahead = Join(clean, {fresh})]

-----------------------------------------------------------------------------
(* What the approval says of the current HEAD. *)

\* findPendingSecondPassApproval
OwesSecondPass(v, h) ==
    v # None /\ v.approved /\ v.head = h /\ v.second /\ ~v.agreed /\ h \notin v.blockedAt
SecondPassPending(l) == OwesSecondPass(verdict[l], head[l])

\* assessDurableApprovedReview
Durable(l) ==
    /\ verdict[l] # None
    /\ verdict[l].approved /\ verdict[l].head = head[l]
    /\ verdict[l].second => verdict[l].agreed

\* surfaceReviewQueueBlocker moves a lane that looks alive to the orchestrator.
BlockedStatus(st) == IF st \in {"completed", "awaiting"} THEN st ELSE "awaiting"

\* setLaneStatus refuses to reopen a terminal lane.
SetStatus(l, st) == status' = [status EXCEPT ![l] = IF @ = "completed" THEN @ ELSE st]

-----------------------------------------------------------------------------
Init ==
    /\ head = [l \in Lanes |-> 1]
    /\ status = [l \in Lanes |-> "running"]
    /\ q = [rows |-> [r \in Rows |-> None], ahead |-> [r \in Rows |-> {}],
            cancelled |-> {}, aborted |-> {}]
    /\ slot = [s \in Slots |-> None]
    /\ reviewing = [l \in Lanes |-> None]
    /\ verdict = [l \in Lanes |-> None]
    /\ ledger = [l \in Lanes |-> NoReceipt]
    /\ merge = [m \in Mergers |-> None]
    /\ seen = [l \in Lanes |-> [read |-> {}, agreed |-> {}]]
    /\ stopped = {}
    /\ events = 0

(* The worker and the operator. *)

\* The worker, or a steer it still works on, lands a commit at any time.
WorkerCommits(l) ==
    /\ status[l] # "completed" /\ head[l] < MaxHead
    /\ head' = [head EXCEPT ![l] = @ + 1]
    /\ UNCHANGED <<status, q, slot, reviewing, record, merge, env>>

\* The lane asks for its review.
RequestReview(l) ==
    /\ status[l] = "running"
    /\ status' = [status EXCEPT ![l] = "reviewing"]
    /\ q' = Enqueue(q, l, FALSE)
    /\ UNCHANGED <<head, slot, reviewing, record, merge, env>>

\* A steer resumes the worker; it leaves the queue and the approval alone.
Steer(l) ==
    /\ status[l] \in {"reviewing", "awaiting"} /\ events < MaxEvents
    /\ status' = [status EXCEPT ![l] = "running"]
    /\ events' = events + 1
    /\ UNCHANGED <<head, q, slot, reviewing, record, merge, stopped>>

\* A stop of the packet settles the lane's rows and stops its turns.  The lane
\* keeps its status until the worker is known to be dead.
StopPacket(l) ==
    /\ status[l] # "completed" /\ l \notin stopped /\ events < MaxEvents
    /\ LET act == Active(q, l)
           own == {q.rows[r].owner : r \in act} \ {None}
           off == [q EXCEPT !.rows = [r \in Rows |-> IF r \in act THEN None ELSE q.rows[r]],
                            !.ahead = Leave(q, act),
                            !.cancelled = @ \cup own]
       IN  q' = StopTurns(off, l)
    /\ stopped' = stopped \cup {l}
    /\ events' = events + 1
    /\ UNCHANGED <<head, status, slot, reviewing, record, merge>>

\* Its lane is archived in the background, or is left as it is if the worker survived.
Archive(l) ==
    /\ l \in stopped
    /\ stopped' = stopped \ {l}
    /\ status' = [status EXCEPT ![l] = "completed"]
    /\ UNCHANGED <<head, q, slot, reviewing, record, merge, events>>

-----------------------------------------------------------------------------
(* The drain: stale lanes are released, rows are claimed into slots. *)

\* A lane whose claim is no longer current may be claimed again, although the
\* old continuation still has its slot.
ReleaseStaleLanes ==
    /\ \E l \in Lanes : reviewing[l] # None /\ ~Owned(reviewing[l])
    /\ reviewing' = [l \in Lanes |-> IF reviewing[l] # None /\ ~Owned(reviewing[l])
                                     THEN None ELSE reviewing[l]]
    /\ UNCHANGED <<head, status, q, slot, record, merge, env>>

\* The oldest pending row is claimed into the first free slot, or put back
\* behind the others when its lane has a review that runs.
Claim(s) ==
    /\ slot[s] = None /\ \A t \in Slots : t < s => slot[t] # None
    /\ \E r \in Waiting(q) :
       /\ q.ahead[r] = {}
       /\ LET l == q.rows[r].lane
          IN  IF reviewing[l] # None
              THEN /\ q' = ToPending(q, r, q.rows[r].attempts)
                   /\ UNCHANGED <<slot, reviewing>>
              ELSE /\ q' = [q EXCEPT !.rows[r] = [@ EXCEPT !.st = "claimed", !.owner = s],
                                     !.ahead = Leave(q, {r})]
                   /\ slot' = [slot EXCEPT ![s] =
                                 [lane |-> l, row |-> r, head |-> q.rows[r].head,
                                  attempts |-> q.rows[r].attempts, pc |-> "start",
                                  pending |-> 0]]
                   /\ reviewing' = [reviewing EXCEPT ![l] = s]
    /\ UNCHANGED <<head, status, record, merge, env>>

\* The continuation ends: its slot, its lane and its cancellation are cleared.
Release(s, qs) ==
    /\ slot' = [slot EXCEPT ![s] = None]
    /\ reviewing' = [reviewing EXCEPT ![slot[s].lane] = IF @ = s THEN None ELSE @]
    /\ q' = [qs EXCEPT !.cancelled = @ \ {s}, !.aborted = @ \ {s}]

\* Variant: a settlement that does not look at the owner of the row.
SettledBlindly(s, qs) == IF qs.rows[slot[s].row] # None THEN Drop(qs, slot[s].row) ELSE qs
\* Variant: a busy session settles the row like a finished review.
DeferredAsDone(s) == IF Owned(s) THEN Drop(q, slot[s].row) ELSE q

\* Each settlement writes only a row that this claim still owns.
Settled(s, qs) == LET r == slot[s].row
                  IN  IF qs.rows[r] # None /\ qs.rows[r].owner = s THEN Drop(qs, r) ELSE qs
Deferred(s) == IF Owned(s) THEN ToPending(q, slot[s].row, q.rows[slot[s].row].attempts) ELSE q
Failed(s) == IF ~Owned(s) THEN q
             ELSE IF slot[s].attempts + 1 >= MaxAttempts THEN Drop(q, slot[s].row)
             ELSE ToPending(q, slot[s].row, slot[s].attempts + 1)

\* Variant: the commit of the attempt is not compared.
HeadNeverMoved(s) == FALSE
HeadMoved(s) == head[slot[s].lane] # slot[s].head

\* Skipped because cancelled, or because HEAD moved: then the lane's HEAD gets
\* a row of its own, which settles this one.
Skip(s) ==
    /\ IF s \in q.cancelled THEN Release(s, Settled(s, q))
       ELSE Release(s, Settled(s, Enqueue(q, slot[s].lane, FALSE)))
    /\ UNCHANGED <<head, status, record, merge, env>>

Stale(s) == s \in q.cancelled \/ HeadMoved(s)

\* A failed attempt: the fifth settles the row and blocks the lane.
Fail(s) ==
    /\ IF s \in q.cancelled
       THEN Release(s, Settled(s, q)) /\ UNCHANGED status
       ELSE /\ Release(s, Failed(s))
            /\ status' = [status EXCEPT ![slot[s].lane] =
                            IF Owned(s) /\ slot[s].attempts + 1 >= MaxAttempts
                            THEN BlockedStatus(@) ELSE @]
    /\ UNCHANGED <<head, record, merge, env>>

At(s, pc) == slot[s] # None /\ slot[s].pc = pc
Goto(s, pc) == slot' = [slot EXCEPT ![s].pc = pc]
Busy(s) ==
    /\ s \notin q.aborted /\ events < MaxEvents
    /\ events' = events + 1
    /\ Release(s, Deferred(s))
    /\ UNCHANGED <<head, status, record, merge, stopped>>

Reviewed(s) ==
    /\ Release(s, Settled(s, q))
    /\ UNCHANGED <<head, status, record, merge, env>>

-----------------------------------------------------------------------------
(* A continuation: performAutoReview between its awaits. *)

\* A lane that left "reviewing" is skipped, and gets no successor.  The look
\* at the commit and the cancellation after the prompt is built has the effect of
\* the one after the turn.
Start(s) ==
    /\ At(s, "start")
    /\ CASE status[slot[s].lane] # "reviewing" -> Reviewed(s)
         [] status[slot[s].lane] = "reviewing" /\ Stale(s) -> Skip(s)
         [] OTHER -> /\ Goto(s, "turn")
                     /\ UNCHANGED <<head, status, q, reviewing, record, merge, env>>

\* The turn comes back: discarded if it is stale, else it read this HEAD.
TurnEnds(s) ==
    /\ At(s, "turn")
    /\ IF Stale(s) THEN Skip(s)
       ELSE \/ Busy(s)
            \/ Fail(s)
            \/ /\ s \notin q.aborted
               /\ Goto(s, "record")
               /\ seen' = [seen EXCEPT ![slot[s].lane].read = @ \cup {head[slot[s].lane]}]
               /\ UNCHANGED <<head, status, q, reviewing, verdict, ledger, merge, env>>

\* The one review approval of the packet, pinned to the commit of the prompt.
\* An agreement that the approval already carries stays on it.
NewVerdict(s, ok) ==
    LET old == verdict[slot[s].lane]
        new == [head |-> slot[s].head, approved |-> ok, agreed |-> FALSE,
                second |-> ok /\ slot[s].head \in HighRisk, blockedAt |-> {}, requeues |-> 0]
    IN  IF old = None THEN new
        ELSE [new EXCEPT !.agreed = old.agreed, !.blockedAt = old.blockedAt,
                         !.requeues = old.requeues]

\* No cancellation is looked at from here on.
Record(s) ==
    /\ At(s, "record") /\ ~HeadMoved(s)
    /\ \E ok \in BOOLEAN :
         /\ verdict' = [verdict EXCEPT ![slot[s].lane] = NewVerdict(s, ok)]
         /\ IF OwesSecondPass(NewVerdict(s, ok), slot[s].head)
            THEN /\ slot' = [slot EXCEPT ![s].pc = "blind", ![s].pending = slot[s].head]
                 /\ UNCHANGED <<q, reviewing>>
            ELSE Release(s, Settled(s, q))
    /\ UNCHANGED <<head, status, ledger, seen, merge, env>>

\* No verdict: the commit moved, or the answer cannot be parsed.  A high-risk
\* verdict of this commit that is there already still owes its second pass.
NoVerdict(s) ==
    /\ At(s, "record")
    /\ IF HeadMoved(s) THEN Skip(s)
       ELSE IF slot[s].head \in HighRisk /\ SecondPassPending(slot[s].lane)
       THEN /\ slot' = [slot EXCEPT ![s].pc = "blind", ![s].pending = slot[s].head]
            /\ UNCHANGED <<head, status, q, reviewing, record, merge, env>>
       ELSE Reviewed(s)

-----------------------------------------------------------------------------
(* The dispatch ledger: claimMergeDispatch over the approval's receipts. *)

Open(led) == led.st = "none" \/ led.late

Claimable(led) == Open(led) /\ led.attempts < MaxDispatch

ClaimReceipt(led) ==
    IF Claimable(led) THEN [attempts |-> led.attempts + 1, st |-> "attempted", late |-> FALSE]
    ELSE IF Open(led) THEN [led EXCEPT !.st = "failed", !.late = FALSE]
    ELSE led

\* A claimed dispatch awaits its merge; one that failed for good blocks the
\* lane, every time it is asked again.
ClaimDispatch(m, l) ==
    LET after == ClaimReceipt(ledger[l])
    IN  /\ ledger' = [ledger EXCEPT ![l] = after]
        /\ merge' = IF Claimable(ledger[l])
                    THEN [merge EXCEPT ![m] = [lane |-> l, pc |-> "gates"]]
                    ELSE merge
        /\ status' = [status EXCEPT ![l] =
                        IF after.st = "failed" THEN BlockedStatus(@) ELSE @]

\* The grace period of an attempt, or the card it was routed to, runs out.
GraceEnds(l) ==
    /\ ledger[l].st \in {"attempted", "deferred", "routed"} /\ ~ledger[l].late
    /\ ledger' = [ledger EXCEPT ![l].late = TRUE]
    /\ UNCHANGED <<head, status, q, slot, reviewing, verdict, seen, merge, env>>

\* The blind turn comes back.  Its claim may be cancelled by now: not looked at.
BlindAgrees(s) ==
    /\ At(s, "blind") /\ s \notin q.aborted
    /\ head[slot[s].lane] = slot[s].pending
    /\ LET l == slot[s].lane
       IN  /\ verdict' = [verdict EXCEPT ![l].agreed = TRUE]
           /\ seen' = [seen EXCEPT ![l].agreed = @ \cup {slot[s].pending}]
           /\ ClaimDispatch(s, l)
           /\ IF Claimable(ledger[l]) THEN Goto(s, "dispatch") /\ UNCHANGED <<q, reviewing>>
              ELSE Release(s, Settled(s, q))
    /\ UNCHANGED <<head, env>>

\* Disagreed, inconclusive or aborted: a card blocks the approval at this HEAD.
BlindBlocks(s) ==
    /\ At(s, "blind") /\ head[slot[s].lane] = slot[s].pending
    /\ verdict' = [verdict EXCEPT ![slot[s].lane].blockedAt = @ \cup {slot[s].pending}]
    /\ Release(s, Settled(s, q))
    /\ UNCHANGED <<head, status, ledger, seen, merge, env>>

BlindVoid(s) ==
    /\ At(s, "blind")
    /\ \/ Busy(s)
       \/ head[slot[s].lane] # slot[s].pending /\ Reviewed(s)

-----------------------------------------------------------------------------
(* The recovery pass, which runs before the drain claims. *)

\* Variant: a reclaim that leaves the old continuation running.
ReclaimWithoutCancel(r) ==
    /\ q.rows[r] # None /\ q.rows[r].st = "claimed" /\ merge[Reconciler] = None
    /\ events < MaxEvents /\ events' = events + 1
    /\ q.rows[r].attempts + 1 < MaxAttempts
    /\ q' = ToPending(q, r, q.rows[r].attempts + 1)
    /\ UNCHANGED <<head, status, slot, reviewing, record, merge, stopped>>

\* A claim older than its lease goes back to the queue, or fails its row.
Reclaim(r) ==
    /\ q.rows[r] # None /\ q.rows[r].st = "claimed" /\ merge[Reconciler] = None
    /\ events < MaxEvents /\ events' = events + 1
    /\ LET row == q.rows[r]
           off == IF row.attempts + 1 >= MaxAttempts THEN Drop(q, r)
                  ELSE ToPending(q, r, row.attempts + 1)
       IN  /\ q' = StopTurns([off EXCEPT !.cancelled = @ \cup {row.owner}], row.lane)
           /\ status' = [status EXCEPT ![row.lane] =
                           IF row.attempts + 1 >= MaxAttempts THEN BlockedStatus(@) ELSE @]
    /\ UNCHANGED <<head, slot, reviewing, record, merge, stopped>>

\* Variant: a lane that owes a second pass and has no row is left alone.
ReconcileNoRequeue(l) ==
    /\ status[l] = "reviewing" /\ merge[Reconciler] = None
    /\ q' = Superseded(q, l, head[l])
    /\ Durable(l) /\ verdict[l].second
    /\ ClaimDispatch(Reconciler, l)
    /\ UNCHANGED <<head, slot, reviewing, verdict, seen, env>>

\* Rows of an older HEAD are settled.  Then an agreed approval is dispatched
\* again, or one that waits for its second pass, with no row, is requeued.
ReconcileLane(l) ==
    /\ status[l] = "reviewing" /\ merge[Reconciler] = None
    /\ LET clean == Superseded(q, l, head[l])
           owed == Active(clean, l) = {} /\ SecondPassPending(l)
       IN  IF Durable(l) /\ verdict[l].second
           THEN q' = clean /\ ClaimDispatch(Reconciler, l) /\ UNCHANGED verdict
           ELSE IF owed /\ verdict[l].requeues < MaxRequeues
           THEN /\ q' = Enqueue(clean, l, TRUE)
                /\ verdict' = [verdict EXCEPT ![l].requeues = @ + 1]
                /\ UNCHANGED <<status, ledger, merge>>
           ELSE /\ q' = clean
                /\ status' = IF owed THEN [status EXCEPT ![l] = BlockedStatus(@)] ELSE status
                /\ UNCHANGED <<verdict, ledger, merge>>
    /\ UNCHANGED <<head, slot, reviewing, seen, env>>

-----------------------------------------------------------------------------
(* The merge command, as the orchestrator dispatches it: without the HEAD  *)
(* the agreement was for.                                                  *)

Merging(m, pc) == merge[m] # None /\ merge[m].pc = pc
MergeTo(m, pc) == merge' = [merge EXCEPT ![m].pc = pc]

\* The dispatch is over; a slot that waited for it has reviewed its row.
MergeOver(m, st) ==
    /\ merge' = [merge EXCEPT ![m] = None]
    /\ ledger' = [ledger EXCEPT ![merge[m].lane] = [@ EXCEPT !.st = st, !.late = FALSE]]
    /\ IF m = Reconciler THEN UNCHANGED <<q, slot, reviewing>> ELSE Release(m, Settled(m, q))

\* A failure leaves "reviewing" for the orchestrator; a recoverable one stays;
\* a merge that is routed to a card waits for the operator.
MergeFails(m, st) ==
    /\ MergeOver(m, st)
    /\ SetStatus(merge[m].lane, IF st = "deferred" THEN "reviewing" ELSE "awaiting")
    /\ UNCHANGED <<head, verdict, seen, env>>

\* The gates and policies that can route a merge to a card; one is the review.
MergeGates(m) ==
    /\ Merging(m, "gates")
    /\ \/ /\ Durable(merge[m].lane)
          /\ MergeTo(m, "lease")
          /\ UNCHANGED <<head, status, q, slot, reviewing, record, env>>
       \/ MergeFails(m, "routed")

\* One merge of the repository at a time.  The worktree of a lane that is
\* already completed is gone; an approval of another commit is refused.
MergeStarts(m) ==
    /\ Merging(m, "lease")
    /\ \A o \in Mergers : ~Merging(o, "publish")
    /\ LET l == merge[m].lane
       IN  IF status[l] = "completed" \/ (verdict[l].approved /\ verdict[l].head # head[l])
           THEN MergeFails(m, "failed")
           ELSE /\ MergeTo(m, "publish")
                /\ SetStatus(l, "merging")
                /\ UNCHANGED <<head, q, slot, reviewing, record, env>>

\* The rebased commit is published, and the lane is completed.
Publish(m) ==
    /\ Merging(m, "publish")
    /\ status' = [status EXCEPT ![merge[m].lane] = "completed"]
    /\ MergeOver(m, "succeeded")
    /\ UNCHANGED <<head, verdict, seen, env>>

\* The lease is not had in time, a probe or fetch is inconclusive, the rebase
\* conflicts or a check after it fails.
MergeStops(m) ==
    \/ Merging(m, "lease") /\ MergeFails(m, "failed")
    \/ /\ Merging(m, "publish")
       /\ \E st \in {"failed", "deferred", "routed"} : MergeFails(m, st)

-----------------------------------------------------------------------------
(* A restart of the server, and what the startup sweep makes of the rows. *)

Swept(l) ==
    \E r \in Active(q, l) : q.rows[r].st = "claimed" /\ q.rows[r].attempts + 1 >= MaxAttempts

SweptQueue ==
    LET row(r) == q.rows[r]
        held == {r \in Rows : row(r) # None /\ row(r).st = "claimed"}
        lost == {r \in held : row(r).attempts + 1 >= MaxAttempts}
    IN  [rows |-> [r \in Rows |->
                     IF r \in lost THEN None
                     ELSE IF r \in held
                     THEN [row(r) EXCEPT !.st = "pending", !.owner = None, !.attempts = @ + 1]
                     ELSE row(r)],
         ahead |-> Join(q, held \ lost),
         cancelled |-> {}, aborted |-> {}]

Restart ==
    /\ events < MaxEvents
    /\ events' = events + 1
    /\ q' = SweptQueue
    /\ status' = [l \in Lanes |-> IF Swept(l) THEN BlockedStatus(status[l]) ELSE status[l]]
    /\ slot' = [s \in Slots |-> None]
    /\ reviewing' = [l \in Lanes |-> None]
    /\ merge' = [m \in Mergers |-> None]
    /\ stopped' = {}
    /\ UNCHANGED <<head, record>>

\* The reaper finds a lane that is merging with no merge, and asks for help.
ReapMerging(l) ==
    /\ status[l] = "merging"
    /\ ~\E m \in Mergers : merge[m] # None /\ merge[m].lane = l
    /\ status' = [status EXCEPT ![l] = "awaiting"]
    /\ UNCHANGED <<head, q, slot, reviewing, record, merge, env>>

-----------------------------------------------------------------------------
Turn(s) == TurnEnds(s) \/ BlindAgrees(s) \/ BlindBlocks(s) \/ BlindVoid(s)
Step(s) == Start(s) \/ Record(s) \/ NoVerdict(s)
MergeStep(m) == MergeGates(m) \/ MergeStarts(m) \/ Publish(m) \/ MergeStops(m)

Next == \/ \E l \in Lanes : \/ WorkerCommits(l) \/ RequestReview(l) \/ Steer(l) \/ StopPacket(l)
                            \/ GraceEnds(l) \/ ReconcileLane(l) \/ ReapMerging(l) \/ Archive(l)
        \/ ReleaseStaleLanes \/ Restart
        \/ \E s \in Slots : Claim(s) \/ Step(s) \/ Turn(s)
        \/ \E r \in Rows : Reclaim(r)
        \/ \E m \in Mergers : MergeStep(m)

Spec == Init /\ [][Next]_vars

\* The drain's interval goes on, a continuation runs on: code between awaits,
\* its turn (the backend's watchdog ends it, codex-orchestrator-session.ts), its
\* merge command; so does the recovery pass; and a grace period passes.
\* Nothing is assumed of a reclaim.
Fairness ==
    /\ WF_vars(\E s \in Slots : Claim(s))
    /\ \A s \in Slots : WF_vars(Step(s) \/ Turn(s))
    /\ \A m \in Mergers : WF_vars(MergeStep(m))
    /\ \A l \in Lanes : /\ WF_vars(ReconcileLane(l))
                        /\ WF_vars(ledger[l].st \in {"attempted", "deferred"} /\ GraceEnds(l))

FairSpec == Spec /\ Fairness

-----------------------------------------------------------------------------
HighRiskReady(l) == status[l] = "reviewing"
                    /\ (SecondPassPending(l) \/ (Durable(l) /\ verdict[l].second))

TypeOK ==
    /\ head \in [Lanes -> Heads]
    /\ status \in [Lanes -> Statuses]
    /\ q \in Queue
    /\ slot \in [Slots -> Continuation \cup {None}]
    /\ reviewing \in [Lanes -> Slots \cup {None}]
    /\ verdict \in [Lanes -> Verdict \cup {None}]
    /\ ledger \in [Lanes -> Ledger]
    /\ merge \in [Mergers -> Merge \cup {None}]
    /\ seen \in [Lanes -> [read : SUBSET Heads, agreed : SUBSET Heads]]
    /\ stopped \subseteq Lanes
    /\ events \in 0..MaxEvents

\* A lane is not reviewed by two continuations of which neither is cancelled,
\* whatever reclaims, supersessions, stops and restarts come between.
OneReviewer ==
    \A s, t \in Slots \ q.cancelled :
        (slot[s] # None /\ slot[t] # None /\ slot[s].lane = slot[t].lane) => s = t

\* A row that is claimed changes hands only when its owner's continuation ends
\* or is cancelled: no settlement of a stale continuation touches the row of
\* the claim that replaced it (review-queue-settlement.ts).
ClaimKept ==
    [][\A r \in Rows : q.rows[r] # None /\ q.rows[r].st = "claimed" =>
          LET s == q.rows[r].owner
          IN  (q'.rows[r] # None /\ q'.rows[r].owner = s)
              \/ slot'[s] = None \/ s \in q'.cancelled]_vars

\* An approval is pinned to a commit that a reviewer turn read while it was HEAD.
VerdictSeen ==
    \A l \in Lanes : verdict[l] # None => verdict[l].head \in seen[l].read

\* The review a lane asked for is read at its commit, unless the packet is
\* stopped or the commit or the status moves on: no claim, busy session, lost
\* turn or restart loses it.
ReviewReached ==
    \A l \in Lanes : \A h \in Heads :
        (/\ status[l] = "reviewing" /\ head[l] = h
         /\ \E r \in Active(q, l) : q.rows[r].head = h)
        ~> (h \in seen[l].read \/ l \in stopped \/ status[l] # "reviewing" \/ head[l] # h)

\* A lane does not stay in "reviewing" for ever with a high-risk approval of
\* its HEAD that waits for its second pass, or whose second pass agreed and
\* whose merge is neither done, nor given up with a blocker, nor routed to a
\* card: the two shapes of a recurrence in review-recovery-proof.md.
HighRiskSettles ==
    \A l \in Lanes : HighRiskReady(l) ~> (~HighRiskReady(l) \/ ledger[l].st = "routed")

\* An approval that authorizes HEAD and needs a second pass has the agreement
\* of a blind pass at that HEAD.
AgreedAtHead ==
    \A l \in Lanes : Durable(l) /\ verdict[l].second => head[l] \in seen[l].agreed

=============================================================================
