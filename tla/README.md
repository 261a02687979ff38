# Verification of o8

o8 is a local-first control plane over coding agents. A desktop shell hosts a Next.js server (HTTP
API and missions) and a WebSocket bridge (agents, timers); both processes, the command line client
and cloud workers share one SQLite database and files under `~/.o8`. A *packet* is a durable unit
of work, an attempt at it is a *lane* in a git worktree, and its merge is gated by a review and by
the operator's approval (`docs/internals/system-architecture.md`).

What can go wrong in such a system is seldom inside one function. Two processes write the same
rows, a process dies between an effect and its receipt, an answer is lost, a read is stale when it
is used. This directory holds TLA+ modules of the parts that coordinate, the TLC runs that check
them on small instances, and proofs (TLAPS) for every instance.

## 1. Inventory

State, operations and interaction of each part, and what makes it correct.

| part | state | operations | hard behaviour | correct when |
| --- | --- | --- | --- | --- |
| Resource leases (`lib/leases`) | holder row, FIFO waiter rows, process identities | acquire, enqueue, poll, promote, reap, time out, release | probes are awaited; owners die; pids are reused; statements throw | one holder, FIFO, a live owner keeps its lease, refusals leave nothing, waiters are served |
| Idempotency store (`lib/orchestrator/idempotency-store.ts`) | reservation or receipt per key, client binding, per-process fallback and attached runs | bind, replay, reserve, run, finalize, reconcile, open | crash between effect and receipt; retries in other processes; failed receipts | an operation runs once per receipt, answers are true |
| Job queue (`lib/cloud`, `scripts/worker`) | job rows, control rows, drain marker, worker cursors | enqueue, claim, heartbeat, settle, recover, steer, abort, deliver, acknowledge, drain | leases run out; late or lost answers; redelivery; restarts | one holder, settled rows stay settled, steers are kept, aborts end jobs, limits and budgets hold |
| Approvals (`lib/approvals`, two routes, agents that wait) | card rows with a decision, a claim and a continuation status | raise or reuse, decide, expire, continue, reopen, settle, ask, poll | phone and desktop race; the bridge and the server write the same rows; exceptions after the action | a decision is final, an approved action runs once, what is recorded is what happened |
| Automations (`lib/automations`) | automations, fires, a job per fire | due slots, run now, claim, precheck, launch, settle, edit, delete, recover | claim and mark are two statements; edits during a run; leases lost while a precheck runs | no due slot is dropped, no precheck runs twice, no second lane without a cause |
| Review queue and gate (`lib/lane`) | queue rows, reviewer slots, one verdict per packet, the merge ledger | enqueue, claim, review, record, blind pass, dispatch, sweep, reconcile | commits during a review; reclaimed claims; restarts in a review or a merge | a verdict is of the diff that was read, every commit is reviewed, high-risk work settles |
| Merge (`operator-mission-service/merge.ts`, `lib/lane`) | packet release state, lane state, git | gate, hold, preview, merge, settle | git and rows change at different times | merged at most once, recorded as it is in git |
| Lane registry (`lib/lane/registry.ts`, `reconcile.ts`) | lanes, events | create, set status, reconcile, escalate, archive | restarts; sessions that vanish | legal transitions, nothing stuck |
| Packet guard and stop holds | generation tokens, holds | hold, mutate, restore | stop against launch | nothing is launched under a stop |
| Workspace lease, metadata lock | lock files and rows with process identities | take, renew, reap | a dead owner's lock | one owner of a worktree |
| Restart safety (`crates/o8-restart-safety`, `lib/app-update`, `lib/setup`) | slot directory with records, reader files, the pending reservation | prepare, force, cancel, commit, expire, bind, rebind, install, reclaim | work begins while a restart is prepared; owners die between two file operations | no restart under running work, records survive their owners' rivals, the slot reopens |
| Mission file (`lib/orchestrator/control-plane.ts`) | the file, its temporary file, the lock directory and its metadata | take, judge, break and release the lock; read, merge, write | holders stall or die between two calls; a live holder is bypassed | what one writer wrote is not undone by another, nobody waits for ever |
| Missions, dispatch, steer, reset | missions, steer queue, reset journal | dispatch, steer, reset, recover | crash inside a reset | a reset completes or is undone |
| Storage admission | reservations, measurements | admit, release | stale measurements | space is not promised twice |
| Worktrees, dependency images, generated output | files and journals | clone, bank, restore, retire | crash between file operations | nothing of value is deleted |
| Supervisor | incidents, inbox | probe, judge, heal | late signals | mostly heuristics |
| Runtimes, orchestrator backends | external processes | launch, resume, interrupt, stream | external failures | adapters |
| Bridge and realtime, database, o8d, desktop shell, CLI, Cortex, user interface | | | | transport, storage, rendering, retrieval |

How they interact: every HTTP verb with a side effect goes through the idempotency store; merges
and publications run under a resource lease of their repository; cloud launches and automation
fires are jobs of the queue; a merge that needs the operator, a permission ask, a plan, a proposed
spec and an escalation become cards in the approval queue, and deciding a card calls back into
lanes, missions and runtimes. The shared state is the database; there is no call between the
server and the bridge for these parts, which is why almost all of the interesting races are
between two statements of two processes.

## 2. Modules

| module | models | depends on |
| --- | --- | --- |
| `ResourceLease`, `MCResourceLease`, `ResourceLeaseProofs` | the lease store, the guard and the per-repository chain | `FifoLease` |
| `FifoLease` | what a lease promises, without tables, probes and polls | |
| `IdempotencyStore`, `MCIdempotencyStore`, `IdempotencyStoreProofs` | `withIdempotency`, its rows, the recovery on open | |
| `JobQueue`, `MCJobQueue`, `JobQueueProofs` | the cloud job store, the worker's protocol, the drain | |
| `AutomationFires`, `MCAutomationFires`, `AutomationFiresProofs` | an automation, its scheduler, its fires and their executions | an instance of `JobQueue` |
| `Approvals`, `MCApprovals`, `ApprovalsProofs` | cards, requests, continuations, permission asks | |
| `ReviewGate`, `MCReviewGate`, `ReviewGateProofs` | automatic review, the blind second pass, the merge it dispatches | |
| `RestartAdmission`, `MCRestartAdmission`, `RestartAdmissionProofs` | admission of work against a restart of the application | |
| `MissionLock`, `MCMissionLock`, `MissionLockProofs` | the lock of the mission file and the sections it guards | |

An `MC` module instantiates its module for TLC; each `.cfg` is one run. In every module the grain
is written at the top: a step is the code between two awaits, or a statement where another process
on the database or the file system can come in between. Definitions marked *Variant* are wrong
versions of the definition that follows them; they take part in no run, and each shows, put in its
place, that a property can fail.

### ResourceLease and FifoLease

`held` and `waiters` are the tables `resource_leases` and `resource_lease_waiters`; `pc` and `fr`
are the position and locals of one guard call per process (`withResourceLease`) or of an observer
that only reconciles. `ReadHolder` ... `Promote` are the phases of `reconcile`, split at every awaited
process probe; `Decide`, `AcquireDirect`, `Enqueue`, `Poll`, `TimeOut`, `TimedOut`, `FinishAction` and
the release steps are the guard. `Crash` and `Restart` give a pid to a new process, `StoreThrows` is a
failing statement, `Unreadable` processes cannot be probed. The HTTP route and the claim file of
the command line client are left out.

`FifoLease` is the abstract specification: a call joins, the first ticket is granted, the holder acts
and leaves, the dead are reaped. `ResourceLease!Fifo` is the refinement mapping (rows to holder and
tickets, positions in the guard to "acting" and "leaving"), `ImplementsFifo` the claim that every
transaction, probe and poll is an abstract step or a stutter.

### IdempotencyStore

One key. `mode`, chosen once, says how the verb is guarded (bound to its body, or attaching duplicates)
and whether statements and probes may fail. `row` is its reservation or receipt, `binding` the
client-mutation row, `fallback` a receipt that could not be persisted, `active` the execution that
duplicates in the process attach to. `Bind`, `Enter`, `Reserve`, `RunReturns`, `RunThrows`, ... are the
segments of `executeWithIdempotency`; when a run settles, the calls that attached to it in the process
go on first (`Resuming`: they are continuations of its promise); `Open` is the recovery a new process
runs on the database. The operation is external: `Land` is its effect.

### JobQueue

`job` and `ctl` are `cloud_jobs` and `cloud_job_controls`, `run` and `cur` a worker's current job and its
saved cursor; `client` says whether the rows are those of cloud workers (packets, controls, drains) or
of the automation scheduler (concurrency keys, delayed retries). Every store method is one immediate
transaction, hence one action; polling, events, heartbeats and receipts of controls interleave in
any order, answers may be lost (`heard`), and leases run out at any moment. Time is reduced to the
comparisons the statements make: a lease has run out or not, a retry is due or not. Left out:
service-only sessions, credentials, presence, wake-ups, and the mismatch error of a reused key.

### AutomationFires

One automation. `now` counts the slots of its schedule, `auto` is its row, `fire[k]` the columns a fire
adds to its job (the rest of the row is the job, an instance `Q` of `JobQueue`), `thr[w]` an execution of
`runClaimedAutomationFire` and what it read when it began. `Materialize` is the scheduler's tick,
`RunNow` the operator's call; claiming the job and marking the fire, starting and recording the
precheck, opening the lane and settling are separate statements and separate actions, so a stop or a
lost lease comes between any two. `past` and `missed` are history: precheck starts and lanes of a fire,
and slots that were given up on purpose (a disabled schedule, an edit, a run that began before one).

### Approvals

`card` is the table `approvals`, reduced to what decides: status, a stamp for `updatedAt`, the version
of the content (`text`), the claim and the continuation status. `req` are resolve requests on the panel
(with or without spoken evidence) and on the phone; `ask` are agents of Pi and Muse that wait in the
bridge. `block` is a synchronous block that read a row and will write it back whole: its own process can
do nothing else meanwhile, the other one can. `DesktopEnding` and `PhoneEnding` say how each
continuation may end on each route and whether its action has then run; `Ending` records it. `View` is
the operator looking at the inbox; `Raisers` says which process raises which kinds. Left out: review
records (`ReviewGate` has the verdict of the automatic reviewer), asks of `lib/pi/sdk`, edited commands,
account checks, and two writes in one millisecond.

### ReviewGate

The server is one Node process; the worker commits between any two of its steps. `head` and `status` are
a lane, `q` its queue rows with their order (`q.ahead[r]`: the rows that wait before r) and the claims
that were cancelled, `slot` the continuation of a claim in a reviewer slot, `verdict` the one review
record of a packet, `ledger` the `merge_dispatch_*` receipts of that record and `merge` the merge a slot
or the recovery pass awaits. A continuation goes through its claim, the reviewer's turn, the record of
the verdict, the blind pass and the dispatch; a merge through its gates, the repository lease and one
publication. `Restart` loses all continuations and runs the startup sweep, `ReconcileLane` is the
periodic recovery pass, `Reclaim` a claim that went stale, `StopPacket` and `Steer` the operator. `seen`
is history: the commits a turn really read, and those a blind pass agreed on.

### RestartAdmission

Native code (Rust) and Node processes exclude each other through files. `dir` and `records` are the slot
directory and the records of restarts and installers in it, `reader` the reader file of each start of
work, `aged` and `overdue` the two time limits, `gone` what no longer has a living owner. Every mkdir,
rmdir, create, unlink and readdir is a step, and every process may die between two. A native prepares,
forces, cancels, commits and times out; a launch publishes its file, looks at the slot, starts its child
and, if it is one of `Rebinding` (`spawnWithWorkAdmission`), binds the file to the child before the
child runs; an installer takes the slot; an observer polls the idle window and reclaims what is stale.

### MissionLock

`lock` is the lock directory (who made it, the token in `holder.json`, whether it is too old), `file`
and `tmp` are the mission file and the temporary file that all writers share, `fr[p]` is the section of
a process: a number that is its token and the value it writes, what it judged, whether it bypassed a
live holder, and the document it read or will write. `Mkdir` and `WriteMeta` are the two halves of the
acquisition, `JudgeDead`, `JudgeOver`, `Check` and `Remove` the breaking of a lock, `Read`, `Persist`,
`WriteTmp` and `Rename` a section, `Release` and `Unlock` its end; a process may stall or die (`Crash`)
before each. `lost`, `late` and `over` in `fr` are history. A merge treats each packet by itself, so one
packet, which a section means to change or not, is enough.

## 3. Runs

| run | what it asks | bounds |
| --- | --- | --- |
| `lease_calls` | clean refusals, and that every waiting call leaves the queue, with crashes, pid reuse and an observer | 2 pids with 2 lives, 2 calls, 1 observer, fair; 403k states |
| `lease_faults` | exclusion, leases of live owners and the refinement of `FifoLease`, with failing statements, an unreadable process and a row of the older schema | 2 pids, 2 calls; 811k states |
| `lease_orphan` (fails) | a released claim never holds again | 2 pids |
| `idem_calls` | one run per receipt, results are real, no reservation without a run, duplicates get the outcome | 4 calls, 2 processes, receipts expire once, both modes; 1.7M states |
| `jobs_calls` | one holder, settled rows, steers kept, aborts cancel, one active row per packet, limits, budgets | 3 inputs: launches of a packet and controls, or 2 fires with limits 1 and 2; 2 workers, 2 claims of a first row and 1 of the others, 1 delivery, 2 attempts; 530k states |
| `fires_schedule` | no due slot is dropped, one precheck, no second lane without a cause | 2 slots, 1 call, 2 executions, 4 events; 658k states |
| `approvals_cards` | one executor, executed once, true outcomes, spoken content, answers to asks, final decisions, askers answered | 2 requests, all three routes, 1 card of any of the seven kinds, 2 writes by creation, 1 ask, fair; 612k states |
| `review_gate` | one reviewer, verdicts of what was read, claims kept, every commit is reviewed, high-risk work settles | 1 lane, 2 slots, 2 rows, 2 commits of which the first is high risk, 2 attempts, 2 dispatches, 1 requeue, 2 events, fair; 277k states |
| `review_inherited` (fails) | an approval that authorizes HEAD was agreed at HEAD | as above, both commits high risk |
| `restart_admission` | no work under a restart, records kept | 1 native with 2 reservations, 1 rebinding launch, 1 installer, deaths; 493k states |
| `mission_lock` | no release takes another's lock, overlapping writers keep each other's packets, waiters get in | 2 processes, 3 sections, 1 packet, fair; 1.5M states |
| `restart_reopens` | the slot reopens | 1 native with 2 reservations, 1 installer, 1 observer, deaths, fair |

The bounds are the smallest in which the cases above meet. A lease needs a holder, a waiter and a third
party that probes at the wrong moment; that is two pids with two lives and an observer. The idempotency
guard needs an original, a duplicate that attaches or reconciles it and a later retry, and a further
call that arrives while the first settles. A job needs two claims, so that an old holder and a new one
exist together, and two controls, because a follow-up job is keyed by the first of several; what a
second launch of the packet adds shows with one claim of it. A fire needs two executions (the one that
lost its lease and the one that took over) and two slots, so that a late settlement can skip one. Two
requests are enough for a card, because each property of it is about two claims, and one card at a time,
because cards share nothing but the processes that write them. A review needs two slots (a reclaimed row
has an old and a new continuation) and two commits (a verdict of the older one). The mission file needs
three sections, because a release that takes a lock shows when a third enters. A restart needs one
process of each sort and a second reservation, which replaces the first. Counts that only grow are
bounded by the constants named "bound" in each module. Symmetry is used for identities that no property
tells apart, and in no run with a liveness property. Deadlock is not checked where calls, requests or
jobs simply end.

### Fairness

`lease_calls`: a call that was begun makes its next step while its process lives. Node runs every ready
continuation, the poll timer fires, and a governed action ends; no deadline, crash or new call is
forced. `approvals_cards`: a synchronous block ends, and a waiting agent polls or times out
(`permission-bridge.ts`, the loop and the statement after it); nothing makes an operator decide.
`review_gate`: a free slot claims, a continuation goes on and its turn ends (the backend's watchdog,
`PROCESS_TIMEOUT_MS` in `codex-orchestrator-session.ts`), a merge makes its steps, the recovery pass
visits every lane, and the grace of a receipt that was attempted or deferred runs out; a claim need not
ever be reclaimed. `restart_reopens`: native and Node code makes its steps, the timer of a reservation
runs out, the cleanup ends the process of a committed restart, an installer's commands have timeouts,
and the idle window is polled; nothing makes work end or begin. `mission_lock`: the loop of
`acquireFsLock` goes on, and time passes; no section need move on, and each process begins finitely
many. (With unbounded sections nothing in the code makes one waiter's `mkdir` win against the others'.)

### What the failing runs show

Each states a sentence of the repository and a behaviour of the code that contradicts it; the quoted
lines and the behaviour are listed with the runs in `PROJECT.json`.

- `lease_orphan`: a promotion between acquire's read and enqueue's insert leaves a second row of the
  call, which is granted after its release.
- `review_inherited`: the agreement of the blind pass on one commit is inherited by the review of the
  next high-risk commit of the packet, which then merges without a blind pass of its own.

### Other behaviour the code does not exclude

Found while reading it. No property is stated about it, or the property names it as an exception.

- Idempotency: the binding of a client key expires on its own, before the receipt it protects
  (`idempotency-store.ts:97`), after which another body under the same key is answered with the receipt;
  a duplicate does not read the row again after it awaited the probe of the owner (`:358`); opening the
  database detaches a dead owner's reservation instead of releasing it.
- Jobs: an abort is not carried over when its job is requeued (`sqlite-job-control.ts:244`), and one whose
  answer is lost is not handed out again (`sqlite-job-store.ts:439`); a job that a drain hands back can be
  behind the cursor of the only worker (`sqlite-job-claim.ts:37`); nothing in the store ends a drain that
  no restart follows (`sqlite-job-control.ts:214`).
- Approvals: a spec update or a file edit approved on the phone is recorded as completed and not written
  (`mobile/action/route.ts:548`); two processes can raise one card twice (`store.ts:473`); two writes in
  one millisecond share a stamp (`resolution.ts:155`); a second process that refreshed or swept cards
  could overwrite a decision; a plain approve is bound to the card as of the request, not as of the
  screen.
- Mission file: of two sections that overlap after a bypass both merge, but a third that begins after the
  break sees its own lock intact and replaces the file, and what the stalled holder wrote meanwhile is
  lost (the exception `over` of `ChangesKept`; the comment at `control-plane.ts:46` speaks of both sides);
  all writers share one temporary file; sections of `withControlPlaneLock` do not merge (`:551`); a
  merge against another mission keeps only its own (`:453`).
- Merge: the dispatch tick after a merge runs outside the lock, and its outcome is written over the
  packets it changed, also over one that was stopped meanwhile (`merge.ts:494`), although a stopped packet is
  said never to be relaunched (`scheduling.ts:318`).
- Restart: a reader file that binds only once can be reclaimed between its creation and its binding
  (`work-launch-admission.ts:60`); a slot directory that aged while its maker slept is removed, and
  two owners can then hold records in one slot; a forced reservation that replaces a committed one
  reopens admission.
- Fires: a run now can skip a slot that is due and not materialized (documented,
  `docs/internals/api.md:54`); the settlement of a run writes the next run it computed when it began
  (`fire-runner.ts:41`, `:76`), so an edit of the schedule during the run is undone, and a manual
  automation that is given a schedule during a run never fires; a fire that is leased or retried when
  its automation is disabled may still launch; a late owner of a precheck launches although its row says
  `precheck_error`; the policy "skip" never fires.
- Review: the reconciler settles a row of an older HEAD without queueing one for the new HEAD
  (`review-stall-reconcile.ts:90`; `ReviewReached` has `head[l] # h` for it); a continuation that lost
  its claim can still write a verdict after its first turn (`auto-review.ts:216`); the merge reads HEAD
  again after its checks and is given no expected HEAD (`worktree-side-merge.ts:568`); the ledger of an
  earlier HEAD is reused for the same approval id; a receipt may say failed after it said succeeded.

## 4. Proofs

Every safety invariant and every action property that a passing run checks is a theorem of its
module's specification, for every value of the constants that the assumptions admit: any number of
processes, calls, rows and requests, any limits, and no bound on crashes or faults but those the
modules name. Each proof has an inductive invariant (checked by TLC on small instances before it was
proved) with one lemma per action.

| module | theorem (property) | under |
| --- | --- | --- |
| `ResourceLeaseProofs` | `TypeCorrectness`, `Exclusion` (`MutualExclusion`), `LiveLease` (`LiveLeaseKept`), `Refinement` (`ImplementsFifo`) | |
| | `Refusals` (`RefusalLeavesNothing`) | `StoreFaults = FALSE` |
| `IdempotencyStoreProofs` | `TypeCorrectness`, `RunsAtMostOnce` (`AtMostOnce`), `ResultsAreReal` (`ResultsLanded`), `ReservationsHaveRuns` (`ReservationHasRun`), `OutcomesAttach` (`AttachedOutcome`) | |
| `JobQueueProofs` | `TypeCorrectness`, `SteersAreKept` (`SteerKept`), `RowsAreSerial` (`Serial`), `AbortsCancel` (`AbortCancels`), `LeaseHasOneHolder` (`OneHolder`), `LimitsAreRespected` (`Limits`), `BudgetIsKept` (`Budget`), `SettledStays` (`Settled`) | |
| `ApprovalsProofs` | `TypeCorrectness`, `SpokenIsApproved` (`SpokenWasSeen`), `AnswersAreTrue` (`AskAnswers`) | |
| | `ClaimsHeld` (`ClaimInv`), `SingleExecutor` (`OneExecutor`), `AtMostOnce` (`ExecutedOnce`), `PendingIsUnexecuted` (`PendingNotExecuted`), `DecisionIsFinal` (`TerminalDecision`), `OutcomesAreTrue` (`OutcomeTrue`) | `OneWriter` |
| `RestartAdmissionProofs` | `TypeCorrectness`, `RestartExcludesWork` (`NoWorkUnderRestart`), `RecordsAreKept` (`RecordKept`) | |
| `MissionLockProofs` | `TypeCorrectness`, `SectionsExclude` (`Exclusive`), `ChangesAreKept` (`ChangesKept`) | |
| `ReviewGateProofs` | `TypeCorrectness`, `LanesHaveOneReviewer` (`OneReviewer`), `VerdictsAreSeen` (`VerdictSeen`), `LanesHaveOneRow`, `ClaimsAreKept` (`ClaimKept`) | |
| `AutomationFiresProofs` | `TypeCorrectness` (`TypeOK`), `SlotsAreKept` (`SlotsKept`), `PrechecksRunOnce` (`PrecheckOnce`), `LanesHaveCauses` (`LaunchedOnce`) | |

### Assumptions

The named assumptions of the modules are of two sorts: the types and finiteness of the constants, and
that "nothing" values (`NoRow`, `None`, `NoPending`, `NoLock`) are not values of what they stand in
for; in the code they are `null` and absent files. `RowAssumption` of `ResourceLease`
says so of rows, of waiters and of calls; `ThreadAssumption` of `RestartAdmission` that a thread is no
record and no pending reservation. TLC evaluates all of them in the runs.

Some theorems need more. `Refusals` assumes that statements do not throw: a call whose `DELETE` fails
when it gives up leaves its row, and the code has no second try. `OneWriter` says that the server alone
raises cards that can be refreshed and expires cards, and that the bridge raises permission cards, which
are never refreshed. With a second process that refreshes cards, a row read before a decision is written
back after it, and `ClaimsHeld` and what rests on it are false. Spoken content and the answers to asks
do not depend on it.

### The invariants, and why they are needed

- **Leases.** `MutualExclusion` is not inductive: a process about to delete a row, or one that was told
  that an owner is dead, acts on an old copy. `LeaseInv`: a process in its action owns the row, a thread
  about to delete has a row of its own call, and since lease ids are never reused an old copy is either
  still the row or is gone. `ClaimInv` adds that claims are drawn once, so that a waiter row with the
  claim of a call is that call's; refusals and the refinement rest on it. `Refusal` follows a call that
  gave up from the deletion of its waiter row to its release. For the refinement each step is a named
  step of `FifoLease` or a stutter; the lemmas `Joins`, `Grants`, `Takes`, `Enters`, `Exits`, `Reaps`
  ... say which under which change of rows and positions.
- **Idempotency.** `StoreInv`: a run that may have landed keeps the row, as a reservation until it has a
  receipt and as that receipt until it expires; a call that reconciles has proved the owner dead for
  good. `AttachInv` says that of the calls that attach, the active one of a process executes, and no
  other in that process does; so a leader that settled has left nothing in progress that its followers
  could be told of.
- **Jobs.** A transaction is several statements, each of which may break what the whole keeps. So the
  invariant `Tables(J, C, t, E)` is about two tables at a point inside a transaction, with the rows `E`
  that just ended and whose steers are still to be promoted; the lemmas compose recoveries, settlements
  and promotions, and `IInv` is the case in which `E` is empty. `Serial` needs that a follow-up row is
  later than the rows of its session; `Limits` that a promotion or a recovery never adds a lease.
- **Approvals.** `ClaimInv` follows the claim through a request's life: a pending card has no claim, a
  request that runs or has run a card's action holds its claim, and a row that will be written back
  is still pending and never an agent's. `BlockInv` adds that a block with a row it has read is the
  server's. `PermitInv` (permission cards are neither refreshed nor reopened) needs no `OneWriter`.
  `OutcomeInv` relates the outcome a request will record to what it did; nothing is claimed of the
  kinds whose phone route records as completed what it did not carry out.
- **Restart.** Three things at once: the record of a native is in the slot from its creation to the
  end of its reservation, whoever empties the directory (`Slots`); a launch whose reader a native
  judged stale can no longer start its child (`Doomed`, `Judged`); a native that has passed its last check
  may count on every rebinding launch to see the slot in its second look (`Promises`). Dead owners
  stay dead and no record's id is used twice (`Dead`).
- **Mission file.** A process that was not robbed of the lock finds its token in it; who was robbed at
  the ceiling was robbed by a section that remembers it (`Pair`); a section that sees no reason to merge
  has the file as it read it (`Fresh`); between the last look at the file and the rename, the document
  differs from the file only in the packet that is meant, with the exceptions `ChangesKept` names (`Writes`).
- **Review.** A row has an owner iff it is claimed, its owner is a continuation for that row, and a
  continuation that is not cancelled owns its row and its lane (`QueueInv`). All steps but the claim
  have one shape, `Kept`: a claimed row stays with its owner, or its owner is cancelled, or its owner's
  continuation is the one that ends. `ReadInv`: what a verdict is, or will be, pinned to was read.
- **Fires.** `KeptInv` is `SlotsKept` for the schedule and the `next_run_at` that every execution read
  when it began, because it may write them back. `CheckInv` has, of the executions that run a precheck, one
  at most per fire, which was begun and has not passed; `LaneInv`: until its lease is
  recovered a fire has no execution but the one that holds it, and with a lane open and no cause for a
  second none is about to launch. The queue below the fires is an instance of `JobQueue`
  without controls, so that a transaction of it changes single rows (`NoPromotion`).

### What is only model-checked

The liveness properties `WaitersServed`, `AskersAnswered`, `ReviewReached`, `HighRiskSettles`, `Served`
and `AdmissionReopens`: liveness under fairness and ENABLED are beyond the prover. What the two failing
runs show is a counterexample and not a theorem. The invariants `LeaseInv`, `StoreInv`, `ClaimInv` and
`PendingNotExecuted` are stated in the modules and proved, and no run repeats them, nor `TypeOK` of
`JobQueue`, `Approvals`, `ReviewGate`, `RestartAdmission` and `MissionLock`, which are theorems.

## 5. Plan

1. Done: `ResourceLease`, `FifoLease`, `IdempotencyStore`, `JobQueue`, `Approvals`, `ReviewGate`,
   `RestartAdmission`, `AutomationFires`, `MissionLock`; a module of proofs for each but `FifoLease`.
2. More theorems in the modules of proofs there are: abstract specifications for more components and
   their refinement (the mission lock as a lock that may be broken, a job as a sequence of attempts);
   what two components promise each other (the queue's `OneHolder` and `Settled` as properties of the
   instance in `AutomationFires`); the safety part of what liveness needs, for example that a free lease
   with waiters always has a live thread that will poll.
3. `PacketLifecycle`: stop, rerun and reset of a packet against dispatch ticks, with the generation
   tokens, the storage admission and the reuse of lanes that decide a launch.
4. `WorkspaceLease`: the worktree lock with the process probe of `ResourceLease`; the steer queue and the
   reset journal; storage admission if time allows.

## 6. Not modelled

User interface, rendering, transport, retrieval and model calls have no protocol to check. Git, the
file system, operating system probes and external agents appear only through the outcomes the code
distinguishes. Worktree and dependency-image code is file manipulation whose state is the disk.
The supervisor judges by heuristics.

Of the parts that are modelled in part: in `ReviewGate`, submitted external reviews and their re-arming
(`second-pass-review-rearm.ts`), the retry of a malformed verdict, rows without a key, transient
backend failures, resets of HEAD, an operator's own approve-and-merge, supersession by reset and
rerun, the failed cleanup of a merged worktree, and a crash between the fast-forward of the base and
the completion of the lane (a publication is one step); in `RestartAdmission`, files written in part,
I/O faults of a second binding, a forced reservation without an identity, a child that outlives its
dead owner; in `AutomationFires`, watches, edits of the policy and the precheck, and how a cron
expression is read. `PROJECT.json` lists every part with its reason, and each hazard that no property
covers with a note.
