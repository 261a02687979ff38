------------------------ MODULE ResourceLeaseProofs ------------------------
(***************************************************************************)
(* Exclusion of governed actions, clean refusals and the refinement of     *)
(* FifoLease, proved for every set of processes and observers, any number  *)
(* of calls and incarnations, and (but for refusals) any faults.           *)
(***************************************************************************)
EXTENDS ResourceLease, TLAPS

IInv == TypeOK /\ LeaseInv

USE DEF NoClaim

\* The initial state satisfies the invariant.
LEMMA InitInv == Init => IInv
  BY LeaseAssumption, RowAssumption
  DEF Init, IInv, TypeOK, LeaseInv, ThreadInv, NoCall, Frame, Labels, Returns,
      Threads, HolderRow, WaiterRow, Identity

\* A thread's frame before its first call is a frame.
LEMMA NoCallType == NoCall \in Frame
  BY DEF NoCall, Frame, Returns

\* What a call of reconcile and a return from it leave in the thread's locals.
LEMMA ReconcileType ==
  ASSUME TypeOK, NEW t \in Threads, NEW r \in Returns, Reconcile(t, r)
  PROVE  /\ fr' \in [Threads -> Frame]
         /\ pc' \in [Threads -> Labels]
  <1>1. fr[t] \in Frame
    BY DEF TypeOK
  <1>2. [NoCall EXCEPT !.ret = r, !.attempt = fr[t].attempt,
                !.claim = fr[t].claim, !.timedOut = fr[t].timedOut] \in Frame
    BY <1>1, NoCallType DEF Frame
  <1>3. fr' \in [Threads -> Frame]
    BY <1>2 DEF TypeOK, Reconcile
  <1>4. pc' \in [Threads -> Labels]
    BY DEF TypeOK, Reconcile, Goto, Labels
  <1> QED BY <1>3, <1>4

\* Return keeps the types: it is called with a caller to return to.
LEMMA ReturnType ==
  ASSUME TypeOK, NEW t \in Threads, NEW b \in BOOLEAN, fr[t].ret # "none",
         Return(t, b)
  PROVE  /\ fr' \in [Threads -> Frame]
         /\ pc' \in [Threads -> Labels]
  <1>1. fr[t] \in Frame
    BY DEF TypeOK
  <1>2. [NoCall EXCEPT !.blocked = fr[t].blocked \/ b, !.attempt = fr[t].attempt,
                !.claim = fr[t].claim, !.timedOut = fr[t].timedOut] \in Frame
    <2>1. fr[t].blocked \/ b \in BOOLEAN
      BY <1>1 DEF Frame
    <2> QED BY <1>1, <2>1, NoCallType DEF Frame
  <1>3. fr' \in [Threads -> Frame]
    BY <1>2 DEF TypeOK, Return
  <1>4. fr[t].ret \in Labels
    BY <1>1 DEF Frame, Returns, Labels
  <1>5. pc' \in [Threads -> Labels]
    BY <1>4 DEF TypeOK, Return, Goto
  <1> QED BY <1>3, <1>5

----------------------------------------------------------------------------
(* Steps that leave the holder row and the processes alone. *)

\* A step of one thread that keeps the holder row preserves the invariant if
\* it re-establishes the thread's own part.
LEMMA LocalStep ==
  ASSUME IInv, NEW t \in Threads,
         held' = held, alive' = alive, start' = start,
         nextId' \in Nat, nextId <= nextId', sessions' \in Nat,
         waiters' \subseteq WaiterRow,
         fr' \in [Threads -> Frame], pc' \in [Threads -> Labels],
         \A u \in Threads \ {t} : pc'[u] = pc[u] /\ fr'[u] = fr[u],
         ThreadInv(t)'
  PROVE  IInv'
  <1>1. TypeOK'
    BY DEF IInv, TypeOK
  <1>2. held' # NoRow => held'.lease < nextId'
    BY DEF IInv, TypeOK, LeaseInv, HolderRow
  <1>3. ASSUME NEW u \in Threads, u # t
        PROVE  ThreadInv(u)'
    <2>1. ThreadInv(u) /\ pc'[u] = pc[u] /\ fr'[u] = fr[u]
      BY <1>3 DEF IInv, LeaseInv
    <2>2. fr[u].row \in HolderRow => fr[u].row.lease \in Nat
      BY DEF HolderRow
    <2> QED BY <2>1, <2>2 DEF IInv, TypeOK, ThreadInv, Mine, Me
  <1> QED BY <1>1, <1>2, <1>3 DEF IInv, LeaseInv

\* The thread's own part after it calls reconcile, and after it returns.
LEMMA ReconcileInv ==
  ASSUME IInv, NEW t \in Threads, NEW r \in Returns \ {"none"},
         Reconcile(t, r), Running(t), alive' = alive
  PROVE  ThreadInv(t)'
  <1>1. pc'[t] = "readHolder"
    BY DEF IInv, TypeOK, Reconcile, Goto
  <1>2. fr'[t].ret = r
    BY NoCallType DEF IInv, TypeOK, Reconcile, Frame
  <1> QED BY <1>1, <1>2 DEF ThreadInv, Running

\* Return leaves its thread where the invariant allows it to be.
LEMMA ReturnInv ==
  ASSUME IInv, NEW t \in Threads, NEW b \in BOOLEAN, fr[t].ret # "none",
         Return(t, b), Running(t), alive' = alive
  PROVE  ThreadInv(t)'
  <1>1. pc'[t] = fr[t].ret
    BY DEF IInv, TypeOK, Return, Goto
  <1>2. fr[t].ret \in Returns \ {"none"}
    BY DEF IInv, TypeOK, Frame
  <1> QED BY <1>1, <1>2 DEF ThreadInv, Running, Returns

\* Where a thread that reconciles has a place to return to.
LEMMA RetKnown ==
  ASSUME IInv, NEW t \in Threads,
         pc[t] \in {"readHolder", "probeHolder", "readWaiters", "probeWaiter",
                    "readHead", "probeHead"}
  PROVE  fr[t].ret # "none"
  BY DEF IInv, LeaseInv, ThreadInv

\* ReadHolder keeps the invariant.
LEMMA ReadHolderInv ==
  ASSUME IInv, NEW t \in Threads, ReadHolder(t)
  PROVE  IInv'
  <1> USE DEF ReadHolder, At, tables, procs
  <1>1. fr' \in [Threads -> Frame] /\ pc' \in [Threads -> Labels]
    <2>1. fr[t] \in Frame
      BY DEF IInv, TypeOK
    <2>2. CASE held = NoRow
      BY <2>2 DEF IInv, TypeOK, Goto, Labels
    <2>3. CASE held # NoRow
      <3>1. held \in HolderRow /\ Alive(held.owner) \in BOOLEAN
        BY <2>3 DEF IInv, TypeOK, Alive, HolderRow, Identity
      <3>2. [fr[t] EXCEPT !.row = held, !.wasLive = Alive(held.owner)] \in Frame
        BY <2>1, <3>1 DEF Frame
      <3> QED BY <2>3, <3>2 DEF IInv, TypeOK, Goto, Labels, Probe
    <2> QED BY <2>2, <2>3
  <1>2. ThreadInv(t)'
    <2>1. fr'[t].ret # "none"
      BY RetKnown DEF IInv, TypeOK, Probe, Frame
    <2>2. CASE held = NoRow
      BY <2>1, <2>2 DEF IInv, TypeOK, Goto, ThreadInv, Running
    <2>3. CASE held # NoRow
      <3>1. pc'[t] = "probeHolder" /\ fr'[t].row = held
        BY <2>3 DEF IInv, TypeOK, Probe, Goto, Frame
      <3> QED BY <2>1, <2>3, <3>1 DEF IInv, TypeOK, LeaseInv, ThreadInv, Running
    <2> QED BY <2>2, <2>3
  <1>3. \A u \in Threads \ {t} : pc'[u] = pc[u] /\ fr'[u] = fr[u]
    BY DEF IInv, TypeOK, Probe, Goto
  <1>4. nextId' \in Nat /\ nextId <= nextId' /\ sessions' \in Nat
        /\ waiters' \subseteq WaiterRow
    BY DEF IInv, TypeOK
  <1> QED BY <1>1, <1>2, <1>3, <1>4, LocalStep

\* The thread that steps is the only one whose program counter and locals move.
LEMMA OthersStay ==
  ASSUME IInv, NEW t \in Threads, NEW l, NEW f,
         pc' = [pc EXCEPT ![t] = l], fr' = [fr EXCEPT ![t] = f]
  PROVE  /\ pc'[t] = l /\ fr'[t] = f
         /\ \A u \in Threads \ {t} : pc'[u] = pc[u] /\ fr'[u] = fr[u]
         /\ l \in Labels => pc' \in [Threads -> Labels]
         /\ f \in Frame => fr' \in [Threads -> Frame]
  BY DEF IInv, TypeOK

\* A reconcile call or a return of one thread, together with a change of the
\* waiter rows and of the counters, preserves the invariant.
LEMMA ReconcileStepInv ==
  ASSUME IInv, NEW t \in Threads, NEW r \in Returns \ {"none"},
         Reconcile(t, r), Running(t), held' = held, alive' = alive, start' = start,
         nextId' \in Nat, nextId <= nextId', sessions' \in Nat,
         waiters' \subseteq WaiterRow
  PROVE  IInv'
  <1>1. \A u \in Threads \ {t} : pc'[u] = pc[u] /\ fr'[u] = fr[u]
    BY OthersStay DEF Reconcile, Goto
  <1>2. fr' \in [Threads -> Frame] /\ pc' \in [Threads -> Labels]
    BY ReconcileType DEF IInv
  <1>3. ThreadInv(t)'
    BY ReconcileInv
  <1> QED BY <1>1, <1>2, <1>3, LocalStep

\* ReturnStep keeps the invariant.
LEMMA ReturnStepInv ==
  ASSUME IInv, NEW t \in Threads, NEW b \in BOOLEAN,
         Return(t, b), fr[t].ret # "none",
         Running(t), held' = held, alive' = alive, start' = start,
         nextId' \in Nat, nextId <= nextId', sessions' \in Nat,
         waiters' \subseteq WaiterRow
  PROVE  IInv'
  <1>1. \A u \in Threads \ {t} : pc'[u] = pc[u] /\ fr'[u] = fr[u]
    BY OthersStay DEF Return, Goto
  <1>2. fr' \in [Threads -> Frame] /\ pc' \in [Threads -> Labels]
    BY ReturnType DEF IInv
  <1>3. ThreadInv(t)'
    BY ReturnInv
  <1> QED BY <1>1, <1>2, <1>3, LocalStep

\* A step of one thread to a label that asks nothing of its locals.
LEMMA PlainStepInv ==
  ASSUME IInv, NEW t \in Threads, NEW l \in Labels \ {"none"}, NEW f \in Frame,
         pc' = [pc EXCEPT ![t] = l], fr' = [fr EXCEPT ![t] = f],
         l \notin {"probeHolder", "probeWaiter", "probeHead", "deleteHolder",
                   "action"},
         l \in {"readHolder", "readWaiters", "readHead"} => f.ret # "none",
         Running(t), held' = held, alive' = alive, start' = start,
         nextId' \in Nat, nextId <= nextId', sessions' \in Nat,
         waiters' \subseteq WaiterRow
  PROVE  IInv'
  <1>1. /\ pc'[t] = l /\ fr'[t] = f
        /\ \A u \in Threads \ {t} : pc'[u] = pc[u] /\ fr'[u] = fr[u]
        /\ fr' \in [Threads -> Frame] /\ pc' \in [Threads -> Labels]
    BY OthersStay
  <1>2. ThreadInv(t)'
    BY <1>1 DEF ThreadInv, Running
  <1> QED BY <1>1, <1>2, LocalStep

\* Starting the probe of a waiter row.
LEMMA ProbeStepInv ==
  ASSUME IInv, NEW t \in Threads, NEW l \in {"probeWaiter", "probeHead"},
         NEW f \in Frame, f.row \in WaiterRow, f.ret # "none",
         pc' = [pc EXCEPT ![t] = l], fr' = [fr EXCEPT ![t] = f],
         Running(t), held' = held, alive' = alive, start' = start,
         nextId' = nextId, sessions' = sessions, waiters' \subseteq WaiterRow
  PROVE  IInv'
  <1>1. /\ pc'[t] = l /\ fr'[t] = f
        /\ \A u \in Threads \ {t} : pc'[u] = pc[u] /\ fr'[u] = fr[u]
        /\ fr' \in [Threads -> Frame] /\ pc' \in [Threads -> Labels]
    <2>1. l \in Labels
      BY DEF Labels
    <2> QED BY <2>1, OthersStay
  <1>2. ThreadInv(t)'
    BY <1>1 DEF ThreadInv, Running
  <1>3. nextId' \in Nat /\ nextId <= nextId' /\ sessions' \in Nat
    BY DEF IInv, TypeOK
  <1> QED BY <1>1, <1>2, <1>3, LocalStep

----------------------------------------------------------------------------
(* reconcileHolder and reconcileWaiters *)

\* The counters when a step leaves them alone.
LEMMA Counters ==
  ASSUME IInv
  PROVE  nextId \in Nat /\ nextId <= nextId /\ sessions \in Nat
         /\ waiters \subseteq WaiterRow
  BY DEF IInv, TypeOK

\* HolderStays keeps the invariant.
LEMMA HolderStaysInv ==
  ASSUME IInv, NEW t \in Threads, HolderStays(t)
  PROVE  IInv'
  <1>1. PICK unknown \in BOOLEAN :
          fr' = [fr EXCEPT ![t].kept = TRUE, ![t].blocked = unknown]
    BY DEF HolderStays
  <1> DEFINE f == [fr[t] EXCEPT !.kept = TRUE, !.blocked = unknown]
  <1>2. fr[t] \in Frame /\ fr[t].ret # "none"
    BY RetKnown DEF IInv, TypeOK, HolderStays, At
  <1>3. f \in Frame /\ f.ret # "none"
    BY <1>2 DEF Frame
  <1>4. fr' = [fr EXCEPT ![t] = f]
    BY <1>1 DEF IInv, TypeOK
  <1> HIDE DEF f
  <1> QED
    BY <1>3, <1>4, Counters, PlainStepInv
    DEF HolderStays, At, Goto, Labels, tables, procs

\* NextWaiter keeps the invariant.
LEMMA NextWaiterInv ==
  ASSUME IInv, NEW t \in Threads, NEW rest \in SUBSET WaiterRow,
         NEW blocked \in BOOLEAN, NextWaiter(t, rest, blocked),
         fr[t].ret # "none", Running(t), held' = held, alive' = alive,
         start' = start, nextId' = nextId, sessions' = sessions,
         waiters' \subseteq WaiterRow
  PROVE  IInv'
  <1> DEFINE headless == [fr[t] EXCEPT !.todo = {}, !.row = NoRow,
                                       !.wasLive = FALSE, !.blocked = blocked]
             probing(w) == [fr[t] EXCEPT !.todo = rest \ {w}, !.row = w,
                                 !.wasLive = Alive(w.owner), !.blocked = blocked]
  <1>1. fr[t] \in Frame
    BY DEF IInv, TypeOK
  <1>2. CASE rest = {} /\ fr[t].kept /\ Return(t, blocked)
    BY <1>2, Counters, ReturnStepInv
  <1>3. CASE /\ rest = {} /\ ~fr[t].kept
             /\ Goto(t, "readHead")
             /\ fr' = [fr EXCEPT ![t] = headless]
    <2>1. headless \in Frame /\ headless.ret # "none"
      BY <1>1 DEF Frame
    <2> HIDE DEF headless
    <2> QED BY <1>3, <2>1, Counters, PlainStepInv DEF Goto, Labels
  <1>4. CASE \E w \in rest : /\ Goto(t, "probeWaiter")
                             /\ fr' = [fr EXCEPT ![t] = probing(w)]
    <2>1. PICK w \in rest : /\ Goto(t, "probeWaiter")
                            /\ fr' = [fr EXCEPT ![t] = probing(w)]
      BY <1>4
    <2>2. Alive(w.owner) \in BOOLEAN
      BY DEF IInv, TypeOK, Alive, WaiterRow, Identity
    <2>3. probing(w) \in Frame /\ probing(w).row \in WaiterRow
          /\ probing(w).ret # "none"
      <3>1. rest \ {w} \in SUBSET WaiterRow /\ w \in WaiterRow
        BY <2>1
      <3>2. probing(w) \in Frame
        BY <1>1, <2>2, <3>1 DEF Frame
      <3>3. probing(w).row = w /\ probing(w).ret = fr[t].ret
        BY <1>1 DEF Frame
      <3> QED BY <3>1, <3>2, <3>3
    <2> HIDE DEF probing
    <2> QED BY <2>1, <2>3, ProbeStepInv DEF Goto
  <1> QED BY <1>1, <1>2, <1>3, <1>4 DEF NextWaiter, IInv, TypeOK

\* ReadWaiters keeps the invariant.
LEMMA ReadWaitersInv ==
  ASSUME IInv, NEW t \in Threads, ReadWaiters(t)
  PROVE  IInv'
  <1>1. fr[t].blocked \in BOOLEAN /\ fr[t].ret # "none"
    BY RetKnown DEF IInv, TypeOK, Frame, ReadWaiters, At
  <1> QED BY <1>1, Counters, NextWaiterInv DEF ReadWaiters, At, tables, procs

\* WaiterStays keeps the invariant.
LEMMA WaiterStaysInv ==
  ASSUME IInv, NEW t \in Threads, WaiterStays(t)
  PROVE  IInv'
  <1> USE DEF WaiterStays, At, tables, procs
  <1>1. PICK unknown \in BOOLEAN :
          NextWaiter(t, fr[t].todo,
                     fr[t].blocked \/ unknown \/ fr[t].row.claim = NoClaim)
    OBVIOUS
  <1>2. fr[t].todo \in SUBSET WaiterRow /\ fr[t].ret # "none"
    BY RetKnown DEF IInv, TypeOK, Frame
  <1>3. (fr[t].blocked \/ unknown \/ fr[t].row.claim = NoClaim) \in BOOLEAN
    OBVIOUS
  <1> HIDE DEF NoClaim
  <1> QED BY <1>1, <1>2, <1>3, Counters, NextWaiterInv

\* ReapWaiter keeps the invariant.
LEMMA ReapWaiterInv ==
  ASSUME IInv, NEW t \in Threads, ReapWaiter(t)
  PROVE  IInv'
  <1> USE DEF ReapWaiter, At, tables, procs, DeleteWaiter
  <1>1. fr[t].todo \in SUBSET WaiterRow /\ fr[t].ret # "none"
        /\ fr[t].blocked \in BOOLEAN
    BY RetKnown DEF IInv, TypeOK, Frame
  <1> QED BY <1>1, Counters, NextWaiterInv

----------------------------------------------------------------------------
(* promoteHead, where it changes no holder *)

\* Retry keeps the invariant.
LEMMA RetryInv ==
  ASSUME IInv, NEW t \in Threads, Retry(t), fr[t].ret # "none", Running(t),
         held' = held, alive' = alive, start' = start,
         nextId' = nextId, sessions' = sessions, waiters' \subseteq WaiterRow
  PROVE  IInv'
  <1> DEFINE again == [fr[t] EXCEPT !.row = NoRow, !.wasLive = FALSE,
                                    !.tries = @ + 1]
  <1>1. fr[t] \in Frame
    BY DEF IInv, TypeOK
  <1>2. again \in Frame /\ again.ret # "none"
    <2>1. fr[t].tries + 1 \in Nat
      BY <1>1 DEF Frame
    <2> QED BY <1>1, <2>1 DEF Frame
  <1>3. CASE fr[t].tries + 1 < AcquireRaceLimit
    <2>1. Goto(t, "readHead") /\ fr' = [fr EXCEPT ![t] = again]
      BY <1>3, <1>1 DEF Retry, IInv, TypeOK
    <2> HIDE DEF again
    <2> QED BY <1>2, <2>1, Counters, PlainStepInv DEF Goto, Labels
  <1>4. CASE ~(fr[t].tries + 1 < AcquireRaceLimit)
    BY <1>4, Counters, ReturnStepInv DEF Retry
  <1> QED BY <1>3, <1>4

\* ReadHead keeps the invariant.
LEMMA ReadHeadInv ==
  ASSUME IInv, NEW t \in Threads, ReadHead(t)
  PROVE  IInv'
  <1> USE DEF ReadHead, At, tables, procs
  <1>1. fr[t] \in Frame /\ fr[t].ret # "none"
    BY RetKnown DEF IInv, TypeOK
  <1>2. CASE Return(t, FALSE)
    BY <1>1, <1>2, Counters, ReturnStepInv
  <1>3. CASE \E w \in waiters : Probe(t, w, "probeHead")
    <2>1. PICK w \in waiters : Probe(t, w, "probeHead")
      BY <1>3
    <2> DEFINE f == [fr[t] EXCEPT !.row = w, !.wasLive = Alive(w.owner)]
    <2>2. w \in WaiterRow
      BY Counters
    <2>3. Alive(w.owner) \in BOOLEAN
      BY <2>2 DEF IInv, TypeOK, Alive, WaiterRow, Identity
    <2>4. f \in Frame /\ f.row \in WaiterRow /\ f.ret # "none"
      BY <1>1, <2>2, <2>3 DEF Frame
    <2>5. fr' = [fr EXCEPT ![t] = f]
      BY <2>1 DEF Probe, IInv, TypeOK
    <2> HIDE DEF f
    <2> QED BY <2>1, <2>4, <2>5, Counters, ProbeStepInv DEF Probe, Goto
  <1> QED BY <1>2, <1>3

\* HeadBlocks keeps the invariant.
LEMMA HeadBlocksInv ==
  ASSUME IInv, NEW t \in Threads, HeadBlocks(t)
  PROVE  IInv'
  BY RetKnown, Counters, ReturnStepInv DEF HeadBlocks, At, tables, procs

\* ReapHead keeps the invariant.
LEMMA ReapHeadInv ==
  ASSUME IInv, NEW t \in Threads, ReapHead(t)
  PROVE  IInv'
  BY RetKnown, Counters, RetryInv DEF ReapHead, At, tables, procs, DeleteWaiter

----------------------------------------------------------------------------
(* Steps that delete or insert the holder row *)

\* Deleting the holder row preserves the invariant if no other thread is in
\* an action.
LEMMA DropStep ==
  ASSUME IInv, NEW t \in Threads,
         held' = NoRow, \A p \in Pids \ {t} : pc[p] # "action",
         alive' = alive, start' = start, nextId' = nextId, sessions' = sessions,
         waiters' \subseteq WaiterRow,
         fr' \in [Threads -> Frame], pc' \in [Threads -> Labels],
         \A u \in Threads \ {t} : pc'[u] = pc[u] /\ fr'[u] = fr[u],
         ThreadInv(t)'
  PROVE  IInv'
  <1>1. TypeOK'
    BY DEF IInv, TypeOK
  <1>2. ASSUME NEW u \in Threads, u # t
        PROVE  ThreadInv(u)'
    <2>1. ThreadInv(u) /\ pc'[u] = pc[u] /\ fr'[u] = fr[u]
      BY <1>2 DEF IInv, LeaseInv
    <2> QED BY <1>2, <2>1 DEF ThreadInv, Mine, Me
  <1> QED BY <1>1, <1>2 DEF IInv, LeaseInv

\* Inserting a holder row under a new lease id where there was none.
LEMMA GrantStep ==
  ASSUME IInv, NEW t \in Threads,
         held = NoRow, held' \in HolderRow, held'.lease = nextId,
         nextId' = nextId + 1,
         alive' = alive, start' = start, sessions' = sessions,
         waiters' \subseteq WaiterRow,
         fr' \in [Threads -> Frame], pc' \in [Threads -> Labels],
         \A u \in Threads \ {t} : pc'[u] = pc[u] /\ fr'[u] = fr[u],
         ThreadInv(t)'
  PROVE  IInv'
  <1>1. TypeOK'
    BY DEF IInv, TypeOK
  <1>2. ASSUME NEW u \in Threads, u # t
        PROVE  ThreadInv(u)'
    <2>1. ThreadInv(u) /\ pc'[u] = pc[u] /\ fr'[u] = fr[u]
      BY <1>2 DEF IInv, LeaseInv
    <2>2. fr[u].row \in HolderRow => fr[u].row.lease \in Nat
      BY DEF HolderRow
    <2> QED BY <1>2, <2>1, <2>2 DEF IInv, TypeOK, ThreadInv, Mine, Me
  <1> QED BY <1>1, <1>2 DEF IInv, TypeOK, LeaseInv

\* A reaper deletes at most the row of a dead process, and that process is in
\* no action.
LEMMA ReapHolderInv ==
  ASSUME IInv, NEW t \in Threads, ReapHolder(t)
  PROVE  IInv'
  <1> DEFINE f == [fr[t] EXCEPT !.kept = (held' # NoRow)]
  <1>1. fr[t] \in Frame /\ fr[t].ret # "none"
    BY RetKnown DEF IInv, TypeOK, ReapHolder, At
  <1>2. f \in Frame /\ f.ret # "none"
    BY <1>1 DEF Frame
  <1>3. Goto(t, "readWaiters") /\ fr' = [fr EXCEPT ![t] = f]
    BY DEF ReapHolder, IInv, TypeOK
  <1>4. /\ Running(t) /\ alive' = alive /\ start' = start /\ nextId' = nextId
        /\ sessions' = sessions /\ waiters' = waiters
        /\ ~Alive(fr[t].row.owner) /\ DeleteHeld(fr[t].row)
    BY DEF ReapHolder, At, procs, SaysDead
  <1> HIDE DEF f
  <1>5. CASE held' = held
    BY <1>2, <1>3, <1>4, <1>5, Counters, PlainStepInv DEF Goto, Labels
  <1>6. CASE held' # held
    <2>1. held # NoRow /\ held' = NoRow /\ ~Alive(held.owner)
      BY <1>4, <1>6 DEF DeleteHeld
    <2>2. ASSUME NEW p \in Pids \ {t} PROVE pc[p] # "action"
      <3>1. ThreadInv(p)
        BY DEF IInv, LeaseInv, Threads
      <3> QED BY <2>1, <3>1 DEF ThreadInv, Mine, Me, Alive
    <2>3. /\ pc'[t] = "readWaiters" /\ fr'[t] = f
          /\ \A u \in Threads \ {t} : pc'[u] = pc[u] /\ fr'[u] = fr[u]
          /\ fr' \in [Threads -> Frame] /\ pc' \in [Threads -> Labels]
      BY <1>2, <1>3, OthersStay DEF Goto, Labels
    <2>4. ThreadInv(t)'
      BY <1>2, <1>4, <2>3 DEF ThreadInv, Running
    <2> QED BY <1>4, <2>1, <2>2, <2>3, <2>4, Counters, DropStep
  <1> QED BY <1>5, <1>6

\* Promote keeps the invariant.
LEMMA PromoteInv ==
  ASSUME IInv, NEW t \in Threads, Promote(t)
  PROVE  IInv'
  <1>1. /\ fr[t].row \in WaiterRow /\ fr[t].ret # "none" /\ Running(t)
        /\ alive' = alive /\ start' = start /\ sessions' = sessions
    BY RetKnown DEF IInv, LeaseInv, ThreadInv, Promote, At, procs
  <1>2. CASE Promotable(fr[t].row)
    <2>1. /\ held = NoRow /\ nextId' = nextId + 1 /\ Return(t, FALSE)
          /\ held' = [owner |-> fr[t].row.owner, claim |-> fr[t].row.claim,
                      lease |-> nextId]
          /\ waiters' \subseteq waiters
      BY <1>2 DEF Promote, Promotable, DeleteWaiter
    <2>2. held' \in HolderRow /\ held'.lease = nextId
      BY <1>1, <2>1, Counters DEF HolderRow, WaiterRow
    <2>3. ThreadInv(t)'
      BY <1>1, <2>1, ReturnInv
    <2>4. \A u \in Threads \ {t} : pc'[u] = pc[u] /\ fr'[u] = fr[u]
      BY <2>1, OthersStay DEF Return, Goto
    <2>5. fr' \in [Threads -> Frame] /\ pc' \in [Threads -> Labels]
      BY <1>1, <2>1, ReturnType DEF IInv
    <2> QED BY <1>1, <2>1, <2>2, <2>3, <2>4, <2>5, Counters, GrantStep
  <1>3. CASE ~Promotable(fr[t].row)
    BY <1>1, <1>3, Counters, RetryInv DEF Promote, tables
  <1> QED BY <1>2, <1>3

\* The release deletes the row its own call holds; whoever is in an action
\* owns the row too, so it is nobody else.
LEMMA DeleteHolderInv ==
  ASSUME IInv, NEW p \in Pids, DeleteHolder(p)
  PROVE  IInv'
  <1> DEFINE after == IF held' = held THEN "release"
                      ELSE IF fr[p].timedOut THEN "released" ELSE "done"
  <1>1. p \in Threads /\ after \in Returns \ {"none"}
    BY DEF Threads, Returns
  <1>2. /\ Running(p) /\ alive' = alive /\ start' = start /\ nextId' = nextId
        /\ sessions' = sessions /\ waiters' = waiters
        /\ DeleteHeld(fr[p].row) /\ Reconcile(p, after)
    BY DEF DeleteHolder, At, procs
  <1> HIDE DEF after
  <1>3. CASE held' = held
    BY <1>1, <1>2, <1>3, Counters, ReconcileStepInv
  <1>4. CASE held' # held
    <2>1. Mine(p, fr[p].row)
      BY <1>1 DEF IInv, LeaseInv, ThreadInv, DeleteHolder, At
    <2>2. held # NoRow /\ held' = NoRow /\ held.owner = Me(p)
      BY <1>2, <1>4, <2>1 DEF DeleteHeld, Mine
    <2>3. ASSUME NEW q \in Pids \ {p} PROVE pc[q] # "action"
      <3>1. ThreadInv(q)
        BY DEF IInv, LeaseInv, Threads
      <3> QED BY <2>2, <3>1 DEF ThreadInv, Mine, Me
    <2>4. ThreadInv(p)'
      BY <1>1, <1>2, ReconcileInv
    <2>5. \A u \in Threads \ {p} : pc'[u] = pc[u] /\ fr'[u] = fr[u]
      BY <1>1, <1>2, OthersStay DEF Reconcile, Goto
    <2>6. fr' \in [Threads -> Frame] /\ pc' \in [Threads -> Labels]
      BY <1>1, <1>2, ReconcileType DEF IInv
    <2> QED BY <1>1, <1>2, <2>2, <2>3, <2>4, <2>5, <2>6, Counters, DropStep
  <1> QED BY <1>3, <1>4

----------------------------------------------------------------------------
(* acquire and release *)

\* A frame has its claim and its attempts as numbers.
LEMMA ClaimKnown ==
  ASSUME IInv, NEW t \in Threads
  PROVE  fr[t] \in Frame /\ fr[t].claim \in Nat /\ fr[t].attempt + 1 \in Nat
  <1>1. fr[t] \in Frame
    BY DEF IInv, TypeOK
  <1> QED BY <1>1 DEF Frame

\* AcquireAgain keeps the invariant.
LEMMA AcquireAgainInv ==
  ASSUME IInv, NEW p \in Pids, AcquireAgain(p), Running(p),
         held' = held, alive' = alive, start' = start,
         nextId' = nextId, sessions' = sessions, waiters' \subseteq WaiterRow
  PROVE  IInv'
  <1> DEFINE f == [NoCall EXCEPT !.ret = "acquire", !.attempt = fr[p].attempt + 1,
                                 !.claim = fr[p].claim]
  <1>1. p \in Threads
    BY DEF Threads
  <1>2. f \in Frame /\ f.ret # "none"
    <2>1. fr[p].claim \in Nat /\ fr[p].attempt + 1 \in Nat
      BY <1>1, ClaimKnown
    <2>2. "acquire" \in Returns /\ "acquire" # "none"
      BY DEF Returns
    <2>3. f \in Frame /\ f.ret = "acquire"
      BY <2>1, <2>2, NoCallType DEF Frame
    <2> QED BY <2>2, <2>3
  <1>3. CASE fr[p].attempt + 1 < AcquireRaceLimit
    <2>1. Goto(p, "readHolder") /\ fr' = [fr EXCEPT ![p] = f]
      BY <1>3 DEF AcquireAgain
    <2> HIDE DEF f
    <2> QED BY <1>1, <1>2, <2>1, Counters, PlainStepInv DEF Goto, Labels
  <1>4. CASE ~(fr[p].attempt + 1 < AcquireRaceLimit)
    <2>1. Reconcile(p, "poll")
      BY <1>4 DEF AcquireAgain
    <2> QED BY <1>1, <2>1, Counters, ReconcileStepInv DEF Returns
  <1> QED BY <1>3, <1>4

\* Entering the action with the row in hand.
LEMMA EnterInv ==
  ASSUME IInv, NEW p \in Pids, Mine(p, held), Goto(p, "action"), Running(p),
         UNCHANGED <<tables, procs, fr>>
  PROVE  IInv'
  <1>1. p \in Threads
    BY DEF Threads
  <1>2. pc' = [pc EXCEPT ![p] = "action"] /\ fr' = [fr EXCEPT ![p] = fr[p]]
    BY DEF Goto, IInv, TypeOK
  <1>3. /\ pc'[p] = "action" /\ fr'[p] = fr[p]
        /\ \A u \in Threads \ {p} : pc'[u] = pc[u] /\ fr'[u] = fr[u]
        /\ fr' \in [Threads -> Frame] /\ pc' \in [Threads -> Labels]
    <2>1. fr[p] \in Frame /\ "action" \in Labels
      BY <1>1, ClaimKnown DEF Labels
    <2> QED BY <1>1, <1>2, <2>1, OthersStay
  <1>4. ThreadInv(p)'
    BY <1>3 DEF ThreadInv, Running, Mine, Me, tables, procs
  <1> QED BY <1>1, <1>3, <1>4, Counters, LocalStep DEF tables, procs

\* Moving on with the same locals.
LEMMA MoveInv ==
  ASSUME IInv, NEW p \in Pids, NEW l \in {"poll", "direct", "enqueue", "done"},
         Goto(p, l), Running(p), UNCHANGED <<tables, procs, fr>>
  PROVE  IInv'
  <1>1. p \in Threads /\ l \in Labels
    BY DEF Threads, Labels
  <1>2. fr' = [fr EXCEPT ![p] = fr[p]]
    BY DEF IInv, TypeOK
  <1> QED
    BY <1>1, <1>2, ClaimKnown, Counters, PlainStepInv DEF Goto, tables, procs

\* Decide keeps the invariant.
LEMMA DecideInv ==
  ASSUME IInv, NEW p \in Pids, Decide(p)
  PROVE  IInv'
  BY EnterInv, MoveInv DEF Decide, At

\* AcquireDirect keeps the invariant.
LEMMA AcquireDirectInv ==
  ASSUME IInv, NEW p \in Pids, AcquireDirect(p)
  PROVE  IInv'
  <1>1. p \in Threads /\ Running(p) /\ alive' = alive /\ start' = start
        /\ sessions' = sessions
    BY DEF Threads, AcquireDirect, At, procs
  <1>2. CASE DirectAllowed(p)
    <2>1. /\ held = NoRow /\ waiters' = waiters /\ nextId' = nextId + 1
          /\ held' = [owner |-> Me(p), claim |-> fr[p].claim, lease |-> nextId]
          /\ pc' = [pc EXCEPT ![p] = "action"] /\ fr' = [fr EXCEPT ![p] = fr[p]]
      BY <1>2 DEF AcquireDirect, DirectAllowed, Goto, IInv, TypeOK
    <2>2. held' \in HolderRow /\ held'.lease = nextId /\ held' # NoRow
      BY <1>1, <2>1, ClaimKnown, RowAssumption
      DEF HolderRow, Identity, Me, IInv, TypeOK
    <2>3. /\ pc'[p] = "action" /\ fr'[p] = fr[p]
          /\ \A u \in Threads \ {p} : pc'[u] = pc[u] /\ fr'[u] = fr[u]
          /\ fr' \in [Threads -> Frame] /\ pc' \in [Threads -> Labels]
      <3>1. fr[p] \in Frame /\ "action" \in Labels
        BY <1>1, ClaimKnown DEF Labels
      <3> QED BY <1>1, <2>1, <3>1, OthersStay
    <2>4. ThreadInv(p)'
      BY <1>1, <2>1, <2>2, <2>3 DEF ThreadInv, Running, Mine, Me
    <2> QED BY <1>1, <2>1, <2>2, <2>3, <2>4, Counters, GrantStep
  <1>3. CASE ~DirectAllowed(p)
    BY <1>1, <1>3, Counters, AcquireAgainInv DEF AcquireDirect, tables
  <1> QED BY <1>2, <1>3

\* Enqueue keeps the invariant.
LEMMA EnqueueInv ==
  ASSUME IInv, NEW p \in Pids, Enqueue(p)
  PROVE  IInv'
  <1>1. /\ p \in Threads /\ Running(p) /\ alive' = alive /\ start' = start
        /\ sessions' = sessions /\ held' = held /\ Reconcile(p, "queued")
    BY DEF Threads, Enqueue, At, procs
  <1>2. [owner |-> Me(p), claim |-> fr[p].claim, seq |-> nextId] \in WaiterRow
    BY <1>1, ClaimKnown, Counters DEF WaiterRow, Identity, Me, IInv, TypeOK
  <1>3. nextId' \in Nat /\ nextId <= nextId' /\ waiters' \subseteq WaiterRow
    BY <1>2, Counters DEF Enqueue
  <1> QED BY <1>1, <1>3, Counters, ReconcileStepInv DEF Returns

\* AfterQueue keeps the invariant.
LEMMA AfterQueueInv ==
  ASSUME IInv, NEW p \in Pids, AfterQueue(p)
  PROVE  IInv'
  BY EnterInv, MoveInv, AcquireAgainInv, Counters DEF AfterQueue, At, tables, procs

\* ReleaseCheck keeps the invariant.
LEMMA ReleaseCheckInv ==
  ASSUME IInv, NEW p \in Pids, ReleaseCheck(p)
  PROVE  IInv'
  <1>1. p \in Threads /\ Running(p) /\ UNCHANGED <<tables, procs>>
    BY DEF Threads, ReleaseCheck, At
  <1>2. CASE /\ Mine(p, held)
             /\ Goto(p, "deleteHolder")
             /\ fr' = [fr EXCEPT ![p].row = held]
    <2> DEFINE f == [fr[p] EXCEPT !.row = held]
    <2>1. f \in Frame /\ f.row = held /\ f.claim = fr[p].claim
      BY <1>1, ClaimKnown DEF IInv, TypeOK, Frame
    <2>2. fr' = [fr EXCEPT ![p] = f] /\ pc' = [pc EXCEPT ![p] = "deleteHolder"]
      BY <1>2 DEF Goto, IInv, TypeOK
    <2> HIDE DEF f
    <2>3. /\ pc'[p] = "deleteHolder" /\ fr'[p] = f
          /\ \A u \in Threads \ {p} : pc'[u] = pc[u] /\ fr'[u] = fr[u]
          /\ fr' \in [Threads -> Frame] /\ pc' \in [Threads -> Labels]
      BY <1>1, <2>1, <2>2, OthersStay DEF Labels
    <2>4. held \in HolderRow /\ held # NoRow /\ held.lease < nextId
      BY <1>2 DEF IInv, TypeOK, LeaseInv, Mine
    <2>5. ThreadInv(p)'
      BY <1>1, <1>2, <2>1, <2>3, <2>4
      DEF ThreadInv, Running, Mine, Me, tables, procs
    <2> QED BY <1>1, <2>3, <2>5, Counters, LocalStep DEF tables, procs
  <1>3. CASE IF fr[p].timedOut THEN Reconcile(p, "done")
             ELSE Goto(p, "done") /\ UNCHANGED fr
    BY <1>1, <1>3, Counters, ReconcileStepInv, MoveInv DEF Returns, tables, procs
  <1> QED BY <1>2, <1>3 DEF ReleaseCheck

\* Released keeps the invariant.
LEMMA ReleasedInv ==
  ASSUME IInv, NEW p \in Pids, Released(p)
  PROVE  IInv'
  BY Counters, ReconcileStepInv DEF Released, At, Returns, Threads, tables, procs

----------------------------------------------------------------------------
(* The guard and the processes *)

\* Begin keeps the invariant.
LEMMA BeginInv ==
  ASSUME IInv, NEW p \in Pids, Begin(p)
  PROVE  IInv'
  <1> DEFINE f == [NoCall EXCEPT !.ret = "acquire", !.claim = sessions']
  <1>1. p \in Threads /\ sessions' \in Nat
    BY DEF Threads, Begin, IInv, TypeOK
  <1>2. f \in Frame /\ f.ret # "none"
    BY <1>1, NoCallType DEF Frame, Returns
  <1>3. Goto(p, "readHolder") /\ fr' = [fr EXCEPT ![p] = f]
    BY DEF Begin
  <1> HIDE DEF f
  <1> QED BY <1>1, <1>2, <1>3, Counters, PlainStepInv
          DEF Begin, At, Goto, Labels, tables

\* Poll keeps the invariant.
LEMMA PollInv ==
  ASSUME IInv, NEW p \in Pids, Poll(p)
  PROVE  IInv'
  <1> DEFINE f == [NoCall EXCEPT !.ret = "acquire", !.claim = fr[p].claim]
  <1>1. p \in Threads
    BY DEF Threads
  <1>2. f \in Frame /\ f.ret # "none"
    <2>1. fr[p].claim \in Nat
      BY <1>1, ClaimKnown
    <2> QED BY <2>1, NoCallType DEF Frame, Returns
  <1>3. Goto(p, "readHolder") /\ fr' = [fr EXCEPT ![p] = f]
    BY DEF Poll
  <1> HIDE DEF f
  <1> QED BY <1>1, <1>2, <1>3, Counters, PlainStepInv
          DEF Poll, At, Goto, Labels, tables, procs

\* CancelWait keeps the invariant.
LEMMA CancelWaitInv ==
  ASSUME IInv, NEW t \in Threads, CancelWait(t), Running(t),
         UNCHANGED <<held, nextId, procs>>
  PROVE  IInv'
  <1> DEFINE f == [NoCall EXCEPT !.claim = fr[t].claim, !.timedOut = TRUE]
  <1>1. f \in Frame
    BY ClaimKnown, NoCallType DEF Frame
  <1>2. /\ Goto(t, "timedOut") /\ fr' = [fr EXCEPT ![t] = f]
        /\ waiters' \subseteq WaiterRow
    BY Counters DEF CancelWait
  <1> HIDE DEF f
  <1> QED BY <1>1, <1>2, Counters, PlainStepInv DEF Goto, Labels, procs

\* TimeOut keeps the invariant.
LEMMA TimeOutInv ==
  ASSUME IInv, NEW p \in Pids, TimeOut(p)
  PROVE  IInv'
  BY CancelWaitInv DEF TimeOut, At, Threads

\* TimedOut keeps the invariant.
LEMMA TimedOutInv ==
  ASSUME IInv, NEW p \in Pids, TimedOut(p)
  PROVE  IInv'
  <1>1. PICK r \in {"release", "done"} : Reconcile(p, r)
    BY DEF TimedOut
  <1> QED BY <1>1, Counters, ReconcileStepInv
          DEF TimedOut, At, Returns, Threads, tables, procs

\* FinishAction keeps the invariant.
LEMMA FinishActionInv ==
  ASSUME IInv, NEW p \in Pids, FinishAction(p)
  PROVE  IInv'
  BY Counters, ReconcileStepInv DEF FinishAction, At, Returns, Threads, tables, procs

\* Done keeps the invariant.
LEMMA DoneInv ==
  ASSUME IInv, NEW t \in Threads, Done(t)
  PROVE  IInv'
  BY NoCallType, Counters, PlainStepInv
  DEF Done, At, Goto, Labels, tables, procs

\* Observe keeps the invariant.
LEMMA ObserveInv ==
  ASSUME IInv, NEW o \in Observers, Observe(o)
  PROVE  IInv'
  <1>1. Running(o)
    BY LeaseAssumption DEF Running
  <1> QED BY <1>1, Counters, ReconcileStepInv
          DEF Observe, Returns, Threads, tables, procs

\* StoreThrows keeps the invariant.
LEMMA StoreThrowsInv ==
  ASSUME IInv, NEW t \in Threads, StoreThrows(t)
  PROVE  IInv'
  <1>1. CASE Goto(t, "done") /\ UNCHANGED <<fr, waiters>>
    <2>1. fr' = [fr EXCEPT ![t] = fr[t]] /\ waiters' \subseteq WaiterRow
      BY <1>1, Counters DEF IInv, TypeOK
    <2> QED BY <1>1, <2>1, ClaimKnown, Counters, PlainStepInv
            DEF StoreThrows, Goto, Labels, procs
  <1>2. CASE CancelWait(t)
    BY <1>2, CancelWaitInv DEF StoreThrows
  <1> QED BY <1>1, <1>2 DEF StoreThrows

\* The end of a process ends its call; nothing else looks at its liveness.
LEMMA CrashInv ==
  ASSUME IInv, NEW p \in Pids, Crash(p)
  PROVE  IInv'
  <1>1. p \in Threads
    BY DEF Threads
  <1>2. /\ pc'[p] = "idle" /\ fr'[p] = NoCall
        /\ \A u \in Threads \ {p} : pc'[u] = pc[u] /\ fr'[u] = fr[u]
        /\ fr' \in [Threads -> Frame] /\ pc' \in [Threads -> Labels]
    BY <1>1, NoCallType, OthersStay DEF Crash, Goto, Labels
  <1>3. /\ alive' \in [Pids -> BOOLEAN] /\ \A q \in Pids \ {p} : alive'[q] = alive[q]
        /\ UNCHANGED <<held, waiters, nextId, start, sessions>>
    BY DEF Crash, tables, IInv, TypeOK
  <1>4. TypeOK'
    BY <1>2, <1>3 DEF IInv, TypeOK
  <1>5. ASSUME NEW u \in Threads PROVE ThreadInv(u)'
    <2>1. CASE u = p
      BY <1>2, <2>1 DEF ThreadInv
    <2>2. CASE u # p
      <3>1. ThreadInv(u) /\ pc'[u] = pc[u] /\ fr'[u] = fr[u]
        BY <1>2, <2>2 DEF IInv, LeaseInv
      <3> QED BY <1>3, <2>2, <3>1 DEF ThreadInv, Mine, Me
    <2> QED BY <2>1, <2>2
  <1> QED BY <1>3, <1>4, <1>5 DEF IInv, LeaseInv

\* A new process under a freed pid has a new identity and no call.
LEMMA RestartInv ==
  ASSUME IInv, NEW p \in Pids, Restart(p)
  PROVE  IInv'
  <1>1. /\ ~alive[p] /\ alive' = [alive EXCEPT ![p] = TRUE]
        /\ start' = [start EXCEPT ![p] = start[p] + 1]
        /\ UNCHANGED <<held, waiters, nextId, sessions, pc, fr>>
    BY DEF Restart, tables, IInv, TypeOK
  <1>2. TypeOK'
    BY <1>1 DEF IInv, TypeOK
  <1>3. ASSUME NEW u \in Threads PROVE ThreadInv(u)'
    <2>1. ThreadInv(u)
      BY DEF IInv, LeaseInv
    <2>2. CASE u = p
      BY <1>1, <2>1, <2>2 DEF ThreadInv
    <2>3. CASE u # p
      <3>1. u \in Pids => start'[u] = start[u] /\ alive'[u] = alive[u]
        BY <1>1, <2>3 DEF IInv, TypeOK
      <3> QED BY <1>1, <2>1, <3>1 DEF ThreadInv, Mine, Me
    <2> QED BY <2>2, <2>3
  <1> QED BY <1>1, <1>2, <1>3 DEF IInv, LeaseInv

----------------------------------------------------------------------------
(* The theorems *)

\* Every step keeps the invariant.
LEMMA NextInv ==
  ASSUME IInv, [Next]_vars
  PROVE  IInv'
  <1>1. ASSUME NEW t \in Threads, ReconcileStep(t) PROVE IInv'
    BY <1>1, ReadHolderInv, HolderStaysInv, ReapHolderInv, ReadWaitersInv,
       WaiterStaysInv, ReapWaiterInv, ReadHeadInv, HeadBlocksInv, ReapHeadInv,
       PromoteInv, DoneInv DEF ReconcileStep
  <1>2. ASSUME NEW p \in Pids, GuardStep(p) PROVE IInv'
    BY <1>2, DecideInv, AcquireDirectInv, EnqueueInv, AfterQueueInv,
       ReleaseCheckInv, DeleteHolderInv, ReleasedInv, PollInv, TimeOutInv,
       TimedOutInv, FinishActionInv DEF GuardStep
  <1>3. ASSUME UNCHANGED vars PROVE IInv'
    BY <1>3 DEF vars, IInv, TypeOK, LeaseInv, ThreadInv, Mine, Me
  <1> QED BY <1>1, <1>2, <1>3, StoreThrowsInv, BeginInv, CrashInv, RestartInv,
             ObserveInv DEF Next

\* The invariant of the tables and of the calls in flight holds always.
THEOREM Invariance == Spec => []IInv
  BY InitInv, NextInv, PTL DEF Spec

\* Every reachable state has the types of the model.
THEOREM TypeCorrectness == Spec => []TypeOK
  <1>1. IInv => TypeOK
    BY DEF IInv
  <1> QED BY <1>1, Invariance, PTL

\* No two processes are in a governed action of one resource at once, for any
\* number of processes, calls, crashes, pid reuses and faults.
THEOREM Exclusion == Spec => []MutualExclusion
  <1>1. IInv => MutualExclusion
    <2> SUFFICES ASSUME IInv, NEW p \in Pids, NEW q \in Pids,
                        pc[p] = "action", pc[q] = "action"
                 PROVE  p = q
      BY DEF MutualExclusion
    <2>1. Mine(p, held) /\ Mine(q, held)
      BY DEF IInv, LeaseInv, ThreadInv, Threads
    <2> QED BY <2>1 DEF Mine, Me
  <1> QED BY <1>1, Invariance, PTL

\* Which steps change the holder row, and how.
LEMMA HeldChanges ==
  ASSUME Next
  PROVE  \/ held' = held
         \/ held = NoRow
         \/ \E t \in Threads : ReapHolder(t)
         \/ \E p \in Pids : DeleteHolder(p)
  <1>1. ASSUME NEW t \in Threads, ReconcileStep(t) PROVE
          held' = held \/ held = NoRow \/ ReapHolder(t)
    BY <1>1 DEF ReconcileStep, ReadHolder, HolderStays, ReadWaiters, WaiterStays,
       ReapWaiter, ReadHead, HeadBlocks, ReapHead, Promote, Promotable, Done, tables
  <1>2. ASSUME NEW p \in Pids, GuardStep(p) PROVE
          held' = held \/ held = NoRow \/ DeleteHolder(p)
    BY <1>2 DEF GuardStep, Decide, AcquireDirect, DirectAllowed, Enqueue,
       AfterQueue, ReleaseCheck, Released, Poll, TimeOut, TimedOut,
       FinishAction, tables
  <1> QED BY <1>1, <1>2 DEF Next, StoreThrows, Begin, Crash, Restart, Observe, tables

\* The lease of a live process goes only by the release of the call that
\* holds it, whatever stale rows and stale probe answers are in flight.
THEOREM LiveLease == Spec => LiveLeaseKept
  <1> DEFINE Kept == held # NoRow /\ held' # held =>
                \/ ~Alive(held.owner)
                \/ LET p == held.owner.pid
                   IN pc[p] = "deleteHolder" /\ held.claim = fr[p].claim
  <1>1. IInv /\ [Next]_vars => [Kept]_vars
    <2> SUFFICES ASSUME IInv, Next, held # NoRow, held' # held
                 PROVE  \/ ~Alive(held.owner)
                        \/ /\ pc[held.owner.pid] = "deleteHolder"
                           /\ held.claim = fr[held.owner.pid].claim
      OBVIOUS
    <2>1. CASE \E t \in Threads : ReapHolder(t)
      BY <2>1 DEF ReapHolder, DeleteHeld, SaysDead
    <2>2. CASE \E p \in Pids : DeleteHolder(p)
      <3>1. PICK p \in Pids : DeleteHolder(p)
        BY <2>2
      <3>2. /\ pc[p] = "deleteHolder"
            /\ held.lease = fr[p].row.lease
            /\ ThreadInv(p)
        BY <3>1 DEF DeleteHolder, At, DeleteHeld, IInv, LeaseInv, Threads
      <3>3. held = fr[p].row /\ Mine(p, fr[p].row)
        BY <3>2 DEF ThreadInv
      <3> QED BY <3>2, <3>3 DEF Mine, Me
    <2> QED BY <2>1, <2>2, HeldChanges
  <1> QED BY <1>1, Invariance, PTL DEF Spec, LiveLeaseKept

----------------------------------------------------------------------------
(* What a step does to the thread that makes it *)

Reconciling == {"readHolder", "probeHolder", "readWaiters", "probeWaiter",
                "readHead", "probeHead"}

\* The other threads stand still.
Others(t) == \A u \in Threads \ {t} : pc'[u] = pc[u] /\ fr'[u] = fr[u]

\* A step inside reconcile: on to the next one, or back to the caller.
Within(t) ==
    /\ pc[t] \in Reconciling
    /\ Others(t)
    /\ fr'[t].claim = fr[t].claim
    /\ fr'[t].timedOut = fr[t].timedOut
    /\ \/ pc'[t] \in Reconciling /\ fr'[t].ret = fr[t].ret
       \/ pc'[t] = fr[t].ret /\ fr'[t].ret = "none"

\* A step of a guard outside reconcile: it calls reconcile, moves on with the
\* same locals, picks the row to delete, or gives up.
Guarding(p) ==
    /\ pc[p] \notin Reconciling \cup {"idle", "done"}
    /\ Others(p)
    /\ fr'[p].claim = fr[p].claim
    /\ \/ /\ pc'[p] = "readHolder"
          /\ fr'[p].ret \in Returns \ {"none"}
          /\ fr'[p].timedOut => fr[p].timedOut
       \/ /\ pc'[p] \in {"action", "poll", "direct", "enqueue", "done"}
          /\ fr'[p] = fr[p]
       \/ /\ pc[p] = "release" /\ pc'[p] = "deleteHolder"
          /\ fr'[p].ret = fr[p].ret /\ fr'[p].timedOut = fr[p].timedOut
       \/ TimeOut(p) /\ pc'[p] = "timedOut" /\ fr'[p].ret = "none"

\* A call of reconcile, seen from the locals of the caller.
LEMMA CallShape ==
  ASSUME IInv, NEW t \in Threads, NEW r, Reconcile(t, r)
  PROVE  /\ Others(t) /\ pc'[t] = "readHolder" /\ fr'[t].ret = r
         /\ fr'[t].claim = fr[t].claim /\ fr'[t].timedOut = fr[t].timedOut
  <1> DEFINE f == [NoCall EXCEPT !.ret = r, !.attempt = fr[t].attempt,
                       !.claim = fr[t].claim, !.timedOut = fr[t].timedOut]
  <1>1. f.ret = r /\ f.claim = fr[t].claim /\ f.timedOut = fr[t].timedOut
    BY DEF NoCall
  <1>2. pc' = [pc EXCEPT ![t] = "readHolder"] /\ fr' = [fr EXCEPT ![t] = f]
    BY DEF Reconcile, Goto
  <1> HIDE DEF f
  <1> QED BY <1>1, <1>2, OthersStay DEF Others

\* A return from it.
LEMMA ReturnShape ==
  ASSUME IInv, NEW t \in Threads, NEW b, Return(t, b), pc[t] \in Reconciling
  PROVE  Within(t)
  <1> DEFINE f == [NoCall EXCEPT !.blocked = fr[t].blocked \/ b,
                       !.attempt = fr[t].attempt,
                       !.claim = fr[t].claim, !.timedOut = fr[t].timedOut]
  <1>1. f.ret = "none" /\ f.claim = fr[t].claim /\ f.timedOut = fr[t].timedOut
    BY DEF NoCall
  <1>2. pc' = [pc EXCEPT ![t] = fr[t].ret] /\ fr' = [fr EXCEPT ![t] = f]
    BY DEF Return, Goto
  <1> HIDE DEF f
  <1> QED BY <1>1, <1>2, OthersStay DEF Others, Within

\* A step to another label of reconcile with locals f.
LEMMA OnShape ==
  ASSUME IInv, NEW t \in Threads, NEW l \in Reconciling, NEW f,
         Goto(t, l), fr' = [fr EXCEPT ![t] = f], pc[t] \in Reconciling,
         f.ret = fr[t].ret, f.claim = fr[t].claim, f.timedOut = fr[t].timedOut
  PROVE  Within(t)
  BY OthersStay DEF Goto, Others, Within

\* Going on to the next waiter, or to the promotion, touches no table.
LEMMA NextWaiterShape ==
  ASSUME IInv, NEW t \in Threads, NEW rest, NEW b, NextWaiter(t, rest, b),
         pc[t] \in Reconciling
  PROVE  Within(t)
  <1>1. fr[t] \in Frame
    BY DEF IInv, TypeOK
  <1>2. CASE Return(t, b)
    BY <1>2, ReturnShape
  <1> DEFINE last == [fr[t] EXCEPT !.todo = {}, !.row = NoRow,
                                   !.wasLive = FALSE, !.blocked = b]
             next(w) == [fr[t] EXCEPT !.todo = rest \ {w}, !.row = w,
                                 !.wasLive = Alive(w.owner), !.blocked = b]
  <1>3. CASE Goto(t, "readHead") /\ fr' = [fr EXCEPT ![t] = last]
    <2>1. /\ last.ret = fr[t].ret /\ last.claim = fr[t].claim
          /\ last.timedOut = fr[t].timedOut
      BY <1>1 DEF Frame
    <2> HIDE DEF last
    <2> QED BY <1>3, <2>1, OnShape DEF Reconciling
  <1>4. CASE \E w \in rest : Goto(t, "probeWaiter") /\ fr' = [fr EXCEPT ![t] = next(w)]
    <2>1. PICK w \in rest : Goto(t, "probeWaiter") /\ fr' = [fr EXCEPT ![t] = next(w)]
      BY <1>4
    <2>2. /\ next(w).ret = fr[t].ret /\ next(w).claim = fr[t].claim
          /\ next(w).timedOut = fr[t].timedOut
      BY <1>1 DEF Frame
    <2> HIDE DEF next
    <2> QED BY <2>1, <2>2, OnShape DEF Reconciling
  <1> QED BY <1>1, <1>2, <1>3, <1>4 DEF NextWaiter, IInv, TypeOK

\* A retry of reconcile touches no table.
LEMMA RetryShape ==
  ASSUME IInv, NEW t \in Threads, Retry(t), pc[t] \in Reconciling
  PROVE  Within(t)
  <1>1. fr[t] \in Frame
    BY DEF IInv, TypeOK
  <1>2. CASE Return(t, FALSE)
    BY <1>2, ReturnShape
  <1> DEFINE again == [fr[t] EXCEPT !.row = NoRow, !.wasLive = FALSE,
                                    !.tries = @ + 1]
  <1>3. CASE Goto(t, "readHead") /\ fr' = [fr EXCEPT ![t] = again]
    <2>1. /\ again.ret = fr[t].ret /\ again.claim = fr[t].claim
          /\ again.timedOut = fr[t].timedOut
      BY <1>1 DEF Frame
    <2> HIDE DEF again
    <2> QED BY <1>3, <2>1, OnShape DEF Reconciling
  <1> QED BY <1>1, <1>2, <1>3 DEF Retry, IInv, TypeOK

\* Starting a probe.
LEMMA ProbeShape ==
  ASSUME IInv, NEW t \in Threads, NEW row, NEW l \in Reconciling,
         Probe(t, row, l), pc[t] \in Reconciling
  PROVE  Within(t)
  <1> DEFINE f == [fr[t] EXCEPT !.row = row, !.wasLive = Alive(row.owner)]
  <1>1. fr[t] \in Frame
    BY DEF IInv, TypeOK
  <1>2. f.ret = fr[t].ret /\ f.claim = fr[t].claim /\ f.timedOut = fr[t].timedOut
    BY <1>1 DEF Frame
  <1>3. Goto(t, l) /\ fr' = [fr EXCEPT ![t] = f]
    BY DEF Probe, IInv, TypeOK
  <1> HIDE DEF f
  <1> QED BY <1>2, <1>3, OnShape

\* Every step of reconcile is of that shape.
LEMMA WithinStep ==
  ASSUME IInv, NEW t \in Threads, ReconcileStep(t)
  PROVE  Done(t) \/ Within(t)
  <1> USE DEF At, Reconciling
  <1>1. fr[t] \in Frame
    BY DEF IInv, TypeOK
  <1>2. CASE ReadHolder(t)
    <2>1. CASE Goto(t, "readWaiters") /\ UNCHANGED fr
      <3>1. fr' = [fr EXCEPT ![t] = fr[t]]
        BY <2>1 DEF IInv, TypeOK
      <3> QED BY <1>2, <2>1, <3>1, OnShape DEF ReadHolder
    <2> QED BY <1>2, <2>1, ProbeShape DEF ReadHolder
  <1>3. CASE HolderStays(t)
    <2>1. PICK b \in BOOLEAN :
            fr' = [fr EXCEPT ![t] = [fr[t] EXCEPT !.kept = TRUE, !.blocked = b]]
      BY <1>3 DEF HolderStays, IInv, TypeOK
    <2> DEFINE f == [fr[t] EXCEPT !.kept = TRUE, !.blocked = b]
    <2>2. f.ret = fr[t].ret /\ f.claim = fr[t].claim /\ f.timedOut = fr[t].timedOut
      BY <1>1 DEF Frame
    <2>3. fr' = [fr EXCEPT ![t] = f]
      BY <2>1
    <2> HIDE DEF f
    <2> QED BY <1>3, <2>2, <2>3, OnShape DEF HolderStays
  <1>4. CASE ReapHolder(t)
    <2> DEFINE f == [fr[t] EXCEPT !.kept = (held' # NoRow)]
    <2>1. f.ret = fr[t].ret /\ f.claim = fr[t].claim /\ f.timedOut = fr[t].timedOut
      BY <1>1 DEF Frame
    <2>2. fr' = [fr EXCEPT ![t] = f]
      BY <1>4 DEF ReapHolder, IInv, TypeOK
    <2> HIDE DEF f
    <2> QED BY <1>4, <2>1, <2>2, OnShape DEF ReapHolder
  <1>5. CASE ReadWaiters(t)
    BY <1>5, NextWaiterShape DEF ReadWaiters
  <1>6. CASE WaiterStays(t)
    <2>1. pc[t] \in Reconciling
      BY <1>6 DEF WaiterStays
    <2>2. \E b : NextWaiter(t, fr[t].todo, b)
      BY <1>6 DEF WaiterStays
    <2> QED BY <2>1, <2>2, NextWaiterShape
  <1>7. CASE ReapWaiter(t)
    BY <1>7, NextWaiterShape DEF ReapWaiter
  <1>8. CASE ReadHead(t)
    BY <1>8, ReturnShape, ProbeShape DEF ReadHead
  <1>9. CASE HeadBlocks(t)
    BY <1>9, ReturnShape DEF HeadBlocks
  <1>10. CASE ReapHead(t)
    BY <1>10, RetryShape DEF ReapHead
  <1>11. CASE Promote(t)
    BY <1>11, RetryShape, ReturnShape DEF Promote
  <1> QED BY <1>2, <1>3, <1>4, <1>5, <1>6, <1>7, <1>8, <1>9, <1>10, <1>11
          DEF ReconcileStep

\* The guard of a process, label by label.
LEMMA GuardingStep ==
  ASSUME IInv, NEW p \in Pids, GuardStep(p)
  PROVE  Guarding(p)
  <1> USE DEF At
  <1>0. p \in Threads
    BY DEF Threads
  <1>1. fr[p] \in Frame
    BY <1>0 DEF IInv, TypeOK
  <1>a. ASSUME NEW r \in Returns \ {"none"}, Reconcile(p, r),
               pc[p] \notin Reconciling \cup {"idle", "done"}
        PROVE  Guarding(p)
    BY <1>0, <1>a, CallShape DEF Guarding
  <1>b. ASSUME NEW l \in {"action", "poll", "direct", "enqueue", "done"},
               Goto(p, l), UNCHANGED fr,
               pc[p] \notin Reconciling \cup {"idle", "done"}
        PROVE  Guarding(p)
    <2>1. pc' = [pc EXCEPT ![p] = l] /\ fr' = [fr EXCEPT ![p] = fr[p]]
      BY <1>b DEF Goto, IInv, TypeOK
    <2>2. pc'[p] = l /\ fr'[p] = fr[p] /\ Others(p)
      BY <1>0, <2>1, OthersStay DEF Others
    <2> QED BY <1>b, <2>2 DEF Guarding
  <1>c. ASSUME NEW f, fr' = [fr EXCEPT ![p] = f], Goto(p, "readHolder"),
               f.ret = "acquire", f.claim = fr[p].claim, ~f.timedOut,
               pc[p] \notin Reconciling \cup {"idle", "done"}
        PROVE  Guarding(p)
    <2>1. pc' = [pc EXCEPT ![p] = "readHolder"]
      BY <1>c DEF Goto
    <2>2. pc'[p] = "readHolder" /\ fr'[p] = f /\ Others(p)
      BY <1>0, <1>c, <2>1, OthersStay DEF Others
    <2> QED BY <1>c, <2>2 DEF Guarding, Returns
  <1>d. ASSUME AcquireAgain(p), pc[p] \notin Reconciling \cup {"idle", "done"}
        PROVE  Guarding(p)
    <2> DEFINE f == [NoCall EXCEPT !.ret = "acquire",
                       !.attempt = fr[p].attempt + 1, !.claim = fr[p].claim]
    <2>1. f.ret = "acquire" /\ f.claim = fr[p].claim /\ ~f.timedOut
      BY DEF NoCall
    <2>2. CASE fr[p].attempt + 1 < AcquireRaceLimit
      <3>1. Goto(p, "readHolder") /\ fr' = [fr EXCEPT ![p] = f]
        BY <1>d, <2>2 DEF AcquireAgain
      <3> HIDE DEF f
      <3> QED BY <1>c, <1>d, <2>1, <3>1
    <2>3. CASE ~(fr[p].attempt + 1 < AcquireRaceLimit)
      <3>1. Reconcile(p, "poll")
        BY <1>d, <2>3 DEF AcquireAgain
      <3> QED BY <1>a, <1>d, <3>1 DEF Returns
    <2> QED BY <2>2, <2>3
  <1>2. CASE Decide(p)
    <2>1. \E l \in {"action", "poll", "direct", "enqueue", "done"} : Goto(p, l)
      BY <1>2 DEF Decide
    <2> QED BY <1>2, <1>b, <2>1 DEF Decide, Reconciling
  <1>3. CASE AcquireDirect(p)
    BY <1>3, <1>b, <1>d DEF AcquireDirect, Reconciling
  <1>4. CASE Enqueue(p)
    BY <1>4, <1>a DEF Enqueue, Reconciling, Returns
  <1>5. CASE AfterQueue(p)
    BY <1>5, <1>b, <1>d DEF AfterQueue, Reconciling
  <1>6. CASE ReleaseCheck(p)
    <2>1. CASE Goto(p, "deleteHolder") /\ fr' = [fr EXCEPT ![p].row = held]
      <3> DEFINE f == [fr[p] EXCEPT !.row = held]
      <3>1. f.ret = fr[p].ret /\ f.claim = fr[p].claim /\ f.timedOut = fr[p].timedOut
        BY <1>1 DEF Frame
      <3>2. pc' = [pc EXCEPT ![p] = "deleteHolder"] /\ fr' = [fr EXCEPT ![p] = f]
        BY <1>0, <2>1 DEF Goto, IInv, TypeOK
      <3> HIDE DEF f
      <3>3. pc'[p] = "deleteHolder" /\ fr'[p] = f /\ Others(p)
        BY <1>0, <3>2, OthersStay DEF Others
      <3> QED BY <1>6, <3>1, <3>3 DEF Guarding, ReleaseCheck, Reconciling
    <2> QED BY <1>6, <2>1, <1>a, <1>b DEF ReleaseCheck, Reconciling, Returns
  <1>7. CASE DeleteHolder(p)
    <2>1. PICK r \in Returns \ {"none"} : Reconcile(p, r)
      BY <1>7 DEF DeleteHolder, Returns
    <2> QED BY <1>7, <1>a, <2>1 DEF DeleteHolder, Reconciling
  <1>8. CASE Released(p) \/ FinishAction(p)
    BY <1>8, <1>a DEF Released, FinishAction, Reconciling, Returns
  <1>9. CASE Poll(p)
    <2> DEFINE f == [NoCall EXCEPT !.ret = "acquire", !.claim = fr[p].claim]
    <2>1. f.ret = "acquire" /\ f.claim = fr[p].claim /\ ~f.timedOut
      BY DEF NoCall
    <2>2. Goto(p, "readHolder") /\ fr' = [fr EXCEPT ![p] = f]
      BY <1>9 DEF Poll
    <2> HIDE DEF f
    <2> QED BY <1>9, <1>c, <2>1, <2>2 DEF Poll, Reconciling
  <1>10. CASE TimeOut(p)
    <2> DEFINE f == [NoCall EXCEPT !.claim = fr[p].claim, !.timedOut = TRUE]
    <2>1. f.ret = "none" /\ f.claim = fr[p].claim
      BY DEF NoCall
    <2>2. Goto(p, "timedOut") /\ fr' = [fr EXCEPT ![p] = f]
      BY <1>10 DEF TimeOut, CancelWait
    <2> HIDE DEF f
    <2> QED BY <1>0, <1>10, <2>1, <2>2, OthersStay
            DEF Guarding, Others, Goto, TimeOut, Reconciling
  <1>11. CASE TimedOut(p)
    <2>1. PICK r \in Returns \ {"none"} : Reconcile(p, r)
      BY <1>11 DEF TimedOut, Returns
    <2> QED BY <1>11, <1>a, <2>1 DEF TimedOut, Reconciling
  <1> QED BY <1>2, <1>3, <1>4, <1>5, <1>6, <1>7, <1>8, <1>9, <1>10, <1>11
          DEF GuardStep

\* A fault ends a call, or makes an acquiring one give up.
LEMMA ThrowShape ==
  ASSUME IInv, NEW t \in Threads, StoreThrows(t)
  PROVE  /\ pc[t] \notin {"idle", "action", "done"} /\ Others(t)
         /\ fr'[t].claim = fr[t].claim
         /\ UNCHANGED <<held, nextId, procs>>
         /\ \/ pc'[t] = "done" /\ fr'[t] = fr[t] /\ waiters' = waiters
            \/ /\ Acquiring(t) /\ pc'[t] = "timedOut" /\ fr'[t].ret = "none"
               /\ waiters' = {w \in waiters : w.claim # fr[t].claim}
  <1>1. CASE Goto(t, "done") /\ UNCHANGED <<fr, waiters>>
    <2>1. pc' = [pc EXCEPT ![t] = "done"] /\ fr' = [fr EXCEPT ![t] = fr[t]]
      BY <1>1 DEF Goto, IInv, TypeOK
    <2>2. pc'[t] = "done" /\ fr'[t] = fr[t] /\ Others(t)
      BY <2>1, OthersStay DEF Others
    <2> QED BY <1>1, <2>2 DEF StoreThrows
  <1>2. CASE Acquiring(t) /\ CancelWait(t)
    <2> DEFINE f == [NoCall EXCEPT !.claim = fr[t].claim, !.timedOut = TRUE]
    <2>1. f.ret = "none" /\ f.claim = fr[t].claim
      BY DEF NoCall
    <2>2. /\ pc' = [pc EXCEPT ![t] = "timedOut"] /\ fr' = [fr EXCEPT ![t] = f]
          /\ waiters' = {w \in waiters : w.claim # fr[t].claim}
      BY <1>2 DEF CancelWait, Goto
    <2> HIDE DEF f
    <2> QED BY <1>2, <2>1, <2>2, OthersStay DEF StoreThrows, Others
  <1> QED BY <1>1, <1>2 DEF StoreThrows

----------------------------------------------------------------------------
(* Claims name calls *)

\* Each claim is drawn once, and a waiter row with a call's claim is a row of
\* its process.  Sequence numbers grow.  Observers never leave reconcile.
WaiterInv ==
    \A w \in waiters : w.seq < nextId /\ w.claim <= sessions

CallInv(p) ==
    /\ fr[p].claim <= sessions
    /\ pc[p] = "idle" <=> fr[p].claim = NoClaim
    /\ fr[p].claim # NoClaim =>
         /\ \A q \in Pids : fr[q].claim = fr[p].claim => q = p
         /\ \A w \in waiters : w.claim = fr[p].claim => w.owner = Me(p)

LabelInv(t) ==
    /\ pc[t] \in {"release", "deleteHolder"} => fr[t].ret = "none"
    /\ t \in Observers => /\ pc[t] \in Reconciling \cup {"idle", "done"}
                          /\ fr[t].ret \in {"none", "done"}

ClaimInv ==
    /\ WaiterInv
    /\ \A p \in Pids : CallInv(p)
    /\ \A t \in Threads : LabelInv(t)

\* Nobody has a claim yet.
LEMMA InitClaims == Init => ClaimInv
  BY LeaseAssumption, RowAssumption
  DEF Init, ClaimInv, WaiterInv, CallInv, LabelInv, NoCall, Threads, Reconciling

\* A step within a call draws no claim; the rows it adds carry its own.
LEMMA CallKeepsClaims ==
  ASSUME IInv, ClaimInv, NEW t \in Threads, Others(t),
         fr'[t].claim = fr[t].claim, pc[t] # "idle", pc'[t] # "idle",
         start' = start, sessions' = sessions,
         nextId' \in Nat, nextId <= nextId',
         \A w \in waiters' \ waiters :
            /\ t \in Pids
            /\ w = [owner |-> Me(t), claim |-> fr[t].claim, seq |-> nextId]
            /\ nextId < nextId',
         LabelInv(t)'
  PROVE  ClaimInv'
  <1>1. nextId \in Nat /\ sessions \in Nat
        /\ \A w \in waiters : w.seq \in Nat /\ w.claim \in Nat
    BY DEF IInv, TypeOK, WaiterRow
  <1>2. \A p \in Pids : fr'[p].claim = fr[p].claim /\ (pc'[p] = "idle" <=> pc[p] = "idle")
    BY DEF Others, Threads
  <1>3. t \in Pids => fr[t].claim <= sessions
    BY DEF ClaimInv, CallInv
  <1>4. WaiterInv'
    <2> SUFFICES ASSUME NEW w \in waiters' PROVE w.seq < nextId' /\ w.claim <= sessions
      BY DEF WaiterInv
    <2>1. CASE w \in waiters
      BY <1>1, <2>1 DEF ClaimInv, WaiterInv
    <2>2. CASE w \notin waiters
      BY <1>1, <1>3, <2>2
    <2> QED BY <2>1, <2>2
  <1>5. ASSUME NEW p \in Pids PROVE CallInv(p)'
    <2>1. CallInv(p)
      BY DEF ClaimInv
    <2>2. Me(p)' = Me(p)
      BY DEF Me
    <2>3. fr'[p].claim <= sessions' /\ (pc'[p] = "idle" <=> fr'[p].claim = NoClaim)
      BY <1>2, <2>1 DEF CallInv
    <2>4. fr[p].claim # NoClaim => \A q \in Pids : fr'[q].claim = fr'[p].claim => q = p
      BY <1>2, <2>1 DEF CallInv
    <2>5. ASSUME fr[p].claim # NoClaim, NEW w \in waiters', w.claim = fr[p].claim
          PROVE  w.owner = Me(p)
      <3>1. CASE w \in waiters
        BY <2>1, <2>5, <3>1 DEF CallInv
      <3>2. CASE w \notin waiters
        <4>1. t \in Pids /\ w.owner = Me(t) /\ fr[t].claim = fr[p].claim
          BY <2>5, <3>2
        <4> QED BY <2>1, <2>5, <4>1 DEF CallInv
      <3> QED BY <3>1, <3>2
    <2> QED BY <1>2, <2>2, <2>3, <2>4, <2>5 DEF CallInv
  <1>6. ASSUME NEW u \in Threads PROVE LabelInv(u)'
    BY DEF ClaimInv, LabelInv, Others
  <1> QED BY <1>4, <1>5, <1>6 DEF ClaimInv

\* A new call draws a claim that no call and no row has.
LEMMA BeginClaims ==
  ASSUME IInv, ClaimInv, NEW p \in Pids, Begin(p)
  PROVE  ClaimInv'
  <1> DEFINE f == [NoCall EXCEPT !.ret = "acquire", !.claim = sessions']
  <1>1. p \in Threads /\ sessions \in Nat /\ sessions' = sessions + 1
    BY DEF Threads, Begin, IInv, TypeOK
  <1>2. f.claim = sessions' /\ f.ret = "acquire"
    BY DEF NoCall
  <1>3. Goto(p, "readHolder") /\ fr' = [fr EXCEPT ![p] = f]
    BY DEF Begin
  <1>4. UNCHANGED <<waiters, nextId, start>>
    BY DEF Begin, tables
  <1> HIDE DEF f
  <1>5. pc'[p] = "readHolder" /\ fr'[p].claim = sessions' /\ fr'[p].ret = "acquire"
        /\ Others(p)
    BY <1>1, <1>2, <1>3, OthersStay DEF Goto, Others
  <1>6. \A q \in Pids : fr[q].claim \in Nat /\ fr[q].claim < sessions'
    <2> TAKE q \in Pids
    <2>1. fr[q].claim \in Nat /\ fr[q].claim <= sessions
      BY ClaimKnown DEF ClaimInv, CallInv, Threads
    <2> QED BY <1>1, <2>1
  <1>7. \A w \in waiters : w.claim \in Nat /\ w.claim < sessions'
    <2> TAKE w \in waiters
    <2>1. w.claim \in Nat /\ w.claim <= sessions
      BY Counters DEF ClaimInv, WaiterInv, WaiterRow
    <2> QED BY <1>1, <2>1
  <1>8. WaiterInv'
    BY <1>1, <1>4, <1>7 DEF ClaimInv, WaiterInv
  <1>9. ASSUME NEW q \in Pids PROVE CallInv(q)'
    <2>1. CASE q = p
      <3>1. \A r \in Pids \ {p} : fr'[r].claim # fr'[p].claim
        BY <1>1, <1>5, <1>6 DEF Others, Threads
      <3>2. \A w \in waiters' : w.claim # fr'[p].claim
        BY <1>1, <1>4, <1>5, <1>7
      <3> QED BY <1>1, <1>5, <2>1, <3>1, <3>2 DEF CallInv
    <2>2. CASE q # p
      <3>1. fr'[q] = fr[q] /\ pc'[q] = pc[q] /\ Me(q)' = Me(q) /\ CallInv(q)
        BY <1>4, <1>5, <2>2 DEF Others, Threads, Me, ClaimInv
      <3>2. fr'[q].claim <= sessions'
        BY <1>1, <1>6, <3>1
      <3>3. \A r \in Pids : fr'[r].claim = fr'[q].claim => r = p \/ fr[r].claim = fr[q].claim
        BY <1>5, <3>1 DEF Others, Threads
      <3>4. fr'[p].claim # fr'[q].claim
        BY <1>1, <1>5, <1>6, <3>1
      <3> QED BY <1>4, <3>1, <3>2, <3>3, <3>4 DEF CallInv
    <2> QED BY <2>1, <2>2
  <1>10. ASSUME NEW u \in Threads PROVE LabelInv(u)'
    <2>1. CASE u = p
      BY <1>5, <2>1, LeaseAssumption DEF LabelInv
    <2>2. CASE u # p
      BY <1>5, <2>2 DEF ClaimInv, LabelInv, Others
    <2> QED BY <2>1, <2>2
  <1> QED BY <1>8, <1>9, <1>10 DEF ClaimInv

\* The end of a call leaves its rows to no call.
LEMMA EndClaims ==
  ASSUME IInv, ClaimInv, NEW t \in Threads, Others(t),
         pc'[t] = "idle", fr'[t] = NoCall,
         UNCHANGED <<waiters, nextId, start, sessions>>
  PROVE  ClaimInv'
  <1>0. sessions \in Nat /\ NoCall.claim = NoClaim /\ NoCall.ret = "none"
    BY DEF IInv, TypeOK, NoCall
  <1>1. WaiterInv'
    BY DEF ClaimInv, WaiterInv
  <1>2. ASSUME NEW q \in Pids PROVE CallInv(q)'
    <2>1. CASE q = t
      BY <1>0, <2>1 DEF CallInv
    <2>2. CASE q # t
      <3>1. fr'[q] = fr[q] /\ pc'[q] = pc[q] /\ Me(q)' = Me(q) /\ CallInv(q)
        BY <2>2 DEF Others, Threads, Me, ClaimInv
      <3>2. \A r \in Pids : fr'[r].claim = fr[r].claim \/ fr'[r].claim = NoClaim
        BY <1>0 DEF Others, Threads
      <3> QED BY <3>1, <3>2 DEF CallInv
    <2> QED BY <2>1, <2>2
  <1>3. ASSUME NEW u \in Threads PROVE LabelInv(u)'
    BY <1>0 DEF ClaimInv, LabelInv, Others
  <1> QED BY <1>1, <1>2, <1>3 DEF ClaimInv

\* A new process has no call.
LEMMA RestartClaims ==
  ASSUME IInv, ClaimInv, NEW p \in Pids, Restart(p)
  PROVE  ClaimInv'
  <1>1. /\ ~alive[p] /\ start' = [start EXCEPT ![p] = start[p] + 1]
        /\ UNCHANGED <<waiters, nextId, sessions, pc, fr>>
    BY DEF Restart, tables, IInv, TypeOK
  <1>2. pc[p] = "idle"
    BY <1>1 DEF IInv, LeaseInv, ThreadInv, Threads
  <1>3. ASSUME NEW q \in Pids PROVE CallInv(q)'
    <2>1. CallInv(q)
      BY DEF ClaimInv
    <2>2. CASE q = p
      BY <1>1, <1>2, <2>1, <2>2 DEF CallInv
    <2>3. CASE q # p
      <3>1. Me(q)' = Me(q)
        BY <1>1, <2>3 DEF Me, IInv, TypeOK
      <3> QED BY <1>1, <2>1, <3>1 DEF CallInv
    <2> QED BY <2>2, <2>3
  <1> QED BY <1>1, <1>3 DEF ClaimInv, WaiterInv, LabelInv

\* What a step of reconcile and of a guard does to the tables.
LEMMA WithinTables ==
  ASSUME IInv, NEW t \in Threads, ReconcileStep(t)
  PROVE  /\ UNCHANGED procs
         /\ waiters' \subseteq waiters /\ nextId' \in Nat /\ nextId <= nextId'
  <1>1. CASE ReapWaiter(t) \/ ReapHead(t)
    BY <1>1, Counters DEF ReapWaiter, ReapHead, DeleteWaiter, procs
  <1>2. CASE Promote(t)
    <2>1. UNCHANGED procs
      BY <1>2 DEF Promote
    <2>2. waiters' \subseteq waiters /\ (nextId' = nextId + 1 \/ nextId' = nextId)
      BY <1>2 DEF Promote, DeleteWaiter, tables
    <2> QED BY <2>1, <2>2, Counters
  <1>3. CASE \/ ReadHolder(t) \/ HolderStays(t) \/ ReapHolder(t)
             \/ ReadWaiters(t) \/ WaiterStays(t)
             \/ ReadHead(t) \/ HeadBlocks(t) \/ Done(t)
    BY <1>3, Counters
    DEF ReadHolder, HolderStays, ReapHolder, ReadWaiters, WaiterStays,
        ReadHead, HeadBlocks, Done, tables, procs
  <1> QED BY <1>1, <1>2, <1>3 DEF ReconcileStep

\* The guard adds no waiter row but its own call's, at the end of the queue.
LEMMA GuardTables ==
  ASSUME IInv, NEW p \in Pids, GuardStep(p)
  PROVE  /\ UNCHANGED procs
         /\ nextId' \in Nat /\ nextId <= nextId'
         /\ \A w \in waiters' \ waiters :
               /\ w = [owner |-> Me(p), claim |-> fr[p].claim, seq |-> nextId]
               /\ nextId < nextId'
  <1>1. CASE Enqueue(p)
    BY <1>1, Counters DEF Enqueue, procs
  <1>2. CASE ~Enqueue(p)
    BY <1>2, Counters
    DEF GuardStep, Decide, AcquireDirect, AfterQueue, ReleaseCheck, DeleteHolder,
        Released, Poll, TimeOut, TimedOut, FinishAction, CancelWait, tables, procs
  <1> QED BY <1>1, <1>2

\* Every step keeps the claims of calls, rows and observers apart.
LEMMA NextClaims ==
  ASSUME IInv, ClaimInv, [Next]_vars
  PROVE  ClaimInv'
  <1>1. ASSUME NEW t \in Threads, ReconcileStep(t) PROVE ClaimInv'
    <2>1. CASE Done(t)
      <3>1. pc'[t] = "idle" /\ fr'[t] = NoCall /\ Others(t)
        BY <2>1, OthersStay DEF Done, Goto, Others
      <3> QED BY <2>1, <3>1, EndClaims DEF Done, tables, procs
    <2>2. CASE Within(t)
      <3>1. fr[t].ret \in Returns \ {"none"} /\ LabelInv(t)
        BY <2>2, RetKnown DEF IInv, TypeOK, Frame, Within, Reconciling, ClaimInv
      <3>2. LabelInv(t)'
        BY <2>2, <3>1 DEF LabelInv, Within, Reconciling, Returns
      <3>3. pc[t] # "idle" /\ pc'[t] # "idle" /\ Others(t)
            /\ fr'[t].claim = fr[t].claim
        BY <2>2, <3>1 DEF Within, Reconciling, Returns
      <3> QED BY <1>1, <3>2, <3>3, WithinTables, CallKeepsClaims DEF procs
    <2> QED BY <1>1, <2>1, <2>2, WithinStep
  <1>2. ASSUME NEW p \in Pids, GuardStep(p) PROVE ClaimInv'
    <2>1. Guarding(p) /\ p \in Threads /\ LabelInv(p) /\ p \notin Observers
      BY <1>2, GuardingStep, LeaseAssumption DEF Threads, ClaimInv
    <2>2. LabelInv(p)'
      BY <2>1 DEF LabelInv, Guarding
    <2>3. pc[p] # "idle" /\ pc'[p] # "idle" /\ Others(p) /\ fr'[p].claim = fr[p].claim
      BY <2>1 DEF Guarding
    <2> QED BY <1>2, <2>1, <2>2, <2>3, GuardTables, CallKeepsClaims DEF procs
  <1>3. ASSUME NEW t \in Threads, StoreThrows(t) PROVE ClaimInv'
    <2>1. LabelInv(t)
      BY DEF ClaimInv
    <2>2. LabelInv(t)'
      BY <1>3, <2>1, ThrowShape DEF LabelInv, Acquiring, Reconciling
    <2>3. /\ pc[t] # "idle" /\ pc'[t] # "idle" /\ Others(t)
          /\ fr'[t].claim = fr[t].claim /\ waiters' \subseteq waiters
          /\ UNCHANGED <<nextId, procs>>
      BY <1>3, ThrowShape
    <2> QED BY <2>2, <2>3, Counters, CallKeepsClaims DEF procs
  <1>4. ASSUME NEW p \in Pids, Crash(p) PROVE ClaimInv'
    <2>1. p \in Threads /\ pc'[p] = "idle" /\ fr'[p] = NoCall /\ Others(p)
      BY <1>4, OthersStay DEF Crash, Goto, Others, Threads
    <2> QED BY <1>4, <2>1, EndClaims DEF Crash, tables
  <1>5. ASSUME NEW o \in Observers, Observe(o) PROVE ClaimInv'
    <2>1. o \in Threads /\ o \notin Pids
      BY LeaseAssumption DEF Threads
    <2>2. pc'[o] = "readHolder" /\ fr'[o].ret = "done" /\ Others(o)
      BY <1>5, <2>1, CallShape DEF Observe
    <2>3. UNCHANGED <<waiters, nextId, start, sessions>>
      BY <1>5 DEF Observe, tables, procs
    <2>4. ASSUME NEW q \in Pids PROVE CallInv(q)'
      <3>1. CallInv(q) /\ Me(q)' = Me(q) /\ pc'[q] = pc[q]
            /\ \A r \in Pids : fr'[r] = fr[r]
        BY <2>1, <2>2, <2>3 DEF ClaimInv, Others, Threads, Me
      <3> QED BY <2>3, <3>1 DEF CallInv
    <2>5. ASSUME NEW u \in Threads PROVE LabelInv(u)'
      BY <2>1, <2>2 DEF ClaimInv, LabelInv, Others, Reconciling
    <2>6. WaiterInv'
      BY <2>3 DEF ClaimInv, WaiterInv
    <2> QED BY <2>4, <2>5, <2>6 DEF ClaimInv
  <1>6. ASSUME UNCHANGED vars PROVE ClaimInv'
    BY <1>6 DEF vars, ClaimInv, WaiterInv, CallInv, LabelInv, Me
  <1> QED BY <1>1, <1>2, <1>3, <1>4, <1>5, <1>6, BeginClaims, RestartClaims DEF Next

\* So they are apart always.
LEMMA Claims == Spec => [](IInv /\ ClaimInv)
  <1>1. Init => IInv /\ ClaimInv
    BY InitInv, InitClaims
  <1>2. (IInv /\ ClaimInv) /\ [Next]_vars => (IInv /\ ClaimInv)'
    BY NextInv, NextClaims
  <1> QED BY <1>1, <1>2, PTL DEF Spec

----------------------------------------------------------------------------
(* Refusals *)

\* A call that gave up has no waiter row, and once its release is behind it no
\* lease.
Refusal(p) ==
    fr[p].timedOut =>
      /\ ~Queued(p)
      /\ pc[p] \in Reconciling \cup {"timedOut", "release", "deleteHolder",
                                     "released", "done"}
      /\ pc[p] \in Reconciling => fr[p].ret \in {"release", "released", "done"}
      /\ pc[p] \in {"released", "done"} => ~Mine(p, held)
      /\ pc[p] \in Reconciling /\ fr[p].ret # "release" => ~Mine(p, held)

RefusalInv == \A p \in Pids : Refusal(p)

\* The lease row after a step is the old one, gone, granted to a waiter, or
\* taken by the process that steps.
LEMMA HeldShape ==
  ASSUME IInv, Next
  PROVE  \/ held' = held \/ held' = NoRow
         \/ \E w \in waiters : held'.owner = w.owner /\ held'.claim = w.claim
         \/ \E p \in Pids : AcquireDirect(p) /\ held'.owner = Me(p) /\ pc[p] = "direct"
  <1>1. ASSUME NEW t \in Threads, ReconcileStep(t)
        PROVE  \/ held' = held \/ held' = NoRow
               \/ \E w \in waiters : held'.owner = w.owner /\ held'.claim = w.claim
    <2>1. CASE Promote(t)
      <3>1. CASE Promotable(fr[t].row)
        <4>1. PICK w \in waiters : SameWaiter(w, fr[t].row)
          BY <3>1 DEF Promotable
        <4>2. held' = [owner |-> fr[t].row.owner, claim |-> fr[t].row.claim,
                       lease |-> nextId]
          BY <2>1, <3>1 DEF Promote
        <4> QED BY <4>1, <4>2 DEF SameWaiter
      <3>2. CASE ~Promotable(fr[t].row)
        BY <2>1, <3>2 DEF Promote, tables
      <3> QED BY <3>1, <3>2
    <2>2. CASE ~Promote(t)
      BY <1>1, <2>2 DEF ReconcileStep, ReadHolder, HolderStays, ReapHolder,
         DeleteHeld, ReadWaiters, WaiterStays, ReapWaiter, ReadHead, HeadBlocks,
         ReapHead, Done, tables
    <2> QED BY <2>1, <2>2
  <1>2. ASSUME NEW p \in Pids, GuardStep(p)
        PROVE  \/ held' = held \/ held' = NoRow
               \/ AcquireDirect(p) /\ held'.owner = Me(p) /\ pc[p] = "direct"
    BY <1>2 DEF GuardStep, Decide, AcquireDirect, At, Enqueue, AfterQueue,
       ReleaseCheck, DeleteHolder, DeleteHeld, Released, Poll, TimeOut, TimedOut,
       FinishAction, tables
  <1> QED BY <1>1, <1>2 DEF Next, StoreThrows, Begin, Crash, Restart, Observe, tables

\* Another thread's step gives a call that gave up neither row nor lease.
LEMMA OtherRefusal ==
  ASSUME IInv, RefusalInv, NEW p \in Pids, Next, Me(p)' = Me(p),
         pc'[p] = pc[p], fr'[p] = fr[p],
         \A w \in waiters' \ waiters : w.owner # Me(p)
  PROVE  Refusal(p)'
  <1> SUFFICES ASSUME fr[p].timedOut PROVE Refusal(p)'
    BY DEF Refusal
  <1>1. Refusal(p) /\ ~Queued(p)
    BY DEF RefusalInv, Refusal
  <1>2. ~Queued(p)'
    BY <1>1 DEF Queued
  <1>3. ASSUME ~Mine(p, held) PROVE ~Mine(p, held)'
    <2>1. CASE held' = held \/ held' = NoRow
      BY <1>3, <2>1 DEF Mine
    <2>2. CASE \E w \in waiters : held'.owner = w.owner /\ held'.claim = w.claim
      BY <1>1, <2>2 DEF Mine, Queued
    <2>3. CASE \E q \in Pids : held'.owner = Me(q) /\ pc[q] = "direct"
      BY <1>1, <2>3 DEF Mine, Me, Refusal, Reconciling
    <2> QED BY <2>1, <2>2, <2>3, HeldShape
  <1> QED BY <1>1, <1>2, <1>3 DEF Refusal

\* A call that has given up stays without a row, if no statement throws.
LEMMA NextRefusal ==
  ASSUME StoreFaults = FALSE, IInv, RefusalInv, [Next]_vars
  PROVE  RefusalInv'
  <1> SUFFICES ASSUME NEW p \in Pids PROVE Refusal(p)'
    BY DEF RefusalInv
  <1>0. p \in Threads /\ Refusal(p)
    BY DEF Threads, RefusalInv
  <1>1. ASSUME NEW t \in Threads, ReconcileStep(t) PROVE Refusal(p)'
    <2>1. UNCHANGED procs /\ waiters' \subseteq waiters /\ Next /\ Me(p)' = Me(p)
      BY <1>1, WithinTables DEF procs, Me, Next
    <2>2. CASE Done(t)
      <3>1. fr'[t] = NoCall /\ Others(t)
        BY <2>2, OthersStay DEF Done, Goto, Others
      <3>2. CASE t = p
        BY <3>1, <3>2 DEF Refusal, NoCall
      <3> QED BY <1>0, <2>1, <3>1, <3>2, OtherRefusal DEF Others
    <2>3. CASE Within(t) /\ t # p
      BY <1>0, <2>1, <2>3, OtherRefusal DEF Within, Others
    <2>4. CASE Within(t) /\ t = p
      <3> SUFFICES ASSUME fr[p].timedOut PROVE Refusal(p)'
        BY <2>4 DEF Refusal, Within
      <3>1. ~Queued(p) /\ fr[p].ret \in {"release", "released", "done"}
            /\ pc[p] \in Reconciling
        BY <1>0, <2>4 DEF Refusal, Within
      <3>2. ~Queued(p)'
        BY <2>1, <2>4, <3>1 DEF Queued, Within
      <3>3. ASSUME ~Mine(p, held) PROVE ~Mine(p, held)'
        <4>1. CASE held' = held \/ held' = NoRow
          BY <2>1, <2>4, <3>3, <4>1 DEF Mine, Within
        <4>2. CASE \E w \in waiters : held'.owner = w.owner /\ held'.claim = w.claim
          BY <2>1, <2>4, <3>1, <4>2 DEF Mine, Queued, Within
        <4>3. CASE \E q \in Pids : held'.owner = Me(q) /\ pc[q] = "direct"
          BY <2>1, <2>4, <4>3 DEF Mine, Me, Reconciling, Within
        <4> QED BY <2>1, <4>1, <4>2, <4>3, HeldShape
      <3> QED BY <1>0, <2>4, <3>1, <3>2, <3>3 DEF Refusal, Within, Reconciling
    <2> QED BY <1>1, <2>2, <2>3, <2>4, WithinStep
  <1>2. ASSUME NEW q \in Pids, GuardStep(q), q # p PROVE Refusal(p)'
    <2>1. Guarding(q) /\ UNCHANGED procs /\ Next /\ q \in Threads
      BY <1>2, GuardingStep, GuardTables DEF Next, Threads
    <2>2. Me(p)' = Me(p) /\ \A w \in waiters' \ waiters : w.owner # Me(p)
      BY <1>2, <2>1, GuardTables DEF procs, Me
    <2> QED BY <1>0, <1>2, <2>1, <2>2, OtherRefusal DEF Guarding, Others
  <1>3. ASSUME GuardStep(p) PROVE Refusal(p)'
    <2> USE DEF At
    <2>1. Guarding(p) /\ UNCHANGED procs /\ Me(p)' = Me(p)
      BY <1>3, GuardingStep, GuardTables DEF procs, Me
    <2>2. CASE TimeOut(p)
      <3>1. pc'[p] = "timedOut" /\ waiters' = {w \in waiters : w.claim # fr[p].claim}
        BY <1>0, <2>2 DEF TimeOut, CancelWait, Goto, IInv, TypeOK
      <3> QED BY <2>1, <3>1 DEF Refusal, Queued, Guarding, Reconciling
    <2>3. CASE ~TimeOut(p) /\ fr[p].timedOut
      <3>1. ~Queued(p) /\ pc[p] \in {"timedOut", "release", "deleteHolder", "released"}
        BY <1>0, <2>1, <2>3 DEF Refusal, Guarding, Reconciling
      <3>2. waiters' = waiters /\ fr'[p].claim = fr[p].claim /\ ~Queued(p)'
        <4>1. waiters' = waiters
          BY <1>3, <2>3, <3>1 DEF GuardStep, Decide, AcquireDirect, Enqueue,
             AfterQueue, Poll, FinishAction, ReleaseCheck, DeleteHolder, Released,
             TimedOut, tables
        <4> QED BY <2>1, <3>1, <4>1 DEF Queued, Guarding
      <3>3. CASE TimedOut(p)
        <4>1. CASE Mine(p, held)
          <5>1. Reconcile(p, "release")
            BY <3>3, <4>1 DEF TimedOut
          <5> QED BY <1>0, <3>2, <5>1, CallShape DEF Refusal, Reconciling
        <4>2. CASE ~Mine(p, held)
          <5>1. Reconcile(p, "done") /\ ~Mine(p, held)'
            BY <2>1, <3>2, <3>3, <4>2 DEF TimedOut, Mine, tables
          <5> QED BY <1>0, <3>2, <5>1, CallShape DEF Refusal, Reconciling
        <4> QED BY <4>1, <4>2
      <3>4. CASE ReleaseCheck(p)
        <4>1. CASE Mine(p, held)
          <5>1. pc'[p] = "deleteHolder"
            BY <1>0, <3>4, <4>1 DEF ReleaseCheck, Goto, IInv, TypeOK
          <5> QED BY <3>2, <5>1 DEF Refusal, Reconciling
        <4>2. CASE ~Mine(p, held)
          <5>1. Reconcile(p, "done") /\ ~Mine(p, held)'
            BY <2>1, <2>3, <3>2, <3>4, <4>2 DEF ReleaseCheck, Mine, tables
          <5> QED BY <1>0, <3>2, <5>1, CallShape DEF Refusal, Reconciling
        <4> QED BY <4>1, <4>2
      <3>5. CASE DeleteHolder(p)
        <4>1. CASE held' = held
          <5>1. Reconcile(p, "release")
            BY <3>5, <4>1 DEF DeleteHolder
          <5> QED BY <1>0, <3>2, <5>1, CallShape DEF Refusal, Reconciling
        <4>2. CASE held' # held
          <5>1. Reconcile(p, "released") /\ held' = NoRow
            BY <2>3, <3>5, <4>2 DEF DeleteHolder, DeleteHeld
          <5> QED BY <1>0, <3>2, <5>1, CallShape DEF Refusal, Reconciling, Mine
        <4> QED BY <4>1, <4>2
      <3>6. CASE Released(p)
        <4>1. Reconcile(p, "done") /\ ~Mine(p, held)'
          BY <1>0, <2>1, <2>3, <3>2, <3>6 DEF Released, Refusal, Mine, tables
        <4> QED BY <1>0, <3>2, <4>1, CallShape DEF Refusal, Reconciling
      <3> QED BY <1>3, <2>3, <3>1, <3>3, <3>4, <3>5, <3>6
              DEF GuardStep, Decide, AcquireDirect, Enqueue, AfterQueue, Poll,
                  FinishAction
    <2>4. CASE ~TimeOut(p) /\ ~fr[p].timedOut
      <3>1. ~fr'[p].timedOut
        BY <2>1, <2>4 DEF Guarding
      <3> QED BY <3>1 DEF Refusal
    <2> QED BY <2>2, <2>3, <2>4
  <1>4. ASSUME NEW q \in Pids, Begin(q) PROVE Refusal(p)'
    <2> DEFINE f == [NoCall EXCEPT !.ret = "acquire", !.claim = sessions']
    <2>1. ~f.timedOut
      BY DEF NoCall
    <2>2. fr' = [fr EXCEPT ![q] = f] /\ pc' = [pc EXCEPT ![q] = "readHolder"]
      BY <1>4 DEF Begin, Goto
    <2> HIDE DEF f
    <2>3. fr'[q] = f /\ Others(q) /\ q \in Threads
      BY <2>2, OthersStay DEF Others, Threads
    <2>4. waiters' = waiters /\ Me(p)' = Me(p)
      BY <1>4 DEF Begin, tables, Me
    <2>5. CASE q = p
      BY <2>1, <2>3, <2>5 DEF Refusal
    <2>6. CASE q # p
      BY <1>0, <1>4, <2>3, <2>4, <2>6, OtherRefusal DEF Others, Next
    <2> QED BY <2>5, <2>6
  <1>5. ASSUME NEW q \in Pids, Crash(q) PROVE Refusal(p)'
    <2>1. fr'[q] = NoCall /\ Others(q) /\ q \in Threads
      BY <1>5, OthersStay DEF Crash, Goto, Others, Threads
    <2>2. waiters' = waiters /\ Me(p)' = Me(p)
      BY <1>5 DEF Crash, tables, Me
    <2>3. CASE q = p
      BY <2>1, <2>3 DEF Refusal, NoCall
    <2>4. CASE q # p
      BY <1>0, <1>5, <2>1, <2>2, <2>4, OtherRefusal DEF Others, Next
    <2> QED BY <2>3, <2>4
  <1>6. ASSUME NEW q \in Pids, Restart(q) PROVE Refusal(p)'
    <2>1. /\ ~alive[q] /\ start' = [start EXCEPT ![q] = start[q] + 1]
          /\ UNCHANGED <<held, waiters, pc, fr>>
      BY <1>6 DEF Restart, tables, IInv, TypeOK
    <2>2. CASE q = p
      <3>1. pc[p] = "idle"
        BY <1>0, <2>1, <2>2 DEF IInv, LeaseInv, ThreadInv
      <3> QED BY <1>0, <2>1, <3>1 DEF Refusal, Reconciling
    <2>3. CASE q # p
      <3>1. Me(p)' = Me(p)
        BY <2>1, <2>3 DEF Me, IInv, TypeOK
      <3> QED BY <1>6, <2>1, <3>1, OtherRefusal DEF Next
    <2> QED BY <2>2, <2>3
  <1>7. ASSUME NEW o \in Observers, Observe(o) PROVE Refusal(p)'
    <2>1. o \in Threads /\ o # p
      BY LeaseAssumption DEF Threads
    <2>2. Others(o) /\ waiters' = waiters /\ Me(p)' = Me(p)
      BY <1>7, <2>1, CallShape DEF Observe, tables, procs, Me
    <2> QED BY <1>0, <1>7, <2>1, <2>2, OtherRefusal DEF Others, Next
  <1>8. ASSUME UNCHANGED vars PROVE Refusal(p)'
    BY <1>0, <1>8 DEF vars, Refusal, Queued, Mine, Me
  <1> QED BY <1>1, <1>2, <1>3, <1>4, <1>5, <1>6, <1>7, <1>8 DEF Next, StoreThrows

\* A call refused at its deadline leaves neither a waiter row nor a lease, as
\* long as the database answers.
THEOREM Refusals == ASSUME StoreFaults = FALSE PROVE Spec => []RefusalLeavesNothing
  <1>1. Init => RefusalInv
    BY DEF Init, RefusalInv, Refusal, NoCall, Threads
  <1>2. IInv /\ RefusalInv /\ [Next]_vars => RefusalInv'
    BY NextRefusal
  <1>3. RefusalInv => RefusalLeavesNothing
    BY DEF RefusalInv, Refusal, RefusalLeavesNothing
  <1> QED BY <1>1, <1>2, <1>3, Invariance, PTL DEF Spec

----------------------------------------------------------------------------
(* The refinement of FifoLease *)

\* What the abstract lease sees of the processes.
Live == {Me(p) : p \in {q \in Pids : alive[q]}}
In(label) == {Me(p) : p \in {q \in Pids : pc[q] = label}}
Acting == In("action")
Leaving == In("deleteHolder")

\* A position in the guard, as a set of owners.
LEMMA InMembers ==
  ASSUME NEW l, NEW x
  PROVE  x \in In(l) <=> \E p \in Pids : pc[p] = l /\ x = Me(p)
  BY DEF In

\* An identity has one pid.
LEMMA MeIsMine ==
  ASSUME NEW p \in Pids, NEW q \in Pids, Me(p) = Me(q)
  PROVE  p = q
  BY DEF Me

\* Processes that move neither to a label nor from it.
LEMMA InSame ==
  ASSUME NEW l, start' = start, \A p \in Pids : pc'[p] = l <=> pc[p] = l
  PROVE  In(l)' = In(l)
  BY DEF In, Me

\* A process that arrives at a position joins its set,
LEMMA InGains ==
  ASSUME NEW l, NEW p \in Pids, start' = start, pc'[p] = l,
         \A q \in Pids \ {p} : pc'[q] = pc[q]
  PROVE  In(l)' = In(l) \cup {Me(p)}
  BY DEF In, Me

\* and one that is elsewhere is not in it.
LEMMA InLoses ==
  ASSUME NEW l, NEW p \in Pids, start' = start, pc'[p] # l,
         \A q \in Pids \ {p} : pc'[q] = pc[q]
  PROVE  In(l)' = In(l) \ {Me(p)}
  BY DEF In, Me

\* A thread that neither enters or leaves its action nor a deletion.
LEMMA Neutral ==
  ASSUME NEW t \in Threads, Others(t), UNCHANGED <<alive, start>>,
         pc[t] \notin {"action", "deleteHolder"},
         pc'[t] \notin {"action", "deleteHolder"}
  PROVE  Live' = Live /\ Acting' = Acting /\ Leaving' = Leaving
  <1>1. Live' = Live
    BY DEF Live, Me
  <1>2. \A p \in Pids : /\ pc'[p] = "action" <=> pc[p] = "action"
                        /\ pc'[p] = "deleteHolder" <=> pc[p] = "deleteHolder"
    BY DEF Others, Threads
  <1> QED BY <1>1, <1>2, InSame DEF Acting, Leaving

\* The steps of the abstract lease, in the words of the tables.
LEMMA Stutters ==
  ASSUME held' = held, waiters' = waiters, Live' = Live,
         Acting' = Acting, Leaving' = Leaving
  PROVE  UNCHANGED Fifo!vars
  BY DEF Fifo!vars, Live, Acting, Leaving, In

\* Rows of waiters that are in no action disappear.
LEMMA Leaves ==
  ASSUME held' = held, Live' = Live, Acting' = Acting, Leaving' = Leaving,
         waiters' \subseteq waiters, \A w \in waiters \ waiters' : w.owner \notin Acting
  PROVE  Fifo!Leave
  BY DEF Fifo!Leave, Live, Acting, Leaving, In

\* A live waiter joins behind all others.
LEMMA Joins ==
  ASSUME held' = held, Live' = Live, Acting' = Acting, Leaving' = Leaving,
         NEW w, waiters' = waiters \cup {w}, w.owner \in Live,
         \A v \in waiters : v.seq < w.seq
  PROVE  \E v \in waiters' : Fifo!Join(v)
  BY DEF Fifo!Join, Live, Acting, Leaving, In

\* The first waiter is granted the free lease.
LEMMA Grants ==
  ASSUME held = NoRow, Live' = Live, Acting' = Acting, Leaving' = Leaving,
         held' # NoRow, NEW w \in waiters, IsFirst(w, waiters),
         held'.owner = w.owner, held'.claim = w.claim,
         waiters' = {v \in waiters : ~SameWaiter(v, w)}
  PROVE  \E v \in waiters : Fifo!Grant(v)
  BY DEF Fifo!Grant, Fifo!First, Fifo!CallOf, IsFirst, SameWaiter,
         Live, Acting, Leaving, In

\* A call that finds neither holder nor waiters takes the lease.
LEMMA Takes ==
  ASSUME held = NoRow, waiters = {}, waiters' = waiters, Live' = Live,
         held' \in HolderRow, held'.owner \in Live,
         Acting' = Acting \cup {held'.owner}, Leaving' = Leaving
  PROVE  Fifo!Next
  <1>1. held' # NoRow
    BY RowAssumption
  <1>2. [owner |-> held'.owner, claim |-> held'.claim] # NoRow
    <2>1. held'.owner \in Identity /\ held'.claim \in Nat
      BY DEF HolderRow
    <2> QED BY <2>1, RowAssumption
  <1> QED BY <1>1, <1>2 DEF Fifo!Next, Fifo!TakeFree, Live, Acting, Leaving, In

\* The live owners are the processes that are alive.
LEMMA LiveMembers ==
  ASSUME NEW x
  PROVE  x \in Live <=> \E p \in Pids : alive[p] /\ x = Me(p)
  BY DEF Live

\* A dead identity is no live process, and it is inside no action.
LEMMA DeadIsOut ==
  ASSUME IInv, NEW id, ~Alive(id)
  PROVE  id \notin Live /\ id \notin Acting
  <1>1. \A p \in Pids : alive[p] => id # Me(p)
    BY DEF Alive, Me
  <1>2. \A p \in Pids : pc[p] = "action" => alive[p]
    BY DEF IInv, LeaseInv, ThreadInv, Threads
  <1> QED BY <1>1, <1>2, LiveMembers, InMembers DEF Acting

\* A process that runs its guard is live, and where its label says.
LEMMA LiveIsIn ==
  ASSUME NEW p \in Pids, Running(p)
  PROVE  /\ Me(p) \in Live
         /\ Me(p) \in Acting <=> pc[p] = "action"
         /\ Me(p) \in Leaving <=> pc[p] = "deleteHolder"
  BY LiveMembers, InMembers, MeIsMine DEF Running, Acting, Leaving

\* The holder begins its action.
LEMMA Enters ==
  ASSUME IInv, NEW p \in Pids, Running(p), Mine(p, held), pc'[p] = "action",
         pc[p] # "deleteHolder", Others(p), UNCHANGED <<tables, procs>>
  PROVE  Fifo!Enter
  <1>1. held # NoRow /\ held.owner = Me(p) /\ held \in HolderRow
    BY DEF Mine, IInv, TypeOK
  <1>2. Live' = Live
    BY DEF Live, Me, procs
  <1>3. start' = start /\ held' = held /\ waiters' = waiters
    BY DEF procs, tables
  <1>4. \A q \in Pids \ {p} : pc'[q] = pc[q]
    BY DEF Others, Threads
  <1>5. Acting' = Acting \cup {Me(p)}
    BY <1>3, <1>4, InGains DEF Acting
  <1>6. Leaving' = Leaving
    BY <1>3, <1>4, InSame DEF Leaving
  <1>7. [owner |-> held.owner, claim |-> held.claim] # NoRow
    BY <1>1, RowAssumption DEF HolderRow
  <1>8. Me(p) \in Live /\ Me(p) \notin Leaving
    BY LiveIsIn
  <1> QED BY <1>1, <1>2, <1>3, <1>5, <1>6, <1>7, <1>8
          DEF Fifo!Enter, Live, Acting, Leaving, In

\* An action ends, if there was one, before its release begins.
LEMMA Exits ==
  ASSUME NEW p \in Pids, Running(p), pc'[p] \notin {"action", "deleteHolder"},
         pc[p] # "deleteHolder", Others(p), UNCHANGED <<tables, procs>>
  PROVE  \E owner \in Live : Fifo!Exit(owner)
  <1>1. start' = start /\ held' = held /\ waiters' = waiters
    BY DEF procs, tables
  <1>2. Live' = Live
    BY DEF Live, Me, procs
  <1>3. \A q \in Pids \ {p} : pc'[q] = pc[q]
    BY DEF Others, Threads
  <1>4. Acting' = Acting \ {Me(p)} /\ Leaving' = Leaving
    BY <1>1, <1>3, InLoses, InSame DEF Acting, Leaving
  <1>5. PICK owner : owner = Me(p)
    OBVIOUS
  <1>6. Fifo!Exit(owner)
    BY <1>1, <1>2, <1>4, <1>5 DEF Fifo!Exit, Live, Acting, Leaving, In
  <1> QED BY <1>5, <1>6, LiveIsIn

\* The holder is about to delete its row.
LEMMA BeginsRelease ==
  ASSUME IInv, NEW p \in Pids, Running(p), Mine(p, held), pc[p] # "action",
         pc'[p] = "deleteHolder", Others(p), UNCHANGED <<tables, procs>>
  PROVE  Fifo!BeginRelease
  <1>1. held # NoRow /\ held.owner = Me(p) /\ held \in HolderRow
    BY DEF Mine, IInv, TypeOK
  <1>2. Live' = Live
    BY DEF Live, Me, procs
  <1>3. start' = start /\ held' = held /\ waiters' = waiters
    BY DEF procs, tables
  <1>4. \A q \in Pids \ {p} : pc'[q] = pc[q]
    BY DEF Others, Threads
  <1>5. Leaving' = Leaving \cup {Me(p)}
    BY <1>3, <1>4, InGains DEF Leaving
  <1>6. Acting' = Acting
    BY <1>3, <1>4, InSame DEF Acting
  <1>7. [owner |-> held.owner, claim |-> held.claim] # NoRow
    BY <1>1, RowAssumption DEF HolderRow
  <1>8. Me(p) \in Live /\ Me(p) \notin Acting
    BY LiveIsIn
  <1> QED BY <1>1, <1>2, <1>3, <1>5, <1>6, <1>7, <1>8
          DEF Fifo!BeginRelease, Live, Acting, Leaving, In

\* The row is deleted, or was not to be.
LEMMA EndsRelease ==
  ASSUME IInv, NEW p \in Pids, Running(p), pc[p] = "deleteHolder",
         pc'[p] \notin {"action", "deleteHolder"}, Others(p), UNCHANGED procs,
         waiters' = waiters,
         held' # held => held # NoRow /\ held.owner = Me(p) /\ held' = NoRow
  PROVE  \E owner \in Live : Fifo!EndRelease(owner)
  <1>1. start' = start /\ Live' = Live
    BY DEF procs, Live, Me
  <1>2. \A q \in Pids \ {p} : pc'[q] = pc[q]
    BY DEF Others, Threads
  <1>3. Acting' = Acting /\ Leaving' = Leaving \ {Me(p)}
    BY <1>1, <1>2, InLoses, InSame DEF Acting, Leaving
  <1>4. held # NoRow => [owner |-> held.owner, claim |-> held.claim] # NoRow
    BY RowAssumption DEF HolderRow, IInv, TypeOK
  <1>5. Me(p) \in Leaving /\ Me(p) \in Live
    BY LiveIsIn
  <1>6. PICK owner : owner = Me(p)
    OBVIOUS
  <1>7. Fifo!EndRelease(owner)
    BY <1>1, <1>3, <1>4, <1>5, <1>6
    DEF Fifo!EndRelease, Live, Acting, Leaving, In
  <1> QED BY <1>5, <1>6, <1>7

\* A dead holder's row is deleted.
LEMMA Reaps ==
  ASSUME IInv, held # NoRow, ~Alive(held.owner), held' = NoRow, waiters' = waiters,
         Live' = Live, Acting' = Acting, Leaving' = Leaving
  PROVE  Fifo!Reap
  <1>1. [owner |-> held.owner, claim |-> held.claim] # NoRow
    BY RowAssumption DEF HolderRow, IInv, TypeOK
  <1>2. held.owner \notin Live
    BY DeadIsOut
  <1> QED BY <1>1, <1>2 DEF Fifo!Reap, Live, Acting, Leaving, In

\* A crash is a death of the abstract owner.
LEMMA CrashDies ==
  ASSUME IInv, NEW p \in Pids, Crash(p)
  PROVE  \E owner \in Live : Fifo!Die(owner)
  <1>1. /\ alive[p] /\ alive' = [alive EXCEPT ![p] = FALSE] /\ start' = start
        /\ held' = held /\ waiters' = waiters
    BY DEF Crash, tables
  <1>2. pc'[p] = "idle" /\ \A q \in Pids \ {p} : pc'[q] = pc[q]
    BY DEF Crash, Goto, IInv, TypeOK, Threads
  <1>3. Acting' = Acting \ {Me(p)} /\ Leaving' = Leaving \ {Me(p)}
    BY <1>1, <1>2, InLoses DEF Acting, Leaving
  <1>4. Live' = Live \ {Me(p)}
    <2>1. \A q \in Pids : Me(q)' = Me(q) /\ (alive'[q] <=> alive[q] /\ q # p)
      BY <1>1 DEF Me, IInv, TypeOK
    <2> QED BY <2>1, MeIsMine DEF Live
  <1>5. PICK owner : owner = Me(p)
    OBVIOUS
  <1>6. Fifo!Die(owner)
    BY <1>1, <1>3, <1>4, <1>5 DEF Fifo!Die, Live, Acting, Leaving, In
  <1>7. Me(p) \in Live
    BY <1>1, LiveMembers
  <1> QED BY <1>5, <1>6, <1>7

\* A restart is a new owner.
LEMMA RestartStarts ==
  ASSUME IInv, NEW p \in Pids, Restart(p)
  PROVE  \E owner \in Live' : Fifo!Start(owner)
  <1>1. /\ ~alive[p] /\ alive' = [alive EXCEPT ![p] = TRUE]
        /\ start' = [start EXCEPT ![p] = start[p] + 1] /\ start[p] \in Nat
        /\ held' = held /\ waiters' = waiters /\ pc' = pc
    BY DEF Restart, tables, IInv, TypeOK
  <1>2. pc[p] = "idle" /\ \A q \in Pids \ {p} : Me(q)' = Me(q) /\ alive'[q] = alive[q]
    BY <1>1 DEF IInv, TypeOK, LeaseInv, ThreadInv, Threads, Me
  <1>3. alive'[p] /\ Me(p)' = [pid |-> p, start |-> start[p] + 1]
    BY <1>1 DEF Me, IInv, TypeOK
  <1>4. Acting' = Acting /\ Leaving' = Leaving
    BY <1>1, <1>2 DEF Acting, Leaving, In
  <1>5. Live' = Live \cup {Me(p)'}
    BY <1>1, <1>2, <1>3 DEF Live
  <1>6. Me(p)' \notin Acting \cup Leaving
    <2>1. \A q \in Pids \ {p} : Me(q) # Me(p)'
      BY DEF Me
    <2> QED BY <1>2, <2>1, InMembers DEF Acting, Leaving
  <1>7. PICK id : id = Me(p)'
    OBVIOUS
  <1>8. Fifo!Start(id)
    BY <1>1, <1>4, <1>5, <1>6, <1>7 DEF Fifo!Start, Live, Acting, Leaving, In
  <1> QED BY <1>5, <1>7, <1>8

\* A step of reconcile is one transaction of the abstract lease, or none.
LEMMA ReconcileRefines ==
  ASSUME IInv, NEW t \in Threads, ReconcileStep(t)
  PROVE  Fifo!Next \/ UNCHANGED Fifo!vars
  <1>1. UNCHANGED procs
    BY WithinTables
  <1>2. Live' = Live /\ Acting' = Acting /\ Leaving' = Leaving
    <2>1. CASE Done(t)
      <3>1. pc'[t] = "idle" /\ Others(t) /\ pc[t] = "done"
        BY <2>1, OthersStay DEF Done, Goto, Others, At
      <3> QED BY <1>1, <3>1, Neutral DEF procs
    <2>2. CASE Within(t)
      <3>1. fr[t].ret \in Returns
        BY DEF IInv, TypeOK, Frame
      <3>2. /\ Others(t) /\ pc[t] \notin {"action", "deleteHolder"}
            /\ pc'[t] \notin {"action", "deleteHolder"}
        BY <2>2, <3>1 DEF Within, Reconciling, Returns
      <3> QED BY <1>1, <3>2, Neutral DEF procs
    <2> QED BY <2>1, <2>2, WithinStep
  <1>3. CASE ReapHolder(t)
    <2>1. CASE held' = held
      BY <1>2, <1>3, <2>1, Stutters DEF ReapHolder
    <2>2. CASE held' # held
      <3>1. held # NoRow /\ held' = NoRow /\ ~Alive(held.owner) /\ waiters' = waiters
        BY <1>3, <2>2 DEF ReapHolder, DeleteHeld, SaysDead
      <3> QED BY <1>2, <3>1, Reaps DEF Fifo!Next
    <2> QED BY <2>1, <2>2
  <1>4. CASE ReapWaiter(t) \/ ReapHead(t)
    <2>1. /\ held' = held /\ ~Alive(fr[t].row.owner)
          /\ waiters' = {w \in waiters : ~SameWaiter(w, fr[t].row)}
      BY <1>4 DEF ReapWaiter, ReapHead, SaysDead, DeleteWaiter
    <2>2. \A w \in waiters \ waiters' : w.owner \notin Acting
      BY <2>1, DeadIsOut DEF SameWaiter
    <2> QED BY <1>2, <2>1, <2>2, Leaves DEF Fifo!Next
  <1>5. CASE Promote(t)
    <2>1. CASE Promotable(fr[t].row)
      <3>1. PICK w \in waiters : IsFirst(w, waiters) /\ SameWaiter(w, fr[t].row)
        BY <2>1 DEF Promotable
      <3>2. /\ held = NoRow
            /\ held' = [owner |-> fr[t].row.owner, claim |-> fr[t].row.claim,
                        lease |-> nextId]
            /\ waiters' = {v \in waiters : ~SameWaiter(v, fr[t].row)}
        BY <1>5, <2>1 DEF Promote, Promotable, DeleteWaiter
      <3>3. /\ held'.owner = w.owner /\ held'.claim = w.claim
            /\ waiters' = {v \in waiters : ~SameWaiter(v, w)}
        BY <3>1, <3>2 DEF SameWaiter
      <3>4. held' # NoRow
        <4>1. fr[t].row \in WaiterRow
          BY <1>5 DEF Promote, At, IInv, LeaseInv, ThreadInv
        <4> QED BY <3>2, <4>1, Counters, RowAssumption DEF WaiterRow, HolderRow
      <3> QED BY <1>2, <3>1, <3>2, <3>3, <3>4, Grants DEF Fifo!Next
    <2>2. CASE ~Promotable(fr[t].row)
      BY <1>2, <1>5, <2>2, Stutters DEF Promote, tables
    <2> QED BY <2>1, <2>2
  <1>6. CASE \/ ReadHolder(t) \/ HolderStays(t) \/ ReadWaiters(t) \/ WaiterStays(t)
             \/ ReadHead(t) \/ HeadBlocks(t) \/ Done(t)
    <2>1. held' = held /\ waiters' = waiters
      BY <1>6 DEF ReadHolder, HolderStays, ReadWaiters, WaiterStays, ReadHead,
         HeadBlocks, Done, tables
    <2> QED BY <1>2, <2>1, Stutters
  <1> QED BY <1>3, <1>4, <1>5, <1>6 DEF ReconcileStep

\* Another attempt of acquire is no step of the lease.
LEMMA AgainShape ==
  ASSUME IInv, NEW p \in Pids, AcquireAgain(p)
  PROVE  pc'[p] = "readHolder"
  <1>1. p \in Threads
    BY DEF Threads
  <1>2. CASE fr[p].attempt + 1 < AcquireRaceLimit
    BY <1>1, <1>2 DEF AcquireAgain, Goto, IInv, TypeOK
  <1>3. CASE ~(fr[p].attempt + 1 < AcquireRaceLimit)
    <2>1. Reconcile(p, "poll")
      BY <1>3 DEF AcquireAgain
    <2> QED BY <1>1, <2>1, CallShape
  <1> QED BY <1>2, <1>3

\* Rows that go with a call that gives up belong to its process.
LEMMA GivenUpRows ==
  ASSUME IInv, ClaimInv, NEW p \in Pids, Running(p), pc[p] \notin {"idle", "action"},
         held' = held, waiters' = {w \in waiters : w.claim # fr[p].claim},
         Live' = Live, Acting' = Acting, Leaving' = Leaving
  PROVE  Fifo!Leave
  <1>1. \A w \in waiters \ waiters' : w.owner = Me(p)
    BY DEF ClaimInv, CallInv
  <1>2. Me(p) \notin Acting
    BY LiveIsIn
  <1> QED BY <1>1, <1>2, Leaves

\* Every step of the guard outside reconcile is an abstract step or a stutter,
LEMMA GuardRefines ==
  ASSUME IInv, ClaimInv, NEW p \in Pids, GuardStep(p)
  PROVE  Fifo!Next \/ UNCHANGED Fifo!vars
  <1> USE DEF At
  <1>0. p \in Threads /\ IInv
    BY DEF Threads
  <1>1. Guarding(p) /\ Others(p) /\ UNCHANGED procs /\ Running(p)
    BY GuardingStep, GuardTables
    DEF Guarding, GuardStep, Decide, AcquireDirect, Enqueue, AfterQueue,
        ReleaseCheck, DeleteHolder, Released, Poll, TimeOut, TimedOut, FinishAction
  <1>2. ASSUME pc[p] \notin {"action", "deleteHolder"},
               pc'[p] \notin {"action", "deleteHolder"}
        PROVE  Live' = Live /\ Acting' = Acting /\ Leaving' = Leaving
    BY <1>0, <1>1, <1>2, Neutral DEF procs
  <1>3. ASSUME NEW l, Goto(p, l)
        PROVE  pc'[p] = l
    BY <1>0, <1>3 DEF Goto, IInv, TypeOK
  <1>4. CASE Decide(p) \/ AfterQueue(p)
    <2>1. CASE Mine(p, held) /\ Goto(p, "action") /\ UNCHANGED tables
      BY <1>1, <1>3, <1>4, <2>1, Enters DEF Decide, AfterQueue, Fifo!Next
    <2>2. CASE \/ Goto(p, "poll") \/ Goto(p, "direct") \/ Goto(p, "enqueue")
               \/ AcquireAgain(p)
      <3>1. pc'[p] \notin {"action", "deleteHolder"}
        BY <1>3, <2>2, AgainShape
      <3>2. held' = held /\ waiters' = waiters /\ pc[p] \notin {"action", "deleteHolder"}
        BY <1>4 DEF Decide, AfterQueue, tables
      <3> QED BY <1>2, <3>1, <3>2, Stutters
    <2> QED BY <1>4, <2>1, <2>2 DEF Decide, AfterQueue
  <1>5. CASE AcquireDirect(p)
    <2>1. CASE DirectAllowed(p)
      <3>1. /\ held = NoRow /\ waiters = {} /\ waiters' = waiters
            /\ held' = [owner |-> Me(p), claim |-> fr[p].claim, lease |-> nextId]
            /\ pc'[p] = "action" /\ pc[p] = "direct"
        BY <1>3, <1>5, <2>1 DEF AcquireDirect, DirectAllowed
      <3>2. held' \in HolderRow
        BY <1>0, <3>1, ClaimKnown, Counters DEF HolderRow, Identity, Me, IInv, TypeOK
      <3>3. start' = start /\ \A q \in Pids \ {p} : pc'[q] = pc[q]
        BY <1>1 DEF procs, Others, Threads
      <3>4. Acting' = Acting \cup {held'.owner} /\ Leaving' = Leaving
        BY <3>1, <3>3, InGains, InSame DEF Acting, Leaving
      <3>5. Live' = Live /\ held'.owner \in Live
        BY <1>1, <3>1, LiveIsIn DEF Live, Me, procs
      <3> QED BY <3>1, <3>2, <3>4, <3>5, Takes
    <2>2. CASE ~DirectAllowed(p)
      <3>1. /\ pc'[p] = "readHolder" /\ held' = held /\ waiters' = waiters
            /\ pc[p] = "direct"
        BY <1>5, <2>2, AgainShape DEF AcquireDirect, tables
      <3> QED BY <1>2, <3>1, Stutters
    <2> QED BY <2>1, <2>2
  <1>6. CASE Enqueue(p)
    <2>1. pc'[p] = "readHolder" /\ pc[p] = "enqueue" /\ held' = held
      BY <1>0, <1>6, CallShape DEF Enqueue
    <2>2. CASE waiters' = waiters
      BY <1>2, <2>1, <2>2, Stutters
    <2>3. CASE waiters' # waiters
      <3> DEFINE w == [owner |-> Me(p), claim |-> fr[p].claim, seq |-> nextId]
      <3>1. waiters' = waiters \cup {w}
        BY <1>6, <2>3 DEF Enqueue
      <3>2. w.owner \in Live /\ \A v \in waiters : v.seq < w.seq
        BY <1>1, LiveIsIn DEF ClaimInv, WaiterInv
      <3> HIDE DEF w
      <3> QED BY <1>2, <2>1, <3>1, <3>2, Joins DEF Fifo!Next
    <2> QED BY <2>2, <2>3
  <1>7. CASE ReleaseCheck(p)
    <2>1. CASE Mine(p, held) /\ Goto(p, "deleteHolder")
      BY <1>1, <1>3, <1>7, <2>1, BeginsRelease DEF ReleaseCheck, Fifo!Next
    <2>2. CASE Goto(p, "done") \/ Reconcile(p, "done")
      <3>1. pc'[p] \notin {"action", "deleteHolder"}
        BY <1>0, <1>3, <2>2, CallShape
      <3>2. held' = held /\ waiters' = waiters /\ pc[p] \notin {"action", "deleteHolder"}
        BY <1>7 DEF ReleaseCheck, tables
      <3> QED BY <1>2, <3>1, <3>2, Stutters
    <2> QED BY <1>7, <2>1, <2>2 DEF ReleaseCheck
  <1>8. CASE DeleteHolder(p)
    <2>1. PICK r \in Returns : Reconcile(p, r)
      BY <1>8 DEF DeleteHolder, Returns
    <2>2. pc'[p] = "readHolder" /\ pc[p] = "deleteHolder" /\ waiters' = waiters
      BY <1>0, <1>8, <2>1, CallShape DEF DeleteHolder
    <2>3. Mine(p, fr[p].row)
      BY <1>0, <2>2 DEF IInv, LeaseInv, ThreadInv
    <2>4. held' # held => held # NoRow /\ held.owner = Me(p) /\ held' = NoRow
      <3>1. DeleteHeld(fr[p].row)
        BY <1>8 DEF DeleteHolder
      <3> QED BY <2>3, <3>1 DEF DeleteHeld, Mine
    <2>5. \E owner \in Live : Fifo!EndRelease(owner)
      BY <1>1, <2>2, <2>4, EndsRelease
    <2> QED BY <2>5 DEF Fifo!Next, Live
  <1>9. CASE FinishAction(p)
    <2>1. pc'[p] = "readHolder" /\ pc[p] = "action" /\ UNCHANGED tables
      BY <1>0, <1>9, CallShape DEF FinishAction
    <2>2. \E owner \in Live : Fifo!Exit(owner)
      BY <1>1, <2>1, Exits
    <2> QED BY <2>2 DEF Fifo!Next, Live
  <1>10. CASE TimeOut(p)
    <2>1. /\ pc'[p] = "timedOut" /\ pc[p] = "poll" /\ held' = held
          /\ waiters' = {w \in waiters : w.claim # fr[p].claim}
      BY <1>3, <1>10 DEF TimeOut, CancelWait
    <2> QED BY <1>1, <1>2, <2>1, GivenUpRows DEF Fifo!Next
  <1>11. CASE Released(p) \/ TimedOut(p) \/ Poll(p)
    <2>1. pc'[p] = "readHolder"
      BY <1>0, <1>3, <1>11, CallShape DEF Released, TimedOut, Poll
    <2>2. held' = held /\ waiters' = waiters /\ pc[p] \notin {"action", "deleteHolder"}
      BY <1>11 DEF Released, TimedOut, Poll, tables
    <2> QED BY <1>2, <2>1, <2>2, Stutters
  <1> QED BY <1>4, <1>5, <1>6, <1>7, <1>8, <1>9, <1>10, <1>11 DEF GuardStep

\* also when its statement throws.
LEMMA ThrowRefines ==
  ASSUME IInv, ClaimInv, NEW t \in Threads, StoreThrows(t)
  PROVE  Fifo!Next \/ UNCHANGED Fifo!vars
  <1>1. /\ Running(t) /\ Others(t) /\ held' = held /\ UNCHANGED procs
        /\ pc[t] \notin {"idle", "action"} /\ LabelInv(t)
        /\ \/ pc'[t] = "done" /\ waiters' = waiters
           \/ /\ Acquiring(t) /\ pc'[t] = "timedOut"
              /\ waiters' = {w \in waiters : w.claim # fr[t].claim}
    BY ThrowShape DEF StoreThrows, ClaimInv
  <1>2. CASE pc[t] = "deleteHolder"
    <2>1. t \in Pids /\ ~Acquiring(t)
      BY <1>1, <1>2 DEF LabelInv, Threads, Acquiring, Reconciling
    <2>2. /\ Running(t) /\ Others(t) /\ held' = held /\ UNCHANGED procs
          /\ pc'[t] \notin {"action", "deleteHolder"} /\ waiters' = waiters
      BY <1>1, <2>1
    <2>3. \E owner \in Live : Fifo!EndRelease(owner)
      BY <1>2, <2>1, <2>2, EndsRelease
    <2> QED BY <2>3 DEF Fifo!Next, Live
  <1>3. CASE pc[t] # "deleteHolder"
    <2>1. Live' = Live /\ Acting' = Acting /\ Leaving' = Leaving
      BY <1>1, <1>3, Neutral DEF procs
    <2>2. CASE waiters' = waiters
      BY <1>1, <2>1, <2>2, Stutters
    <2>3. CASE Acquiring(t) /\ waiters' = {w \in waiters : w.claim # fr[t].claim}
      <3>1. t \in Pids
        BY <1>1, <2>3 DEF LabelInv, Threads, Acquiring, Reconciling
      <3> QED BY <1>1, <2>1, <2>3, <3>1, GivenUpRows DEF Fifo!Next
    <2> QED BY <1>1, <2>2, <2>3
  <1> QED BY <1>2, <1>3

\* The initial states are initial states of the abstract specification.
LEMMA InitRefines == Init => Fifo!Init
  <1> SUFFICES ASSUME Init PROVE Fifo!Init
    OBVIOUS
  <1>1. Acting = {} /\ Leaving = {}
    BY DEF Init, Acting, Leaving, In, Threads
  <1>2. Live \subseteq Identity
    BY DEF Init, Live, Me, Identity
  <1>3. held = NoRow /\ waiters \subseteq WaiterRow
    BY RowAssumption DEF Init
  <1> QED BY <1>1, <1>2, <1>3
          DEF Fifo!Init, Fifo!Ticket, WaiterRow, Live, Acting, Leaving, In

\* Every step is an abstract step or a stutter.
LEMMA NextRefines ==
  ASSUME IInv, ClaimInv, [Next]_vars
  PROVE  Fifo!Next \/ UNCHANGED Fifo!vars
  <1>1. ASSUME NEW p \in Pids, Begin(p) PROVE UNCHANGED Fifo!vars
    <2>1. /\ pc'[p] = "readHolder" /\ pc[p] = "idle" /\ Others(p) /\ p \in Threads
          /\ held' = held /\ waiters' = waiters /\ UNCHANGED <<alive, start>>
      BY <1>1 DEF Begin, At, Goto, Others, Threads, tables, IInv, TypeOK
    <2> QED BY <2>1, Neutral, Stutters
  <1>2. ASSUME NEW o \in Observers, Observe(o) PROVE UNCHANGED Fifo!vars
    <2>1. /\ pc'[o] = "readHolder" /\ pc[o] = "idle" /\ Others(o) /\ o \in Threads
          /\ held' = held /\ waiters' = waiters /\ UNCHANGED <<alive, start>>
      BY <1>2, CallShape DEF Observe, Threads, tables, procs
    <2> QED BY <2>1, Neutral, Stutters
  <1>3. ASSUME NEW p \in Pids, Crash(p) PROVE Fifo!Next
    BY <1>3, CrashDies DEF Fifo!Next, Live
  <1>4. ASSUME NEW p \in Pids, Restart(p) PROVE Fifo!Next
    BY <1>4, RestartStarts DEF Fifo!Next, Live
  <1>5. ASSUME UNCHANGED vars PROVE UNCHANGED Fifo!vars
    <2>1. /\ held' = held /\ waiters' = waiters /\ Live' = Live
          /\ Acting' = Acting /\ Leaving' = Leaving
      BY <1>5 DEF vars, Live, Acting, Leaving, In, Me
    <2> QED BY <2>1, Stutters
  <1> QED BY <1>1, <1>2, <1>3, <1>4, <1>5, ReconcileRefines, GuardRefines, ThrowRefines
          DEF Next

\* The store and its guards do no more than a first-come-first-served lease,
\* for any number of processes, observers and faults.
THEOREM Refinement == Spec => ImplementsFifo
  <1>1. IInv /\ ClaimInv /\ [Next]_vars => [Fifo!Next]_(Fifo!vars)
    BY NextRefines
  <1> QED BY <1>1, InitRefines, Claims, PTL DEF Spec, ImplementsFifo, Fifo!Spec

=============================================================================
