----------------------- MODULE IdempotencyStoreProofs -----------------------
(***************************************************************************)
(* At most one run per key and life of its receipt, proved for every set   *)
(* of processes and calls, any clock bound and any fault.                  *)
(***************************************************************************)
EXTENDS IdempotencyStore, TLAPS

IInv == TypeOK /\ StoreInv

\* None is no value of a column.
LEMMA NoneIsNothing ==
  /\ None \notin Procs /\ None \notin Calls /\ None \notin Bodies
  /\ None \notin Row
  /\ None \notin [of : Calls, exp : Nat] /\ None \notin [body : Bodies, exp : Nat]
  BY StoreAssumption, RowAssumption

\* A call that is not made has a frame.
LEMMA NoFrameType == NoFrame \in Frame
  BY DEF NoFrame, Frame, Kinds

\* The invariant holds at first.
LEMMA InitInv == Init => IInv
  <1> SUFFICES ASSUME Init PROVE IInv
    OBVIOUS
  <1>1. TypeOK
    BY NoFrameType DEF Init, TypeOK, Labels
  <1>2. StoreInv
    BY NoneIsNothing DEF Init, StoreInv, CallInv, Guarded, Begun, ReceiptsLanded,
       Completed
  <1> QED BY <1>1, <1>2 DEF IInv

\* What the end of a call leaves in the locals.
LEMMA AnswerType ==
  ASSUME TypeOK, NEW c \in Calls, NEW k \in Kinds, NEW d \in Calls \cup {None},
         Owner(c) \in Procs, Answer(c, k, d)
  PROVE  /\ fr' \in [Calls -> Frame] /\ pc' \in [Calls -> Labels]
         /\ active' \in [Procs -> Calls \cup {None}]
         /\ pc'[c] = "done"
         /\ \A u \in Calls : fr'[u].seen = fr[u].seen /\ fr'[u].proc = fr[u].proc
         /\ \A u \in Calls \ {c} : pc'[u] = pc[u] /\ fr'[u] = fr[u]
  <1>1. fr[c] \in Frame
    BY DEF TypeOK
  <1>2. [fr[c] EXCEPT !.kind = k, !.of = d] \in Frame
    BY <1>1 DEF Frame
  <1>3. fr' = [fr EXCEPT ![c] = [fr[c] EXCEPT !.kind = k, !.of = d]]
    BY <1>1 DEF Answer, TypeOK, Frame
  <1>4. fr' \in [Calls -> Frame]
    BY <1>2, <1>3 DEF TypeOK
  <1>5. \A u \in Calls : fr'[u].seen = fr[u].seen /\ fr'[u].proc = fr[u].proc
    BY <1>1, <1>3 DEF TypeOK, Frame
  <1>6. pc' \in [Calls -> Labels] /\ pc'[c] = "done"
        /\ \A u \in Calls \ {c} : pc'[u] = pc[u] /\ fr'[u] = fr[u]
    BY <1>3 DEF TypeOK, Answer, Goto, Labels
  <1>7. active' \in [Procs -> Calls \cup {None}]
    BY DEF TypeOK, Answer
  <1> QED BY <1>4, <1>5, <1>6, <1>7

\* A step of a call that is not running, and that does not start to, keeps
\* the invariant if it leaves receipts and processes alone and the call ends or
\* stays in order.  Expired receipts may be pruned.
LEMMA LocalStep ==
  ASSUME IInv, NEW c \in Calls, pc[c] \notin {"running", "adrift", "done"},
         pc'[c] \notin {"running", "adrift"},
         row' \in {row, Fresh(row, clock)},
         mode' = mode, landed' = landed, until' = until, clock' = clock,
         status' = status, fallback' = fallback,
         binding' \in [body : Bodies, exp : Nat] \cup {None},
         identity' \in [Procs -> {"unread", "read", "failed"}],
         active' \in [Procs -> Calls \cup {None}],
         fr' \in [Calls -> Frame], pc' \in [Calls -> Labels],
         \A u \in Calls \ {c} : pc'[u] = pc[u] /\ fr'[u] = fr[u],
         CallInv(c)'
  PROVE  IInv'
  <1>1. TypeOK'
    BY DEF IInv, TypeOK, Fresh
  <1>2. ASSUME NEW u \in Calls PROVE CallInv(u)' /\ Guarded(u)'
    <2>1. CallInv(u) /\ Guarded(u) /\ until[u] \in Nat /\ clock \in Nat
      BY DEF IInv, StoreInv, TypeOK
    <2>2. Guarded(u)'
      BY <2>1 DEF Guarded, Begun, Mine, Owner, Fresh, Completed, Unfinished
    <2>3. ASSUME u # c PROVE CallInv(u)'
      <3>1. pc'[u] = pc[u] /\ fr'[u] = fr[u]
        BY <2>3
      <3> QED BY <2>1, <3>1 DEF CallInv, Owner, Dead
    <2> QED BY <2>2, <2>3
  <1>3. ReceiptsLanded'
    BY DEF IInv, StoreInv, ReceiptsLanded, Fresh, Completed
  <1> QED BY <1>1, <1>2, <1>3 DEF IInv, StoreInv

\* A call that ends without touching rows or receipts.
LEMMA AnswerInv ==
  ASSUME IInv, NEW c \in Calls, NEW k \in Kinds, NEW d \in Calls \cup {None},
         pc[c] \notin {"idle", "done", "gone", "adrift", "running"}, Answer(c, k, d),
         row' \in {row, Fresh(row, clock)},
         UNCHANGED <<mode, clock, status, binding, fallback, landed, until>>,
         identity' \in [Procs -> {"unread", "read", "failed"}]
  PROVE  IInv'
  <1>1. Owner(c) \in Procs
    BY DEF IInv, StoreInv, CallInv
  <1>2. CallInv(c)'
    BY <1>1, AnswerType DEF IInv, CallInv
  <1> QED BY <1>1, <1>2, AnswerType, LocalStep DEF IInv, TypeOK


----------------------------------------------------------------------------
(* The steps of a call that leave reservations and receipts alone. *)

\* Bind keeps the invariant.
LEMMA BindInv ==
  ASSUME IInv, NEW c \in Calls, NEW p \in Procs, NEW b \in Bodies, Bind(c, p, b)
  PROVE  IInv'
  <1> USE DEF Bind, At, procs, effects
  <1>1. fr[c] \in Frame /\ clock + TTL \in Nat
    BY StoreAssumption DEF IInv, TypeOK
  <1>2. /\ fr' \in [Calls -> Frame] /\ pc' \in [Calls -> Labels]
        /\ \A u \in Calls \ {c} : pc'[u] = pc[u] /\ fr'[u] = fr[u]
        /\ pc'[c] \in {"enter", "done"} /\ fr'[c].proc = p
    BY <1>1 DEF IInv, TypeOK, Goto, Labels, Frame, Kinds
  <1>3. binding' \in [body : Bodies, exp : Nat] \cup {None}
    BY <1>1 DEF IInv, TypeOK
  <1>4. CallInv(c)'
    BY <1>2 DEF CallInv, Owner
  <1> QED BY <1>2, <1>3, <1>4, LocalStep DEF IInv, TypeOK

\* Enter keeps the invariant.
LEMMA EnterInv ==
  ASSUME IInv, NEW c \in Calls, Enter(c)
  PROVE  IInv'
  <1> USE DEF At, procs, effects
  <1>1. Owner(c) \in Procs /\ status[Owner(c)] = "up" /\ fr[c] \in Frame
        /\ pc[c] = "enter"
    BY DEF IInv, StoreInv, CallInv, TypeOK, Enter
  <1>2. CASE /\ active[Owner(c)] # None
             /\ Goto(c, "attached")
             /\ fr' = [fr EXCEPT ![c].leader = active[Owner(c)]]
             /\ UNCHANGED <<row, active>>
    <2>1. /\ fr' \in [Calls -> Frame] /\ pc' \in [Calls -> Labels]
          /\ \A u \in Calls \ {c} : pc'[u] = pc[u] /\ fr'[u] = fr[u]
          /\ pc'[c] = "attached" /\ fr'[c].proc = Owner(c)
          /\ fr'[c].leader \in Calls
      BY <1>1, <1>2 DEF IInv, TypeOK, Goto, Labels, Frame, Owner
    <2>2. CallInv(c)'
      BY <1>1, <2>1 DEF CallInv, Owner, Enter
    <2> QED BY <1>1, <1>2, <2>1, <2>2, LocalStep DEF IInv, TypeOK, Enter
  <1>3. CASE row' = Fresh(row, clock)
             /\ Answer(c, "result", fallback[Owner(c)].of)
             /\ fallback[Owner(c)] # None
    BY <1>1, <1>3, AnswerInv DEF IInv, TypeOK, Enter, Kinds
  <1>4. CASE row' = Fresh(row, clock) /\ Completed(row')
             /\ Answer(c, "result", row'.rid)
    <2>1. row' \in Row
      BY <1>4 DEF IInv, TypeOK, Fresh, Completed
    <2> QED BY <1>1, <1>4, <2>1, AnswerInv DEF IInv, TypeOK, Enter, Kinds, Row
  <1>5. CASE /\ row' = Fresh(row, clock) /\ ~Completed(row')
             /\ Goto(c, IF row' # None THEN "probe" ELSE "reserve")
             /\ fr' = [fr EXCEPT ![c].now = clock, ![c].seen = row']
             /\ active' = Register(c)
    <2>1. row' \in Row \cup {None}
      BY <1>5 DEF IInv, TypeOK, Fresh
    <2>2. /\ fr' \in [Calls -> Frame] /\ pc' \in [Calls -> Labels]
          /\ \A u \in Calls \ {c} : pc'[u] = pc[u] /\ fr'[u] = fr[u]
          /\ pc'[c] = IF row' # None THEN "probe" ELSE "reserve"
          /\ fr'[c].proc = Owner(c) /\ fr'[c].seen = row'
      BY <1>1, <1>5, <2>1 DEF IInv, TypeOK, Goto, Labels, Frame, Owner
    <2>3. CallInv(c)'
      BY <1>1, <2>1, <2>2 DEF CallInv, Owner, Enter
    <2>4. active' \in [Procs -> Calls \cup {None}]
      BY <1>5 DEF Register, IInv, TypeOK
    <2> QED BY <1>1, <1>5, <2>2, <2>3, <2>4, LocalStep DEF IInv, TypeOK, Enter
  <1> QED BY <1>2, <1>3, <1>4, <1>5 DEF Enter

\* FollowLeader keeps the invariant.
LEMMA FollowLeaderInv ==
  ASSUME IInv, NEW c \in Calls, FollowLeader(c)
  PROVE  IInv'
  <1>1. fr[c].leader \in Calls
    BY DEF IInv, StoreInv, CallInv, FollowLeader, At
  <1>2. fr[fr[c].leader].kind \in Kinds /\ fr[fr[c].leader].of \in Calls \cup {None}
    BY <1>1 DEF IInv, TypeOK, Frame
  <1> QED BY <1>2, AnswerInv DEF FollowLeader, At, procs, effects, IInv, TypeOK

\* The calls that end with an answer about somebody else's reservation, and
\* those that the guard refuses.
LEMMA AnswersInv ==
  ASSUME IInv, NEW c \in Calls,
         \/ OwnerLives(c) \/ NoProof(c) \/ IdentityFails(c) \/ StoreThrows(c)
  PROVE  IInv'
  <1>1. /\ row' = row /\ pc[c] \in {"probe", "reconcile", "reserve", "enter", "lost"}
        /\ UNCHANGED <<mode, clock, status, binding, fallback, landed, until>>
        /\ identity' \in [Procs -> {"unread", "read", "failed"}]
    BY DEF OwnerLives, NoProof, IdentityFails, StoreThrows, At, procs, effects,
           IInv, TypeOK
  <1>2. PICK k \in Kinds : Answer(c, k, None)
    BY DEF OwnerLives, NoProof, IdentityFails, StoreThrows, Kinds
  <1> QED BY <1>1, <1>2, AnswerInv

\* OwnerDead keeps the invariant.
LEMMA OwnerDeadInv ==
  ASSUME IInv, NEW c \in Calls, OwnerDead(c)
  PROVE  IInv'
  <1> USE DEF At, procs, effects
  <1>1. CASE Answer(c, "unresolved", None)
    BY <1>1, AnswerInv DEF OwnerDead, Kinds, IInv, TypeOK
  <1>2. CASE Goto(c, "reconcile") /\ UNCHANGED <<fr, active>>
    <2>1. /\ pc' \in [Calls -> Labels] /\ pc'[c] = "reconcile"
          /\ \A u \in Calls \ {c} : pc'[u] = pc[u] /\ fr'[u] = fr[u]
      BY <1>2 DEF IInv, TypeOK, Goto, Labels
    <2>2. CallInv(c)'
      BY <1>2, <2>1 DEF CallInv, Owner, Dead, OwnerDead, IInv, StoreInv
    <2> QED BY <1>2, <2>1, <2>2, LocalStep DEF OwnerDead, IInv, TypeOK
  <1> QED BY <1>1, <1>2 DEF OwnerDead

\* LoserLooks keeps the invariant.
LEMMA LoserLooksInv ==
  ASSUME IInv, NEW c \in Calls, LoserLooks(c)
  PROVE  IInv'
  <1> USE DEF LoserLooks, At, procs, effects
  <1> DEFINE raced == Fresh(row, fr[c].now)
  <1>1. raced \in Row \cup {None} /\ raced \in {row, None}
    BY DEF IInv, TypeOK, Fresh
  <1>2. CASE Answer(c, "inProgress", None)
    BY <1>2, AnswerInv DEF Kinds, IInv, TypeOK
  <1>3. CASE Completed(raced) /\ Answer(c, "result", raced.rid)
    <2>1. raced.rid \in Calls
      BY <1>1, <1>3 DEF Completed, Row
    <2> QED BY <1>3, <2>1, AnswerInv DEF Kinds, IInv, TypeOK
  <1>4. CASE /\ Unfinished(raced) /\ Goto(c, "probe")
             /\ fr' = [fr EXCEPT ![c].seen = raced, ![c].raced = TRUE]
             /\ UNCHANGED active
    <2>1. raced \in Row /\ fr[c] \in Frame
      BY <1>1, <1>4 DEF Unfinished, IInv, TypeOK
    <2>2. /\ fr' \in [Calls -> Frame] /\ pc' \in [Calls -> Labels]
          /\ \A u \in Calls \ {c} : pc'[u] = pc[u] /\ fr'[u] = fr[u]
          /\ pc'[c] = "probe" /\ fr'[c].proc = Owner(c) /\ fr'[c].seen = raced
      BY <1>4, <2>1 DEF IInv, TypeOK, Goto, Labels, Frame, Owner
    <2>3. CallInv(c)'
      BY <2>1, <2>2 DEF CallInv, Owner, IInv, StoreInv
    <2> QED BY <1>4, <2>2, <2>3, LocalStep DEF IInv, TypeOK
  <1> QED BY <1>2, <1>3, <1>4

----------------------------------------------------------------------------
(* The steps that change reservations and receipts. *)

\* What the row tells when it is empty: every run that did not fail has a
\* receipt that has expired.
LEMMA FreeRow ==
  ASSUME IInv, row = None, NEW d \in Calls, Begun(d)
  PROVE  until[d] \in 1..clock
  BY DEF IInv, StoreInv, TypeOK, Guarded, Mine, Unfinished, Completed

\* The row belongs to one call: no other run still needs it.
LEMMA OneOwner ==
  ASSUME IInv, row # None, NEW d \in Calls, d # row.rid
  PROVE  pc[d] # "running" /\ (Begun(d) => until[d] \in 1..clock)
  BY DEF IInv, StoreInv, TypeOK, Guarded, Mine, Begun, Unfinished

\* Reserve keeps the invariant.
LEMMA ReserveInv ==
  ASSUME IInv, NEW c \in Calls, Reserve(c)
  PROVE  IInv'
  <1> USE DEF Reserve, At, effects
  <1>1. /\ pc' \in [Calls -> Labels] /\ pc[c] = "reserve"
        /\ pc'[c] = IF row = None THEN "running" ELSE "lost"
        /\ \A u \in Calls \ {c} : pc'[u] = pc[u]
        /\ identity' \in [Procs -> {"unread", "read", "failed"}]
        /\ Owner(c) \in Procs /\ status[Owner(c)] = "up"
    BY DEF IInv, TypeOK, Goto, Labels, StoreInv, CallInv
  <1>2. CASE row # None
    <2>1. CallInv(c)'
      BY <1>1, <1>2 DEF CallInv, Owner
    <2> QED BY <1>1, <1>2, <2>1, LocalStep DEF IInv, TypeOK
  <1>3. CASE row = None
    <2>1. fr[c].now + TTL \in Nat
      BY StoreAssumption DEF IInv, TypeOK, Frame
    <2>2. row' \in Row /\ Unfinished(row') /\ row'.rid = c /\ row'.owner = Owner(c)
      <3>1. row' = [rid |-> c, owner |-> Owner(c), done |-> FALSE,
                    exp |-> fr[c].now + TTL]
        BY <1>3
      <3>2. row' \in Row
        BY <1>1, <2>1, <3>1 DEF Row
      <3> QED BY <3>1, <3>2, NoneIsNothing DEF Unfinished
    <2>3. TypeOK'
      BY <1>1, <2>2 DEF IInv, TypeOK
    <2>4. ASSUME NEW u \in Calls PROVE CallInv(u)' /\ Guarded(u)'
      <3>1. CASE u = c
        <4>1. c \notin landed /\ until[c] = 0 /\ clock \in Nat
          BY <1>1 DEF IInv, StoreInv, Guarded, Begun, TypeOK
        <4> QED BY <1>1, <2>2, <3>1, <4>1
                DEF CallInv, Guarded, Begun, Mine, Owner
      <3>2. CASE u # c
        <4>1. CallInv(u)'
          BY <1>1, <3>2 DEF IInv, StoreInv, CallInv, Owner, Dead
        <4>2. pc[u] # "running" /\ (~Begun(u) => until[u] = 0)
          BY <1>3 DEF IInv, StoreInv, Guarded, Begun, Mine, Unfinished
        <4>3. Begun(u) => until[u] \in 1..clock
          BY <1>3, FreeRow
        <4>4. u \in landed => pc[u] \in {"running", "adrift", "done"}
          BY DEF IInv, StoreInv, Guarded
        <4>5. clock \in Nat
          BY DEF IInv, TypeOK
        <4> QED BY <4>4, <4>5, <1>1, <3>2, <4>1, <4>2, <4>3 DEF Guarded, Begun
      <3> QED BY <3>1, <3>2
    <2>5. ReceiptsLanded'
      BY <2>2 DEF IInv, StoreInv, ReceiptsLanded, Completed, Unfinished
    <2> QED BY <2>3, <2>4, <2>5 DEF IInv, StoreInv
  <1> QED BY <1>2, <1>3

\* The effect of a run lands: the row of the run guards it already.
LEMMA LandInv ==
  ASSUME IInv, NEW c \in Calls, Land(c)
  PROVE  IInv'
  <1>1. /\ UNCHANGED <<mode, clock, status, binding, row, fallback, active, pc, fr, until>>
        /\ landed' = landed \cup {c} /\ pc[c] \in {"running", "adrift"}
        /\ TypeOK'
    BY DEF Land, procs, IInv, TypeOK
  <1>2. ASSUME NEW u \in Calls PROVE CallInv(u)' /\ Guarded(u)'
    <2>1. CallInv(u) /\ Guarded(u)
      BY DEF IInv, StoreInv
    <2>2. Begun(u)' <=> Begun(u)
      BY <1>1 DEF Begun
    <2>3. CallInv(u)'
      BY <1>1, <2>1 DEF CallInv, Owner, Dead
    <2> QED BY <1>1, <2>1, <2>2, <2>3 DEF Guarded, Mine, Owner
  <1>3. ReceiptsLanded'
    BY <1>1 DEF IInv, StoreInv, ReceiptsLanded
  <1> QED BY <1>1, <1>2, <1>3 DEF IInv, StoreInv

\* A call c ends and the row becomes the receipt of call d, whose reservation
\* it was.
LEMMA ReceiptStep ==
  ASSUME IInv, NEW c \in Calls, NEW d \in Calls, NEW e \in Nat \ {0}, d \in landed,
         pc[c] \notin {"idle", "done", "gone", "adrift"}, c = d \/ pc[d] # "running",
         c = d \/ pc[c] # "running",
         Mine(d),
         row' = [row EXCEPT !.done = TRUE, !.owner = None, !.exp = e],
         until' = [until EXCEPT ![d] = e],
         Answer(c, "result", d),
         UNCHANGED <<mode, clock, status, identity, binding, fallback, landed>>
  PROVE  IInv'
  <1>1. Owner(c) \in Procs
    BY DEF IInv, StoreInv, CallInv
  <1>2. /\ fr' \in [Calls -> Frame] /\ pc' \in [Calls -> Labels]
        /\ active' \in [Procs -> Calls \cup {None}] /\ pc'[c] = "done"
        /\ \A u \in Calls : fr'[u].seen = fr[u].seen /\ fr'[u].proc = fr[u].proc
        /\ \A u \in Calls \ {c} : pc'[u] = pc[u] /\ fr'[u] = fr[u]
    BY <1>1, AnswerType DEF IInv, Kinds
  <1>3. row \in Row /\ row.rid = d
    BY DEF IInv, TypeOK, Mine, Unfinished
  <1>4. row' \in Row /\ row'.rid = d /\ row'.done = TRUE /\ row'.exp = e
    BY <1>3 DEF Row
  <1>5. TypeOK'
    BY <1>2, <1>4 DEF IInv, TypeOK
  <1>6. Completed(row')
    BY <1>4, NoneIsNothing DEF Completed
  <1>7. ASSUME NEW u \in Calls PROVE CallInv(u)' /\ Guarded(u)'
    <2>1. CallInv(u) /\ Guarded(u) /\ clock \in Nat
      BY DEF IInv, StoreInv, TypeOK
    <2>2. CallInv(u)'
      <3>1. CASE u = c
        BY <1>2, <3>1 DEF CallInv
      <3>2. CASE u # c
        BY <1>2, <2>1, <3>2 DEF CallInv, Owner, Dead
      <3> QED BY <3>1, <3>2
    <2>5. u \in landed' => pc'[u] \in {"running", "adrift", "done"}
      BY <1>2, <2>1 DEF Guarded
    <2>3. CASE u = d
      <3>1. Begun(u)' /\ until'[u] = e /\ pc'[u] # "running"
        <4>1. pc'[u] # "running"
          BY <1>2, <2>3
        <4> QED BY <2>3, <4>1 DEF Begun, IInv, TypeOK
      <3>2. until'[u] > clock' => Completed(row)' /\ row'.rid = u /\ row'.exp = until'[u]
        BY <1>4, <1>6, <2>3, <3>1 DEF Completed
      <3>3. until'[u] # 0
        BY <3>1
      <3> QED BY <2>2, <2>5, <3>1, <3>2, <3>3 DEF Guarded
    <2>4. CASE u # d
      <3>1. pc[u] # "running" /\ (Begun(u) => until[u] \in 1..clock)
        BY <1>3, <2>4, OneOwner, NoneIsNothing
      <3>2. until'[u] = until[u] /\ pc'[u] # "running"
        BY <1>2, <2>4, <3>1 DEF IInv, TypeOK
      <3>3. Begun(u)' <=> Begun(u)
        <4>1. CASE u = c
          BY <1>2, <3>1, <4>1 DEF Begun
        <4>2. CASE u # c
          BY <1>2, <4>2 DEF Begun
        <4> QED BY <4>1, <4>2
      <3>4. ~(until'[u] > clock') \/ ~Begun(u)'
        BY <2>1, <3>1, <3>2, <3>3
      <3>5. (Begun(u)' => until'[u] # 0) /\ (~Begun(u)' => until'[u] = 0)
        BY <2>1, <3>1, <3>2, <3>3 DEF Guarded
      <3> QED BY <2>2, <2>5, <3>2, <3>4, <3>5 DEF Guarded
    <2> QED BY <2>3, <2>4
  <1>8. ReceiptsLanded'
    BY <1>4 DEF IInv, StoreInv, ReceiptsLanded
  <1> QED BY <1>5, <1>7, <1>8 DEF IInv, StoreInv

\* Rebuilt keeps the invariant.
LEMMA RebuiltInv ==
  ASSUME IInv, NEW c \in Calls, Rebuilt(c)
  PROVE  IInv'
  <1> USE DEF At, procs
  <1>1. /\ fr[c].seen \in Row /\ fr[c].seen.rid \in landed /\ pc[c] = "reconcile"
        /\ Dead(fr[c].seen.owner) /\ fr[c] \in Frame
        /\ row' = row \/ Unchanged(c)
    BY DEF IInv, TypeOK, StoreInv, CallInv, Rebuilt
  <1>2. CASE Unchanged(c)
    <2> DEFINE d == row.rid
    <2>1. d \in Calls /\ d \in landed /\ Mine(d) /\ row.owner = fr[c].seen.owner
      BY <1>1, <1>2 DEF Unchanged, Mine, Row, Unfinished, IInv, TypeOK
    <2>2. pc[d] # "running"
      BY <1>1, <2>1 DEF IInv, StoreInv, Guarded, CallInv, Dead
    <2>3. fr[c].now + TTL \in Nat \ {0}
      BY <1>1, StoreAssumption DEF Frame
    <2>4. /\ row' = [row EXCEPT !.done = TRUE, !.owner = None,
                                !.exp = fr[c].now + TTL]
          /\ until' = [until EXCEPT ![d] = fr[c].now + TTL]
          /\ Answer(c, "result", d)
          /\ UNCHANGED <<mode, clock, status, identity, binding, fallback, landed>>
      BY <1>2 DEF Rebuilt
    <2>5. pc[c] \notin {"idle", "done", "gone", "adrift"} /\ pc[c] # "running"
      BY <1>1
    <2> HIDE DEF d
    <2> QED BY <2>1, <2>2, <2>3, <2>4, <2>5, ReceiptStep
  <1>3. CASE ~Unchanged(c)
    <2>1. PICK k \in Kinds, d \in Calls \cup {None} : Answer(c, k, d)
      <3>1. CASE Completed(Fresh(row, clock)) /\ Answer(c, "result", row.rid)
        <4>1. row.rid \in Calls
          BY <3>1 DEF Completed, Fresh, Row, IInv, TypeOK
        <4> QED BY <3>1, <4>1 DEF Kinds
      <3>2. CASE Answer(c, "unresolved", None)
        BY <3>2 DEF Kinds
      <3> QED BY <1>3, <3>1, <3>2 DEF Rebuilt
    <2> QED BY <1>1, <1>3, <2>1, AnswerInv DEF Rebuilt, IInv, TypeOK
  <1> QED BY <1>2, <1>3

\* A run ends without a receipt in the row: its effect is told by a fallback, or
\* it failed and the row may be dropped.
LEMMA RunEnds ==
  ASSUME IInv, NEW c \in Calls, NEW k \in Kinds, NEW d \in Calls \cup {None},
         pc[c] = "running", Answer(c, k, d),
         row' = row \/ (c \notin landed /\ row' = None),
         fallback' \in [Procs -> [of : Calls, exp : Nat] \cup {None}],
         \A p \in Procs : fallback'[p] # None => fallback'[p].of \in landed,
         UNCHANGED <<mode, clock, status, identity, binding, landed, until>>
  PROVE  IInv'
  <1>1. Owner(c) \in Procs /\ Mine(c) /\ row # None /\ row.rid = c
    BY DEF IInv, StoreInv, CallInv, Guarded, Begun, Mine, Unfinished
  <1>2. /\ fr' \in [Calls -> Frame] /\ pc' \in [Calls -> Labels]
        /\ active' \in [Procs -> Calls \cup {None}] /\ pc'[c] = "done"
        /\ \A u \in Calls : fr'[u].seen = fr[u].seen /\ fr'[u].proc = fr[u].proc
        /\ \A u \in Calls \ {c} : pc'[u] = pc[u] /\ fr'[u] = fr[u]
    BY <1>1, AnswerType DEF IInv
  <1>3. TypeOK'
    BY <1>2 DEF IInv, TypeOK
  <1>4. ASSUME NEW u \in Calls PROVE CallInv(u)' /\ Guarded(u)'
    <2>1. CallInv(u) /\ Guarded(u) /\ clock \in Nat
      BY DEF IInv, StoreInv, TypeOK
    <2>2. CASE u = c
      <3>1. CallInv(u)'
        BY <1>2, <2>2 DEF CallInv
      <3>2. until'[u] = 0 /\ pc'[u] = "done" /\ landed' = landed
        BY <1>2, <2>1, <2>2 DEF Guarded
      <3>3. Begun(u)' => row' = row
        BY <2>2, <3>2 DEF Begun
      <3> QED BY <1>1, <2>1, <2>2, <3>1, <3>2, <3>3
              DEF Guarded, Mine, Unfinished
    <2>3. CASE u # c
      <3>1. CallInv(u)'
        BY <1>2, <2>1, <2>3 DEF CallInv, Owner, Dead
      <3>2. pc[u] # "running" /\ (Begun(u) => until[u] \in 1..clock)
        BY <1>1, <2>3, OneOwner
      <3>3. (Begun(u)' <=> Begun(u)) /\ pc'[u] = pc[u]
        BY <1>2, <2>3 DEF Begun
      <3> QED BY <2>1, <3>1, <3>2, <3>3 DEF Guarded
    <2> QED BY <2>2, <2>3
  <1>5. ReceiptsLanded'
    BY DEF IInv, StoreInv, ReceiptsLanded, Completed
  <1> QED BY <1>3, <1>4, <1>5 DEF IInv, StoreInv

\* RunReturns keeps the invariant.
LEMMA RunReturnsInv ==
  ASSUME IInv, NEW c \in Calls, RunReturns(c)
  PROVE  IInv'
  <1> USE DEF At, procs
  <1>1. /\ c \in landed /\ pc[c] = "running" /\ Mine(c) /\ row.owner = Owner(c)
        /\ Answer(c, "result", c) /\ Owner(c) \in Procs /\ until[c] = 0
        /\ clock + TTL \in Nat \ {0}
        /\ UNCHANGED <<mode, clock, status, identity, binding, landed>>
    BY StoreAssumption DEF RunReturns, IInv, StoreInv, Guarded, Begun, CallInv, TypeOK
  <1>2. CASE /\ row' = [row EXCEPT !.done = TRUE, !.owner = None,
                                   !.exp = clock + TTL]
             /\ until' = [until EXCEPT ![c] = clock + TTL]
             /\ UNCHANGED fallback
    BY <1>1, <1>2, ReceiptStep
  <1>3. CASE /\ fallback' = [fallback EXCEPT
                     ![Owner(c)] = [of |-> c, exp |-> clock + TTL]]
             /\ UNCHANGED <<row, until>>
    <2>1. [of |-> c, exp |-> clock + TTL] \in [of : Calls, exp : Nat]
      BY <1>1
    <2>2. fallback' \in [Procs -> [of : Calls, exp : Nat] \cup {None}]
      BY <1>3, <2>1 DEF IInv, TypeOK
    <2>3. \A p \in Procs : fallback'[p] # None => fallback'[p].of \in landed
      BY <1>1, <1>3 DEF IInv, TypeOK, StoreInv, ReceiptsLanded
    <2> QED BY <1>1, <1>3, <2>2, <2>3, RunEnds DEF Kinds
  <1> QED BY <1>1, <1>2, <1>3 DEF RunReturns

\* RunThrows keeps the invariant.
LEMMA RunThrowsInv ==
  ASSUME IInv, NEW c \in Calls, RunThrows(c)
  PROVE  IInv'
  <1>1. /\ pc[c] = "running" /\ Answer(c, "threw", None)
        /\ row' = row \/ (c \notin landed /\ row' = None)
        /\ UNCHANGED <<mode, clock, status, identity, binding, fallback, landed, until>>
    BY DEF RunThrows, Release, At, procs, effects
  <1> QED BY <1>1, RunEnds DEF Kinds, IInv, TypeOK, StoreInv, ReceiptsLanded

----------------------------------------------------------------------------
(* Processes and time *)

\* Open keeps the invariant.
LEMMA OpenInv ==
  ASSUME IInv, NEW p \in Procs, Open(p)
  PROVE  IInv'
  <1>1. /\ status[p] = "off" /\ status' = [status EXCEPT ![p] = "up"]
        /\ UNCHANGED <<mode, clock, identity, binding, fallback, active, pc, fr,
                       landed, until>>
        /\ \/ row' = row
           \/ /\ Unfinished(row) /\ Dead(row.owner)
              /\ row' = [row EXCEPT !.owner = None]
    BY DEF Open, Quarantine, effects
  <1>2. /\ row # None => row' # None /\ row'.rid = row.rid /\ row'.done = row.done
                         /\ row'.exp = row.exp
        /\ row = None => row' = None
        /\ row' \in Row \cup {None}
        /\ row'.owner = row.owner \/ (Unfinished(row) /\ Dead(row.owner))
    <2>1. CASE row' = row
      BY <2>1 DEF IInv, TypeOK
    <2>2. CASE Unfinished(row) /\ Dead(row.owner) /\ row' = [row EXCEPT !.owner = None]
      <3>1. row \in Row
        BY <2>2 DEF IInv, TypeOK, Unfinished
      <3>2. row' \in Row /\ row'.rid = row.rid /\ row'.done = row.done
            /\ row'.exp = row.exp
        BY <2>2, <3>1 DEF Row
      <3> QED BY <2>2, <3>1, <3>2, NoneIsNothing
    <2> QED BY <1>1, <2>1, <2>2
  <1>3. TypeOK'
    BY <1>1, <1>2 DEF IInv, TypeOK
  <1>4. ASSUME NEW u \in Calls PROVE CallInv(u)' /\ Guarded(u)'
    <2>1. CallInv(u) /\ Guarded(u)
      BY DEF IInv, StoreInv
    <2>2. CallInv(u)'
      BY <1>1, <2>1 DEF CallInv, Owner, Dead, IInv, TypeOK
    <2>3. pc[u] = "running" => row'.owner = Owner(u)
      BY <1>2, <2>1 DEF Guarded, CallInv, Dead
    <2>4. /\ pc'[u] = pc[u] /\ until' = until /\ landed' = landed /\ clock' = clock
          /\ (Begun(u)' <=> Begun(u)) /\ Owner(u)' = Owner(u)
      BY <1>1 DEF Begun, Owner
    <2> QED BY <1>2, <2>1, <2>2, <2>3, <2>4
            DEF Guarded, Mine, Unfinished, Completed
  <1>5. ReceiptsLanded'
    BY <1>1, <1>2 DEF IInv, StoreInv, ReceiptsLanded, Completed
  <1> QED BY <1>3, <1>4, <1>5 DEF IInv, StoreInv

\* Crash keeps the invariant.
LEMMA CrashInv ==
  ASSUME IInv, NEW p \in Procs, Crash(p)
  PROVE  IInv'
  <1>1. /\ status[p] = "up" /\ status' = [status EXCEPT ![p] = "down"]
        /\ UNCHANGED <<mode, clock, identity, binding, row, fr, landed, until>>
        /\ fallback' = [fallback EXCEPT ![p] = None]
        /\ active' = [active EXCEPT ![p] = None]
        /\ \A u \in Calls : pc'[u] =
              IF Owner(u) = p /\ pc[u] = "running" THEN "adrift"
              ELSE IF Owner(u) = p /\ pc[u] \notin {"done", "adrift"}
              THEN "gone" ELSE pc[u]
    BY DEF Crash, effects, At
  <1>2. TypeOK'
    <2>1. pc' \in [Calls -> Labels]
      BY DEF Crash, At, IInv, TypeOK, Labels
    <2> QED BY <1>1, <2>1 DEF IInv, TypeOK
  <1>3. ASSUME NEW u \in Calls PROVE CallInv(u)' /\ Guarded(u)'
    <2>1. CallInv(u) /\ Guarded(u)
      BY DEF IInv, StoreInv
    <2>2. Owner(u)' = Owner(u)
      BY <1>1 DEF Owner
    <2>3. CallInv(u)'
      <3>1. \A q : Dead(q) => Dead(q)'
        BY <1>1 DEF Dead, IInv, TypeOK
      <3>2. CASE Owner(u) = p
        BY <1>1, <2>1, <2>2, <3>1, <3>2 DEF CallInv
      <3>3. CASE Owner(u) # p
        BY <1>1, <2>1, <2>2, <3>1, <3>3 DEF CallInv, IInv, TypeOK
      <3> QED BY <3>2, <3>3
    <2>4. Guarded(u)'
      BY <1>1, <2>1, <2>2 DEF Guarded, Begun, Mine
    <2> QED BY <2>3, <2>4
  <1>4. ReceiptsLanded'
    BY <1>1 DEF IInv, TypeOK, StoreInv, ReceiptsLanded
  <1> QED BY <1>2, <1>3, <1>4 DEF IInv, StoreInv

\* Tick keeps the invariant.
LEMMA TickInv ==
  ASSUME IInv, Tick
  PROVE  IInv'
  <1>1. /\ clock' = clock + 1 /\ clock \in Nat
        /\ UNCHANGED <<mode, status, identity, binding, row, fallback, active, pc, fr,
                       landed, until>>
    BY DEF Tick, procs, effects, IInv, TypeOK
  <1>2. TypeOK' /\ ReceiptsLanded'
    BY <1>1 DEF IInv, TypeOK, StoreInv, ReceiptsLanded
  <1>3. ASSUME NEW u \in Calls PROVE CallInv(u)' /\ Guarded(u)'
    <2>1. CallInv(u) /\ Guarded(u) /\ until[u] \in Nat
      BY DEF IInv, StoreInv, TypeOK
    <2> QED BY <1>1, <2>1 DEF CallInv, Guarded, Begun, Mine, Owner, Dead
  <1> QED BY <1>2, <1>3 DEF IInv, StoreInv

----------------------------------------------------------------------------
(* The theorems *)

\* Every step keeps the invariant.
LEMMA NextInv ==
  ASSUME IInv, [Next]_vars
  PROVE  IInv'
  <1>1. ASSUME NEW c \in Calls, CallStep(c) PROVE IInv'
    BY <1>1, EnterInv, FollowLeaderInv, AnswersInv, OwnerDeadInv, RebuiltInv,
       ReserveInv, LoserLooksInv, RunReturnsInv, RunThrowsInv DEF CallStep
  <1>2. ASSUME UNCHANGED vars PROVE IInv'
    BY <1>2 DEF vars, IInv, TypeOK, StoreInv, CallInv, Guarded, ReceiptsLanded,
       Begun, Mine, Owner, Dead
  <1> QED BY <1>1, <1>2, LandInv, BindInv, OpenInv, CrashInv, TickInv DEF Next

\* Only winning the insert starts a run.
LEMMA StartsByReserve ==
  ASSUME IInv, Next, NEW c \in Calls, pc[c] # "running", pc'[c] = "running"
  PROVE  row = None
  <1> USE DEF At, Goto, Answer
  <1>1. ASSUME NEW u \in Calls, CallStep(u) PROVE row = None
    <2>1. pc'[c] = pc[c] \/ u = c
      BY <1>1 DEF CallStep, Enter, FollowLeader, OwnerLives, OwnerDead, NoProof,
         Rebuilt, Reserve, LoserLooks, IdentityFails, RunReturns, RunThrows,
         StoreThrows, IInv, TypeOK
    <2>2. u = c
      BY <2>1
    <2> QED BY <1>1, <2>2 DEF CallStep, Enter, FollowLeader, OwnerLives, OwnerDead,
         NoProof, Rebuilt, Reserve, LoserLooks, IdentityFails, RunReturns, RunThrows,
         StoreThrows, IInv, TypeOK
  <1>2. ASSUME NEW u \in Calls, Land(u) PROVE FALSE
    BY <1>2 DEF Land
  <1>3. ASSUME NEW u \in Calls, NEW p \in Procs, NEW b \in Bodies, Bind(u, p, b)
        PROVE  FALSE
    BY <1>3 DEF Bind, IInv, TypeOK
  <1>4. ASSUME NEW p \in Procs, Open(p) \/ Crash(p) \/ Tick PROVE FALSE
    BY <1>4 DEF Open, Crash, Tick
  <1>5. ASSUME Tick PROVE FALSE
    BY <1>5 DEF Tick
  <1> QED BY <1>1, <1>2, <1>3, <1>4, <1>5 DEF Next

\* The invariant of the tables and of the calls in flight holds always.
THEOREM Invariance == Spec => []IInv
  BY InitInv, NextInv, PTL DEF Spec

\* Every reachable state has the types of the model.
THEOREM TypeCorrectness == Spec => []TypeOK
  <1>1. IInv => TypeOK
    BY DEF IInv
  <1> QED BY <1>1, Invariance, PTL

\* A run starts only when every earlier run of the key failed or has a receipt
\* that expired, whatever crashes, restarts, throws or answers late.
THEOREM RunsAtMostOnce == Spec => AtMostOnce
  <1> DEFINE Once == \A c \in Calls : pc[c] # "running" /\ pc'[c] = "running" =>
                \A d \in Calls : Begun(d) => until[d] \in 1..clock
  <1>1. IInv /\ [Next]_vars => [Once]_vars
    <2> SUFFICES ASSUME IInv, Next, NEW c \in Calls,
                        pc[c] # "running", pc'[c] = "running",
                        NEW d \in Calls, Begun(d)
                 PROVE  until[d] \in 1..clock
      BY DEF vars
    <2>1. row = None
      BY StartsByReserve
    <2> QED BY <2>1, FreeRow
  <1> QED BY <1>1, Invariance, PTL DEF Spec, AtMostOnce

\* What a call is told by the answer it ends with.
LEMMA AnswerTells ==
  ASSUME TypeOK, ResultsLanded, NEW c \in Calls, NEW k, NEW d, Answer(c, k, d),
         k = "result" => d \in landed, landed \subseteq landed'
  PROVE  ResultsLanded'
  <1>1. fr[c] \in Frame
    BY DEF TypeOK
  <1>2. fr'[c].kind = k /\ fr'[c].of = d
    BY <1>1 DEF Answer, TypeOK, Frame
  <1>3. \A u \in Calls \ {c} : fr'[u] = fr[u]
    BY DEF Answer, TypeOK
  <1> QED BY <1>2, <1>3 DEF ResultsLanded

\* A step that ends no call tells nobody anything.
LEMMA NothingTold ==
  ASSUME ResultsLanded, landed \subseteq landed',
         \A u \in Calls : fr'[u].kind = "result" =>
             fr'[u].kind = fr[u].kind /\ fr'[u].of = fr[u].of
  PROVE  ResultsLanded'
  BY DEF ResultsLanded

\* Every step keeps what is told to be told of effects that landed.
LEMMA ResultsStep ==
  ASSUME IInv, ResultsLanded, [Next]_vars
  PROVE  ResultsLanded'
  <1>1. landed \subseteq landed'
    BY DEF Next, CallStep, Enter, FollowLeader, OwnerLives, OwnerDead, NoProof,
       Rebuilt, Reserve, LoserLooks, IdentityFails, RunReturns, RunThrows,
       StoreThrows, Land, Bind, Open, Crash, Tick, effects, vars
  <1>2. TypeOK
    BY DEF IInv
  <1>3. ASSUME NEW c \in Calls, NEW d \in landed,
               Answer(c, "result", d)
        PROVE  ResultsLanded'
    BY <1>1, <1>2, <1>3, AnswerTells
  <1>4. ASSUME NEW c \in Calls, NEW k, k # "result", NEW d, Answer(c, k, d)
        PROVE  ResultsLanded'
    BY <1>1, <1>2, <1>4, AnswerTells
  <1>5. ASSUME NEW c \in Calls, Enter(c) PROVE ResultsLanded'
    <2>1. Owner(c) \in Procs /\ fr[c] \in Frame
      BY <1>2, <1>5 DEF IInv, StoreInv, CallInv, Enter, At, TypeOK
    <2>2. CASE fr' = [fr EXCEPT ![c].leader = active[Owner(c)]]
      BY <1>1, <1>2, <2>1, <2>2, NothingTold DEF TypeOK, Frame
    <2>3. CASE /\ row' = Fresh(row, clock)
               /\ fr' = [fr EXCEPT ![c].now = clock, ![c].seen = row']
      BY <1>1, <1>2, <2>1, <2>3, NothingTold DEF TypeOK, Frame
    <2>4. CASE /\ fallback[Owner(c)] # None
               /\ Answer(c, "result", fallback[Owner(c)].of)
      BY <1>3, <2>1, <2>4 DEF IInv, StoreInv, ReceiptsLanded
    <2>5. CASE /\ row' = Fresh(row, clock) /\ Completed(row')
               /\ Answer(c, "result", row'.rid)
      <3>1. row' = row
        BY <2>5 DEF Fresh, Completed
      <3> QED BY <1>3, <2>5, <3>1 DEF IInv, StoreInv, ReceiptsLanded
    <2> QED BY <1>5, <2>2, <2>3, <2>4, <2>5 DEF Enter
  <1>6. ASSUME NEW c \in Calls, FollowLeader(c) PROVE ResultsLanded'
    <2>1. fr[c].leader \in Calls
      BY <1>6 DEF IInv, StoreInv, CallInv, FollowLeader, At
    <2> QED BY <1>1, <1>2, <1>6, <2>1, AnswerTells DEF FollowLeader, ResultsLanded
  <1>7. ASSUME NEW c \in Calls, Rebuilt(c) PROVE ResultsLanded'
    <2>1. CASE Unchanged(c)
      BY <1>3, <1>7, <2>1 DEF Rebuilt, Unchanged
    <2>2. CASE ~Unchanged(c)
      <3>1. Completed(Fresh(row, clock)) => row.rid \in landed
        BY DEF Fresh, Completed, IInv, StoreInv, ReceiptsLanded
      <3> QED BY <1>3, <1>4, <1>7, <2>2, <3>1 DEF Rebuilt
    <2> QED BY <2>1, <2>2
  <1>8. ASSUME NEW c \in Calls, LoserLooks(c) PROVE ResultsLanded'
    <2> DEFINE raced == Fresh(row, fr[c].now)
    <2>1. fr[c] \in Frame /\ (Completed(raced) => raced.rid \in landed)
      BY <1>2 DEF Fresh, Completed, IInv, StoreInv, ReceiptsLanded, TypeOK
    <2>2. CASE fr' = [fr EXCEPT ![c].seen = raced, ![c].raced = TRUE]
      BY <1>1, <1>2, <2>1, <2>2, NothingTold DEF TypeOK, Frame
    <2> QED BY <1>3, <1>4, <1>8, <2>1, <2>2 DEF LoserLooks
  <1>9. ASSUME NEW c \in Calls,
               \/ OwnerLives(c) \/ OwnerDead(c) \/ NoProof(c) \/ IdentityFails(c)
               \/ RunThrows(c) \/ StoreThrows(c)
        PROVE  ResultsLanded'
    <2>1. CASE UNCHANGED fr
      BY <1>1, <2>1, NothingTold
    <2>2. CASE \E k \in Kinds \ {"result"} : Answer(c, k, None)
      BY <1>4, <2>2
    <2> QED BY <1>9, <2>1, <2>2 DEF OwnerLives, OwnerDead, NoProof, IdentityFails,
                                    RunThrows, StoreThrows, Kinds
  <1>10. ASSUME NEW c \in Calls, RunReturns(c) PROVE ResultsLanded'
    BY <1>3, <1>10 DEF RunReturns
  <1>11. ASSUME NEW c \in Calls, NEW p \in Procs, NEW b \in Bodies, Bind(c, p, b)
         PROVE  ResultsLanded'
    <2>1. fr[c] \in Frame
      BY <1>2 DEF TypeOK
    <2>2. fr'[c].kind # "result" /\ \A u \in Calls \ {c} : fr'[u] = fr[u]
      BY <1>2, <1>11, <2>1 DEF Bind, TypeOK, Frame
    <2> QED BY <1>1, <2>2, NothingTold
  <1>12. CASE UNCHANGED fr
    BY <1>1, <1>12, NothingTold
  <1> QED BY <1>5, <1>6, <1>7, <1>8, <1>9, <1>10, <1>11, <1>12
          DEF Next, CallStep, Reserve, Land, Open, Crash, Tick, vars

\* Whoever is told that the operation succeeded is told of an effect that
\* landed: replays, fallbacks, attached duplicates and rebuilt receipts alike.
THEOREM ResultsAreReal == Spec => []ResultsLanded
  <1>1. Init => ResultsLanded
    BY DEF Init, ResultsLanded, NoFrame
  <1> QED BY <1>1, Invariance, ResultsStep, PTL DEF Spec

----------------------------------------------------------------------------
(* Reservations stand for runs *)

\* A step that turns no row into a reservation and ends no run.
LEMMA RunsGoOn ==
  ASSUME TypeOK, ReservationHasRun, mode' = mode,
         Unfinished(row') => Unfinished(row) /\ row'.rid = row.rid,
         \A u \in Calls : pc[u] \in {"running", "adrift"} => pc'[u] \in {"running", "adrift"}
  PROVE  ReservationHasRun'
  <1>1. Unfinished(row) => row.rid \in Calls
    BY DEF TypeOK, Unfinished, Row
  <1> QED BY <1>1 DEF ReservationHasRun

\* What the steps of a call that runs nothing do to the row and to other calls.
LEMMA RunsNothing ==
  ASSUME IInv, NEW c \in Calls, CallStep(c), pc[c] # "running"
  PROVE  /\ mode' = mode
         /\ pc[c] \in {"enter", "attached", "probe", "reconcile", "reserve", "lost"}
         /\ \A u \in Calls \ {c} : pc'[u] = pc[u]
         /\ \/ Unfinished(row') => Unfinished(row) /\ row'.rid = row.rid
            \/ row'.rid = c /\ pc'[c] = "running"
  <1> USE DEF At, Goto, Answer, procs
  <1>1. /\ mode' = mode
        /\ pc[c] \in {"enter", "attached", "probe", "reconcile", "reserve", "lost"}
        /\ \A u \in Calls \ {c} : pc'[u] = pc[u]
    BY DEF CallStep, Enter, FollowLeader, OwnerLives, OwnerDead, NoProof,
       Rebuilt, Reserve, LoserLooks, IdentityFails, RunReturns, RunThrows,
       StoreThrows, IInv, TypeOK
  <1>2. CASE Enter(c)
    <2>1. row' = row \/ row' = Fresh(row, clock)
      BY <1>2 DEF Enter
    <2> QED BY <1>1, <2>1 DEF Fresh, Unfinished
  <1>3. CASE Rebuilt(c)
    <2>1. CASE Unchanged(c)
      <3>1. row \in Row /\ row' = [row EXCEPT !.done = TRUE, !.owner = None,
                                              !.exp = fr[c].now + TTL]
        BY <1>3, <2>1 DEF Rebuilt, Unchanged, Unfinished, IInv, TypeOK
      <3>2. row'.done
        BY <3>1 DEF Row
      <3> QED BY <1>1, <3>2 DEF Unfinished
    <2>2. CASE ~Unchanged(c)
      BY <1>1, <1>3, <2>2 DEF Rebuilt
    <2> QED BY <2>1, <2>2
  <1>4. CASE Reserve(c)
    <2>1. CASE row = None
      BY <1>1, <1>4, <2>1 DEF Reserve, IInv, TypeOK
    <2>2. CASE row # None
      BY <1>1, <1>4, <2>2 DEF Reserve
    <2> QED BY <2>1, <2>2
  <1>5. CASE \/ FollowLeader(c) \/ OwnerLives(c) \/ OwnerDead(c) \/ NoProof(c)
             \/ LoserLooks(c) \/ IdentityFails(c) \/ StoreThrows(c)
    <2>1. row' = row
      BY <1>5 DEF FollowLeader, OwnerLives, OwnerDead, NoProof, LoserLooks,
                  IdentityFails, StoreThrows
    <2> QED BY <1>1, <2>1
  <1> QED BY <1>2, <1>3, <1>4, <1>5 DEF CallStep, RunReturns, RunThrows

\* The run of a call ends: with a receipt, or without the row.
LEMMA RunLeavesNoReservation ==
  ASSUME IInv, NEW c \in Calls, CallStep(c), pc[c] = "running", ~mode.storeFaults
  PROVE  ~Unfinished(row')
  <1>1. Mine(c) /\ row.owner = Owner(c) /\ row \in Row
    BY DEF IInv, StoreInv, Guarded, Begun, Mine, Unfinished, TypeOK
  <1>2. CASE RunReturns(c)
    <2>1. row' = [row EXCEPT !.done = TRUE, !.owner = None, !.exp = clock + TTL]
      BY <1>1, <1>2 DEF RunReturns
    <2>2. row'.done
      BY <1>1, <2>1 DEF Row
    <2> QED BY <2>2 DEF Unfinished
  <1>3. CASE RunThrows(c)
    BY <1>1, <1>3 DEF RunThrows, Release, Unfinished
  <1> QED BY <1>2, <1>3 DEF CallStep, At, Enter, FollowLeader, OwnerLives, OwnerDead,
             NoProof, Rebuilt, Reserve, LoserLooks, IdentityFails, StoreThrows

\* Every step keeps a run behind an unfinished reservation.
LEMMA HasRunStep ==
  ASSUME IInv, ReservationHasRun, [Next]_vars
  PROVE  ReservationHasRun'
  <1>1. TypeOK
    BY DEF IInv
  <1>2. ASSUME NEW c \in Calls, CallStep(c), pc[c] # "running"
        PROVE  ReservationHasRun'
    <2>1. CASE Unfinished(row') => Unfinished(row) /\ row'.rid = row.rid
      BY <1>1, <1>2, <2>1, RunsNothing, RunsGoOn
    <2>2. CASE row'.rid = c /\ pc'[c] = "running"
      BY <2>2 DEF ReservationHasRun
    <2> QED BY <1>2, <2>1, <2>2, RunsNothing
  <1>3. ASSUME NEW c \in Calls, CallStep(c), pc[c] = "running"
        PROVE  ReservationHasRun'
    <2>1. mode' = mode
      BY <1>3 DEF CallStep, Enter, FollowLeader, OwnerLives, OwnerDead, NoProof,
         Rebuilt, Reserve, LoserLooks, IdentityFails, RunReturns, RunThrows, StoreThrows
    <2> QED BY <1>3, <2>1, RunLeavesNoReservation DEF ReservationHasRun
  <1>4. ASSUME NEW c \in Calls, NEW p \in Procs, NEW b \in Bodies, Bind(c, p, b)
        PROVE  ReservationHasRun'
    BY <1>1, <1>4, RunsGoOn DEF Bind, At, Goto, TypeOK
  <1>5. ASSUME NEW p \in Procs, Open(p) PROVE ReservationHasRun'
    <2>1. row' = row \/ (Unfinished(row) /\ row' = [row EXCEPT !.owner = None])
      BY <1>5 DEF Open, Quarantine
    <2>2. Unfinished(row') => Unfinished(row) /\ row'.rid = row.rid
      <3>1. CASE Unfinished(row) /\ row' = [row EXCEPT !.owner = None]
        BY <1>1, <3>1 DEF TypeOK, Unfinished, Row
      <3> QED BY <2>1, <3>1
    <2> QED BY <1>1, <1>5, <2>2, RunsGoOn DEF Open
  <1>6. ASSUME NEW p \in Procs, Crash(p) PROVE ReservationHasRun'
    BY <1>1, <1>6, RunsGoOn DEF Crash, At, TypeOK
  <1>7. CASE (\E c \in Calls : Land(c)) \/ Tick \/ UNCHANGED vars
    BY <1>1, <1>7, RunsGoOn DEF Land, Tick, vars
  <1> QED BY <1>2, <1>3, <1>4, <1>5, <1>6, <1>7 DEF Next

\* While the database answers, an unfinished reservation stands for a run that
\* is under way or was cut off: no failed run turns the retries away.
THEOREM ReservationsHaveRuns == Spec => []ReservationHasRun
  <1>1. Init => ReservationHasRun
    BY DEF Init, ReservationHasRun, Unfinished
  <1> QED BY <1>1, Invariance, HasRunStep, PTL DEF Spec

----------------------------------------------------------------------------
(* Attached duplicates *)

Executing == {"probe", "reconcile", "reserve", "lost", "running"}

\* The leader of call d executes in its process, or has settled and none does.
Following(d) ==
    \/ /\ pc[fr[d].leader] \in Executing
       /\ Owner(fr[d].leader) = Owner(d)
    \/ /\ pc[fr[d].leader] = "done"
       /\ \A e \in Calls : Owner(e) = Owner(d) => pc[e] \notin Executing

\* Of the calls that attach, the active one executes in a process, and no other.
AttachInv ==
    /\ \A c \in Calls : pc[c] \in Executing => active[Owner(c)] = c
    /\ \A p \in Procs : active[p] # None =>
          pc[active[p]] \in Executing /\ Owner(active[p]) = p
    /\ \A d \in Calls : pc[d] = "attached" => Following(d)

\* The shapes of the steps of call c: it goes on executing,
GoesOn(c) ==
    /\ pc[c] \in Executing /\ pc'[c] \in Executing
    /\ active' = active /\ fr'[c].leader = fr[c].leader /\ fr'[c].proc = fr[c].proc
\* ends,
Ends(c) ==
    /\ pc[c] \in Executing \cup {"enter", "attached"} /\ pc'[c] = "done"
    /\ active' = [active EXCEPT ![Owner(c)] = IF @ = c THEN None ELSE @]
    /\ fr'[c].leader = fr[c].leader /\ fr'[c].proc = fr[c].proc
\* attaches,
Attaches(c) ==
    /\ pc[c] = "enter" /\ pc'[c] = "attached"
    /\ active[Owner(c)] # None /\ active' = active
    /\ fr'[c].leader = active[Owner(c)] /\ fr'[c].proc = fr[c].proc
\* or becomes the active one.
Starts(c) ==
    /\ pc[c] = "enter" /\ pc'[c] \in Executing
    /\ active[Owner(c)] = None /\ active' = [active EXCEPT ![Owner(c)] = c]
    /\ fr'[c].leader = fr[c].leader /\ fr'[c].proc = fr[c].proc
OthersStay(c) == \A u \in Calls \ {c} : pc'[u] = pc[u] /\ fr'[u] = fr[u]

\* An answer ends the call.
LEMMA AnswerShape ==
  ASSUME IInv, NEW c \in Calls, NEW k, NEW d, Answer(c, k, d),
         pc[c] \in Executing \cup {"enter", "attached"}
  PROVE  Ends(c) /\ OthersStay(c) /\ fr'[c].kind = k
  <1>1. fr[c] \in Frame
    BY DEF IInv, TypeOK
  <1> QED BY <1>1 DEF Answer, Goto, Ends, OthersStay, IInv, TypeOK, Frame

\* A step of a call that may attach goes on, ends, attaches or starts it.
LEMMA StepShape ==
  ASSUME IInv, mode.attach, NEW c \in Calls, CallStep(c)
  PROVE  /\ GoesOn(c) \/ Ends(c) \/ Attaches(c) \/ Starts(c)
         /\ OthersStay(c)
         /\ pc'[c] = "done" /\ fr'[c].kind = "inProgress" =>
               \/ pc[c] \in {"probe", "lost"}
               \/ pc[c] = "attached" /\ pc[fr[c].leader] = "done"
  <1> USE DEF At
  <1>1. fr[c] \in Frame
    BY DEF IInv, TypeOK
  <1>2. CASE Enter(c)
    <2>1. pc[c] = "enter" /\ Owner(c) \in Procs
      BY <1>2 DEF Enter, IInv, StoreInv, CallInv
    <2>2. CASE /\ active[Owner(c)] # None
               /\ Goto(c, "attached")
               /\ fr' = [fr EXCEPT ![c].leader = active[Owner(c)]]
               /\ UNCHANGED <<row, active>>
      BY <1>1, <2>1, <2>2 DEF Goto, Attaches, OthersStay, IInv, TypeOK, Frame
    <2>3. CASE \E d : Answer(c, "result", d)
      BY <2>1, <2>3, AnswerShape
    <2>4. CASE /\ active[Owner(c)] = None
               /\ Goto(c, IF row' # None THEN "probe" ELSE "reserve")
               /\ fr' = [fr EXCEPT ![c].now = clock, ![c].seen = row']
               /\ active' = [active EXCEPT ![Owner(c)] = c]
      BY <1>1, <2>1, <2>4 DEF Goto, Starts, Executing, OthersStay, IInv, TypeOK, Frame
    <2> QED BY <1>2, <2>2, <2>3, <2>4 DEF Enter, Register
  <1>3. CASE FollowLeader(c)
    BY <1>3, AnswerShape DEF FollowLeader
  <1>4. CASE OwnerLives(c) \/ NoProof(c) \/ IdentityFails(c) \/ StoreThrows(c)
    <2>1. /\ pc[c] \in Executing \cup {"enter"}
          /\ \E k, d : Answer(c, k, d) /\ (pc[c] \notin {"probe", "lost"} => k # "inProgress")
      BY <1>4 DEF OwnerLives, NoProof, IdentityFails, StoreThrows, Executing
    <2> QED BY <2>1, AnswerShape
  <1>5. CASE OwnerDead(c)
    <2>1. CASE Answer(c, "unresolved", None)
      BY <1>5, <2>1, AnswerShape DEF OwnerDead, Executing
    <2>2. CASE Goto(c, "reconcile") /\ UNCHANGED <<fr, active>>
      BY <1>5, <2>2 DEF OwnerDead, Goto, GoesOn, OthersStay, Executing, IInv, TypeOK
    <2> QED BY <1>5, <2>1, <2>2 DEF OwnerDead
  <1>6. CASE Rebuilt(c)
    <2>1. pc[c] = "reconcile" /\ \E k, d : Answer(c, k, d) /\ k # "inProgress"
      BY <1>6 DEF Rebuilt
    <2> QED BY <2>1, AnswerShape DEF Executing
  <1>7. CASE Reserve(c)
    BY <1>7 DEF Reserve, Goto, GoesOn, OthersStay, Executing, IInv, TypeOK
  <1>8. CASE LoserLooks(c)
    <2>1. CASE \E k, d : Answer(c, k, d)
      BY <1>8, <2>1, AnswerShape DEF LoserLooks, Executing
    <2>2. CASE \E r : /\ Goto(c, "probe")
                      /\ fr' = [fr EXCEPT ![c].seen = r, ![c].raced = TRUE]
                      /\ UNCHANGED active
      BY <1>1, <1>8, <2>2 DEF LoserLooks, Goto, GoesOn, OthersStay, Executing,
                              IInv, TypeOK, Frame
    <2> QED BY <1>8, <2>1, <2>2 DEF LoserLooks
  <1>9. CASE RunReturns(c) \/ RunThrows(c)
    <2>1. pc[c] = "running" /\ \E k, d : Answer(c, k, d) /\ k # "inProgress"
      BY <1>9 DEF RunReturns, RunThrows
    <2> QED BY <2>1, AnswerShape DEF Executing
  <1> QED BY <1>2, <1>3, <1>4, <1>5, <1>6, <1>7, <1>8, <1>9 DEF CallStep

\* One execution in a process, so none beside the active one.
LEMMA OneExecutes ==
  ASSUME AttachInv, NEW c \in Calls, NEW d \in Calls, Owner(c) = Owner(d),
         pc[c] \in Executing, pc[d] \in Executing
  PROVE  c = d
  BY DEF AttachInv

\* Whoever is attached keeps its leader while c takes a step.
LEMMA KeepsFollowing ==
  ASSUME IInv, AttachInv, NEW c \in Calls, OthersStay(c),
         fr'[c].proc = fr[c].proc,
         pc[c] \in Executing => pc'[c] \in Executing \cup {"done"},
         pc[c] = "done" => pc'[c] = "done",
         pc'[c] \in Executing => \/ pc[c] \in Executing
                                 \/ ~Resuming(Owner(c)),
         NEW d \in Calls \ {c}, pc[d] = "attached"
  PROVE  Following(d)'
  <1>1. /\ Following(d) /\ fr[d].leader \in Calls /\ pc'[d] = pc[d]
        /\ fr'[d] = fr[d] /\ \A u \in Calls : Owner(u)' = Owner(u)
    BY DEF AttachInv, OthersStay, Owner, IInv, StoreInv, CallInv
  <1> DEFINE l == fr[d].leader
  <1>2. CASE pc[l] \in Executing /\ Owner(l) = Owner(d)
    <2>1. CASE l = c /\ pc'[c] = "done"
      <3>1. \A e \in Calls : Owner(e)' = Owner(d)' => pc'[e] \notin Executing
        BY <1>1, <1>2, <2>1, OneExecutes DEF OthersStay, Executing
      <3> QED BY <1>1, <2>1, <3>1 DEF Following
    <2>2. CASE l # c \/ pc'[c] \in Executing
      <3>1. pc'[l] \in Executing
        BY <1>1, <1>2, <2>2 DEF OthersStay
      <3> QED BY <1>1, <1>2, <3>1 DEF Following
    <2> QED BY <1>2, <2>1, <2>2
  <1>3. CASE pc[l] = "done" /\ \A e \in Calls : Owner(e) = Owner(d) => pc[e] \notin Executing
    <2>1. Resuming(Owner(d))
      BY <1>3 DEF Resuming, At
    <2>2. pc'[l] = "done"
      BY <1>1, <1>3 DEF OthersStay
    <2>3. \A e \in Calls : Owner(e)' = Owner(d)' => pc'[e] \notin Executing
      BY <1>1, <1>3, <2>1 DEF OthersStay
    <2> QED BY <1>1, <2>2, <2>3 DEF Following
  <1> QED BY <1>1, <1>2, <1>3 DEF Following

\* A step of a call keeps the active call of its process,
LEMMA AttachCallStep ==
  ASSUME IInv, mode.attach, AttachInv, NEW c \in Calls, CallStep(c),
         Resuming(Owner(c)) => At(c, "attached")
  PROVE  AttachInv'
  <1> USE DEF At
  <1>1. /\ OthersStay(c) /\ fr'[c].proc = fr[c].proc
        /\ GoesOn(c) \/ Ends(c) \/ Attaches(c) \/ Starts(c)
        /\ pc[c] \notin {"idle", "done", "gone", "adrift"}
    BY StepShape DEF GoesOn, Ends, Attaches, Starts, Executing
  <1>2. Owner(c) \in Procs /\ \A u \in Calls : Owner(u)' = Owner(u)
    BY <1>1 DEF IInv, StoreInv, CallInv, OthersStay, Owner
  <1>3. active \in [Procs -> Calls \cup {None}] /\ None \notin Calls
    BY NoneIsNothing DEF IInv, TypeOK
  <1>4. \A u \in Calls : pc'[u] \in Executing => active'[Owner(u)'] = u
    <2> SUFFICES ASSUME NEW u \in Calls, pc'[u] \in Executing
                 PROVE  active'[Owner(u)] = u
      BY <1>2
    <2>1. CASE u = c
      BY <1>1, <1>2, <1>3, <2>1 DEF AttachInv, GoesOn, Ends, Attaches, Starts, Executing
    <2>2. CASE u # c
      <3>1. pc[u] \in Executing /\ active[Owner(u)] = u /\ Owner(u) \in Procs
        BY <2>2, <1>1 DEF AttachInv, OthersStay, IInv, StoreInv, CallInv, Executing
      <3> QED BY <1>1, <1>2, <1>3, <2>2, <3>1 DEF GoesOn, Ends, Attaches, Starts
    <2> QED BY <2>1, <2>2
  <1>5. ASSUME NEW p \in Procs, active'[p] # None
        PROVE  pc'[active'[p]] \in Executing /\ fr'[active'[p]].proc = p
    <2>1. CASE active'[p] = c
      <3>1. pc'[c] \in Executing
        BY <1>1, <1>2, <1>3, <2>1 DEF AttachInv, GoesOn, Ends, Attaches, Starts, Executing
      <3>2. Owner(c) = p
        BY <1>1, <1>2, <1>3, <2>1 DEF AttachInv, GoesOn, Ends, Attaches, Starts
      <3> QED BY <1>2, <2>1, <3>1, <3>2 DEF Owner
    <2>2. CASE active'[p] # c
      <3>1. active[p] = active'[p] /\ active[p] \in Calls
        BY <1>1, <1>2, <1>3, <1>5, <2>2 DEF GoesOn, Ends, Attaches, Starts
      <3>2. pc[active[p]] \in Executing /\ Owner(active[p]) = p
        BY <1>3, <3>1 DEF AttachInv
      <3> QED BY <1>1, <1>2, <2>2, <3>1, <3>2 DEF OthersStay, Owner
    <2> QED BY <2>1, <2>2
  <1>6. ASSUME NEW d \in Calls, pc'[d] = "attached"
        PROVE  Following(d)'
    <2>1. CASE d = c
      <3>1. Attaches(c)
        BY <1>1, <1>6, <2>1 DEF GoesOn, Ends, Starts, Executing
      <3> DEFINE l == active[Owner(c)]
      <3>2. l \in Calls /\ l # c /\ pc[l] \in Executing /\ Owner(l) = Owner(c)
        BY <1>2, <1>3, <3>1 DEF Attaches, AttachInv, Executing
      <3>3. fr'[c].leader = l /\ pc'[l] \in Executing
        BY <1>1, <3>1, <3>2 DEF Attaches, OthersStay
      <3> QED BY <1>2, <2>1, <3>2, <3>3 DEF Following
    <2>2. CASE d # c
      <3>1. pc[d] = "attached"
        BY <1>1, <1>6, <2>2 DEF OthersStay
      <3>2. /\ pc[c] \in Executing => pc'[c] \in Executing \cup {"done"}
            /\ pc[c] = "done" => pc'[c] = "done"
            /\ pc'[c] \in Executing => \/ pc[c] \in Executing
                                       \/ ~Resuming(Owner(c))
        BY <1>1 DEF GoesOn, Ends, Attaches, Starts, Executing
      <3> QED BY <1>1, <2>2, <3>1, <3>2, KeepsFollowing
    <2> QED BY <2>1, <2>2
  <1> QED BY <1>4, <1>5, <1>6 DEF AttachInv, Owner

\* as do a new call
LEMMA AttachBind ==
  ASSUME IInv, AttachInv, NEW c \in Calls, NEW p \in Procs, NEW b \in Bodies,
         Bind(c, p, b)
  PROVE  AttachInv'
  <1>1. /\ OthersStay(c) /\ pc[c] = "idle" /\ pc'[c] \in {"enter", "done"}
        /\ active' = active /\ fr[c] \in Frame
    BY DEF Bind, At, Goto, OthersStay, IInv, TypeOK
  <1>2. \A u \in Calls \ {c} : Owner(u)' = Owner(u)
    BY <1>1 DEF OthersStay, Owner
  <1>3. active \in [Procs -> Calls \cup {None}]
    BY DEF IInv, TypeOK
  <1>4. ASSUME NEW u \in Calls, pc'[u] \in Executing PROVE active'[Owner(u)'] = u
    <2>1. u # c
      BY <1>1, <1>4 DEF Executing
    <2>2. pc[u] \in Executing /\ Owner(u)' = Owner(u)
      BY <1>1, <1>2, <1>4, <2>1 DEF OthersStay
    <2> QED BY <1>1, <2>2 DEF AttachInv
  <1>5. ASSUME NEW q \in Procs, active'[q] # None
        PROVE  pc'[active'[q]] \in Executing /\ fr'[active'[q]].proc = q
    <2> DEFINE a == active[q]
    <2>1. a \in Calls /\ pc[a] \in Executing /\ Owner(a) = q
      BY <1>1, <1>3, <1>5 DEF AttachInv
    <2>2. a # c
      BY <1>1, <2>1 DEF Executing
    <2>3. pc'[a] \in Executing /\ Owner(a)' = q
      BY <1>1, <1>2, <2>1, <2>2 DEF OthersStay
    <2> QED BY <1>1, <2>3 DEF Owner
  <1>6. ASSUME NEW d \in Calls, pc'[d] = "attached"
        PROVE  Following(d)'
    <2>1. d # c
      BY <1>1, <1>6
    <2> DEFINE l == fr[d].leader
    <2>2. pc[d] = "attached" /\ fr'[d] = fr[d] /\ l \in Calls /\ Following(d)
      BY <1>1, <1>6, <2>1 DEF OthersStay, AttachInv, IInv, StoreInv, CallInv
    <2>3. l # c
      BY <1>1, <2>2 DEF Following, Executing
    <2>4. pc'[l] = pc[l] /\ Owner(l)' = Owner(l) /\ Owner(d)' = Owner(d)
      BY <1>1, <1>2, <2>1, <2>2, <2>3 DEF OthersStay
    <2>5. \A e \in Calls : pc'[e] \in Executing => pc[e] \in Executing /\ Owner(e)' = Owner(e)
      BY <1>1, <1>2 DEF OthersStay, Executing
    <2> QED BY <2>2, <2>4, <2>5 DEF Following
  <1> QED BY <1>4, <1>5, <1>6 DEF AttachInv, Owner

\* and a crash, after which the process has none.
LEMMA AttachCrash ==
  ASSUME IInv, AttachInv, NEW p \in Procs, Crash(p)
  PROVE  AttachInv'
  <1>1. /\ fr' = fr /\ active' = [active EXCEPT ![p] = None]
        /\ \A u \in Calls : Owner(u)' = Owner(u)
        /\ \A u \in Calls : Owner(u) # p => pc'[u] = pc[u]
        /\ \A u \in Calls : Owner(u) = p => pc'[u] \in {"adrift", "gone", "done"}
        /\ \A u \in Calls : pc[u] = "done" => pc'[u] = "done"
        /\ active \in [Procs -> Calls \cup {None}]
    BY DEF Crash, At, Owner, IInv, TypeOK
  <1>2. ASSUME NEW u \in Calls, pc'[u] \in Executing \cup {"attached"}
        PROVE  /\ Owner(u) # p /\ pc'[u] = pc[u]
               /\ Owner(u) \in Procs
    BY <1>1, <1>2 DEF IInv, StoreInv, CallInv, Executing
  <1>3. ASSUME NEW u \in Calls, pc'[u] \in Executing PROVE active'[Owner(u)'] = u
    BY <1>1, <1>2, <1>3 DEF AttachInv
  <1>4. ASSUME NEW q \in Procs, active'[q] # None
        PROVE  pc'[active'[q]] \in Executing /\ fr'[active'[q]].proc = q
    <2>1. q # p /\ active'[q] = active[q] /\ active[q] \in Calls
      BY <1>1, <1>4
    <2>2. pc[active[q]] \in Executing /\ Owner(active[q]) = q
      BY <1>4, <2>1 DEF AttachInv
    <2> QED BY <1>1, <2>1, <2>2 DEF Owner
  <1>5. ASSUME NEW d \in Calls, pc'[d] = "attached" PROVE Following(d)'
    <2> DEFINE l == fr[d].leader
    <2>1. pc[d] = "attached" /\ Owner(d) # p /\ l \in Calls /\ Following(d)
      BY <1>2, <1>5 DEF AttachInv, IInv, StoreInv, CallInv
    <2>2. CASE pc[l] \in Executing /\ Owner(l) = Owner(d)
      <3>1. pc'[l] = pc[l]
        BY <1>1, <2>1, <2>2
      <3> QED BY <1>1, <2>1, <2>2, <3>1 DEF Following
    <2>3. CASE pc[l] = "done" /\ \A e \in Calls : Owner(e) = Owner(d) => pc[e] \notin Executing
      <3>1. \A e \in Calls : Owner(e)' = Owner(d)' => pc'[e] \notin Executing
        BY <1>1, <2>1, <2>3
      <3>2. pc'[l] = "done"
        BY <1>1, <2>1, <2>3
      <3> QED BY <1>1, <3>1, <3>2 DEF Following
    <2> QED BY <2>1, <2>2, <2>3 DEF Following
  <1> QED BY <1>3, <1>4, <1>5 DEF AttachInv, Owner

\* Every step keeps the active calls and those that follow them.
LEMMA AttachStep ==
  ASSUME IInv, mode.attach => AttachInv, [Next]_vars
  PROVE  (mode.attach => AttachInv)'
  <1>1. mode' = mode
    BY DEF Next, CallStep, Enter, FollowLeader, OwnerLives, OwnerDead, NoProof,
       Rebuilt, Reserve, LoserLooks, IdentityFails, RunReturns, RunThrows,
       StoreThrows, Land, Bind, Open, Crash, Tick, vars
  <1> SUFFICES ASSUME mode.attach, AttachInv PROVE AttachInv'
    BY <1>1
  <1>2. ASSUME UNCHANGED <<pc, active, fr>> PROVE AttachInv'
    BY <1>2 DEF AttachInv, Following, Owner
  <1>3. CASE \E c \in Calls : Land(c)
    BY <1>2, <1>3 DEF Land
  <1>4. CASE \E p \in Procs : Open(p)
    BY <1>2, <1>4 DEF Open
  <1>5. CASE Tick \/ UNCHANGED vars
    BY <1>2, <1>5 DEF Tick, vars
  <1> QED BY <1>3, <1>4, <1>5, AttachCallStep, AttachBind, AttachCrash DEF Next

\* Callers that attach in flight are never told "in progress" about a run of
\* their own process, whichever call leads and however many follow.
THEOREM OutcomesAttach == Spec => AttachedOutcome
  <1> DEFINE Told == mode.attach => \A c, d \in Calls :
                pc[c] # "done" /\ pc'[c] = "done" /\ fr'[c].kind = "inProgress"
                  => ~(pc[d] = "running" /\ Owner(d) = Owner(c))
             Attached == mode.attach => AttachInv
  <1>1. Init => Attached
    BY DEF Init, AttachInv, Executing
  <1>2. IInv /\ Attached /\ [Next]_vars => Attached'
    BY AttachStep
  <1>3. IInv /\ Attached /\ [Next]_vars => [Told]_vars
    <2> SUFFICES ASSUME IInv, mode.attach, AttachInv, Next,
                        NEW c \in Calls, NEW d \in Calls,
                        pc[c] # "done", pc'[c] = "done", fr'[c].kind = "inProgress",
                        pc[d] = "running", Owner(d) = Owner(c)
                 PROVE  FALSE
      BY DEF vars
    <2>1. ASSUME NEW u \in Calls, CallStep(u) PROVE FALSE
      <3>1. u = c
        BY <2>1, StepShape DEF OthersStay
      <3>2. CASE pc[c] \in {"probe", "lost"}
        BY <3>2, OneExecutes DEF Executing
      <3>3. CASE pc[c] = "attached" /\ pc[fr[c].leader] = "done"
        BY <3>3 DEF AttachInv, Following, Executing
      <3> QED BY <2>1, <3>1, <3>2, <3>3, StepShape
    <2>2. ASSUME NEW u \in Calls, NEW p \in Procs, NEW b \in Bodies, Bind(u, p, b)
          PROVE  FALSE
      <3>1. fr[u] \in Frame
        BY DEF IInv, TypeOK
      <3> QED BY <2>2, <3>1 DEF Bind, Goto, IInv, TypeOK, Frame
    <2>3. ASSUME pc' = pc PROVE FALSE
      BY <2>3
    <2>4. ASSUME NEW p \in Procs, Crash(p) PROVE FALSE
      BY <2>4 DEF Crash, At, IInv, TypeOK
    <2> QED BY <2>1, <2>2, <2>3, <2>4 DEF Next, Land, Open, Tick
  <1> QED BY <1>1, <1>2, <1>3, Invariance, PTL DEF Spec, AttachedOutcome
=============================================================================
