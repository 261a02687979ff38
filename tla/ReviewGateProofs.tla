-------------------------- MODULE ReviewGateProofs --------------------------
(***************************************************************************)
(* Theorems about ReviewGate, for every number of lanes, slots, rows and   *)
(* commits.  The queue is the hard part: a row is claimed, reclaimed,      *)
(* superseded, stopped, settled, deferred and swept, by steps of different *)
(* continuations.  All of them but the claim itself have the same shape,   *)
(* Kept below: a claimed row stays with its owner, or its owner is         *)
(* cancelled, or its owner's continuation is the one that ends.            *)
(***************************************************************************)
EXTENDS ReviewGate, FiniteSetTheorems, TLAPS

-----------------------------------------------------------------------------
(* The inductive invariant.                                                *)

Claimed(qs, r) == qs.rows[r] # None /\ qs.rows[r].st = "claimed"

\* A row has an owner iff it is claimed, and a lane has one active row.
RowInv(qs) ==
    /\ \A r \in Rows : qs.rows[r] # None => (Claimed(qs, r) <=> qs.rows[r].owner # None)
    /\ \A r, x \in Rows : qs.rows[r] # None /\ qs.rows[x] # None
                          /\ qs.rows[r].lane = qs.rows[x].lane => r = x

\* The owner of a row is a continuation for that row, and is not cancelled.
HeldInv(qs, sl) ==
    \A r \in Rows : Claimed(qs, r) =>
        /\ sl[qs.rows[r].owner] # None /\ qs.rows[r].owner \notin qs.cancelled
        /\ sl[qs.rows[r].owner].row = r /\ sl[qs.rows[r].owner].lane = qs.rows[r].lane

\* A continuation that is not cancelled owns its row and its lane.
CurrentInv(qs, sl, rv) ==
    \A s \in Slots : sl[s] # None /\ s \notin qs.cancelled =>
        /\ Claimed(qs, sl[s].row) /\ qs.rows[sl[s].row].owner = s
        /\ rv[sl[s].lane] = s

CancelInv(qs, sl) == \A s \in qs.cancelled : sl[s] # None

\* A slot that waits for a merge has its continuation.
MergeInv(sl, mg) == \A s \in Slots : mg[s] # None => sl[s] # None /\ sl[s].pc = "dispatch"

\* What a verdict is pinned to, or will be, was read; a blind pass has a verdict.
ReadInv(sl, vd, sn) ==
    /\ \A l \in Lanes : vd[l] # None => vd[l].head \in sn[l].read
    /\ \A s \in Slots : sl[s] # None =>
         /\ sl[s].pc = "record" => sl[s].head \in sn[sl[s].lane].read
         /\ sl[s].pc = "blind" => vd[sl[s].lane] # None

QueueInv(qs, sl, rv) ==
  RowInv(qs) /\ HeldInv(qs, sl) /\ CurrentInv(qs, sl, rv) /\ CancelInv(qs, sl)

IInv == /\ TypeOK
        /\ QueueInv(q, slot, reviewing)
        /\ MergeInv(slot, merge)
        /\ ReadInv(slot, verdict, seen)

-----------------------------------------------------------------------------
(* The operators of the queue.                                             *)

\* What Drop does to each part of the queue.
LEMMA DropQueue ==
    ASSUME NEW qs \in Queue, NEW r \in Rows
    PROVE  /\ Drop(qs, r) \in Queue
           /\ Drop(qs, r).rows = [qs.rows EXCEPT ![r] = None]
           /\ Drop(qs, r).cancelled = qs.cancelled /\ Drop(qs, r).aborted = qs.aborted
BY DEF Drop, Leave, Queue

\* What ToPending does to each part of the queue.
LEMMA ToPendingQueue ==
    ASSUME NEW qs \in Queue, NEW r \in Rows, qs.rows[r] # None, NEW n \in 0..MaxAttempts
    PROVE  /\ ToPending(qs, r, n) \in Queue
           /\ ToPending(qs, r, n).rows =
                [qs.rows EXCEPT ![r] = [lane |-> qs.rows[r].lane, st |-> "pending",
                                        head |-> qs.rows[r].head, attempts |-> n,
                                        owner |-> None]]
           /\ ToPending(qs, r, n).cancelled = qs.cancelled
           /\ ToPending(qs, r, n).aborted = qs.aborted
<1> DEFINE row == [lane |-> qs.rows[r].lane, st |-> "pending", head |-> qs.rows[r].head,
                   attempts |-> n, owner |-> None]
<1>1. qs.rows[r] \in Row  BY DEF Queue
<1>2. row \in Row  BY <1>1 DEF Row
<1>3. [qs.rows[r] EXCEPT !.st = "pending", !.owner = None, !.attempts = n] = row
  <2> DEFINE x == qs.rows[r]
             y == [x EXCEPT !.st = "pending"]
             z == [y EXCEPT !.owner = None]
  <2>1. y = [lane |-> x.lane, st |-> "pending", head |-> x.head,
             attempts |-> x.attempts, owner |-> x.owner]
    BY <1>1 DEF Row
  <2>2. z = [y EXCEPT !.owner = None]  OBVIOUS
  <2> HIDE DEF y, z
  <2>3. z = [lane |-> x.lane, st |-> "pending", head |-> x.head,
             attempts |-> x.attempts, owner |-> None]
    BY <2>1, <2>2
  <2>4. [z EXCEPT !.attempts = n] = row  BY <2>3
  <2>5. QED  BY <2>4 DEF y, z
<1>4. Join(qs, {r}) \in [Rows -> SUBSET Rows]  BY DEF Join, Waiting, Queue
<1>5. ToPending(qs, r, n) = [qs EXCEPT !.rows = [qs.rows EXCEPT ![r] = row],
                                       !.ahead = Join(qs, {r})]
  BY <1>3 DEF ToPending, Queue
<1> HIDE DEF row
<1> DEFINE rows == [qs.rows EXCEPT ![r] = row]
           at == [qs EXCEPT !.rows = rows]
           ahead == Join(qs, {r})
<1>6. rows \in [Rows -> Row \cup {None}]  BY <1>2 DEF Queue
<1>7. ToPending(qs, r, n) = [at EXCEPT !.ahead = ahead]  BY <1>5
<1> HIDE DEF rows, ahead
<1>8. at = [rows |-> rows, ahead |-> qs.ahead, cancelled |-> qs.cancelled,
            aborted |-> qs.aborted]
  BY DEF Queue
<1>9. ahead \in [Rows -> SUBSET Rows]  BY <1>4 DEF ahead
<1> HIDE DEF at
<1>10. /\ ToPending(qs, r, n) \in Queue
      /\ ToPending(qs, r, n).rows = rows
      /\ ToPending(qs, r, n).cancelled = qs.cancelled
      /\ ToPending(qs, r, n).aborted = qs.aborted
  BY <1>6, <1>7, <1>8, <1>9 DEF Queue
<1>11. /\ ToPending(qs, r, n) \in Queue
      /\ ToPending(qs, r, n).rows = [qs.rows EXCEPT ![r] = row]
      /\ ToPending(qs, r, n).cancelled = qs.cancelled
      /\ ToPending(qs, r, n).aborted = qs.aborted
  BY <1>10 DEF rows
<1>12. QED  BY <1>11 DEF row

\* What StopTurns does to each part of the queue.
LEMMA StopTurnsQueue ==
    ASSUME NEW qs \in Queue, NEW l \in Lanes
    PROVE  /\ StopTurns(qs, l) \in Queue
           /\ StopTurns(qs, l).rows = qs.rows
           /\ StopTurns(qs, l).cancelled = qs.cancelled
BY DEF StopTurns, Queue

\* The owners of a set of rows are slots.
LEMMA OwnersAreSlots ==
    ASSUME NEW qs \in Queue, NEW R \in SUBSET Rows, \A r \in R : qs.rows[r] # None
    PROVE  {qs.rows[r].owner : r \in R} \ {None} \subseteq Slots
<1>1. \A r \in R : qs.rows[r] \in Row  BY DEF Queue
<1>2. QED  BY <1>1 DEF Row

\* What Superseded does to the queue: the lane's rows of other commits are gone.
LEMMA SupersededQueue ==
    ASSUME NEW qs \in Queue, NEW l \in Lanes, NEW h \in Heads
    PROVE  LET old == {r \in Active(qs, l) : qs.rows[r].head # h}
               own == {qs.rows[r].owner : r \in old} \ {None}
               e == Superseded(qs, l, h)
           IN  /\ e \in Queue
               /\ e.rows = [r \in Rows |-> IF r \in old THEN None ELSE qs.rows[r]]
               /\ e.cancelled = qs.cancelled \cup own
<1> DEFINE old == {r \in Active(qs, l) : qs.rows[r].head # h}
           own == {qs.rows[r].owner : r \in old} \ {None}
           off == [rows |-> [r \in Rows |-> IF r \in old THEN None ELSE qs.rows[r]],
                   ahead |-> Leave(qs, old),
                   cancelled |-> qs.cancelled \cup own, aborted |-> qs.aborted]
<1>1. old \subseteq Rows /\ \A r \in old : qs.rows[r] # None  BY DEF Active
<1>2. own \subseteq Slots  BY <1>1, OwnersAreSlots
<1>3. Leave(qs, old) \in [Rows -> SUBSET Rows]  BY DEF Leave, Queue
<1>4. off \in Queue
  <2> HIDE DEF old, own
  <2>1. QED  BY <1>2, <1>3 DEF Queue
<1>5. Superseded(qs, l, h) = IF own = {} THEN off ELSE StopTurns(off, l)  BY DEF Superseded
<1> HIDE DEF off
<1>6. /\ Superseded(qs, l, h) \in Queue
      /\ Superseded(qs, l, h).rows = off.rows
      /\ Superseded(qs, l, h).cancelled = off.cancelled
  BY <1>4, <1>5, StopTurnsQueue
<1>7. QED  BY <1>6 DEF off

\* There is a free row for a lane that has none.
LEMMA FreshRow ==
    ASSUME NEW qs \in Queue, RowInv(qs), NEW l \in Lanes
    PROVE  \E r \in Rows : qs.rows[r] = None
<1> SUFFICES ASSUME \A r \in Rows : qs.rows[r] # None PROVE FALSE  OBVIOUS
<1> DEFINE f == [r \in Rows |-> qs.rows[r].lane]
<1>1. f \in [Rows -> Lanes]
  <2>1. \A r \in Rows : qs.rows[r] \in Row  BY DEF Queue
  <2>2. QED  BY <2>1 DEF Row
<1>2. Cardinality(Lanes) \in Nat /\ Cardinality(Rows) \in Nat /\ Cardinality(Lanes) # 0
  BY RowsAssumption, FS_CardinalityType, FS_EmptySet
<1>3. Cardinality(Lanes) < Cardinality(Rows)  BY <1>2, RowsAssumption
<1>4. PICK r \in Rows, x \in Rows : r # x /\ f[r] = f[x]
  <2> HIDE DEF f
  <2>1. QED  BY <1>1, <1>3, RowsAssumption, FS_PigeonHole
<1>5. QED  BY <1>4 DEF RowInv

-----------------------------------------------------------------------------
(* Kept: what a step that claims no row does to the claimed ones, where S  *)
(* are the slots whose continuation ends with the step.                    *)

Kept(qs, e, S) ==
    /\ qs.cancelled \subseteq e.cancelled
    /\ \A r \in Rows : Claimed(e, r) => e.rows[r] = qs.rows[r] /\ e.rows[r].owner \notin S
    /\ \A r \in Rows : Claimed(qs, r) /\ qs.rows[r].owner \notin S =>
         e.rows[r] = qs.rows[r] \/ qs.rows[r].owner \in e.cancelled
    /\ \A s \in e.cancelled \ qs.cancelled :
         \E r \in Rows : Claimed(qs, r) /\ qs.rows[r].owner = s /\ ~Claimed(e, r)

\* The owner of a claimed row is a slot.
LEMMA OwnerIsSlot ==
    ASSUME NEW qs \in Queue, RowInv(qs), NEW r \in Rows, Claimed(qs, r)
    PROVE  qs.rows[r].owner \in Slots
<1>1. qs.rows[r] \in Row /\ qs.rows[r].owner # None  BY DEF Queue, RowInv, Claimed
<1>2. QED  BY <1>1 DEF Row

\* Rows that leave the queue, their owners cancelled, keep the rest.
LEMMA RowsGo ==
    ASSUME NEW qs \in Queue, RowInv(qs), NEW gone \in SUBSET Rows, NEW e \in Queue,
           \A r \in gone : qs.rows[r] # None,
           e.rows = [r \in Rows |-> IF r \in gone THEN None ELSE qs.rows[r]],
           e.cancelled = qs.cancelled \cup ({qs.rows[r].owner : r \in gone} \ {None})
    PROVE  RowInv(e) /\ Kept(qs, e, {})
<1>1. RowInv(e)  BY DEF RowInv, Claimed
<1>2. Kept(qs, e, {})  BY DEF Kept, RowInv, Claimed
<1>3. QED  BY <1>1, <1>2

\* Superseded settles the rows of other commits and keeps the rest.
LEMMA SupersededKeeps ==
    ASSUME NEW qs \in Queue, RowInv(qs), NEW l \in Lanes, NEW h \in Heads
    PROVE  /\ Superseded(qs, l, h) \in Queue
           /\ RowInv(Superseded(qs, l, h))
           /\ Kept(qs, Superseded(qs, l, h), {})
           /\ \A r \in Rows : \/ Superseded(qs, l, h).rows[r] = None
                              \/ Superseded(qs, l, h).rows[r] = qs.rows[r]
<1> DEFINE old == {r \in Active(qs, l) : qs.rows[r].head # h}
           e == Superseded(qs, l, h)
<1>1. old \in SUBSET Rows /\ \A r \in old : qs.rows[r] # None  BY DEF Active
<1>2. /\ e \in Queue
      /\ e.rows = [r \in Rows |-> IF r \in old THEN None ELSE qs.rows[r]]
      /\ e.cancelled = qs.cancelled \cup ({qs.rows[r].owner : r \in old} \ {None})
  BY SupersededQueue
<1> HIDE DEF old, e
<1>3. RowInv(e) /\ Kept(qs, e, {})  BY <1>1, <1>2, RowsGo
<1>4. \A r \in Rows : e.rows[r] = None \/ e.rows[r] = qs.rows[r]  BY <1>2
<1>5. QED  BY <1>2, <1>3, <1>4 DEF e

\* Enqueue adds at most a pending row, in a lane that has none.
LEMMA EnqueueKeeps ==
    ASSUME NEW qs \in Queue, RowInv(qs), NEW l \in Lanes, head \in [Lanes -> Heads],
           NEW after \in BOOLEAN, after => Active(qs, l) = {}
    PROVE  /\ Enqueue(qs, l, after) \in Queue
           /\ RowInv(Enqueue(qs, l, after))
           /\ Kept(qs, Enqueue(qs, l, after), {})
<1> DEFINE clean == Superseded(qs, l, head[l])
           fresh == CHOOSE r \in Rows : clean.rows[r] = None
           row == [lane |-> l, st |-> "pending", head |-> head[l], attempts |-> 0,
                   owner |-> None]
           e == [clean EXCEPT !.rows[fresh] = row, !.ahead = Join(clean, {fresh})]
<1>1. head[l] \in Heads  OBVIOUS
<1>2. /\ clean \in Queue /\ RowInv(clean) /\ Kept(qs, clean, {})
      /\ \A r \in Rows : clean.rows[r] = None \/ clean.rows[r] = qs.rows[r]
  BY <1>1, SupersededKeeps
<1>3. Enqueue(qs, l, after) =
        IF PendingRows(clean, l) # {} \/ (Active(clean, l) # {} /\ ~after) THEN clean ELSE e
  BY DEF Enqueue
<1> HIDE DEF clean
<1>4. fresh \in Rows /\ clean.rows[fresh] = None  BY <1>2, FreshRow
<1>5. row \in Row  BY <1>1, LimitsAssumption DEF Row
<1>6. row # None  BY <1>5, NoneAssumption
<1> HIDE DEF fresh
<1>7. Join(clean, {fresh}) \in [Rows -> SUBSET Rows]  BY <1>2 DEF Join, Waiting, Queue
<1>8. /\ e \in Queue /\ e.cancelled = clean.cancelled
      /\ e.rows = [clean.rows EXCEPT ![fresh] = row]
  <2> HIDE DEF row
  <2> DEFINE rows == [clean.rows EXCEPT ![fresh] = row]
             ahead == Join(clean, {fresh})
             at == [clean EXCEPT !.rows = rows]
  <2>1. rows \in [Rows -> Row \cup {None}]  BY <1>2, <1>5 DEF Queue
  <2>2. ahead \in [Rows -> SUBSET Rows]  BY <1>7
  <2>3. e = [at EXCEPT !.ahead = ahead]  OBVIOUS
  <2> HIDE DEF rows, ahead, e
  <2>4. at = [rows |-> rows, ahead |-> clean.ahead, cancelled |-> clean.cancelled,
              aborted |-> clean.aborted]
    BY <1>2 DEF Queue
  <2> HIDE DEF at
  <2>5. e \in Queue /\ e.cancelled = clean.cancelled /\ e.rows = rows
    BY <1>2, <2>1, <2>2, <2>3, <2>4 DEF Queue
  <2>6. QED  BY <2>5 DEF rows, e
<1>9. CASE PendingRows(clean, l) # {} \/ (Active(clean, l) # {} /\ ~after)
  BY <1>2, <1>3, <1>9
<1>10. CASE ~(PendingRows(clean, l) # {} \/ (Active(clean, l) # {} /\ ~after))
  <2>1. Enqueue(qs, l, after) = e  BY <1>3, <1>10
  <2>2. Active(clean, l) = {}
    <3>1. CASE after  BY <1>2, <3>1 DEF Active
    <3>2. CASE ~after  BY <1>10, <3>2
    <3>3. QED  BY <3>1, <3>2
  <2>3. \A r \in Rows \ {fresh} : e.rows[r] = clean.rows[r]  BY <1>2, <1>8 DEF Queue
  <2>4. e.rows[fresh] = row  BY <1>2, <1>4, <1>8 DEF Queue
  <2>5. row.lane = l /\ row.st = "pending" /\ row.owner = None  OBVIOUS
  <2>6. e.cancelled = clean.cancelled  BY <1>8
  <2> HIDE DEF e, row
  <2>7. RowInv(e)
    BY <1>2, <2>2, <2>3, <2>4, <2>5 DEF RowInv, Claimed, Active
  <2>8. Kept(qs, e, {})
    BY <1>2, <1>4, <2>3, <2>4, <2>5, <2>6 DEF Kept, Claimed
  <2>9. e \in Queue  BY <1>8
  <2>10. QED  BY <2>1, <2>7, <2>8, <2>9
<1>11. QED  BY <1>9, <1>10

\* A claimed row that is dropped or put back leaves its owner without a row.
LEMMA RowLeaves ==
    ASSUME NEW qs \in Queue, RowInv(qs), NEW r \in Rows, Claimed(qs, r),
           \A x \in Rows : Claimed(qs, x) /\ qs.rows[x].owner = qs.rows[r].owner => x = r,
           NEW n \in 0..MaxAttempts,
           NEW e, e = Drop(qs, r) \/ e = ToPending(qs, r, n)
    PROVE  /\ e \in Queue /\ RowInv(e) /\ ~Claimed(e, r) /\ e.cancelled = qs.cancelled
           /\ Kept(qs, e, {qs.rows[r].owner})
<1>1. CASE e = Drop(qs, r)
  <2>1. /\ e \in Queue /\ e.cancelled = qs.cancelled
        /\ e.rows = [qs.rows EXCEPT ![r] = None]
    BY <1>1, DropQueue
  <2>2. e.rows[r] = None /\ \A x \in Rows \ {r} : e.rows[x] = qs.rows[x]
    BY <2>1 DEF Queue
  <2>3. RowInv(e)  BY <2>2 DEF RowInv, Claimed
  <2>4. Kept(qs, e, {qs.rows[r].owner})  BY <2>1, <2>2 DEF Kept, Claimed
  <2>5. QED  BY <2>1, <2>2, <2>3, <2>4 DEF Claimed
<1>2. CASE e = ToPending(qs, r, n)
  <2> DEFINE row == [lane |-> qs.rows[r].lane, st |-> "pending", head |-> qs.rows[r].head,
                     attempts |-> n, owner |-> None]
  <2>1. /\ e \in Queue /\ e.cancelled = qs.cancelled
        /\ e.rows = [qs.rows EXCEPT ![r] = row]
    BY <1>2, ToPendingQueue DEF Claimed
  <2>2. e.rows[r] = row /\ \A x \in Rows \ {r} : e.rows[x] = qs.rows[x]
    BY <2>1 DEF Queue
  <2>3. /\ e.rows[r].lane = qs.rows[r].lane /\ e.rows[r].st = "pending"
        /\ e.rows[r].owner = None
    BY <2>2
  <2>4. RowInv(e)  BY <2>2, <2>3 DEF RowInv, Claimed
  <2>5. Kept(qs, e, {qs.rows[r].owner})  BY <2>1, <2>2, <2>3 DEF Kept, Claimed
  <2>6. QED  BY <2>1, <2>3, <2>4, <2>5 DEF Claimed
<1>3. QED  BY <1>1, <1>2

\* In a consistent queue a slot owns one row, that of its continuation.
LEMMA OneRowPerOwner ==
    ASSUME NEW qs \in Queue, HeldInv(qs, slot), NEW r \in Rows, Claimed(qs, r)
    PROVE  /\ \A x \in Rows : Claimed(qs, x) /\ qs.rows[x].owner = qs.rows[r].owner => x = r
           /\ slot[qs.rows[r].owner] # None
           /\ slot[qs.rows[r].owner].row = r
BY DEF HeldInv

\* A step that keeps the claimed rows keeps the queue consistent with the slots.
LEMMA KeptIsConsistent ==
    ASSUME NEW qs \in Queue, NEW sl, NEW rv, QueueInv(qs, sl, rv),
           NEW e \in Queue, RowInv(e), Kept(qs, e, {}),
           sl \in [Slots -> Continuation \cup {None}]
    PROVE  QueueInv(e, sl, rv)
<1>1. \A r \in Rows : Claimed(e, r) => e.rows[r].owner \in Slots
  BY OwnerIsSlot
<1>2. \A r \in Rows : Claimed(qs, r) => qs.rows[r].owner \in Slots
  BY OwnerIsSlot DEF QueueInv
<1>3. \A s \in Slots : sl[s] # None => sl[s].row \in Rows
  <2>1. \A s \in Slots : sl[s] # None => sl[s] \in Continuation  OBVIOUS
  <2>2. QED  BY <2>1 DEF Continuation
<1>4. HeldInv(e, sl)
  <2>1. SUFFICES ASSUME NEW r \in Rows, Claimed(e, r)
                 PROVE  /\ sl[e.rows[r].owner] # None /\ e.rows[r].owner \notin e.cancelled
                        /\ sl[e.rows[r].owner].row = r
                        /\ sl[e.rows[r].owner].lane = e.rows[r].lane
    BY DEF HeldInv
  <2>2. e.rows[r] = qs.rows[r] /\ Claimed(qs, r)  BY <2>1 DEF Kept, Claimed
  <2>3. /\ sl[e.rows[r].owner] # None /\ e.rows[r].owner \notin qs.cancelled
        /\ sl[e.rows[r].owner].row = r /\ sl[e.rows[r].owner].lane = e.rows[r].lane
    BY <2>2 DEF QueueInv, HeldInv
  <2>4. e.rows[r].owner \notin e.cancelled
    <3>1. SUFFICES ASSUME e.rows[r].owner \in e.cancelled PROVE FALSE  OBVIOUS
    <3>2. PICK x \in Rows : /\ Claimed(qs, x) /\ qs.rows[x].owner = e.rows[r].owner
                            /\ ~Claimed(e, x)
      BY <3>1, <2>3 DEF Kept
    <3>3. sl[qs.rows[x].owner].row = x  BY <3>2 DEF QueueInv, HeldInv
    <3>4. QED  BY <3>2, <3>3, <2>1, <2>3
  <2>5. QED  BY <2>3, <2>4
<1>5. CurrentInv(e, sl, rv)
  <2>1. SUFFICES ASSUME NEW s \in Slots, sl[s] # None, s \notin e.cancelled
                 PROVE  /\ Claimed(e, sl[s].row) /\ e.rows[sl[s].row].owner = s
                        /\ rv[sl[s].lane] = s
    BY DEF CurrentInv
  <2>2. s \notin qs.cancelled  BY <2>1 DEF Kept
  <2>3. /\ Claimed(qs, sl[s].row) /\ qs.rows[sl[s].row].owner = s
        /\ rv[sl[s].lane] = s
    BY <2>1, <2>2 DEF QueueInv, CurrentInv
  <2>4. e.rows[sl[s].row] = qs.rows[sl[s].row]  BY <2>1, <2>3, <1>3 DEF Kept
  <2>5. QED  BY <2>3, <2>4 DEF Claimed
<1>6. CancelInv(e, sl)
  <2>1. SUFFICES ASSUME NEW s \in e.cancelled PROVE sl[s] # None  BY DEF CancelInv
  <2>2. CASE s \in qs.cancelled  BY <2>2 DEF QueueInv, CancelInv
  <2>3. CASE s \notin qs.cancelled
    <3>1. PICK x \in Rows : Claimed(qs, x) /\ qs.rows[x].owner = s  BY <2>3 DEF Kept
    <3>2. QED  BY <3>1 DEF QueueInv, HeldInv
  <2>4. QED  BY <2>2, <2>3
<1>7. QED  BY <1>4, <1>5, <1>6 DEF QueueInv

\* The consistency of the queue depends on the rows and lanes of the slots only.
LEMMA SameRows ==
    ASSUME NEW qs \in Queue, NEW sl, NEW sm, NEW rv, QueueInv(qs, sl, rv),
           \A s \in Slots : /\ sl[s] = None <=> sm[s] = None
                            /\ sl[s] # None => sl[s].row = sm[s].row /\ sl[s].lane = sm[s].lane
    PROVE  QueueInv(qs, sm, rv)
<1>1. RowInv(qs)  BY DEF QueueInv
<1>2. HeldInv(qs, sm)
  <2>1. \A r \in Rows : Claimed(qs, r) => qs.rows[r].owner \in Slots  BY <1>1, OwnerIsSlot
  <2>2. QED  BY <2>1 DEF QueueInv, HeldInv
<1>3. CurrentInv(qs, sm, rv)  BY DEF QueueInv, CurrentInv
<1>4. CancelInv(qs, sm)
  <2>1. qs.cancelled \subseteq Slots  BY DEF Queue
  <2>2. QED  BY <2>1 DEF QueueInv, CancelInv
<1>5. QED  BY <1>1, <1>2, <1>3, <1>4 DEF QueueInv

\* The three settlements and a deferral leave the slot no row.
LEMMA SettledKeeps ==
    ASSUME NEW qs \in Queue, RowInv(qs), HeldInv(qs, slot),
           slot \in [Slots -> Continuation \cup {None}], NEW s \in Slots, slot[s] # None
    PROVE  /\ Settled(s, qs) \in Queue /\ RowInv(Settled(s, qs))
           /\ Kept(qs, Settled(s, qs), {s})
<1> DEFINE r == slot[s].row
<1>1. slot[s] \in Continuation  OBVIOUS
<1>2. r \in Rows  BY <1>1 DEF Continuation
<1>3. s # None  BY NoneAssumption
<1>4. CASE qs.rows[r] # None /\ qs.rows[r].owner = s
  <2>1. Claimed(qs, r)  BY <1>2, <1>3, <1>4 DEF RowInv
  <2>2. \A x \in Rows : Claimed(qs, x) /\ qs.rows[x].owner = qs.rows[r].owner => x = r
    BY <1>2, <2>1, OneRowPerOwner
  <2>3. Settled(s, qs) = Drop(qs, r)  BY <1>4 DEF Settled
  <2>4. 0 \in 0..MaxAttempts  BY LimitsAssumption
  <2> HIDE DEF r
  <2>5. QED  BY <1>2, <1>4, <2>1, <2>2, <2>3, <2>4, RowLeaves
<1>5. CASE ~(qs.rows[r] # None /\ qs.rows[r].owner = s)
  <2>1. Settled(s, qs) = qs  BY <1>5 DEF Settled
  <2>2. \A x \in Rows : Claimed(qs, x) => qs.rows[x].owner # s
    BY <1>5 DEF HeldInv, Claimed
  <2>3. QED  BY <2>1, <2>2 DEF Kept
<1>6. QED  BY <1>4, <1>5

\* Deferred puts the row of the slot back if the slot still owns it, and Failed
\* drops it or puts it back.
LEMMA PutBackKeeps ==
    ASSUME q \in Queue, RowInv(q), HeldInv(q, slot),
           slot \in [Slots -> Continuation \cup {None}], NEW s \in Slots, slot[s] # None,
           NEW e, e = Deferred(s) \/ e = Failed(s)
    PROVE  e \in Queue /\ RowInv(e) /\ Kept(q, e, {s})
<1> DEFINE r == slot[s].row
<1>1. slot[s] \in Continuation  OBVIOUS
<1>2. r \in Rows /\ slot[s].attempts \in 0..MaxAttempts  BY <1>1 DEF Continuation
<1>3. s # None  BY NoneAssumption
<1>4. CASE Owned(s)
  <2>1. Claimed(q, r) /\ q.rows[r].owner = s /\ q.rows[r] \in Row
    BY <1>2, <1>3, <1>4 DEF RowInv, Owned, Claimed, Queue
  <2>2. \A x \in Rows : Claimed(q, x) /\ q.rows[x].owner = q.rows[r].owner => x = r
    BY <1>2, <2>1, OneRowPerOwner
  <2>3. q.rows[r].attempts \in 0..MaxAttempts  BY <2>1 DEF Row
  <2>4. \E n \in 0..MaxAttempts : e = Drop(q, r) \/ e = ToPending(q, r, n)
    <3>1. CASE e = Deferred(s)  BY <1>4, <2>3, <3>1 DEF Deferred
    <3>2. CASE e = Failed(s)
      <4>1. ~(slot[s].attempts + 1 >= MaxAttempts) => slot[s].attempts + 1 \in 0..MaxAttempts
        BY <1>2, LimitsAssumption
      <4>2. 0 \in 0..MaxAttempts  BY LimitsAssumption
      <4>3. QED  BY <1>4, <3>2, <4>1, <4>2 DEF Failed
    <3>3. QED  BY <3>1, <3>2
  <2> HIDE DEF r
  <2>5. QED  BY <1>2, <2>1, <2>2, <2>4, RowLeaves
<1>5. CASE ~Owned(s)
  <2>1. e = q  BY <1>5 DEF Deferred, Failed
  <2>2. \A x \in Rows : Claimed(q, x) => q.rows[x].owner # s
    BY <1>5 DEF HeldInv, Claimed, Owned
  <2>3. QED  BY <2>1, <2>2 DEF Kept
<1>6. QED  BY <1>4, <1>5

-----------------------------------------------------------------------------
(* The end of a continuation.                                              *)

\* What is left when the continuation of slot s has ended.
Ended(s) ==
    /\ q' \in Queue /\ QueueInv(q', slot', reviewing')
    /\ slot' = [slot EXCEPT ![s] = None]
    /\ slot' \in [Slots -> Continuation \cup {None}]
    /\ reviewing' \in [Lanes -> Slots \cup {None}]

\* The slot is released after its row was settled or put back.
LEMMA ReleaseEnds ==
    ASSUME TypeOK, NEW s \in Slots, slot[s] # None,
           NEW qs \in Queue, QueueInv(qs, slot, reviewing),
           NEW e \in Queue, RowInv(e), Kept(qs, e, {s}), Release(s, e)
    PROVE  Ended(s)
<1>1. /\ slot \in [Slots -> Continuation \cup {None}]
      /\ reviewing \in [Lanes -> Slots \cup {None}]
  BY DEF TypeOK
<1>2. slot[s] \in Continuation  BY <1>1
<1>3. slot[s].lane \in Lanes  BY <1>2 DEF Continuation
<1>4. /\ slot' = [slot EXCEPT ![s] = None]
      /\ slot'[s] = None /\ \A t \in Slots \ {s} : slot'[t] = slot[t]
      /\ slot' \in [Slots -> Continuation \cup {None}]
  BY <1>1 DEF Release
<1>5. /\ reviewing' \in [Lanes -> Slots \cup {None}]
      /\ \A l \in Lanes : reviewing[l] # s => reviewing'[l] = reviewing[l]
  BY <1>1, <1>3 DEF Release
<1>6. /\ q' \in Queue /\ q'.rows = e.rows
      /\ q'.cancelled = e.cancelled \ {s}
  BY DEF Release, Queue
<1>7. RowInv(q') /\ \A r \in Rows : Claimed(q', r) <=> Claimed(e, r)
  BY <1>6 DEF RowInv, Claimed
<1>8. HeldInv(q', slot')
  <2>1. SUFFICES ASSUME NEW r \in Rows, Claimed(e, r)
                 PROVE  /\ slot'[e.rows[r].owner] # None /\ e.rows[r].owner \notin e.cancelled
                        /\ slot'[e.rows[r].owner].row = r
                        /\ slot'[e.rows[r].owner].lane = e.rows[r].lane
    BY <1>6, <1>7 DEF HeldInv
  <2>2. e.rows[r] = qs.rows[r] /\ Claimed(qs, r) /\ e.rows[r].owner # s
    BY <2>1 DEF Kept, Claimed
  <2>3. e.rows[r].owner \in Slots  BY <2>1, OwnerIsSlot
  <2>4. /\ slot[e.rows[r].owner] # None /\ e.rows[r].owner \notin qs.cancelled
        /\ slot[e.rows[r].owner].row = r
        /\ slot[e.rows[r].owner].lane = e.rows[r].lane
    BY <2>2 DEF QueueInv, HeldInv
  <2>5. e.rows[r].owner \notin e.cancelled
    <3>1. SUFFICES ASSUME e.rows[r].owner \in e.cancelled PROVE FALSE  OBVIOUS
    <3>2. PICK x \in Rows : /\ Claimed(qs, x) /\ qs.rows[x].owner = e.rows[r].owner
                            /\ ~Claimed(e, x)
      BY <3>1, <2>4 DEF Kept
    <3>3. slot[qs.rows[x].owner].row = x  BY <3>2 DEF QueueInv, HeldInv
    <3>4. QED  BY <3>2, <3>3, <2>1, <2>4
  <2>6. QED  BY <2>2, <2>3, <2>4, <2>5, <1>4
<1>9. CurrentInv(q', slot', reviewing')
  <2>1. SUFFICES ASSUME NEW t \in Slots, slot'[t] # None, t \notin q'.cancelled
                 PROVE  /\ Claimed(q', slot'[t].row) /\ q'.rows[slot'[t].row].owner = t
                        /\ reviewing'[slot'[t].lane] = t
    BY DEF CurrentInv
  <2>2. t # s /\ slot'[t] = slot[t] /\ t \notin e.cancelled  BY <2>1, <1>4, <1>6
  <2>3. t \notin qs.cancelled  BY <2>2 DEF Kept
  <2>4. /\ Claimed(qs, slot[t].row) /\ qs.rows[slot[t].row].owner = t
        /\ reviewing[slot[t].lane] = t
    BY <2>1, <2>2, <2>3 DEF QueueInv, CurrentInv
  <2>5. slot[t] \in Continuation  BY <2>1, <2>2, <1>1
  <2>6. slot[t].row \in Rows /\ slot[t].lane \in Lanes  BY <2>5 DEF Continuation
  <2>7. e.rows[slot[t].row] = qs.rows[slot[t].row]  BY <2>2, <2>4, <2>6 DEF Kept
  <2>8. reviewing'[slot[t].lane] = t  BY <2>2, <2>4, <2>6, <1>5
  <2>9. QED  BY <2>2, <2>4, <2>7, <2>8, <1>6 DEF Claimed
<1>10. CancelInv(q', slot')
  <2>1. SUFFICES ASSUME NEW t \in q'.cancelled PROVE slot'[t] # None  BY DEF CancelInv
  <2>2. t \in e.cancelled /\ t # s /\ t \in Slots  BY <1>6 DEF Queue
  <2>3. slot[t] # None
    <3>1. CASE t \in qs.cancelled  BY <3>1 DEF QueueInv, CancelInv
    <3>2. CASE t \notin qs.cancelled
      <4>1. PICK x \in Rows : Claimed(qs, x) /\ qs.rows[x].owner = t  BY <2>2, <3>2 DEF Kept
      <4>2. QED  BY <4>1 DEF QueueInv, HeldInv
    <3>3. QED  BY <3>1, <3>2
  <2>4. QED  BY <2>2, <2>3, <1>4
<1>11. QED  BY <1>4, <1>5, <1>6, <1>7, <1>8, <1>9, <1>10 DEF Ended, QueueInv

\* The ways a continuation ends.
LEMMA Endings ==
    ASSUME TypeOK, QueueInv(q, slot, reviewing), NEW s \in Slots, slot[s] # None,
           \/ Release(s, Settled(s, q))
           \/ Release(s, Settled(s, Enqueue(q, slot[s].lane, FALSE)))
           \/ Release(s, Deferred(s))
           \/ Release(s, Failed(s))
    PROVE  Ended(s)
<1>1. /\ q \in Queue /\ slot \in [Slots -> Continuation \cup {None}]
      /\ head \in [Lanes -> Heads]
  BY DEF TypeOK
<1>2. RowInv(q) /\ HeldInv(q, slot)  BY DEF QueueInv
<1>3. CASE Release(s, Settled(s, q))
  BY <1>1, <1>2, <1>3, SettledKeeps, ReleaseEnds
<1>4. CASE Release(s, Settled(s, Enqueue(q, slot[s].lane, FALSE)))
  <2> DEFINE e == Enqueue(q, slot[s].lane, FALSE)
  <2>1. slot[s] \in Continuation  BY <1>1
  <2>2. slot[s].lane \in Lanes  BY <2>1 DEF Continuation
  <2>3. e \in Queue /\ RowInv(e) /\ Kept(q, e, {})  BY <1>1, <1>2, <2>2, EnqueueKeeps
  <2>4. Release(s, Settled(s, e))  BY <1>4
  <2> HIDE DEF e
  <2>5. QueueInv(e, slot, reviewing)  BY <1>1, <2>3, KeptIsConsistent
  <2>6. HeldInv(e, slot)  BY <2>5 DEF QueueInv
  <2>7. /\ Settled(s, e) \in Queue /\ RowInv(Settled(s, e))
        /\ Kept(e, Settled(s, e), {s})
    BY <1>1, <2>3, <2>6, SettledKeeps
  <2>8. QED  BY <2>3, <2>4, <2>5, <2>7, ReleaseEnds
<1>5. CASE Release(s, Deferred(s))
  <2> DEFINE e == Deferred(s)
  <2>1. e \in Queue /\ RowInv(e) /\ Kept(q, e, {s})  BY <1>1, <1>2, PutBackKeeps
  <2>2. Release(s, e)  BY <1>5
  <2> HIDE DEF e
  <2>3. QED  BY <1>1, <2>1, <2>2, ReleaseEnds
<1>6. CASE Release(s, Failed(s))
  <2> DEFINE e == Failed(s)
  <2>1. e \in Queue /\ RowInv(e) /\ Kept(q, e, {s})  BY <1>1, <1>2, PutBackKeeps
  <2>2. Release(s, e)  BY <1>6
  <2> HIDE DEF e
  <2>3. QED  BY <1>1, <2>1, <2>2, ReleaseEnds
<1>7. QED  BY <1>3, <1>4, <1>5, <1>6

\* A step that ends a continuation that awaits no merge, and leaves verdicts,
\* merges and what was read alone, keeps the rest of the invariant.
LEMMA EndedKeeps ==
    ASSUME TypeOK, MergeInv(slot, merge), ReadInv(slot, verdict, seen),
           NEW s \in Slots, slot[s] # None, slot[s].pc # "dispatch", Ended(s), merge' = merge
    PROVE  /\ MergeInv(slot', merge')
           /\ ReadInv(slot', verdict, seen)
<1>1. slot'[s] = None /\ \A t \in Slots \ {s} : slot'[t] = slot[t]  BY DEF Ended, TypeOK
<1>2. QED  BY <1>1 DEF MergeInv, ReadInv

-----------------------------------------------------------------------------
(* Every step keeps the invariant.                                         *)

\* Two such steps in a row are one.
LEMMA KeptTwice ==
    ASSUME NEW qs \in Queue, NEW d \in Queue, NEW e \in Queue, RowInv(qs), RowInv(d),
           Kept(qs, d, {}), Kept(d, e, {})
    PROVE  Kept(qs, e, {})
<1>1. qs.cancelled \subseteq e.cancelled  BY DEF Kept
<1>2. \A r \in Rows : Claimed(e, r) => e.rows[r] = qs.rows[r]  BY DEF Kept, Claimed
<1>3. \A r \in Rows : Claimed(qs, r) =>
        e.rows[r] = qs.rows[r] \/ qs.rows[r].owner \in e.cancelled
  BY DEF Kept, Claimed
<1>4. \A s \in e.cancelled \ qs.cancelled :
        \E r \in Rows : Claimed(qs, r) /\ qs.rows[r].owner = s /\ ~Claimed(e, r)
  <2>1. SUFFICES ASSUME NEW s \in e.cancelled \ qs.cancelled
                 PROVE  \E r \in Rows : Claimed(qs, r) /\ qs.rows[r].owner = s /\ ~Claimed(e, r)
    OBVIOUS
  <2>2. CASE s \in d.cancelled
    <3>1. PICK r \in Rows : Claimed(qs, r) /\ qs.rows[r].owner = s /\ ~Claimed(d, r)
      BY <2>1, <2>2 DEF Kept
    <3>2. ~Claimed(e, r)  BY <3>1 DEF Kept, Claimed
    <3>3. QED  BY <3>1, <3>2
  <2>3. CASE s \notin d.cancelled
    <3>1. PICK r \in Rows : Claimed(d, r) /\ d.rows[r].owner = s /\ ~Claimed(e, r)
      BY <2>1, <2>3 DEF Kept
    <3>2. Claimed(qs, r) /\ qs.rows[r].owner = s  BY <3>1 DEF Kept, Claimed
    <3>3. QED  BY <3>1, <3>2
  <2>4. QED  BY <2>2, <2>3
<1>5. QED  BY <1>1, <1>2, <1>3, <1>4 DEF Kept

\* The steps of the worker, the operator and time.
LEMMA WorkerCommitsKeeps ==
    ASSUME IInv, NEW l \in Lanes, WorkerCommits(l)
    PROVE  IInv'
<1>1. head' \in [Lanes -> Heads]
  <2>1. head[l] + 1 \in Heads  BY LimitsAssumption DEF WorkerCommits, IInv, TypeOK, Heads
  <2>2. QED  BY <2>1 DEF WorkerCommits, IInv, TypeOK
<1>2. QED
  BY <1>1 DEF WorkerCommits, IInv, TypeOK, record, env, QueueInv, RowInv, HeldInv,
     CurrentInv, CancelInv, Claimed, MergeInv, ReadInv

\* A step that changes only statuses, stops and the count of events.
LEMMA StatusKeeps ==
    ASSUME IInv, UNCHANGED <<head, q, slot, reviewing, record, merge>>,
           status' \in [Lanes -> Statuses], stopped' \subseteq Lanes, events' \in 0..MaxEvents
    PROVE  IInv'
BY DEF IInv, TypeOK, record, QueueInv, RowInv, HeldInv, CurrentInv, CancelInv, Claimed,
   MergeInv, ReadInv

\* A steer changes the status alone.
LEMMA SteerKeeps ==
    ASSUME IInv, NEW l \in Lanes, Steer(l)
    PROVE  IInv'
<1>1. status' \in [Lanes -> Statuses] /\ stopped' \subseteq Lanes
  BY DEF Steer, IInv, TypeOK, Statuses
<1>2. events' \in 0..MaxEvents  BY LimitsAssumption DEF Steer, IInv, TypeOK
<1>3. QED  BY <1>1, <1>2, StatusKeeps DEF Steer

\* So does the archive of a stopped packet's lane.
LEMMA ArchiveKeeps ==
    ASSUME IInv, NEW l \in Lanes, Archive(l)
    PROVE  IInv'
<1>1. /\ status' \in [Lanes -> Statuses] /\ stopped' \subseteq Lanes
      /\ events' \in 0..MaxEvents
  BY DEF Archive, IInv, TypeOK, Statuses
<1>2. QED  BY <1>1, StatusKeeps DEF Archive

\* And the reaper.
LEMMA ReapMergingKeeps ==
    ASSUME IInv, NEW l \in Lanes, ReapMerging(l)
    PROVE  IInv'
<1>1. /\ status' \in [Lanes -> Statuses] /\ stopped' \subseteq Lanes
      /\ events' \in 0..MaxEvents
  BY DEF ReapMerging, IInv, TypeOK, Statuses, env
<1>2. QED  BY <1>1, StatusKeeps DEF ReapMerging

\* A receipt becomes late.
LEMMA GraceEndsKeeps ==
    ASSUME IInv, NEW l \in Lanes, GraceEnds(l)
    PROVE  IInv'
<1>1. ledger' \in [Lanes -> Ledger]
  <2> DEFINE led == [ledger[l] EXCEPT !.late = TRUE]
  <2>1. ledger \in [Lanes -> Ledger]  BY DEF IInv, TypeOK
  <2>2. led \in Ledger  BY <2>1 DEF Ledger
  <2>3. ledger' = [ledger EXCEPT ![l] = led]  BY <2>1 DEF GraceEnds
  <2> HIDE DEF led
  <2>4. QED  BY <2>1, <2>2, <2>3
<1>2. QED
  BY <1>1 DEF GraceEnds, IInv, TypeOK, env, QueueInv, RowInv, HeldInv, CurrentInv,
     CancelInv, Claimed, MergeInv, ReadInv

\* A step of the queue alone that claims no row and ends no continuation.
LEMMA QueueStepKeeps ==
    ASSUME IInv, q' \in Queue, RowInv(q'), Kept(q, q', {}),
           UNCHANGED <<head, slot, reviewing, seen>>,
           status' \in [Lanes -> Statuses], stopped' \subseteq Lanes, events' \in 0..MaxEvents,
           verdict' \in [Lanes -> Verdict \cup {None}], ledger' \in [Lanes -> Ledger],
           merge' \in [Mergers -> Merge \cup {None}],
           \A s \in Slots : merge'[s] = merge[s],
           \A l \in Lanes : /\ verdict[l] = None <=> verdict'[l] = None
                            /\ verdict[l] # None => verdict'[l].head = verdict[l].head
    PROVE  IInv'
<1>1. QueueInv(q', slot, reviewing)  BY KeptIsConsistent DEF IInv, TypeOK
<1>2. QueueInv(q', slot', reviewing')  BY <1>1
<1>3. MergeInv(slot', merge')  BY DEF IInv, MergeInv
<1>4. ReadInv(slot', verdict', seen')
  <2>1. \A s \in Slots : slot[s] # None => slot[s].lane \in Lanes
    <3>1. \A s \in Slots : slot[s] # None => slot[s] \in Continuation  BY DEF IInv, TypeOK
    <3>2. QED  BY <3>1 DEF Continuation
  <2>2. QED  BY <2>1 DEF IInv, ReadInv
<1>5. TypeOK'  BY DEF IInv, TypeOK
<1>6. QED  BY <1>2, <1>3, <1>4, <1>5 DEF IInv

\* A request may add the lane's one row.
LEMMA RequestReviewKeeps ==
    ASSUME IInv, NEW l \in Lanes, RequestReview(l)
    PROVE  IInv'
<1>1. q' \in Queue /\ RowInv(q') /\ Kept(q, q', {})
  BY EnqueueKeeps DEF RequestReview, IInv, TypeOK, QueueInv
<1>2. status' \in [Lanes -> Statuses]  BY DEF RequestReview, IInv, TypeOK, Statuses
<1>3. QED  BY <1>1, <1>2, QueueStepKeeps DEF RequestReview, record, env, IInv, TypeOK

\* A stop settles the lane's rows and cancels their owners.
LEMMA StopPacketKeeps ==
    ASSUME IInv, NEW l \in Lanes, StopPacket(l)
    PROVE  IInv'
<1> DEFINE act == Active(q, l)
           own == {q.rows[r].owner : r \in act} \ {None}
           rows == [r \in Rows |-> IF r \in act THEN None ELSE q.rows[r]]
           ahead == Leave(q, act)
           off == [q EXCEPT !.rows = rows, !.ahead = ahead, !.cancelled = @ \cup own]
           at == [q EXCEPT !.rows = rows, !.ahead = ahead]
           at0 == [q EXCEPT !.rows = rows]
<1>1. q \in Queue /\ RowInv(q)  BY DEF IInv, TypeOK, QueueInv
<1>2. act \in SUBSET Rows /\ \A r \in act : q.rows[r] # None  BY DEF Active
<1>3. own \subseteq Slots  BY <1>1, <1>2, OwnersAreSlots
<1>4. rows \in [Rows -> Row \cup {None}] /\ ahead \in [Rows -> SUBSET Rows]
  <2> HIDE DEF act
  <2>1. QED  BY <1>1 DEF Queue, Leave
<1>5. q' = StopTurns(off, l)  BY DEF StopPacket
<1>6. /\ off \in Queue /\ off.rows = rows /\ off.cancelled = q.cancelled \cup own
  <2>1. off = [at EXCEPT !.cancelled = q.cancelled \cup own]  BY <1>1 DEF Queue
  <2>2. at = [at0 EXCEPT !.ahead = ahead]  OBVIOUS
  <2> HIDE DEF own, rows, ahead, off, at
  <2>3. at0 = [rows |-> rows, ahead |-> q.ahead, cancelled |-> q.cancelled,
               aborted |-> q.aborted]
    BY <1>1 DEF Queue
  <2> HIDE DEF at0
  <2>4. at = [rows |-> rows, ahead |-> ahead, cancelled |-> q.cancelled,
              aborted |-> q.aborted]
    BY <2>2, <2>3
  <2>5. QED  BY <1>1, <1>3, <1>4, <2>1, <2>4 DEF Queue
<1> HIDE DEF off
<1>7. q' \in Queue /\ q'.rows = rows /\ q'.cancelled = q.cancelled \cup own
  BY <1>5, <1>6, StopTurnsQueue
<1> HIDE DEF act
<1>8. RowInv(q') /\ Kept(q, q', {})  BY <1>1, <1>2, <1>7, RowsGo
<1>9. events' \in 0..MaxEvents /\ stopped' \subseteq Lanes
  BY LimitsAssumption DEF StopPacket, IInv, TypeOK
<1>10. QED  BY <1>7, <1>8, <1>9, QueueStepKeeps DEF StopPacket, record, IInv, TypeOK

\* A claim that is taken back leaves its owner cancelled.
LEMMA ReclaimKeeps ==
    ASSUME IInv, NEW r \in Rows, Reclaim(r)
    PROVE  IInv'
<1> DEFINE row == q.rows[r]
           spent == row.attempts + 1 >= MaxAttempts
           off == IF spent THEN Drop(q, r) ELSE ToPending(q, r, row.attempts + 1)
           e == [off EXCEPT !.cancelled = @ \cup {row.owner}]
<1>1. q \in Queue /\ RowInv(q) /\ HeldInv(q, slot)  BY DEF IInv, TypeOK, QueueInv
<1>2. Claimed(q, r)  BY DEF Reclaim, Claimed
<1>3. row \in Row  BY <1>1, <1>2 DEF Queue, Claimed
<1>4. row.owner \in Slots /\ row.lane \in Lanes /\ row.attempts \in 0..MaxAttempts
  BY <1>1, <1>2, <1>3, OwnerIsSlot DEF Row
<1>5. \A x \in Rows : Claimed(q, x) /\ q.rows[x].owner = q.rows[r].owner => x = r
  BY <1>1, <1>2, OneRowPerOwner
<1>6. \E n \in 0..MaxAttempts : off = Drop(q, r) \/ off = ToPending(q, r, n)
  <2>1. ~spent => row.attempts + 1 \in 0..MaxAttempts  BY <1>4, LimitsAssumption
  <2>2. 0 \in 0..MaxAttempts  BY LimitsAssumption
  <2>3. QED  BY <2>1, <2>2
<1>7. q' = StopTurns(e, row.lane)  BY DEF Reclaim
<1>8. status' \in [Lanes -> Statuses]
  <2>1. status' = [status EXCEPT ![row.lane] = IF spent THEN BlockedStatus(@) ELSE @]
    BY DEF Reclaim
  <2>2. status \in [Lanes -> Statuses]  BY DEF IInv, TypeOK
  <2> HIDE DEF row, spent
  <2>3. QED  BY <2>1, <2>2, <1>4 DEF BlockedStatus, Statuses
<1>9. events' \in 0..MaxEvents  BY LimitsAssumption DEF Reclaim, IInv, TypeOK
<1> HIDE DEF off
<1>10. /\ off \in Queue /\ RowInv(off) /\ ~Claimed(off, r)
       /\ off.cancelled = q.cancelled /\ Kept(q, off, {row.owner})
  BY <1>1, <1>2, <1>5, <1>6, RowLeaves
<1> HIDE DEF row
<1>11. e \in Queue /\ e.rows = off.rows /\ e.cancelled = off.cancelled \cup {row.owner}
  BY <1>4, <1>10 DEF Queue
<1> HIDE DEF e
<1>12. /\ q' \in Queue /\ q'.rows = off.rows
       /\ q'.cancelled = q.cancelled \cup {row.owner}
  BY <1>4, <1>7, <1>10, <1>11, StopTurnsQueue
<1>13. RowInv(q')  BY <1>10, <1>12 DEF RowInv, Claimed
<1>14. Kept(q, q', {})
  BY <1>2, <1>10, <1>12 DEF Kept, Claimed, row
<1>15. QED
  BY <1>8, <1>9, <1>12, <1>13, <1>14, QueueStepKeeps DEF Reclaim, record, IInv, TypeOK

\* A claim of the dispatch keeps the types of what it writes.
LEMMA DispatchTypes ==
    ASSUME TypeOK, NEW m \in Mergers, NEW l \in Lanes, ClaimDispatch(m, l)
    PROVE  /\ ledger' \in [Lanes -> Ledger]
           /\ merge' \in [Mergers -> Merge \cup {None}]
           /\ status' \in [Lanes -> Statuses]
           /\ \A o \in Mergers \ {m} : merge'[o] = merge[o]
           /\ ~Claimable(ledger[l]) => merge' = merge
<1> DEFINE after == ClaimReceipt(ledger[l])
<1>1. ledger[l] \in Ledger  BY DEF TypeOK
<1>2. after \in Ledger
  <2> DEFINE led == [ledger[l] EXCEPT !.st = "failed"]
  <2>1. CASE Claimable(ledger[l])
    <3>1. after = [attempts |-> ledger[l].attempts + 1, st |-> "attempted", late |-> FALSE]
      BY <2>1 DEF ClaimReceipt
    <3>2. ledger[l].attempts + 1 \in 0..MaxDispatch
      BY <1>1, <2>1, LimitsAssumption DEF Claimable, Ledger
    <3>3. QED  BY <3>1, <3>2 DEF Ledger
  <2>2. CASE ~Claimable(ledger[l]) /\ Open(ledger[l])
    <3>1. after = [led EXCEPT !.late = FALSE]  BY <2>2 DEF ClaimReceipt
    <3>2. led \in Ledger  BY <1>1 DEF Ledger
    <3> HIDE DEF led
    <3>3. QED  BY <3>1, <3>2 DEF Ledger
  <2>3. CASE ~Claimable(ledger[l]) /\ ~Open(ledger[l])
    BY <1>1, <2>3 DEF ClaimReceipt
  <2>4. QED  BY <2>1, <2>2, <2>3
<1>3. ledger' = [ledger EXCEPT ![l] = after]  BY DEF ClaimDispatch
<1>4. status' = [status EXCEPT ![l] = IF after.st = "failed" THEN BlockedStatus(@) ELSE @]
  BY DEF ClaimDispatch
<1>5. [lane |-> l, pc |-> "gates"] \in Merge  BY DEF Merge
<1> HIDE DEF after
<1>6. ledger' \in [Lanes -> Ledger]  BY <1>2, <1>3 DEF TypeOK
<1>7. status' \in [Lanes -> Statuses]  BY <1>4 DEF TypeOK, BlockedStatus, Statuses
<1>8. QED  BY <1>5, <1>6, <1>7 DEF ClaimDispatch, TypeOK

\* The recovery pass settles old rows, dispatches a merge or adds the lane's one row.
LEMMA ReconcileLaneKeeps ==
    ASSUME IInv, NEW l \in Lanes, ReconcileLane(l)
    PROVE  IInv'
<1> DEFINE clean == Superseded(q, l, head[l])
           owed == Active(clean, l) = {} /\ SecondPassPending(l)
           again == owed /\ verdict[l].requeues < MaxRequeues
<1>1. TypeOK /\ q \in Queue /\ RowInv(q) /\ head \in [Lanes -> Heads]
  BY DEF IInv, TypeOK, QueueInv
<1>2. clean \in Queue /\ RowInv(clean) /\ Kept(q, clean, {})
  <2>1. head[l] \in Heads  BY <1>1
  <2>2. QED  BY <1>1, <2>1, SupersededKeeps
<1>3. /\ UNCHANGED <<head, slot, reviewing, seen>>
      /\ stopped' \subseteq Lanes /\ events' \in 0..MaxEvents
  BY <1>1 DEF ReconcileLane, env, TypeOK
<1>4. \A s \in Slots : s \in Mergers \ {Reconciler}  BY LimitsAssumption DEF Mergers
<1>5. \/ /\ q' = clean /\ ClaimDispatch(Reconciler, l) /\ UNCHANGED verdict
      \/ /\ again /\ q' = Enqueue(clean, l, TRUE)
         /\ verdict' = [verdict EXCEPT ![l].requeues = @ + 1]
         /\ UNCHANGED <<status, ledger, merge>>
      \/ /\ q' = clean
         /\ status' = IF owed THEN [status EXCEPT ![l] = BlockedStatus(@)] ELSE status
         /\ UNCHANGED <<verdict, ledger, merge>>
  BY DEF ReconcileLane
<1> HIDE DEF clean
<1>6. CASE q' = clean /\ ClaimDispatch(Reconciler, l) /\ UNCHANGED verdict
  <2>1. Reconciler \in Mergers  BY DEF Mergers
  <2>2. /\ ledger' \in [Lanes -> Ledger] /\ merge' \in [Mergers -> Merge \cup {None}]
        /\ status' \in [Lanes -> Statuses]
        /\ \A s \in Slots : merge'[s] = merge[s]
    BY <1>1, <1>4, <1>6, <2>1, DispatchTypes
  <2>3. QED  BY <1>1, <1>2, <1>3, <1>6, <2>2, QueueStepKeeps DEF TypeOK
<1>7. CASE /\ again /\ q' = Enqueue(clean, l, TRUE)
           /\ verdict' = [verdict EXCEPT ![l].requeues = @ + 1]
           /\ UNCHANGED <<status, ledger, merge>>
  <2>1. Active(clean, l) = {} /\ verdict[l] # None /\ verdict[l].requeues < MaxRequeues
    BY <1>7 DEF SecondPassPending, OwesSecondPass
  <2>2. /\ q' \in Queue /\ RowInv(q') /\ Kept(clean, q', {})
    BY <1>1, <1>2, <1>7, <2>1, EnqueueKeeps
  <2>3. Kept(q, q', {})  BY <1>1, <1>2, <2>2, KeptTwice
  <2>4. verdict' \in [Lanes -> Verdict \cup {None}] /\ verdict'[l].head = verdict[l].head
    <3> DEFINE v == [verdict[l] EXCEPT !.requeues = @ + 1]
    <3>1. verdict[l] \in Verdict  BY <1>1, <2>1 DEF TypeOK
    <3>2. verdict[l].requeues + 1 \in 0..MaxRequeues
      BY <2>1, <3>1, LimitsAssumption DEF Verdict
    <3>3. v \in Verdict /\ v.head = verdict[l].head  BY <3>1, <3>2 DEF Verdict
    <3>4. verdict' = [verdict EXCEPT ![l] = v]  BY <1>1, <1>7 DEF TypeOK
    <3> HIDE DEF v
    <3>5. QED  BY <1>1, <3>3, <3>4 DEF TypeOK
  <2>5. verdict'[l] # None /\ \A k \in Lanes \ {l} : verdict'[k] = verdict[k]
    <3>1. verdict[l] \in Verdict  BY <1>1, <2>1 DEF TypeOK
    <3>2. [verdict[l] EXCEPT !.requeues = @ + 1] \in Verdict
      <4>1. verdict[l].requeues + 1 \in 0..MaxRequeues
        BY <2>1, <3>1, LimitsAssumption DEF Verdict
      <4>2. QED  BY <3>1, <4>1 DEF Verdict
    <3>3. QED  BY <1>1, <1>7, <3>2, NoneAssumption DEF TypeOK
  <2>6. QED
    BY <1>1, <1>3, <1>7, <2>1, <2>2, <2>3, <2>4, <2>5, QueueStepKeeps DEF TypeOK
<1>8. CASE /\ q' = clean
           /\ status' = IF owed THEN [status EXCEPT ![l] = BlockedStatus(@)] ELSE status
           /\ UNCHANGED <<verdict, ledger, merge>>
  <2>1. status' \in [Lanes -> Statuses]  BY <1>1, <1>8 DEF TypeOK, BlockedStatus, Statuses
  <2>2. QED  BY <1>1, <1>2, <1>3, <1>8, <2>1, QueueStepKeeps DEF TypeOK
<1>9. QED  BY <1>5, <1>6, <1>7, <1>8

\* A lane is freed only when the claim that holds it is gone.
LEMMA ReleaseStaleLanesKeeps ==
    ASSUME IInv, ReleaseStaleLanes
    PROVE  IInv'
<1>1. /\ q \in Queue /\ RowInv(q) /\ slot \in [Slots -> Continuation \cup {None}]
      /\ reviewing \in [Lanes -> Slots \cup {None}]
  BY DEF IInv, TypeOK, QueueInv
<1>2. UNCHANGED <<head, status, q, slot, verdict, ledger, seen, merge, stopped, events>>
  BY DEF ReleaseStaleLanes, record, env
<1>3. reviewing' \in [Lanes -> Slots \cup {None}]  BY <1>1 DEF ReleaseStaleLanes
<1>4. CurrentInv(q, slot, reviewing')
  <2>1. SUFFICES ASSUME NEW s \in Slots, slot[s] # None, s \notin q.cancelled
                 PROVE  /\ Claimed(q, slot[s].row) /\ q.rows[slot[s].row].owner = s
                        /\ reviewing'[slot[s].lane] = s
    BY DEF CurrentInv
  <2>2. /\ Claimed(q, slot[s].row) /\ q.rows[slot[s].row].owner = s
        /\ reviewing[slot[s].lane] = s
    BY <2>1 DEF IInv, QueueInv, CurrentInv
  <2>3. slot[s] \in Continuation  BY <1>1, <2>1
  <2>4. slot[s].lane \in Lanes  BY <2>3 DEF Continuation
  <2>5. Owned(s)  BY <2>1, <2>2 DEF Owned, Claimed
  <2>6. QED  BY <2>2, <2>4, <2>5 DEF ReleaseStaleLanes
<1>5. QueueInv(q', slot', reviewing')  BY <1>2, <1>4 DEF IInv, QueueInv
<1>6. MergeInv(slot', merge') /\ ReadInv(slot', verdict', seen')
  BY <1>2 DEF IInv
<1>7. TypeOK'  BY <1>2, <1>3 DEF IInv, TypeOK
<1>8. QED  BY <1>5, <1>6, <1>7 DEF IInv

\* A row is claimed into a free slot, for a lane that nothing reviews.
LEMMA ClaimKeeps ==
    ASSUME IInv, NEW s \in Slots, Claim(s)
    PROVE  IInv'
<1>1. /\ q \in Queue /\ RowInv(q) /\ slot \in [Slots -> Continuation \cup {None}]
      /\ reviewing \in [Lanes -> Slots \cup {None}] /\ HeldInv(q, slot)
      /\ CurrentInv(q, slot, reviewing) /\ CancelInv(q, slot) /\ status \in [Lanes -> Statuses]
  BY DEF IInv, TypeOK, QueueInv
<1>2. UNCHANGED <<head, status, verdict, ledger, seen, merge, stopped, events>>
  BY DEF Claim, record, env
<1>3. slot[s] = None  BY DEF Claim
<1> DEFINE back(r) == q' = ToPending(q, r, q.rows[r].attempts) /\ UNCHANGED <<slot, reviewing>>
           row(r) == [q.rows[r] EXCEPT !.st = "claimed", !.owner = s]
           cont(r) == [lane |-> q.rows[r].lane, row |-> r, head |-> q.rows[r].head,
                       attempts |-> q.rows[r].attempts, pc |-> "start", pending |-> 0]
           taken(r) == /\ q' = [q EXCEPT !.rows[r] = row(r), !.ahead = Leave(q, {r})]
                       /\ slot' = [slot EXCEPT ![s] = cont(r)]
                       /\ reviewing' = [reviewing EXCEPT ![q.rows[r].lane] = s]
<1>4. PICK r \in Waiting(q) : IF reviewing[q.rows[r].lane] # None THEN back(r) ELSE taken(r)
  BY <1>1 DEF Claim, Queue
<1>5. r \in Rows /\ q.rows[r] \in Row /\ ~Claimed(q, r) /\ q.rows[r] # None
      /\ q.rows[r].owner = None
  BY <1>1 DEF Waiting, Queue, Claimed, RowInv
<1>6. /\ q.rows[r].lane \in Lanes /\ q.rows[r].head \in Heads
      /\ q.rows[r].attempts \in 0..MaxAttempts
  BY <1>5 DEF Row
<1>7. CASE reviewing[q.rows[r].lane] # None
  <2> DEFINE n == q.rows[r].attempts
             put == [lane |-> q.rows[r].lane, st |-> "pending", head |-> q.rows[r].head,
                     attempts |-> n, owner |-> None]
  <2>1. back(r)  BY <1>4, <1>7
  <2>2. /\ q' \in Queue /\ q'.cancelled = q.cancelled
        /\ q'.rows = [q.rows EXCEPT ![r] = put]
    BY <1>1, <1>5, <1>6, <2>1, ToPendingQueue
  <2>3. q'.rows[r] = put /\ \A x \in Rows \ {r} : q'.rows[x] = q.rows[x]
    BY <1>1, <1>5, <2>2 DEF Queue
  <2>4. q'.rows[r].lane = q.rows[r].lane /\ q'.rows[r].st = "pending" /\ q'.rows[r].owner = None
    BY <2>3
  <2>5. RowInv(q')  BY <1>1, <1>5, <2>3, <2>4 DEF RowInv, Claimed
  <2>6. Kept(q, q', {})  BY <1>5, <2>2, <2>3, <2>4 DEF Kept, Claimed
  <2>7. QED
    BY <1>2, <2>1, <2>2, <2>5, <2>6, QueueStepKeeps DEF IInv, TypeOK
<1>8. CASE reviewing[q.rows[r].lane] = None
  <2> DEFINE l == q.rows[r].lane
             new == row(r)
             rows == [q.rows EXCEPT ![r] = new]
             ahead == Leave(q, {r})
             at == [q EXCEPT !.rows = rows]
             c == cont(r)
  <2>1. /\ q' = [q EXCEPT !.rows[r] = new, !.ahead = Leave(q, {r})]
        /\ slot' = [slot EXCEPT ![s] = c]
        /\ reviewing' = [reviewing EXCEPT ![l] = s]
    BY <1>4, <1>8
  <2>2. /\ new \in Row /\ new.lane = l /\ new.st = "claimed" /\ new.owner = s
    <3> DEFINE x == q.rows[r]
               y == [x EXCEPT !.st = "claimed"]
    <3>1. y \in Row /\ y.lane = l /\ y.st = "claimed"  BY <1>5 DEF Row
    <3>2. new = [y EXCEPT !.owner = s]  OBVIOUS
    <3> HIDE DEF y, new
    <3>3. QED  BY <3>1, <3>2 DEF Row
  <2>3. /\ c \in Continuation /\ c.lane = l /\ c.row = r /\ c.pc = "start"
    BY <1>5, <1>6, LimitsAssumption DEF Continuation
  <2>4. l \in Lanes /\ new # None /\ c # None /\ s # None
    BY <1>6, <2>2, <2>3, NoneAssumption
  <2> HIDE DEF new, c
  <2>5. q' \in Queue /\ q'.rows = rows /\ q'.cancelled = q.cancelled
    <3>1. rows \in [Rows -> Row \cup {None}]  BY <1>1, <1>5, <2>2 DEF Queue
    <3>2. ahead \in [Rows -> SUBSET Rows]  BY <1>1 DEF Leave, Queue
    <3>3. q' = [at EXCEPT !.ahead = ahead]  BY <2>1
    <3> HIDE DEF rows, ahead
    <3>4. at = [rows |-> rows, ahead |-> q.ahead, cancelled |-> q.cancelled,
                aborted |-> q.aborted]
      BY <1>1 DEF Queue
    <3> HIDE DEF at
    <3>5. QED  BY <1>1, <3>1, <3>2, <3>3, <3>4 DEF Queue
  <2>6. q'.rows[r] = new /\ \A x \in Rows \ {r} : q'.rows[x] = q.rows[x]
    BY <1>1, <1>5, <2>5 DEF Queue
  <2>7. /\ slot'[s] = c /\ \A t \in Slots \ {s} : slot'[t] = slot[t]
        /\ slot' \in [Slots -> Continuation \cup {None}]
    BY <1>1, <2>1, <2>3
  <2>8. /\ reviewing'[l] = s /\ \A k \in Lanes \ {l} : reviewing'[k] = reviewing[k]
        /\ reviewing' \in [Lanes -> Slots \cup {None}]
    BY <1>1, <2>1, <2>4
  <2>9. s \notin q.cancelled  BY <1>1, <1>3 DEF CancelInv
  <2>10. RowInv(q')  BY <1>1, <1>5, <2>2, <2>4, <2>6 DEF RowInv, Claimed
  <2>11. \A x \in Rows \ {r} : Claimed(q', x) <=> Claimed(q, x)  BY <2>6 DEF Claimed
  <2>12. HeldInv(q', slot')
    <3>1. SUFFICES ASSUME NEW x \in Rows, Claimed(q', x)
                   PROVE  /\ slot'[q'.rows[x].owner] # None
                          /\ q'.rows[x].owner \notin q'.cancelled
                          /\ slot'[q'.rows[x].owner].row = x
                          /\ slot'[q'.rows[x].owner].lane = q'.rows[x].lane
      BY DEF HeldInv
    <3>2. CASE x = r  BY <2>2, <2>3, <2>4, <2>5, <2>6, <2>7, <2>9, <3>2
    <3>3. CASE x # r
      <4>1. Claimed(q, x) /\ q'.rows[x] = q.rows[x]  BY <2>6, <2>11, <3>1, <3>3
      <4>2. q.rows[x].owner \in Slots  BY <1>1, <4>1, OwnerIsSlot
      <4>3. q.rows[x].owner # s  BY <1>1, <1>3, <4>1 DEF HeldInv
      <4>4. QED  BY <1>1, <2>5, <2>7, <4>1, <4>2, <4>3 DEF HeldInv
    <3>4. QED  BY <3>2, <3>3
  <2>13. CurrentInv(q', slot', reviewing')
    <3>1. SUFFICES ASSUME NEW t \in Slots, slot'[t] # None, t \notin q'.cancelled
                   PROVE  /\ Claimed(q', slot'[t].row) /\ q'.rows[slot'[t].row].owner = t
                          /\ reviewing'[slot'[t].lane] = t
      BY DEF CurrentInv
    <3>2. CASE t = s  BY <2>2, <2>3, <2>4, <2>6, <2>7, <2>8, <3>2 DEF Claimed
    <3>3. CASE t # s
      <4>1. slot'[t] = slot[t] /\ slot[t] \in Continuation  BY <1>1, <2>7, <3>1, <3>3
      <4>2. slot[t].row \in Rows /\ slot[t].lane \in Lanes  BY <4>1 DEF Continuation
      <4>3. /\ Claimed(q, slot[t].row) /\ q.rows[slot[t].row].owner = t
            /\ reviewing[slot[t].lane] = t
        BY <1>1, <2>5, <3>1, <4>1 DEF CurrentInv
      <4>4. slot[t].row # r  BY <1>5, <4>3
      <4>5. slot[t].lane # l  BY <1>8, <4>3, NoneAssumption
      <4>6. QED  BY <2>6, <2>8, <2>11, <4>1, <4>2, <4>3, <4>4, <4>5
    <3>4. QED  BY <3>2, <3>3
  <2>14. CancelInv(q', slot')
    <3>1. q.cancelled \subseteq Slots  BY <1>1 DEF Queue
    <3>2. QED  BY <1>1, <2>5, <2>7, <2>9, <3>1 DEF CancelInv
  <2>15. MergeInv(slot', merge')
    <3>1. merge[s] = None  BY <1>3 DEF IInv, MergeInv
    <3>2. QED  BY <1>2, <2>7, <3>1 DEF IInv, MergeInv
  <2>16. ReadInv(slot', verdict', seen')  BY <1>2, <2>3, <2>7 DEF IInv, ReadInv
  <2>17. TypeOK'  BY <1>2, <2>5, <2>7, <2>8 DEF IInv, TypeOK
  <2>18. QED  BY <2>10, <2>12, <2>13, <2>14, <2>15, <2>16, <2>17 DEF IInv, QueueInv
<1>9. QED  BY <1>7, <1>8

\* What no step undoes: a verdict stays, and what was read stays read.
Grows ==
    /\ verdict' \in [Lanes -> Verdict \cup {None}]
    /\ seen' \in [Lanes -> [read : SUBSET Heads, agreed : SUBSET Heads]]
    /\ \A l \in Lanes : /\ verdict[l] # None => verdict'[l] # None
                        /\ seen[l].read \subseteq seen'[l].read
                        /\ verdict'[l] # None => verdict'[l].head \in seen'[l].read

\* A step leaves verdicts and what was read as they are.
LEMMA NothingGrows ==
    ASSUME IInv, UNCHANGED <<verdict, seen>>
    PROVE  Grows
BY DEF IInv, TypeOK, ReadInv, Grows

\* Types of what a continuation changes beside its slot.
Around ==
    /\ head' = head /\ status' \in [Lanes -> Statuses] /\ ledger' \in [Lanes -> Ledger]
    /\ stopped' \subseteq Lanes /\ events' \in 0..MaxEvents

\* A step that ends a continuation that awaits no merge.
LEMMA EndKeeps ==
    ASSUME IInv, NEW s \in Slots, slot[s] # None, slot[s].pc # "dispatch", Ended(s),
           merge' = merge, Grows, Around
    PROVE  IInv'
<1>1. slot'[s] = None /\ \A t \in Slots \ {s} : slot'[t] = slot[t]
  BY DEF Ended, IInv, TypeOK
<1>2. MergeInv(slot', merge')  BY <1>1 DEF IInv, MergeInv
<1>3. \A t \in Slots : slot[t] # None => slot[t].lane \in Lanes
  <2>1. \A t \in Slots : slot[t] # None => slot[t] \in Continuation  BY DEF IInv, TypeOK
  <2>2. QED  BY <2>1 DEF Continuation
<1>4. ReadInv(slot', verdict', seen')
  BY <1>1, <1>3 DEF IInv, ReadInv, Grows
<1>5. TypeOK'  BY DEF IInv, TypeOK, Ended, Grows, Around
<1>6. QED  BY <1>2, <1>4, <1>5 DEF IInv, Ended

\* A step that moves a continuation on.
LEMMA GoKeeps ==
    ASSUME IInv, NEW s \in Slots, slot[s] # None, NEW c \in Continuation,
           c.lane = slot[s].lane, c.row = slot[s].row,
           slot' = [slot EXCEPT ![s] = c], UNCHANGED <<q, reviewing>>, Grows, Around,
           merge' \in [Mergers -> Merge \cup {None}],
           \A t \in Slots \ {s} : merge'[t] = merge[t],
           merge'[s] # None => c.pc = "dispatch",
           c.pc = "record" => c.head \in seen'[c.lane].read,
           c.pc = "blind" => verdict'[c.lane] # None
    PROVE  IInv'
<1>1. slot \in [Slots -> Continuation \cup {None}] /\ q \in Queue  BY DEF IInv, TypeOK
<1>2. /\ slot'[s] = c /\ \A t \in Slots \ {s} : slot'[t] = slot[t]
      /\ slot' \in [Slots -> Continuation \cup {None}]
  BY <1>1
<1>3. c # None  BY NoneAssumption
<1>4. QueueInv(q, slot', reviewing)
  <2>1. \A t \in Slots : /\ slot[t] = None <=> slot'[t] = None
                         /\ slot[t] # None =>
                              slot[t].row = slot'[t].row /\ slot[t].lane = slot'[t].lane
    BY <1>2, <1>3
  <2>2. QueueInv(q, slot, reviewing)  BY DEF IInv
  <2>3. QED  BY <1>1, <2>1, <2>2, SameRows
<1>5. MergeInv(slot', merge')  BY <1>2, <1>3 DEF IInv, MergeInv
<1>6. \A t \in Slots : slot[t] # None => slot[t].lane \in Lanes
  <2>1. \A t \in Slots : slot[t] # None => slot[t] \in Continuation  BY <1>1
  <2>2. QED  BY <2>1 DEF Continuation
<1>7. ReadInv(slot', verdict', seen')
  BY <1>2, <1>3, <1>6 DEF IInv, ReadInv, Grows
<1>8. TypeOK'  BY <1>2 DEF IInv, TypeOK, Grows, Around
<1>9. QED  BY <1>4, <1>5, <1>7, <1>8 DEF IInv

\* Around, for the steps that change none of it.
LEMMA NothingAround ==
    ASSUME IInv, UNCHANGED <<head, status, ledger, stopped, events>>
    PROVE  Around
BY DEF IInv, TypeOK, Around

\* A continuation that is reviewed, skipped, deferred or failed.
LEMMA ReviewedKeeps ==
    ASSUME IInv, NEW s \in Slots, slot[s] # None, slot[s].pc # "dispatch",
           Reviewed(s) \/ Skip(s) \/ Busy(s) \/ Fail(s)
    PROVE  IInv'
<1>1. TypeOK /\ QueueInv(q, slot, reviewing)  BY DEF IInv
<1>2. CASE Reviewed(s) \/ Skip(s)
  <2>1. Ended(s)  BY <1>1, <1>2, Endings DEF Reviewed, Skip
  <2>2. UNCHANGED <<head, status, ledger, stopped, events, verdict, seen, merge>>
    BY <1>2 DEF Reviewed, Skip, record, env
  <2>3. QED  BY <2>1, <2>2, NothingGrows, NothingAround, EndKeeps
<1>3. CASE Busy(s)
  <2>1. Ended(s)  BY <1>1, <1>3, Endings DEF Busy
  <2>2. UNCHANGED <<head, status, ledger, stopped, verdict, seen, merge>>
    BY <1>3 DEF Busy, record
  <2>3. events' \in 0..MaxEvents  BY <1>1, <1>3, LimitsAssumption DEF Busy, TypeOK
  <2>4. Around  BY <1>1, <2>2, <2>3 DEF Around, TypeOK
  <2>5. QED  BY <2>1, <2>2, <2>4, NothingGrows, EndKeeps
<1>4. CASE Fail(s)
  <2>1. Ended(s)  BY <1>1, <1>4, Endings DEF Fail
  <2>2. UNCHANGED <<head, ledger, stopped, events, verdict, seen, merge>>
    BY <1>4 DEF Fail, record, env
  <2>3. status' \in [Lanes -> Statuses]
    BY <1>1, <1>4 DEF Fail, TypeOK, BlockedStatus, Statuses
  <2>4. Around  BY <1>1, <2>2, <2>3 DEF Around, TypeOK
  <2>5. QED  BY <2>1, <2>2, <2>4, NothingGrows, EndKeeps
<1>5. QED  BY <1>2, <1>3, <1>4

\* The continuation of slot s at another await.
Moved(s, pc, pending) ==
    [lane |-> slot[s].lane, row |-> slot[s].row, head |-> slot[s].head,
     attempts |-> slot[s].attempts, pc |-> pc, pending |-> pending]

\* What Goto does.
LEMMA GotoMoves ==
    ASSUME slot \in [Slots -> Continuation \cup {None}], NEW s \in Slots, slot[s] # None, NEW pc
    PROVE  [slot EXCEPT ![s].pc = pc] = [slot EXCEPT ![s] = Moved(s, pc, slot[s].pending)]
<1> DEFINE y == [slot[s] EXCEPT !.pc = pc]
<1>1. slot[s] \in Continuation  OBVIOUS
<1>2. y = Moved(s, pc, slot[s].pending)  BY <1>1 DEF Continuation, Moved
<1>3. [slot EXCEPT ![s].pc = pc] = [slot EXCEPT ![s] = y]  OBVIOUS
<1> HIDE DEF y
<1>4. QED  BY <1>2, <1>3

\* What the step to the blind pass does.
LEMMA BlindMoves ==
    ASSUME slot \in [Slots -> Continuation \cup {None}], NEW s \in Slots, slot[s] # None,
           slot' = [slot EXCEPT ![s].pc = "blind", ![s].pending = slot[s].head]
    PROVE  slot' = [slot EXCEPT ![s] = Moved(s, "blind", slot[s].head)]
<1> DEFINE y == [slot[s] EXCEPT !.pc = "blind"]
           z == [y EXCEPT !.pending = slot[s].head]
<1>1. slot[s] \in Continuation  OBVIOUS
<1>2. y = Moved(s, "blind", slot[s].pending)  BY <1>1 DEF Continuation, Moved
<1>3. slot' = [slot EXCEPT ![s] = z]  OBVIOUS
<1>4. z = [y EXCEPT !.pending = slot[s].head]  OBVIOUS
<1> HIDE DEF y, z
<1>5. z = Moved(s, "blind", slot[s].head)  BY <1>2, <1>4 DEF Moved
<1>6. QED  BY <1>3, <1>5

\* A continuation goes on to another await of its own.
LEMMA MovedKeeps ==
    ASSUME IInv, NEW s \in Slots, slot[s] # None, slot[s].pc # "dispatch",
           NEW pc \in {"turn", "record", "blind"}, NEW pending \in 0..MaxHead,
           slot' = [slot EXCEPT ![s] = Moved(s, pc, pending)],
           UNCHANGED <<q, reviewing, merge>>, Grows, Around,
           pc = "record" => slot[s].head \in seen'[slot[s].lane].read,
           pc = "blind" => verdict'[slot[s].lane] # None
    PROVE  IInv'
<1> DEFINE c == Moved(s, pc, pending)
<1>1. slot[s] \in Continuation  BY DEF IInv, TypeOK
<1>2. c \in Continuation  BY <1>1 DEF Continuation, Moved
<1>3. merge[s] = None /\ merge \in [Mergers -> Merge \cup {None}]
  BY DEF IInv, MergeInv, TypeOK
<1>4. c.lane = slot[s].lane /\ c.row = slot[s].row /\ c.pc = pc /\ c.head = slot[s].head
  BY DEF Moved
<1>5. slot' = [slot EXCEPT ![s] = c]  OBVIOUS
<1> HIDE DEF c
<1>6. QED  BY <1>2, <1>3, <1>4, <1>5, GoKeeps

\* A continuation begins its turn.
LEMMA StartKeeps ==
    ASSUME IInv, NEW s \in Slots, Start(s)
    PROVE  IInv'
<1>1. slot[s] # None /\ slot[s].pc = "start" /\ slot[s] \in Continuation
  BY DEF Start, At, IInv, TypeOK
<1>2. CASE Reviewed(s) \/ Skip(s)  BY <1>1, <1>2, ReviewedKeeps
<1>3. CASE Goto(s, "turn") /\ UNCHANGED <<head, status, q, reviewing, record, merge, env>>
  <2>1. UNCHANGED <<head, status, ledger, stopped, events, verdict, seen, merge, q, reviewing>>
    BY <1>3 DEF record, env
  <2>2. slot' = [slot EXCEPT ![s] = Moved(s, "turn", slot[s].pending)]
    BY <1>1, <1>3, GotoMoves DEF Goto, IInv, TypeOK
  <2>3. slot[s].pending \in 0..MaxHead  BY <1>1 DEF Continuation
  <2>4. QED  BY <1>1, <2>1, <2>2, <2>3, NothingGrows, NothingAround, MovedKeeps
<1>4. QED  BY <1>2, <1>3 DEF Start

\* The turn read the HEAD that the continuation is for.
LEMMA TurnEndsKeeps ==
    ASSUME IInv, NEW s \in Slots, TurnEnds(s)
    PROVE  IInv'
<1>1. slot[s] # None /\ slot[s].pc = "turn" /\ slot[s] \in Continuation
  BY DEF TurnEnds, At, IInv, TypeOK
<1>2. CASE Skip(s) \/ Busy(s) \/ Fail(s)  BY <1>1, <1>2, ReviewedKeeps
<1>3. CASE /\ ~Stale(s) /\ Goto(s, "record")
           /\ seen' = [seen EXCEPT ![slot[s].lane].read = @ \cup {head[slot[s].lane]}]
           /\ UNCHANGED <<head, status, q, reviewing, verdict, ledger, merge, env>>
  <2> DEFINE l == slot[s].lane
             sn == [seen[l] EXCEPT !.read = @ \cup {head[l]}]
  <2>1. UNCHANGED <<head, status, ledger, stopped, events, verdict, merge, q, reviewing>>
    BY <1>3 DEF env
  <2>2. slot' = [slot EXCEPT ![s] = Moved(s, "record", slot[s].pending)]
    BY <1>1, <1>3, GotoMoves DEF Goto, IInv, TypeOK
  <2>3. slot[s].pending \in 0..MaxHead /\ l \in Lanes  BY <1>1 DEF Continuation
  <2>4. head[l] = slot[s].head  BY <1>3 DEF Stale, HeadMoved
  <2>5. head[l] \in Heads /\ seen[l] \in [read : SUBSET Heads, agreed : SUBSET Heads]
    BY <2>3 DEF IInv, TypeOK
  <2>6. /\ sn \in [read : SUBSET Heads, agreed : SUBSET Heads]
        /\ sn.read = seen[l].read \cup {head[l]}
    BY <2>5
  <2>7. seen' = [seen EXCEPT ![l] = sn]  BY <1>3
  <2> HIDE DEF sn
  <2>8. /\ seen'[l] = sn /\ \A k \in Lanes \ {l} : seen'[k] = seen[k]
        /\ seen' \in [Lanes -> [read : SUBSET Heads, agreed : SUBSET Heads]]
    BY <2>3, <2>6, <2>7 DEF IInv, TypeOK
  <2>9. Grows
    <3>1. \A k \in Lanes : seen[k].read \subseteq seen'[k].read  BY <2>6, <2>8
    <3>2. QED  BY <2>1, <2>8, <3>1 DEF IInv, TypeOK, ReadInv, Grows
  <2>10. slot[s].head \in seen'[l].read  BY <2>4, <2>6, <2>8
  <2>11. QED  BY <1>1, <2>1, <2>2, <2>3, <2>9, <2>10, NothingAround, MovedKeeps
<1>4. QED  BY <1>2, <1>3 DEF TurnEnds

\* A verdict that is of a commit that was read is recorded.
LEMMA VerdictGrows ==
    ASSUME IInv, NEW l \in Lanes, NEW v \in Verdict, verdict' = [verdict EXCEPT ![l] = v],
           v.head \in seen[l].read,
           seen' \in [Lanes -> [read : SUBSET Heads, agreed : SUBSET Heads]],
           \A k \in Lanes : seen'[k].read = seen[k].read
    PROVE  Grows /\ verdict'[l] # None
<1>1. /\ verdict'[l] = v /\ v # None /\ \A k \in Lanes \ {l} : verdict'[k] = verdict[k]
      /\ verdict' \in [Lanes -> Verdict \cup {None}]
  BY NoneAssumption DEF IInv, TypeOK
<1>2. QED  BY <1>1 DEF IInv, ReadInv, Grows

\* A verdict is one, and of the commit of its continuation.
LEMMA NewVerdictType ==
    ASSUME TypeOK, NEW s \in Slots, slot[s] # None, NEW ok \in BOOLEAN
    PROVE  NewVerdict(s, ok) \in Verdict /\ NewVerdict(s, ok).head = slot[s].head
<1> DEFINE old == verdict[slot[s].lane]
           new == [head |-> slot[s].head, approved |-> ok, agreed |-> FALSE,
                   second |-> ok /\ slot[s].head \in HighRisk, blockedAt |-> {}, requeues |-> 0]
<1>1. slot[s] \in Continuation  BY DEF TypeOK
<1>2. slot[s].lane \in Lanes /\ slot[s].head \in Heads  BY <1>1 DEF Continuation
<1>3. 0 \in 0..MaxRequeues  BY LimitsAssumption
<1>4. (ok /\ slot[s].head \in HighRisk) \in BOOLEAN  OBVIOUS
<1>5. new \in Verdict  BY <1>2, <1>3, <1>4 DEF Verdict
<1>6. CASE old = None  BY <1>5, <1>6 DEF NewVerdict
<1>7. CASE old # None
  <2> DEFINE x == [new EXCEPT !.agreed = old.agreed]
             y == [x EXCEPT !.blockedAt = old.blockedAt]
             z == [y EXCEPT !.requeues = old.requeues]
  <2>1. old \in Verdict  BY <1>2, <1>7 DEF TypeOK
  <2>2. NewVerdict(s, ok) = z  BY <1>7 DEF NewVerdict
  <2>3. new.head = slot[s].head  OBVIOUS
  <2> HIDE DEF new, old
  <2>4. x \in Verdict /\ x.head = new.head  BY <1>5, <2>1 DEF Verdict
  <2> HIDE DEF x
  <2>5. y \in Verdict /\ y.head = new.head  BY <2>1, <2>4 DEF Verdict
  <2> HIDE DEF y
  <2>6. z \in Verdict /\ z.head = new.head  BY <2>1, <2>5 DEF Verdict
  <2>7. QED  BY <2>2, <2>3, <2>6
<1>8. QED  BY <1>6, <1>7

\* The verdict is pinned to the commit that the turn read.
LEMMA RecordKeeps ==
    ASSUME IInv, NEW s \in Slots, Record(s)
    PROVE  IInv'
<1> DEFINE l == slot[s].lane
<1>1. slot[s] # None /\ slot[s].pc = "record" /\ slot[s] \in Continuation
  BY DEF Record, At, IInv, TypeOK
<1>2. PICK ok \in BOOLEAN :
        /\ verdict' = [verdict EXCEPT ![l] = NewVerdict(s, ok)]
        /\ IF OwesSecondPass(NewVerdict(s, ok), slot[s].head)
           THEN /\ slot' = [slot EXCEPT ![s].pc = "blind", ![s].pending = slot[s].head]
                /\ UNCHANGED <<q, reviewing>>
           ELSE Release(s, Settled(s, q))
  BY DEF Record
<1>3. UNCHANGED <<head, status, ledger, seen, merge, stopped, events>>  BY DEF Record, env
<1>4. l \in Lanes /\ slot[s].head \in 0..MaxHead
  BY <1>1, LimitsAssumption DEF Continuation, Heads
<1>5. NewVerdict(s, ok) \in Verdict /\ NewVerdict(s, ok).head \in seen[l].read
  BY <1>1, NewVerdictType DEF IInv, ReadInv
<1>6. Grows /\ verdict'[l] # None
  BY <1>2, <1>3, <1>4, <1>5, VerdictGrows DEF IInv, TypeOK
<1>7. CASE /\ slot' = [slot EXCEPT ![s].pc = "blind", ![s].pending = slot[s].head]
           /\ UNCHANGED <<q, reviewing>>
  <2>1. slot' = [slot EXCEPT ![s] = Moved(s, "blind", slot[s].head)]
    BY <1>1, <1>7, BlindMoves DEF IInv, TypeOK
  <2>2. QED  BY <1>1, <1>3, <1>4, <1>6, <1>7, <2>1, NothingAround, MovedKeeps
<1>8. CASE Release(s, Settled(s, q))
  <2>1. Ended(s)  BY <1>1, <1>8, Endings DEF IInv
  <2>2. QED  BY <1>1, <1>3, <1>6, <2>1, NothingAround, EndKeeps
<1>9. QED  BY <1>2, <1>7, <1>8

\* Without a verdict the continuation ends, or owes the blind pass of an earlier one.
LEMMA NoVerdictKeeps ==
    ASSUME IInv, NEW s \in Slots, NoVerdict(s)
    PROVE  IInv'
<1>1. slot[s] # None /\ slot[s].pc = "record" /\ slot[s] \in Continuation
  BY DEF NoVerdict, At, IInv, TypeOK
<1>2. CASE Skip(s) \/ Reviewed(s)  BY <1>1, <1>2, ReviewedKeeps
<1>3. CASE /\ SecondPassPending(slot[s].lane)
           /\ slot' = [slot EXCEPT ![s].pc = "blind", ![s].pending = slot[s].head]
           /\ UNCHANGED <<head, status, q, reviewing, record, merge, env>>
  <2>1. UNCHANGED <<head, status, ledger, stopped, events, verdict, seen, merge, q, reviewing>>
    BY <1>3 DEF record, env
  <2>2. slot' = [slot EXCEPT ![s] = Moved(s, "blind", slot[s].head)]
    BY <1>1, <1>3, BlindMoves DEF IInv, TypeOK
  <2>3. slot[s].head \in 0..MaxHead  BY <1>1, LimitsAssumption DEF Continuation, Heads
  <2>4. verdict'[slot[s].lane] # None  BY <1>3, <2>1 DEF SecondPassPending, OwesSecondPass
  <2>5. QED
    BY <1>1, <2>1, <2>2, <2>3, <2>4, NothingGrows, NothingAround, MovedKeeps
<1>4. QED  BY <1>2, <1>3 DEF NoVerdict

\* The blind pass agrees, and its merge is dispatched once.
LEMMA BlindAgreesKeeps ==
    ASSUME IInv, NEW s \in Slots, BlindAgrees(s)
    PROVE  IInv'
<1> DEFINE l == slot[s].lane
           v == [verdict[l] EXCEPT !.agreed = TRUE]
           sn == [seen[l] EXCEPT !.agreed = @ \cup {slot[s].pending}]
<1>1. slot[s] # None /\ slot[s].pc = "blind" /\ slot[s] \in Continuation /\ TypeOK
  BY DEF BlindAgrees, At, IInv, TypeOK
<1>2. /\ head[l] = slot[s].pending
      /\ verdict' = [verdict EXCEPT ![l].agreed = TRUE]
      /\ seen' = [seen EXCEPT ![l].agreed = @ \cup {slot[s].pending}]
      /\ ClaimDispatch(s, l)
      /\ IF Claimable(ledger[l]) THEN Goto(s, "dispatch") /\ UNCHANGED <<q, reviewing>>
         ELSE Release(s, Settled(s, q))
      /\ UNCHANGED <<head, stopped, events>>
  BY DEF BlindAgrees, env
<1>3. l \in Lanes /\ s \in Mergers  BY <1>1 DEF Continuation, Mergers
<1>4. slot[s].pending \in Heads  BY <1>1, <1>2, <1>3 DEF TypeOK
<1>5. verdict[l] # None /\ verdict[l] \in Verdict
  BY <1>1, <1>3 DEF IInv, ReadInv, TypeOK
<1>6. v \in Verdict /\ v.head = verdict[l].head /\ verdict[l].head \in seen[l].read
  BY <1>3, <1>5 DEF Verdict, IInv, ReadInv
<1>7. /\ seen[l] \in [read : SUBSET Heads, agreed : SUBSET Heads]
      /\ sn \in [read : SUBSET Heads, agreed : SUBSET Heads] /\ sn.read = seen[l].read
  BY <1>1, <1>3, <1>4 DEF TypeOK
<1>8. verdict' = [verdict EXCEPT ![l] = v] /\ seen' = [seen EXCEPT ![l] = sn]  BY <1>2
<1> HIDE DEF v, sn
<1>9. /\ seen' \in [Lanes -> [read : SUBSET Heads, agreed : SUBSET Heads]]
      /\ \A k \in Lanes : seen'[k].read = seen[k].read
  BY <1>1, <1>3, <1>7, <1>8 DEF TypeOK
<1>10. Grows /\ verdict'[l] # None
  BY <1>3, <1>6, <1>8, <1>9, VerdictGrows
<1>11. /\ ledger' \in [Lanes -> Ledger] /\ merge' \in [Mergers -> Merge \cup {None}]
       /\ status' \in [Lanes -> Statuses]
       /\ \A o \in Mergers \ {s} : merge'[o] = merge[o]
       /\ ~Claimable(ledger[l]) => merge' = merge
  BY <1>1, <1>2, <1>3, DispatchTypes
<1>12. Around  BY <1>1, <1>2, <1>11 DEF Around, TypeOK
<1>13. CASE Claimable(ledger[l])
  <2> DEFINE c == Moved(s, "dispatch", slot[s].pending)
  <2>1. slot' = [slot EXCEPT ![s] = c]
    BY <1>1, <1>2, <1>13, GotoMoves DEF Goto, TypeOK
  <2>2. c \in Continuation  BY <1>1 DEF Continuation, Moved
  <2>3. c.lane = slot[s].lane /\ c.row = slot[s].row /\ c.pc = "dispatch"  BY DEF Moved
  <2>4. UNCHANGED <<q, reviewing>>  BY <1>2, <1>13
  <2>5. \A t \in Slots \ {s} : merge'[t] = merge[t]  BY <1>11 DEF Mergers
  <2> HIDE DEF c
  <2>6. QED  BY <1>1, <1>10, <1>11, <1>12, <2>1, <2>2, <2>3, <2>4, <2>5, GoKeeps
<1>14. CASE ~Claimable(ledger[l])
  <2>1. Ended(s)  BY <1>1, <1>2, <1>14, Endings DEF IInv
  <2>2. QED  BY <1>1, <1>10, <1>11, <1>12, <1>14, <2>1, EndKeeps
<1>15. QED  BY <1>13, <1>14

\* A blind pass that blocks the approval at this commit.
LEMMA BlindBlocksKeeps ==
    ASSUME IInv, NEW s \in Slots, BlindBlocks(s)
    PROVE  IInv'
<1> DEFINE l == slot[s].lane
           v == [verdict[l] EXCEPT !.blockedAt = @ \cup {slot[s].pending}]
<1>1. slot[s] # None /\ slot[s].pc = "blind" /\ slot[s] \in Continuation /\ TypeOK
  BY DEF BlindBlocks, At, IInv, TypeOK
<1>2. /\ head[l] = slot[s].pending
      /\ verdict' = [verdict EXCEPT ![l].blockedAt = @ \cup {slot[s].pending}]
      /\ Release(s, Settled(s, q))
      /\ UNCHANGED <<head, status, ledger, seen, merge, stopped, events>>
  BY DEF BlindBlocks, env
<1>3. l \in Lanes  BY <1>1 DEF Continuation
<1>4. slot[s].pending \in Heads  BY <1>1, <1>2, <1>3 DEF TypeOK
<1>5. verdict[l] # None /\ verdict[l] \in Verdict
  BY <1>1, <1>3 DEF IInv, ReadInv, TypeOK
<1>6. v \in Verdict /\ v.head = verdict[l].head /\ verdict[l].head \in seen[l].read
  BY <1>3, <1>4, <1>5 DEF Verdict, IInv, ReadInv
<1>7. verdict' = [verdict EXCEPT ![l] = v]  BY <1>2
<1> HIDE DEF v
<1>8. Grows  BY <1>1, <1>2, <1>3, <1>6, <1>7, VerdictGrows DEF TypeOK
<1>9. Ended(s)  BY <1>1, <1>2, Endings DEF IInv
<1>10. QED  BY <1>1, <1>2, <1>8, <1>9, NothingAround, EndKeeps

\* A blind pass that is void ends the continuation.
LEMMA BlindVoidKeeps ==
    ASSUME IInv, NEW s \in Slots, BlindVoid(s)
    PROVE  IInv'
BY ReviewedKeeps DEF BlindVoid, At

-----------------------------------------------------------------------------
(* The merges, and a restart.                                              *)

\* A dispatch that is over ends the continuation that waited for it.
LEMMA MergeOverKeeps ==
    ASSUME IInv, NEW m \in Mergers, merge[m] # None,
           NEW st \in {"deferred", "succeeded", "failed", "routed"}, MergeOver(m, st),
           UNCHANGED <<head, verdict, seen, stopped, events>>, status' \in [Lanes -> Statuses]
    PROVE  IInv'
<1> DEFINE l == merge[m].lane
           x == [ledger[l] EXCEPT !.st = st]
           y == [x EXCEPT !.late = FALSE]
<1>1. TypeOK /\ merge[m] \in Merge  BY DEF IInv, TypeOK
<1>2. l \in Lanes  BY <1>1 DEF Merge
<1>3. ledger' \in [Lanes -> Ledger]
  <2>1. ledger[l] \in Ledger  BY <1>1, <1>2 DEF TypeOK
  <2>2. x \in Ledger  BY <2>1 DEF Ledger
  <2>3. ledger' = [ledger EXCEPT ![l] = y]  BY DEF MergeOver
  <2> HIDE DEF x
  <2>4. y \in Ledger  BY <2>2 DEF Ledger
  <2> HIDE DEF y
  <2>5. QED  BY <1>1, <1>2, <2>3, <2>4 DEF TypeOK
<1>4. /\ merge'[m] = None /\ \A o \in Mergers \ {m} : merge'[o] = merge[o]
      /\ merge' \in [Mergers -> Merge \cup {None}]
  BY <1>1 DEF MergeOver, TypeOK
<1>5. Grows /\ Around  BY <1>1, <1>3, NothingGrows DEF Around, TypeOK
<1>6. CASE m = Reconciler
  <2>1. UNCHANGED <<q, slot, reviewing>>  BY <1>6 DEF MergeOver
  <2>2. \A s \in Slots : merge'[s] = merge[s]
    BY <1>4, <1>6, LimitsAssumption DEF Mergers
  <2>3. /\ QueueInv(q', slot', reviewing') /\ MergeInv(slot', merge')
        /\ ReadInv(slot', verdict', seen')
    BY <2>1, <2>2 DEF IInv, MergeInv
  <2>4. TypeOK'  BY <1>1, <1>4, <1>5, <2>1 DEF TypeOK, Grows, Around
  <2>5. QED  BY <2>3, <2>4 DEF IInv
<1>7. CASE m # Reconciler
  <2>1. m \in Slots /\ slot[m] # None  BY <1>7 DEF Mergers, IInv, MergeInv
  <2>2. Ended(m)  BY <1>1, <1>7, <2>1, Endings DEF MergeOver, IInv
  <2>3. slot'[m] = None /\ \A t \in Slots \ {m} : slot'[t] = slot[t]
    BY <1>1, <2>1, <2>2 DEF Ended, TypeOK
  <2>4. MergeInv(slot', merge')  BY <1>4, <2>3 DEF IInv, MergeInv, Mergers
  <2>5. ReadInv(slot', verdict', seen')  BY <2>3 DEF IInv, ReadInv
  <2>6. TypeOK'  BY <1>1, <1>4, <1>5, <2>2 DEF TypeOK, Grows, Around, Ended
  <2>7. QED  BY <2>2, <2>4, <2>5, <2>6 DEF IInv, Ended
<1>8. QED  BY <1>6, <1>7

\* A merge that fails, is deferred or is routed to a card.
LEMMA MergeFailsKeeps ==
    ASSUME IInv, NEW m \in Mergers, merge[m] # None,
           NEW st \in {"deferred", "failed", "routed"}, MergeFails(m, st)
    PROVE  IInv'
<1>1. merge[m] \in Merge  BY DEF IInv, TypeOK
<1>2. merge[m].lane \in Lanes  BY <1>1 DEF Merge
<1>3. status' \in [Lanes -> Statuses]
  BY <1>2 DEF MergeFails, SetStatus, IInv, TypeOK, Statuses
<1>4. QED  BY <1>3, MergeOverKeeps DEF MergeFails, env

\* A merge that goes on to its next part.
LEMMA MergeToKeeps ==
    ASSUME IInv, NEW m \in Mergers, merge[m] # None, NEW pc \in {"lease", "publish"},
           MergeTo(m, pc), status' \in [Lanes -> Statuses],
           UNCHANGED <<head, q, slot, reviewing, record, env>>
    PROVE  IInv'
<1> DEFINE x == [merge[m] EXCEPT !.pc = pc]
<1>1. merge[m] \in Merge /\ TypeOK  BY DEF IInv, TypeOK
<1>2. x \in Merge  BY <1>1 DEF Merge
<1>3. merge' = [merge EXCEPT ![m] = x]  BY DEF MergeTo
<1> HIDE DEF x
<1>4. /\ merge' \in [Mergers -> Merge \cup {None}]
      /\ \A o \in Mergers \ {m} : merge'[o] = merge[o]
  BY <1>1, <1>2, <1>3 DEF TypeOK
<1>5. MergeInv(slot', merge')  BY <1>4 DEF IInv, MergeInv, Mergers
<1>6. QueueInv(q', slot', reviewing') /\ ReadInv(slot', verdict', seen')
  BY DEF IInv, record
<1>7. TypeOK'  BY <1>1, <1>4 DEF TypeOK, record, env
<1>8. QED  BY <1>5, <1>6, <1>7 DEF IInv

\* The steps of a merge.
LEMMA MergeStepKeeps ==
    ASSUME IInv, NEW m \in Mergers, MergeStep(m)
    PROVE  IInv'
<1>1. merge[m] # None
  BY DEF MergeStep, MergeGates, MergeStarts, Publish, MergeStops, Merging
<1>2. merge[m] \in Merge /\ status \in [Lanes -> Statuses]  BY <1>1 DEF IInv, TypeOK
<1>3. merge[m].lane \in Lanes  BY <1>2 DEF Merge
<1>4. CASE MergeGates(m)
  BY <1>1, <1>2, <1>4, MergeToKeeps, MergeFailsKeeps DEF MergeGates
<1>5. CASE MergeStarts(m)
  <2>1. SetStatus(merge[m].lane, "merging") => status' \in [Lanes -> Statuses]
    BY <1>2, <1>3 DEF SetStatus, Statuses
  <2>2. QED  BY <1>1, <1>5, <2>1, MergeToKeeps, MergeFailsKeeps DEF MergeStarts
<1>6. CASE Publish(m)
  <2>1. status' \in [Lanes -> Statuses]  BY <1>2, <1>6 DEF Publish, Statuses
  <2>2. QED  BY <1>1, <1>6, <2>1, MergeOverKeeps DEF Publish, env
<1>7. CASE MergeStops(m)  BY <1>1, <1>7, MergeFailsKeeps DEF MergeStops
<1>8. QED  BY <1>4, <1>5, <1>6, <1>7 DEF MergeStep

\* The startup sweep leaves no row claimed.
LEMMA SweptRows ==
    ASSUME q \in Queue, RowInv(q)
    PROVE  SweptQueue \in Queue /\ RowInv(SweptQueue) /\ \A r \in Rows : ~Claimed(SweptQueue, r)
<1> DEFINE held == {r \in Rows : q.rows[r] # None /\ q.rows[r].st = "claimed"}
           lost == {r \in held : q.rows[r].attempts + 1 >= MaxAttempts}
           freed(r) == [q.rows[r] EXCEPT !.st = "pending", !.owner = None, !.attempts = @ + 1]
           rows == [r \in Rows |-> IF r \in lost THEN None
                                   ELSE IF r \in held THEN freed(r) ELSE q.rows[r]]
           ahead == Join(q, held \ lost)
<1>1. SweptQueue = [rows |-> rows, ahead |-> ahead, cancelled |-> {}, aborted |-> {}]
  BY DEF SweptQueue
<1>2. \A r \in held \ lost :
        /\ freed(r) \in Row /\ freed(r).st = "pending" /\ freed(r).owner = None
        /\ freed(r).lane = q.rows[r].lane
  <2>1. SUFFICES ASSUME NEW r \in held \ lost
                 PROVE  /\ freed(r) \in Row /\ freed(r).st = "pending" /\ freed(r).owner = None
                        /\ freed(r).lane = q.rows[r].lane
    OBVIOUS
  <2> DEFINE x == q.rows[r]
             y == [x EXCEPT !.st = "pending"]
             z == [y EXCEPT !.owner = None]
  <2>2. x \in Row /\ ~(x.attempts + 1 >= MaxAttempts)  BY DEF Queue
  <2>3. x.attempts + 1 \in 0..MaxAttempts  BY <2>2, LimitsAssumption DEF Row
  <2>4. freed(r) = [z EXCEPT !.attempts = x.attempts + 1]  BY <2>2 DEF Row
  <2>5. y \in Row /\ y.st = "pending" /\ y.lane = x.lane  BY <2>2 DEF Row
  <2> HIDE DEF y, freed, x
  <2>6. z \in Row /\ z.st = "pending" /\ z.lane = x.lane /\ z.owner = None
    BY <2>5 DEF Row
  <2> HIDE DEF z
  <2>7. /\ freed(r) \in Row /\ freed(r).st = "pending" /\ freed(r).owner = None
        /\ freed(r).lane = x.lane
    BY <2>3, <2>4, <2>6 DEF Row
  <2>8. QED  BY <2>7 DEF x
<1> HIDE DEF freed
<1>3. ahead \in [Rows -> SUBSET Rows]  BY DEF Join, Waiting, Queue
<1>4. rows \in [Rows -> Row \cup {None}]  BY <1>2 DEF Queue
<1>5. /\ \A r \in lost : rows[r] = None
      /\ \A r \in held \ lost : rows[r] = freed(r)
      /\ \A r \in Rows \ held : rows[r] = q.rows[r]
  OBVIOUS
<1>6. SweptQueue \in Queue /\ SweptQueue.rows = rows
  <2> HIDE DEF rows, ahead
  <2>1. QED  BY <1>1, <1>3, <1>4 DEF Queue
<1>7. lost \subseteq held /\ \A r \in Rows : r \in held <=> Claimed(q, r)  BY DEF Claimed
<1>8. \A r \in Rows : \/ rows[r] = None
                      \/ /\ rows[r].st # "claimed" /\ rows[r].owner = None
                         /\ q.rows[r] # None /\ rows[r].lane = q.rows[r].lane
  <2> HIDE DEF rows, held, lost
  <2>1. QED  BY <1>2, <1>5, <1>7 DEF RowInv, Claimed
<1> HIDE DEF rows
<1>9. \A r \in Rows : ~Claimed(SweptQueue, r)  BY <1>6, <1>8 DEF Claimed
<1>10. RowInv(SweptQueue)  BY <1>6, <1>8, <1>9 DEF RowInv
<1>11. QED  BY <1>6, <1>9, <1>10

\* After a restart there are no continuations and no merges.
LEMMA RestartKeeps ==
    ASSUME IInv, Restart
    PROVE  IInv'
<1>1. TypeOK /\ RowInv(q) /\ q \in Queue  BY DEF IInv, QueueInv, TypeOK
<1>2. q' \in Queue /\ RowInv(q') /\ \A r \in Rows : ~Claimed(q', r)
  BY <1>1, SweptRows DEF Restart
<1>3. q'.cancelled = {}  BY DEF Restart, SweptQueue
<1>4. status' \in [Lanes -> Statuses]
  BY <1>1 DEF Restart, TypeOK, BlockedStatus, Statuses
<1>5. events' \in 0..MaxEvents  BY <1>1, LimitsAssumption DEF Restart, TypeOK
<1>6. slot' = [s \in Slots |-> None] /\ merge' = [m \in Mergers |-> None]  BY DEF Restart
<1>7. QueueInv(q', slot', reviewing')
  BY <1>2, <1>3, <1>6 DEF QueueInv, HeldInv, CurrentInv, CancelInv
<1>8. MergeInv(slot', merge')  BY <1>6 DEF MergeInv, Mergers
<1>9. ReadInv(slot', verdict', seen')  BY <1>6 DEF Restart, record, IInv, ReadInv
<1>10. TypeOK'  BY <1>1, <1>2, <1>4, <1>5 DEF Restart, record, TypeOK
<1>11. QED  BY <1>7, <1>8, <1>9, <1>10 DEF IInv

-----------------------------------------------------------------------------
(* The theorems.                                                           *)

\* The queue and the slots are empty at first.
LEMMA InitInv == Init => IInv
<1> SUFFICES ASSUME Init PROVE IInv  OBVIOUS
<1>1. 1 \in Heads  BY LimitsAssumption DEF Heads
<1>2. NoReceipt \in Ledger
  <2>1. 0 \in 0..MaxDispatch  BY LimitsAssumption
  <2>2. QED  BY <2>1 DEF NoReceipt, Ledger
<1>3. 0 \in 0..MaxEvents  BY LimitsAssumption
<1>4. q \in Queue  BY DEF Init, Queue
<1>5. [read |-> {}, agreed |-> {}] \in [read : SUBSET Heads, agreed : SUBSET Heads]
  OBVIOUS
<1>6. TypeOK  BY <1>1, <1>2, <1>3, <1>4, <1>5 DEF Init, TypeOK, Statuses
<1>7. QueueInv(q, slot, reviewing)
  BY DEF Init, QueueInv, RowInv, HeldInv, CurrentInv, CancelInv, Claimed
<1>8. MergeInv(slot, merge) /\ ReadInv(slot, verdict, seen)
  BY DEF Init, MergeInv, ReadInv, Mergers
<1>9. QED  BY <1>6, <1>7, <1>8 DEF IInv

\* Every step keeps the invariant.
LEMMA NextInv == IInv /\ [Next]_vars => IInv'
<1> SUFFICES ASSUME IInv, [Next]_vars PROVE IInv'  OBVIOUS
<1>1. CASE \E l \in Lanes : \/ WorkerCommits(l) \/ RequestReview(l) \/ Steer(l)
                            \/ StopPacket(l) \/ GraceEnds(l) \/ ReconcileLane(l)
                            \/ ReapMerging(l) \/ Archive(l)
  BY <1>1, WorkerCommitsKeeps, RequestReviewKeeps, SteerKeeps, StopPacketKeeps,
     GraceEndsKeeps, ReconcileLaneKeeps, ReapMergingKeeps, ArchiveKeeps
<1>2. CASE ReleaseStaleLanes  BY <1>2, ReleaseStaleLanesKeeps
<1>3. CASE Restart  BY <1>3, RestartKeeps
<1>4. CASE \E s \in Slots : Claim(s) \/ Step(s) \/ Turn(s)
  BY <1>4, ClaimKeeps, StartKeeps, RecordKeeps, NoVerdictKeeps, TurnEndsKeeps,
     BlindAgreesKeeps, BlindBlocksKeeps, BlindVoidKeeps DEF Step, Turn
<1>5. CASE \E r \in Rows : Reclaim(r)  BY <1>5, ReclaimKeeps
<1>6. CASE \E m \in Mergers : MergeStep(m)  BY <1>6, MergeStepKeeps
<1>7. CASE UNCHANGED vars
  BY <1>7 DEF vars, record, env, IInv, TypeOK, QueueInv, RowInv, HeldInv, CurrentInv,
     CancelInv, Claimed, MergeInv, ReadInv
<1>8. QED  BY <1>1, <1>2, <1>3, <1>4, <1>5, <1>6, <1>7 DEF Next

\* The inductive invariant: rows, claims, slots, lanes and merges fit together.
THEOREM Invariance == Spec => []IInv
BY InitInv, NextInv, PTL DEF Spec

\* Every variable has its type: queue, slots, verdicts, receipts and merges.
THEOREM TypeCorrectness == Spec => []TypeOK
<1>1. IInv => TypeOK  BY DEF IInv
<1>2. QED  BY <1>1, Invariance, PTL

\* A lane is not reviewed by two continuations of which neither is cancelled:
\* each of them would own the one claim of the lane.
THEOREM LanesHaveOneReviewer == Spec => []OneReviewer
<1>1. IInv => OneReviewer  BY DEF IInv, QueueInv, CurrentInv, OneReviewer
<1>2. QED  BY <1>1, Invariance, PTL

\* An approval is pinned to a commit that a reviewer turn read while it was HEAD.
THEOREM VerdictsAreSeen == Spec => []VerdictSeen
<1>1. IInv => VerdictSeen  BY DEF IInv, ReadInv, VerdictSeen
<1>2. QED  BY <1>1, Invariance, PTL

\* A lane has one active row, with an owner iff it is claimed, over any requests,
\* requeues, supersessions, deferrals, stops and sweeps.
THEOREM LanesHaveOneRow == Spec => []RowInv(q)
<1>1. IInv => RowInv(q)  BY DEF IInv, QueueInv
<1>2. QED  BY <1>1, Invariance, PTL

-----------------------------------------------------------------------------
(* A claim keeps its row.                                                  *)

\* While a continuation lasts it is for the row that it was claimed for.
RowFixed == \A s \in Slots : slot[s] # None /\ slot'[s] # None => slot'[s].row = slot[s].row

\* No step gives a continuation another row.
LEMMA RowsAreFixed == IInv /\ [Next]_vars => RowFixed
<1> SUFFICES ASSUME IInv, [Next]_vars PROVE RowFixed  OBVIOUS
<1>1. slot \in [Slots -> Continuation \cup {None}]  BY DEF IInv, TypeOK
<1>2. slot' = slot => RowFixed  BY DEF RowFixed
<1>3. \A s \in Slots : \A e : Release(s, e) => RowFixed  BY <1>1 DEF Release, RowFixed
<1>4. \A s \in Slots : \A pc : slot[s] # None /\ Goto(s, pc) => RowFixed
  <2>1. SUFFICES ASSUME NEW s \in Slots, NEW pc, slot[s] # None, Goto(s, pc) PROVE RowFixed
    OBVIOUS
  <2>2. slot[s] \in Continuation  BY <1>1, <2>1
  <2>3. slot'[s] = [slot[s] EXCEPT !.pc = pc] /\ \A t \in Slots \ {s} : slot'[t] = slot[t]
    BY <1>1, <2>1 DEF Goto
  <2>4. slot'[s].row = slot[s].row  BY <2>2, <2>3 DEF Continuation
  <2>5. QED  BY <2>3, <2>4 DEF RowFixed
<1>5. ASSUME NEW s \in Slots, slot[s] # None,
             slot' = [slot EXCEPT ![s].pc = "blind", ![s].pending = slot[s].head]
      PROVE  RowFixed
  <2>1. slot' = [slot EXCEPT ![s] = Moved(s, "blind", slot[s].head)]
    BY <1>1, <1>5, BlindMoves
  <2>2. slot'[s] = Moved(s, "blind", slot[s].head) /\ \A t \in Slots \ {s} : slot'[t] = slot[t]
    BY <1>1, <2>1
  <2>3. QED  BY <2>2 DEF RowFixed, Moved
<1>6. ASSUME NEW s \in Slots, Claim(s) PROVE RowFixed
  <2>1. slot[s] = None /\ \A t \in Slots \ {s} : slot'[t] = slot[t]  BY <1>1, <1>6 DEF Claim
  <2>2. QED  BY <2>1 DEF RowFixed
<1>7. ASSUME NEW s \in Slots, Step(s) \/ Turn(s) PROVE RowFixed
  <2>1. slot[s] # None
    BY <1>7 DEF Step, Turn, Start, TurnEnds, Record, NoVerdict, BlindAgrees, BlindBlocks,
       BlindVoid, At
  <2>2. Reviewed(s) \/ Skip(s) \/ Busy(s) \/ Fail(s) => RowFixed
    BY <1>3 DEF Reviewed, Skip, Busy, Fail
  <2>3. Start(s) => RowFixed  BY <1>2, <1>4, <2>1, <2>2 DEF Start
  <2>4. TurnEnds(s) => RowFixed  BY <1>2, <1>4, <2>1, <2>2 DEF TurnEnds
  <2>5. Record(s) => RowFixed  BY <1>3, <1>5, <2>1 DEF Record
  <2>6. NoVerdict(s) => RowFixed  BY <1>5, <2>1, <2>2 DEF NoVerdict
  <2>7. BlindAgrees(s) => RowFixed  BY <1>3, <1>4, <2>1 DEF BlindAgrees
  <2>8. BlindBlocks(s) => RowFixed  BY <1>3 DEF BlindBlocks
  <2>9. BlindVoid(s) => RowFixed  BY <2>2 DEF BlindVoid
  <2>10. QED  BY <1>7, <2>3, <2>4, <2>5, <2>6, <2>7, <2>8, <2>9 DEF Step, Turn
<1>8. ASSUME NEW m \in Mergers, MergeStep(m) PROVE RowFixed
  <2>1. slot' = slot \/ \E e : m # Reconciler /\ Release(m, e)
    BY <1>8 DEF MergeStep, MergeGates, MergeStarts, Publish, MergeStops, MergeFails, MergeOver
  <2>2. QED  BY <1>2, <1>3, <2>1 DEF Mergers
<1>9. ASSUME NEW l \in Lanes,
             \/ WorkerCommits(l) \/ RequestReview(l) \/ Steer(l) \/ StopPacket(l)
             \/ GraceEnds(l) \/ ReconcileLane(l) \/ ReapMerging(l) \/ Archive(l)
      PROVE  RowFixed
  BY <1>2, <1>9 DEF WorkerCommits, RequestReview, Steer, StopPacket, GraceEnds,
     ReconcileLane, ReapMerging, Archive
<1>10. CASE Restart  BY <1>10 DEF Restart, RowFixed
<1>11. CASE ReleaseStaleLanes \/ (\E r \in Rows : Reclaim(r)) \/ UNCHANGED vars
  BY <1>2, <1>11 DEF ReleaseStaleLanes, Reclaim, vars
<1>12. QED  BY <1>6, <1>7, <1>8, <1>9, <1>10, <1>11 DEF Next

\* A claimed row changes hands only when its owner's continuation ends or is
\* cancelled: a continuation that lasts owns the row that it is for.
THEOREM ClaimsAreKept == Spec => ClaimKept
<1> DEFINE Kept_ == \A r \in Rows : q.rows[r] # None /\ q.rows[r].st = "claimed" =>
                      LET s == q.rows[r].owner
                      IN  (q'.rows[r] # None /\ q'.rows[r].owner = s)
                          \/ slot'[s] = None \/ s \in q'.cancelled
<1>1. IInv /\ IInv' /\ [Next]_vars => Kept_
  <2>1. SUFFICES ASSUME IInv, IInv', [Next]_vars, NEW r \in Rows, Claimed(q, r),
                        slot'[q.rows[r].owner] # None, q.rows[r].owner \notin q'.cancelled
                 PROVE  q'.rows[r] # None /\ q'.rows[r].owner = q.rows[r].owner
    BY DEF Claimed
  <2> DEFINE s == q.rows[r].owner
  <2>2. s \in Slots  BY <2>1, OwnerIsSlot DEF IInv, TypeOK, QueueInv
  <2>3. slot[s] # None /\ slot[s].row = r  BY <2>1 DEF IInv, QueueInv, HeldInv
  <2>4. slot'[s].row = r  BY <2>1, <2>2, <2>3, RowsAreFixed DEF RowFixed
  <2>5. Claimed(q', slot'[s].row) /\ q'.rows[slot'[s].row].owner = s
    BY <2>1, <2>2 DEF IInv, QueueInv, CurrentInv
  <2>6. QED  BY <2>4, <2>5 DEF Claimed
<1>2. IInv /\ IInv' /\ [Next]_vars => [Kept_]_vars  BY <1>1
<1> HIDE DEF Kept_
<1>3. Spec => [][Kept_]_vars  BY <1>2, Invariance, PTL DEF Spec
<1>4. QED  BY <1>3 DEF ClaimKept, Kept_

=============================================================================
