----------------------- MODULE RestartAdmissionProofs -----------------------
(***************************************************************************)
(* That an unforced restart and a child process exclude each other, and    *)
(* that a live owner's record stays in the slot, proved for every set of   *)
(* natives, launches, installers and observers and any number of restarts. *)
(***************************************************************************)
EXTENDS RestartAdmission, TLAPS

Slot(n, id) == [owner |-> n, id |-> id]

Looking == {"exists", "nodeRecover", "nodeRecovered", "nodeRead"}
Checking == {"scan", "check", "reap"}

\* A call in progress: where its inspection returns to, and that the native
\* that restarts holds its reservation.
NodeCall(t) ==
    pc[t] \in Looking => fr[t].ret \in {"reserved", "open", "bound", "slot", "list"}

NativeCall(n) ==
    /\ pc[n] \in Checking => fr[n].ret \in {"prepared", "inspect", "commit"}
    /\ pc[n] = "commit" \/ (pc[n] \in Checking /\ fr[n].ret # "prepared") =>
          pending[n] # NoPending

Calls ==
    /\ \A n \in Natives : NativeCall(n)
    /\ \A t \in Nodes : NodeCall(t)

Drawing == {"replaced", "recover", "recovered", "mkdir", "write"}

\* Dead owners stay dead, and no id is used twice.
Dead ==
    /\ \A r \in Readers \cap gone : pc[r] = "done"
    /\ \A rec \in gone \cap Record : rec.owner \in Natives /\ rec.id <= nextId
    /\ \A rec \in records : rec.id <= nextId

\* The native's record, from the draw of its id to the end of its reservation.
OwnRecord(n) ==
    /\ pc[n] \in Drawing \/ (pc[n] \in Checking /\ fr[n].ret = "prepared") =>
          /\ pending[n] = NoPending
          /\ fr[n].id <= nextId
          /\ Slot(n, fr[n].id) \notin gone
    /\ pc[n] \in Checking /\ fr[n].ret = "prepared" =>
          Slot(n, fr[n].id) \in records
    /\ pending[n] # NoPending => Slot(n, pending[n].id) \in records \ gone

\* The slot directory holds the records of those who count on them.
Slots ==
    /\ records # {} => dir
    /\ \A n \in Natives : OwnRecord(n)
    /\ \A i \in Installers : pc[i] \in {"lock", "installing", "settle"} =>
          Slot(i, 0) \in records

\* l has written its pid in this binding.
Linked(l) ==
    pc[l] \in {"linked", "bound"} \/ (pc[l] \in Looking /\ fr[l].ret = "bound")

\* l has passed the check of its reader in its second binding.
Second(l) == fr[l].id = 1 /\ (Linked(l) \/ pc[l] \in {"bind", "running"})

\* The reader of a launch and its place in its two bindings.
BindingOf(l) ==
    /\ fr[l].id \in {0, 1}
    /\ pc[l] = "idle" => reader[l] = "none" /\ fr[l].id = 0
    /\ fr[l].id = 1 \/ Linked(l) => reader[l] # "unbound"
    /\ l \in Rebinding /\ pc[l] = "running" => fr[l].id = 1
    /\ Second(l) => reader[l] = "bound"

Binding == \A l \in Launches : BindingOf(l)

\* A launch whose reader was found stale never gets as far as a second check of
\* it: it lost the reader, is out of time, or looks at the slot once more.
Doomed(l) ==
    /\ pc[l] # "idle"
    /\ \/ reader[l] = "none"
       \/ pc[l] \in {"unlink", "done"}
       \/ reader[l] = "unbound" /\ l \in overdue
       \/ /\ fr[l].id = 0
          /\ Linked(l)
          /\ pc[l] = "bound" => fr[l].held

\* What a native has judged and not yet unlinked.
Judges(n, l) ==
    /\ pc[n] \in {"check", "reap"} /\ l \in fr[n].todo => pc[l] # "idle"
    /\ pc[n] = "reap" /\ fr[n].reap = l => Doomed(l)

Judged == \A n \in Natives, l \in Launches : Judges(n, l)

\* l runs no child, and will not while the slot directory exists.
Out(l) ==
    /\ pc[l] # "running"
    /\ ~(pc[l] = "bound" /\ fr[l].id = 1 /\ ~fr[l].held)

\* What a native that has seen the idle window may count on.
Promised(n) ==
    \/ pc[n] \in Checking \cup {"commit"} /\ fr[n].ret = "commit"
    \/ Committed(n)

Promise(n) ==
    /\ pc[n] = "commit" =>
          fr[n].ret = "commit" \/ (fr[n].ret = "inspect" /\ pending[n].force)
    /\ Promised(n) => \A l \in Rebinding : Out(l)

Promises == \A n \in Natives : Promise(n)

IInv == TypeOK /\ Calls /\ Dead /\ Slots /\ Binding /\ Judged /\ Promises

USE DEF At

\* A frame before its first call is a frame.
LEMMA NoCallType == NoCall \in Frame
  BY DEF NoCall, Frame, Returns

\* The kinds of threads.
LEMMA ThreadKinds ==
  /\ Natives \subseteq Threads /\ Nodes \subseteq Threads
  /\ Launches \subseteq Nodes /\ Installers \subseteq Nodes
  /\ Observers \subseteq Nodes /\ Readers \subseteq Nodes
  /\ Launches \subseteq Readers /\ Installers \subseteq Readers
  BY DEF Threads, Nodes, Readers

\* A native is no Node process.
LEMMA NativeIsNoNode == Natives \cap Nodes = {}
  BY AdmissionAssumption DEF Nodes

\* What a thread's step leaves of the other threads.
Moves(t) ==
    /\ pc' \in [Threads -> Labels]
    /\ fr' \in [Threads -> Frame]
    /\ \A u \in Threads \ {t} : pc'[u] = pc[u] /\ fr'[u] = fr[u]

\* A jump, with or without the end of the call.
LEMMA GotoMoves ==
  ASSUME TypeOK, NEW t \in Threads, NEW x \in Labels, Goto(t, x), UNCHANGED fr
  PROVE  Moves(t) /\ pc'[t] = x /\ fr'[t] = fr[t]
  BY DEF TypeOK, Goto, Moves

\* Finish has one of these outcomes.
LEMMA FinishMoves ==
  ASSUME TypeOK, NEW t \in Threads, Finish(t)
  PROVE  Moves(t) /\ pc'[t] = "idle" /\ fr'[t] = NoCall
  <1>1. "idle" \in Labels
    BY DEF Labels
  <1> QED BY <1>1, NoCallType DEF TypeOK, Goto, Finish, Moves

\* A jump that replaces the frame.
LEMMA CallMoves ==
  ASSUME TypeOK, NEW t \in Threads, NEW x \in Labels, NEW g \in Frame,
         Goto(t, x), fr' = [fr EXCEPT ![t] = g]
  PROVE  Moves(t) /\ pc'[t] = x /\ fr'[t] = g
  BY DEF TypeOK, Goto, Moves

\* The call of an inspection.
LEMMA InspectMoves ==
  ASSUME TypeOK, NEW t \in Threads, NEW r \in Returns, Inspect(t, r)
  PROVE  /\ Moves(t)
         /\ pc'[t] = "exists"
         /\ fr'[t].ret = r /\ fr'[t].id = fr[t].id
  <1> DEFINE g == [fr[t] EXCEPT !.ret = r]
  <1>0. fr[t] \in Frame
    BY DEF TypeOK
  <1>1. g \in Frame /\ g.ret = r /\ g.id = fr[t].id
    BY <1>0 DEF Frame
  <1>2. "exists" \in Labels
    BY DEF Labels
  <1>3. Goto(t, "exists") /\ fr' = [fr EXCEPT ![t] = g]
    BY DEF Inspect, TypeOK
  <1> QED BY <1>1, <1>2, <1>3, CallMoves

\* Its return, to where the caller said.
LEMMA ReturnMoves ==
  ASSUME TypeOK, NEW t \in Threads, NEW b \in BOOLEAN, fr[t].ret \in Labels,
         Return(t, b)
  PROVE  /\ Moves(t)
         /\ pc'[t] = fr[t].ret
         /\ fr'[t].id = fr[t].id /\ fr'[t].held = b
  <1>1. [NoCall EXCEPT !.held = b, !.id = fr[t].id] \in Frame
    BY NoCallType DEF TypeOK, Frame
  <1>2. fr'[t] = [NoCall EXCEPT !.held = b, !.id = fr[t].id]
    BY DEF Return, TypeOK
  <1>3. fr' = [fr EXCEPT ![t] = [NoCall EXCEPT !.held = b, !.id = fr[t].id]]
    BY DEF Return
  <1>4. Goto(t, fr[t].ret)
    BY DEF Return
  <1>5. Moves(t) /\ pc'[t] = fr[t].ret
    BY <1>1, <1>3, <1>4, CallMoves
  <1>6. fr'[t].id = fr[t].id /\ fr'[t].held = b
    BY <1>2 DEF NoCall
  <1> QED BY <1>5, <1>6

----------------------------------------------------------------------------
(* What the steps with several outcomes do to their thread. *)

\* The record is written, or the directory went away.
WriteRecordOutcome(n) ==
    /\ Moves(n)
    /\ UNCHANGED <<work, gone, leaving, nextId>>
    /\ \/ pc'[n] = "idle" /\ UNCHANGED <<slot, pending>>
       \/ pc'[n] = "mkdir" /\ fr'[n].id = fr[n].id /\ UNCHANGED <<slot, pending>>
       \/ /\ pc'[n] = "idle" /\ Reserve(n)
          /\ dir /\ Publish(Slot(n, fr[n].id))
       \/ /\ pc'[n] = "scan" /\ UNCHANGED pending
          /\ fr'[n].ret = "prepared" /\ fr'[n].id = fr[n].id
          /\ dir /\ Publish(Slot(n, fr[n].id))

\* WriteRecord has one of these outcomes.
LEMMA WriteRecordMoves ==
  ASSUME TypeOK, NEW n \in Natives, WriteRecord(n)
  PROVE  WriteRecordOutcome(n)
  <1> USE ThreadKinds
  <1>1. CASE ~dir
    <2>1. CASE Goto(n, "mkdir") /\ UNCHANGED fr
      <3>1. Moves(n) /\ pc'[n] = "mkdir" /\ fr'[n] = fr[n]
        BY <2>1, GotoMoves DEF Labels
      <3> QED BY <1>1, <3>1 DEF WriteRecord, WriteRecordOutcome
    <2>2. CASE Finish(n)
      <3>1. Moves(n) /\ pc'[n] = "idle"
        BY <2>2, FinishMoves
      <3> QED BY <1>1, <3>1 DEF WriteRecord, WriteRecordOutcome
    <2> QED BY <1>1, <2>1, <2>2 DEF WriteRecord
  <1>2. CASE dir /\ fr[n].force
    <2>1. Moves(n) /\ pc'[n] = "idle"
      BY <1>2, FinishMoves DEF WriteRecord
    <2> QED BY <1>2, <2>1 DEF WriteRecord, WriteRecordOutcome, Slot
  <1>3. CASE dir /\ ~fr[n].force
    <2>1. [fr[n] EXCEPT !.ret = "prepared"] \in Frame
      BY DEF TypeOK, Frame, Returns
    <2>2. fr' = [fr EXCEPT ![n] = [fr[n] EXCEPT !.ret = "prepared"]]
      BY <1>3 DEF WriteRecord
    <2>3. /\ Moves(n) /\ pc'[n] = "scan"
          /\ fr'[n] = [fr[n] EXCEPT !.ret = "prepared"]
      BY <1>3, <2>1, <2>2, CallMoves DEF WriteRecord, Labels
    <2>4. fr'[n].ret = "prepared" /\ fr'[n].id = fr[n].id
      BY <2>3 DEF TypeOK, Frame
    <2> QED BY <1>3, <2>3, <2>4 DEF WriteRecord, WriteRecordOutcome, Slot
  <1>4. UNCHANGED <<work, gone, leaving, nextId>>
    BY DEF WriteRecord
  <1> QED BY <1>1, <1>2, <1>3, <1>4 DEF WriteRecordOutcome

\* One reader is passed over, or judged and about to be unlinked.
CheckReaderOutcome(n) ==
    /\ Moves(n)
    /\ UNCHANGED <<slot, work, gone, restart>>
    /\ pc'[n] \in {"check", "reap"}
    /\ fr'[n].ret = fr[n].ret /\ fr'[n].id = fr[n].id
    /\ fr'[n].todo \subseteq fr[n].todo
    /\ pc'[n] = "reap" =>
          /\ fr'[n].reap \in fr[n].todo
          /\ reader[fr'[n].reap] = "none" \/ StaleReader(fr'[n].reap)

\* CheckReader has one of these outcomes.
LEMMA CheckReaderMoves ==
  ASSUME TypeOK, NEW n \in Natives, CheckReader(n)
  PROVE  CheckReaderOutcome(n)
  <1> USE ThreadKinds
  <1>1. ASSUME NEW r \in fr[n].todo, reader[r] = "none" \/ StaleReader(r),
               Goto(n, "reap"),
               fr' = [fr EXCEPT ![n].todo = @ \ {r}, ![n].reap = r]
        PROVE  /\ Moves(n) /\ pc'[n] = "reap" /\ fr'[n].reap = r
               /\ fr'[n].ret = fr[n].ret /\ fr'[n].id = fr[n].id
               /\ fr'[n].todo \subseteq fr[n].todo
    <2> DEFINE g == [fr[n] EXCEPT !.todo = @ \ {r}, !.reap = r]
    <2>0. fr[n] \in Frame /\ r \in Readers /\ fr[n].todo \ {r} \subseteq Readers
      BY DEF TypeOK, Frame
    <2>1. /\ g \in Frame /\ g.reap = r /\ g.ret = fr[n].ret /\ g.id = fr[n].id
          /\ g.todo = fr[n].todo \ {r}
      BY <2>0 DEF Frame
    <2>2. fr' = [fr EXCEPT ![n] = g]
      BY <1>1
    <2>3. Moves(n) /\ pc'[n] = "reap" /\ fr'[n] = g
      BY <1>1, <2>1, <2>2, CallMoves DEF Labels
    <2> QED BY <2>1, <2>3
  <1>2. ASSUME NEW r \in fr[n].todo, UNCHANGED pc,
               fr' = [fr EXCEPT ![n].todo = @ \ {r}, ![n].held = TRUE]
        PROVE  /\ Moves(n) /\ pc'[n] = pc[n]
               /\ fr'[n].ret = fr[n].ret /\ fr'[n].id = fr[n].id
               /\ fr'[n].todo \subseteq fr[n].todo
    <2> DEFINE g == [fr[n] EXCEPT !.todo = @ \ {r}, !.held = TRUE]
    <2>0. fr[n] \in Frame /\ fr[n].todo \ {r} \subseteq Readers
      BY DEF TypeOK, Frame
    <2>1. /\ g \in Frame /\ g.ret = fr[n].ret /\ g.id = fr[n].id
          /\ g.todo = fr[n].todo \ {r}
      BY <2>0 DEF Frame
    <2>2. fr' = [fr EXCEPT ![n] = g]
      BY <1>2
    <2>3. Moves(n) /\ fr'[n] = g
      BY <1>2, <2>1, <2>2 DEF TypeOK, Moves
    <2> QED BY <1>2, <2>1, <2>3
  <1>3. UNCHANGED <<slot, work, gone, restart>>
    BY DEF CheckReader
  <1> QED BY <1>1, <1>2, <1>3 DEF CheckReader, CheckReaderOutcome

\* The idle window is accepted, or the call is over.
InspectWorkOutcome(n) ==
    /\ Moves(n)
    /\ UNCHANGED <<slot, work, gone, restart>>
    /\ \/ pc'[n] = "idle"
       \/ /\ pc'[n] = "scan" /\ IdleWindow(n)
          /\ fr'[n].ret = "commit" /\ fr'[n].id = fr[n].id

\* InspectWork has one of these outcomes.
LEMMA InspectWorkMoves ==
  ASSUME TypeOK, NEW n \in Natives, InspectWork(n)
  PROVE  InspectWorkOutcome(n)
  <1> USE ThreadKinds DEF InspectWorkOutcome
  <1>0. UNCHANGED <<slot, work, gone, restart>>
    BY DEF InspectWork
  <1>1. CASE Finish(n)
    BY <1>0, <1>1, FinishMoves
  <1>2. CASE /\ IdleWindow(n) /\ Goto(n, "scan")
             /\ fr' = [fr EXCEPT ![n].ret = "commit"]
    <2> DEFINE g == [fr[n] EXCEPT !.ret = "commit"]
    <2>1. g \in Frame /\ g.ret = "commit" /\ g.id = fr[n].id
      BY DEF TypeOK, Frame, Returns
    <2>2. fr' = [fr EXCEPT ![n] = g]
      BY <1>2
    <2>3. Moves(n) /\ pc'[n] = "scan" /\ fr'[n] = g
      BY <1>0, <1>2, <2>1, <2>2, CallMoves DEF Labels
    <2> QED BY <1>0, <1>2, <2>1, <2>3
  <1> QED BY <1>1, <1>2 DEF InspectWork

\* The slot directory is absent, or the records are recovered next.
SlotExistsOutcome(t) ==
    /\ Moves(t)
    /\ UNCHANGED <<slot, work, gone, restart>>
    /\ fr'[t].id = fr[t].id
    /\ \/ ~dir /\ pc'[t] = fr[t].ret /\ t \in Launches
       \/ pc'[t] = "nodeRecover" /\ fr'[t] = fr[t]

\* SlotExists has one of these outcomes.
LEMMA SlotExistsMoves ==
  ASSUME TypeOK, Calls, NEW t \in Nodes, SlotExists(t)
  PROVE  SlotExistsOutcome(t)
  <1> USE ThreadKinds DEF SlotExistsOutcome
  <1>0. UNCHANGED <<slot, work, gone, restart>>
    BY DEF SlotExists
  <1>1. fr[t].ret \in Labels
    BY DEF SlotExists, Calls, NodeCall, Looking, Labels
  <1>2. CASE t \in Launches /\ ~dir /\ Return(t, FALSE)
    BY <1>0, <1>1, <1>2, ReturnMoves
  <1>3. CASE Goto(t, "nodeRecover") /\ UNCHANGED fr
    BY <1>0, <1>3, GotoMoves DEF Labels
  <1> QED BY <1>2, <1>3 DEF SlotExists

\* The inspection returns, blocked while the directory exists.
NodeReadOutcome(t) ==
    /\ Moves(t)
    /\ UNCHANGED <<slot, overdue, gone, restart>>
    /\ reader' = [r \in Readers |->
                     IF r \in Installers \cap gone THEN "none" ELSE reader[r]]
    /\ pc'[t] = fr[t].ret /\ fr'[t].id = fr[t].id
    /\ dir => fr'[t].held

\* NodeRead has one of these outcomes.
LEMMA NodeReadMoves ==
  ASSUME TypeOK, Calls, NEW t \in Nodes, NodeRead(t)
  PROVE  NodeReadOutcome(t)
  <1> DEFINE b == dir \/ \E i \in Installers : reader'[i] # "none"
  <1>1. fr[t].ret \in Labels
    BY DEF NodeRead, Calls, NodeCall, Looking, Labels
  <1>2. b \in BOOLEAN /\ Return(t, b)
    BY DEF NodeRead, TypeOK
  <1>3. Moves(t) /\ pc'[t] = fr[t].ret /\ fr'[t].id = fr[t].id /\ fr'[t].held = b
    BY <1>1, <1>2, ThreadKinds, ReturnMoves
  <1> QED BY <1>3 DEF NodeRead, NodeReadOutcome

\* The launch is refused, or inspects again.
ReservedOutcome(l) ==
    /\ Moves(l)
    /\ UNCHANGED <<slot, work, gone, restart>>
    /\ fr'[l].id = fr[l].id
    /\ \/ pc'[l] = "unlink"
       \/ pc'[l] = "exists" /\ fr'[l].ret = "open"

\* Reserved has one of these outcomes.
LEMMA ReservedMoves ==
  ASSUME TypeOK, NEW l \in Launches, Reserved(l)
  PROVE  ReservedOutcome(l)
  <1> USE ThreadKinds DEF ReservedOutcome
  <1>0. UNCHANGED <<slot, work, gone, restart>>
    BY DEF Reserved
  <1>1. CASE Inspect(l, "open")
    BY <1>0, <1>1, InspectMoves DEF Returns
  <1>2. CASE Goto(l, "unlink") /\ UNCHANGED fr
    BY <1>0, <1>2, GotoMoves DEF Labels
  <1> QED BY <1>1, <1>2 DEF Reserved, RefuseLaunch

\* The reader is lost, or the writer is looked at again.
StillLinkedOutcome(l) ==
    /\ Moves(l)
    /\ UNCHANGED <<slot, work, gone, restart>>
    /\ fr'[l].id = fr[l].id
    /\ \/ pc'[l] = "unlink"
       \/ pc'[l] = "exists" /\ fr'[l].ret = "bound" /\ reader[l] # "none"

\* StillLinked has one of these outcomes.
LEMMA StillLinkedMoves ==
  ASSUME TypeOK, NEW l \in Launches, StillLinked(l)
  PROVE  StillLinkedOutcome(l)
  <1> USE ThreadKinds DEF StillLinkedOutcome
  <1>0. UNCHANGED <<slot, work, gone, restart>>
    BY DEF StillLinked
  <1>1. CASE Inspect(l, "bound") /\ reader[l] # "none"
    BY <1>0, <1>1, InspectMoves DEF Returns
  <1>2. CASE Goto(l, "unlink") /\ UNCHANGED fr
    BY <1>0, <1>2, GotoMoves DEF Labels
  <1> QED BY <1>1, <1>2 DEF StillLinked

\* The launch is refused, binds again, or its work runs.
BoundOutcome(l) ==
    /\ Moves(l)
    /\ UNCHANGED <<slot, work, gone, restart>>
    /\ \/ pc'[l] = "unlink" /\ fr'[l].id = fr[l].id
       \/ /\ pc'[l] = "exists" /\ fr'[l].ret = "open" /\ fr'[l].id = 1
          /\ ~fr[l].held
       \/ /\ pc'[l] = "running" /\ fr'[l].id = fr[l].id /\ ~fr[l].held
          /\ l \in Rebinding => fr[l].id # 0

\* Bound has one of these outcomes.
LEMMA BoundMoves ==
  ASSUME TypeOK, NEW l \in Launches, Bound(l)
  PROVE  BoundOutcome(l)
  <1> USE ThreadKinds DEF BoundOutcome
  <1>0. UNCHANGED <<slot, work, gone, restart>>
    BY DEF Bound
  <1>1. CASE Goto(l, "unlink") /\ UNCHANGED fr
    BY <1>0, <1>1, GotoMoves DEF Labels
  <1>2. CASE /\ ~fr[l].held /\ Goto(l, "exists")
             /\ fr' = [fr EXCEPT ![l].ret = "open", ![l].id = 1]
    <2> DEFINE g == [fr[l] EXCEPT !.ret = "open", !.id = 1]
    <2>0. fr[l] \in Frame
      BY DEF TypeOK
    <2>1. g \in Frame /\ g.ret = "open" /\ g.id = 1
      BY <2>0 DEF Frame, Returns
    <2>2. fr' = [fr EXCEPT ![l] = g]
      BY <1>2
    <2>3. Moves(l) /\ pc'[l] = "exists" /\ fr'[l] = g
      BY <1>0, <1>2, <2>1, <2>2, CallMoves DEF Labels
    <2> QED BY <1>0, <1>2, <2>1, <2>3
  <1>3. CASE /\ ~fr[l].held /\ Goto(l, "running") /\ UNCHANGED fr
             /\ ~(l \in Rebinding /\ fr[l].id = 0)
    BY <1>0, <1>3, GotoMoves DEF Labels
  <1> QED BY <1>1, <1>2, <1>3 DEF Bound, RefuseLaunch

\* The timer, and the commit of a reservation in time: the reservation stays.
CommitOutcome(n) ==
    /\ UNCHANGED <<slot, work, gone, nextId>>
    /\ pending[n] \in Reservation /\ pending'[n] \in Reservation
    /\ pending'[n].id = pending[n].id /\ pending'[n].force = pending[n].force
    /\ \A m \in Natives \ {n} : pending'[m] = pending[m]

\* The timer of a reservation.
LEMMA LateMoves ==
  ASSUME TypeOK, NEW n \in Natives, Late(n)
  PROVE  /\ CommitOutcome(n)
         /\ pending'[n].committed = pending[n].committed
         /\ UNCHANGED <<pc, fr>>
  <1>1. pending[n] \in Reservation
    BY DEF TypeOK, Late
  <1>2. pending'[n] = [pending[n] EXCEPT !.late = TRUE]
    BY DEF TypeOK, Late
  <1>3. /\ pending'[n] \in Reservation /\ pending'[n].id = pending[n].id
        /\ pending'[n].force = pending[n].force
        /\ pending'[n].committed = pending[n].committed
    BY <1>1, <1>2 DEF Reservation
  <1>4. \A m \in Natives \ {n} : pending'[m] = pending[m]
    BY DEF TypeOK, Late
  <1> QED BY <1>1, <1>3, <1>4 DEF Late, CommitOutcome

\* The commit of a reservation.
LEMMA CommitMoves ==
  ASSUME TypeOK, Calls, NEW n \in Natives, Commit(n)
  PROVE  CommitOutcome(n) /\ Moves(n) /\ pc'[n] = "idle"
  <1>1. pending[n] \in Reservation
    BY DEF TypeOK, Calls, NativeCall, Commit
  <1>2. pending'[n] = pending[n]
            \/ pending'[n] = [pending[n] EXCEPT !.committed = TRUE]
    BY DEF TypeOK, Commit
  <1>3. /\ pending'[n] \in Reservation /\ pending'[n].id = pending[n].id
        /\ pending'[n].force = pending[n].force
    BY <1>1, <1>2 DEF Reservation
  <1>4. \A m \in Natives \ {n} : pending'[m] = pending[m]
    BY DEF TypeOK, Commit
  <1>5. Moves(n) /\ pc'[n] = "idle"
    BY ThreadKinds, FinishMoves DEF Commit
  <1> QED BY <1>1, <1>3, <1>4, <1>5 DEF Commit, CommitOutcome

\* A step of one thread that keeps its own call keeps all of them.
LEMMA CallsKept ==
  ASSUME Calls, NEW t \in Threads, Moves(t),
         \A n \in Natives \ {t} : pending'[n] = pending[n],
         t \in Natives => NativeCall(t)', t \in Nodes => NodeCall(t)'
  PROVE  Calls'
  <1>1. ASSUME NEW n \in Natives PROVE NativeCall(n)'
    <2>1. CASE n = t
      BY <2>1
    <2>2. CASE n # t
      BY <2>2, ThreadKinds DEF Calls, NativeCall, Moves
    <2> QED BY <2>1, <2>2
  <1>2. ASSUME NEW u \in Nodes PROVE NodeCall(u)'
    <2>1. CASE u = t
      BY <2>1
    <2>2. CASE u # t
      BY <2>2, ThreadKinds DEF Calls, NodeCall, Moves
    <2> QED BY <2>1, <2>2
  <1> QED BY <1>1, <1>2 DEF Calls

\* Every step keeps the types.
LEMMA TypeStep == TypeOK /\ Calls /\ Next => TypeOK'
  <1> SUFFICES ASSUME TypeOK, Calls, Next PROVE TypeOK'
    OBVIOUS
  <1> USE ThreadKinds, NoCallType, AdmissionAssumption
  <1>1. ASSUME NEW n \in Natives, NEW force \in BOOLEAN, Prepare(n, force) PROVE TypeOK'
    <2>1. fr' \in [Threads -> Frame]
      <3>1. [NoCall EXCEPT !.id = nextId', !.force = force] \in Frame
        <4>1. nextId' \in Nat
          BY <1>1 DEF TypeOK, Prepare
        <4> QED BY <4>1 DEF Frame
      <3> QED BY <1>1, <3>1 DEF TypeOK, Prepare
    <2>2. pc' \in [Threads -> Labels]
      BY <1>1 DEF TypeOK, Prepare, Goto, Labels
    <2>3. pending' \in [Natives -> Reservation \cup {NoPending}]
      BY <1>1 DEF TypeOK, Prepare
    <2>4. records' \subseteq Record /\ dir' \in BOOLEAN /\ aged' \in BOOLEAN
      BY <1>1 DEF TypeOK, Prepare, Unpublish, slot
    <2> QED BY <1>1, <2>1, <2>2, <2>3, <2>4 DEF TypeOK, Prepare, work
  <1>2. ASSUME NEW n \in Natives, Replaced(n) PROVE TypeOK'
    BY <1>2 DEF TypeOK, Replaced, Goto, Labels, RemoveEmptyDir, slot, work,
       restart
  <1>3. ASSUME NEW n \in Natives, RecoverOperations(n) PROVE TypeOK'
    BY <1>3 DEF TypeOK, RecoverOperations, DropStale, Goto, Labels, Unpublish,
       slot, work, restart
  <1>4. ASSUME NEW n \in Natives, Recovered(n) PROVE TypeOK'
    BY <1>4 DEF TypeOK, Recovered, Goto, Labels, RemoveEmptyDir, slot, work,
       restart
  <1>5. ASSUME NEW n \in Natives, MakeSlot(n) PROVE TypeOK'
    <2>1. fr' \in [Threads -> Frame] /\ pc' \in [Threads -> Labels]
      <3>1. CASE Finish(n)
        BY <3>1, FinishMoves DEF Moves
      <3>2. CASE Goto(n, "write") /\ UNCHANGED fr
        BY <3>2, GotoMoves DEF Moves, Labels
      <3> QED BY <1>5, <3>1, <3>2 DEF MakeSlot
    <2> QED BY <1>5, <2>1 DEF TypeOK, MakeSlot, slot, work, restart
  <1>6. ASSUME NEW n \in Natives, WriteRecord(n) PROVE TypeOK'
    <2>1. fr' \in [Threads -> Frame] /\ pc' \in [Threads -> Labels]
      <3>1. CASE Finish(n)
        BY <3>1, FinishMoves DEF Moves
      <3>2. CASE Goto(n, "mkdir") /\ UNCHANGED fr
        BY <3>2, GotoMoves DEF Moves, Labels
      <3>3. CASE Goto(n, "scan") /\ fr' = [fr EXCEPT ![n].ret = "prepared"]
        BY <3>3 DEF TypeOK, Goto, Labels, Frame, Returns
      <3> QED BY <1>6, <3>1, <3>2, <3>3 DEF WriteRecord
    <2>2. pending' \in [Natives -> Reservation \cup {NoPending}]
      <3>1. [id |-> fr[n].id, force |-> fr[n].force,
             committed |-> FALSE, late |-> FALSE] \in Reservation
        BY DEF TypeOK, Frame, Reservation
      <3> QED BY <1>6, <3>1 DEF TypeOK, WriteRecord, Reserve
    <2>3. [owner |-> n, id |-> fr[n].id] \in Record
      BY DEF TypeOK, Record, Frame
    <2>4. records' \subseteq Record /\ dir' \in BOOLEAN /\ aged' \in BOOLEAN
      BY <1>6, <2>3 DEF TypeOK, WriteRecord, Publish, slot
    <2> QED BY <1>6, <2>1, <2>2, <2>4 DEF TypeOK, WriteRecord, work
  <1>7. ASSUME NEW n \in Natives, ListReaders(n) PROVE TypeOK'
    BY <1>7 DEF TypeOK, ListReaders, Frame, Goto, Labels, slot, work, restart
  <1>8. ASSUME NEW n \in Natives, CheckReader(n) PROVE TypeOK'
    <2>1. fr' \in [Threads -> Frame]
      <3> PICK r \in fr[n].todo :
            \/ fr' = [fr EXCEPT ![n].todo = @ \ {r}, ![n].reap = r]
            \/ fr' = [fr EXCEPT ![n].todo = @ \ {r}, ![n].held = TRUE]
        BY <1>8 DEF CheckReader
      <3>1. r \in Readers /\ fr[n].todo \ {r} \subseteq Readers
        BY DEF TypeOK, Frame
      <3> QED BY <3>1 DEF TypeOK, Frame
    <2>2. pc' \in [Threads -> Labels]
      BY <1>8 DEF TypeOK, CheckReader, Goto, Labels
    <2> QED BY <1>8, <2>1, <2>2 DEF TypeOK, CheckReader, slot, work, restart
  <1>9. ASSUME NEW n \in Natives, ReapReader(n) PROVE TypeOK'
    BY <1>9 DEF TypeOK, ReapReader, Frame, Goto, Labels, slot, work, restart
  <1>10. ASSUME NEW n \in Natives, Prepared(n) PROVE TypeOK'
    <2>1. fr' \in [Threads -> Frame] /\ pc' \in [Threads -> Labels]
      <3>1. CASE Finish(n)
        BY <3>1, FinishMoves DEF Moves
      <3>2. CASE Goto(n, "refused") /\ UNCHANGED fr
        BY <3>2, GotoMoves DEF Moves, Labels
      <3> QED BY <1>10, <3>1, <3>2 DEF Prepared
    <2>2. pending' \in [Natives -> Reservation \cup {NoPending}]
      <3>1. [id |-> fr[n].id, force |-> fr[n].force,
             committed |-> FALSE, late |-> FALSE] \in Reservation
        BY DEF TypeOK, Frame, Reservation
      <3> QED BY <1>10, <3>1 DEF TypeOK, Prepared, Reserve
    <2> QED BY <1>10, <2>1, <2>2 DEF TypeOK, Prepared, Unpublish, slot, work
  <1>11. ASSUME NEW n \in Natives, Refused(n) PROVE TypeOK'
    BY <1>11 DEF TypeOK, Refused, RemoveEmptyDir, Goto, Labels, Finish, slot,
       work, restart
  <1>12. ASSUME NEW n \in Natives, Cancel(n) PROVE TypeOK'
    BY <1>12 DEF TypeOK, Cancel, Unpublish, Goto, Labels, slot, work, restart
  <1>13. ASSUME NEW n \in Natives, Late(n) PROVE TypeOK'
    BY <1>13 DEF TypeOK, Late, Reservation, slot, work, restart
  <1>14. ASSUME NEW n \in Natives, BeforeRestart(n) PROVE TypeOK'
    BY <1>14 DEF TypeOK, BeforeRestart, Reservation, Frame, NoCall, Returns,
       Goto, Labels, slot, work, restart
  <1>15. ASSUME NEW n \in Natives, InspectWork(n) PROVE TypeOK'
    <2>1. fr' \in [Threads -> Frame] /\ pc' \in [Threads -> Labels]
      <3>1. CASE Finish(n)
        BY <3>1, FinishMoves DEF Moves
      <3>2. CASE Goto(n, "scan") /\ fr' = [fr EXCEPT ![n].ret = "commit"]
        BY <3>2 DEF TypeOK, Goto, Labels, Frame, Returns
      <3> QED BY <1>15, <3>1, <3>2 DEF InspectWork
    <2> QED BY <1>15, <2>1 DEF TypeOK, InspectWork, slot, work, restart
  <1>16. ASSUME NEW n \in Natives, Recheck(n) PROVE TypeOK'
    BY <1>16 DEF TypeOK, Recheck, Goto, Finish, Labels, slot, work, restart
  <1>17. ASSUME NEW n \in Natives, Commit(n) PROVE TypeOK'
    <2>1. fr' \in [Threads -> Frame] /\ pc' \in [Threads -> Labels]
      BY <1>17, FinishMoves DEF Commit, Moves
    <2>2. pending' \in [Natives -> Reservation \cup {NoPending}]
      <3>1. CASE pending[n] \in Reservation
        <4>1. [pending[n] EXCEPT !.committed = TRUE] \in Reservation
          BY <3>1 DEF Reservation
        <4> QED BY <1>17, <4>1 DEF TypeOK, Commit
      <3>2. pending[n] # NoPending
        BY <1>17 DEF Calls, NativeCall, Commit
      <3> QED BY <3>1, <3>2 DEF TypeOK
    <2> QED BY <1>17, <2>1, <2>2 DEF TypeOK, Commit, slot, work
  <1>18. ASSUME NEW n \in Natives, EndNative(n) PROVE TypeOK'
    BY <1>18 DEF TypeOK, EndNative, Goto, Finish, Labels, slot, work, restart
  <1>19. ASSUME NEW t \in Nodes, SlotExists(t) PROVE TypeOK'
    <2>1. fr[t].ret \in Labels
      BY <1>19 DEF SlotExists, Calls, NodeCall, Looking, Labels
    <2>2. fr' \in [Threads -> Frame] /\ pc' \in [Threads -> Labels]
      <3>1. CASE Return(t, FALSE)
        BY <2>1, <3>1, ReturnMoves DEF Moves
      <3>2. CASE Goto(t, "nodeRecover") /\ UNCHANGED fr
        BY <3>2, GotoMoves DEF Moves, Labels
      <3> QED BY <1>19, <3>1, <3>2 DEF SlotExists
    <2> QED BY <1>19, <2>2 DEF TypeOK, SlotExists, slot, work, restart
  <1>20. ASSUME NEW t \in Nodes, NodeRecover(t) PROVE TypeOK'
    BY <1>20 DEF TypeOK, NodeRecover, DropStale, Unpublish, Goto, Labels,
       slot, work, restart
  <1>21. ASSUME NEW t \in Nodes, NodeRecovered(t) PROVE TypeOK'
    BY <1>21 DEF TypeOK, NodeRecovered, RemoveEmptyDir, Goto, Labels, slot,
       work, restart
  <1>22. ASSUME NEW t \in Nodes, NodeRead(t) PROVE TypeOK'
    <2> DEFINE b == dir \/ \E i \in Installers : reader'[i] # "none"
    <2>1. fr[t].ret \in Labels
      BY <1>22 DEF NodeRead, Calls, NodeCall, Looking, Labels
    <2>2. b \in BOOLEAN /\ Return(t, b)
      BY <1>22 DEF NodeRead, TypeOK
    <2>3. fr' \in [Threads -> Frame] /\ pc' \in [Threads -> Labels]
      BY <2>1, <2>2, ReturnMoves DEF Moves
    <2> QED BY <1>22, <2>3 DEF TypeOK, NodeRead, slot, restart
  <1>23. ASSUME NEW l \in Launches, ReserveLaunch(l) PROVE TypeOK'
    BY <1>23 DEF TypeOK, ReserveLaunch, Inspect, Returns, Frame, Goto, Labels,
       slot, work, restart
  <1>24. ASSUME NEW l \in Launches, Reserved(l) PROVE TypeOK'
    <2>1. fr' \in [Threads -> Frame] /\ pc' \in [Threads -> Labels]
      <3>1. CASE Inspect(l, "open")
        BY <3>1, InspectMoves DEF Moves, Returns
      <3>2. CASE Goto(l, "unlink") /\ UNCHANGED fr
        BY <3>2, GotoMoves DEF Moves, Labels
      <3> QED BY <1>24, <3>1, <3>2 DEF Reserved, RefuseLaunch
    <2> QED BY <1>24, <2>1 DEF TypeOK, Reserved, slot, work, restart
  <1>25. ASSUME NEW l \in Launches, OpenReader(l) PROVE TypeOK'
    BY <1>25 DEF TypeOK, OpenReader, RefuseLaunch, Goto, Labels, slot, work,
       restart
  <1>26. ASSUME NEW l \in Launches, WritePid(l) PROVE TypeOK'
    BY <1>26 DEF TypeOK, WritePid, Goto, Labels, slot, work, restart
  <1>27. ASSUME NEW l \in Launches, StillLinked(l) PROVE TypeOK'
    <2>1. fr' \in [Threads -> Frame] /\ pc' \in [Threads -> Labels]
      <3>1. CASE Inspect(l, "bound")
        BY <3>1, InspectMoves DEF Moves, Returns
      <3>2. CASE Goto(l, "unlink") /\ UNCHANGED fr
        BY <3>2, GotoMoves DEF Moves, Labels
      <3> QED BY <1>27, <3>1, <3>2 DEF StillLinked
    <2> QED BY <1>27, <2>1 DEF TypeOK, StillLinked, slot, work, restart
  <1>28. ASSUME NEW l \in Launches, Bound(l) PROVE TypeOK'
    BY <1>28 DEF TypeOK, Bound, RefuseLaunch, Returns, Frame, Goto, Labels,
       slot, work, restart
  <1>29. ASSUME NEW l \in Launches, ReleaseReader(l) PROVE TypeOK'
    BY <1>29 DEF TypeOK, ReleaseReader, Goto, Labels, slot, work, restart
  <1>30. ASSUME NEW l \in Launches, FinishWork(l) PROVE TypeOK'
    BY <1>30 DEF TypeOK, FinishWork, Goto, Labels, slot, work, restart
  <1>31. ASSUME NEW l \in Launches, GraceOver(l) PROVE TypeOK'
    BY <1>31 DEF TypeOK, GraceOver, slot, work, restart
  <1>32. ASSUME NEW i \in Installers, BeginInstall(i) PROVE TypeOK'
    BY <1>32 DEF TypeOK, BeginInstall, Inspect, Returns, Frame, Goto, Labels,
       slot, work, restart
  <1>33. ASSUME NEW i \in Installers, ClaimSlot(i) PROVE TypeOK'
    BY <1>33 DEF TypeOK, ClaimSlot, Goto, Labels, slot, work, restart
  <1>34. ASSUME NEW i \in Installers, WriteOperation(i) PROVE TypeOK'
    <2>1. pc' \in [Threads -> Labels]
      BY <1>34 DEF TypeOK, WriteOperation, Goto, Labels
    <2>2. [owner |-> i, id |-> 0] \in Record
      BY DEF Record
    <2> QED BY <1>34, <2>1, <2>2 DEF TypeOK, WriteOperation, Publish, slot,
       work, restart
  <1>35. ASSUME NEW i \in Installers, TakeLock(i) PROVE TypeOK'
    BY <1>35 DEF TypeOK, TakeLock, Goto, Labels, slot, work, restart
  <1>36. ASSUME NEW i \in Installers, FinishInstall(i) PROVE TypeOK'
    BY <1>36 DEF TypeOK, FinishInstall, Goto, Labels, slot, work, restart
  <1>37. ASSUME NEW i \in Installers, ReleaseOperation(i) PROVE TypeOK'
    BY <1>37 DEF TypeOK, ReleaseOperation, Unpublish, Goto, Labels, slot,
       work, restart
  <1>38. ASSUME NEW i \in Installers, Settled(i) PROVE TypeOK'
    BY <1>38 DEF TypeOK, Settled, RemoveEmptyDir, Goto, Labels, slot, work,
       restart
  <1>39. ASSUME NEW o \in Observers, Observe(o) PROVE TypeOK'
    BY <1>39 DEF TypeOK, Observe, Inspect, Returns, Frame, Goto, Labels, slot,
       work, restart
  <1>40. ASSUME NEW o \in Observers, ListWorkLaunches(o) PROVE TypeOK'
    BY <1>40 DEF TypeOK, ListWorkLaunches, Finish, Goto, Labels, slot, work,
       restart
  <1>41. ASSUME NEW r \in Readers, NodeDies(r) PROVE TypeOK'
    BY <1>41 DEF TypeOK, NodeDies, Goto, Labels, slot, work, restart
  <1>42. ASSUME SlotAges PROVE TypeOK'
    BY <1>42 DEF TypeOK, SlotAges, slot, work, restart
  <1> QED
    BY <1>1, <1>2, <1>3, <1>4, <1>5, <1>6, <1>7, <1>8, <1>9, <1>10, <1>11,
       <1>12,
       <1>13, <1>14, <1>15, <1>16, <1>17, <1>18, <1>19, <1>20, <1>21, <1>22, <1>23,
       <1>24, <1>25, <1>26, <1>27, <1>28, <1>29, <1>30, <1>31, <1>32, <1>33, <1>34,
       <1>35, <1>36, <1>37, <1>38, <1>39, <1>40, <1>41, <1>42
    DEF Next, NativeStep, LaunchStep, InstallStep, ObserverStep, InspectStep

\* Natives do not die here, and no record of an installer is among the dead.
LEMMA LiveOwners ==
  ASSUME TypeOK, Dead
  PROVE  /\ \A n \in Natives : n \notin gone
         /\ \A i \in Installers, id \in Nat : Slot(i, id) \notin gone
  BY AdmissionAssumption, ThreadAssumption, ThreadKinds
  DEF TypeOK, Dead, Slot, Record, Readers

\* A recovery removes no record of a live owner.
LEMMA DropStaleKeeps ==
  ASSUME TypeOK, Dead, NEW t \in Threads, NEW a \in Labels, NEW b \in Labels,
         DropStale(t, a, b), UNCHANGED fr
  PROVE  /\ Moves(t)
         /\ pc'[t] \in {a, b}
         /\ dir' = dir /\ records' \subseteq records
         /\ \A n \in Natives, id \in Nat :
               Slot(n, id) \in records \ gone => Slot(n, id) \in records'
         /\ \A i \in Installers, id \in Nat :
               Slot(i, id) \in records /\ i \notin gone => Slot(i, id) \in records'
  <1>1. Moves(t) /\ pc'[t] \in {a, b}
    BY GotoMoves DEF DropStale
  <1>2. /\ dir' = dir /\ records' \subseteq records
        /\ \A rec \in records \ records' : StaleRecord(rec)
    BY DEF DropStale, Unpublish, slot
  <1> QED BY <1>1, <1>2, LiveOwners DEF StaleRecord, Slot

\* The ids of calls and reservations.
LEMMA SlotIds ==
  ASSUME TypeOK, NEW n \in Natives
  PROVE  fr[n].id \in Nat /\ (pending[n] # NoPending => pending[n].id \in Nat)
  BY ThreadKinds DEF TypeOK, Frame, Reservation

\* What keeps a native's record where it is.
LEMMA OwnRecordKept ==
  ASSUME TypeOK, NEW n \in Natives, OwnRecord(n),
         pc'[n] = pc[n], fr'[n] = fr[n], pending'[n] = pending[n],
         nextId' \in Nat, nextId <= nextId',
         \A id \in Nat : Slot(n, id) \in records \ gone => Slot(n, id) \in records',
         \A id \in Nat : Slot(n, id) \in gone' => Slot(n, id) \in gone
  PROVE  OwnRecord(n)'
  <1>1. fr[n].id \in Nat /\ fr[n].id <= nextId => fr[n].id <= nextId'
    BY DEF TypeOK
  <1>2. fr[n].id \in Nat /\ (pending[n] # NoPending => pending[n].id \in Nat)
    BY SlotIds
  <1> QED BY <1>1, <1>2 DEF OwnRecord

\* The directory is there while a native checks the readers or has reserved.
LEMMA SlotOpen ==
  ASSUME TypeOK, Calls, Slots, NEW n \in Natives,
         pc[n] \in Checking \cup {"commit"} \/ pending[n] # NoPending
  PROVE  dir
  <1>1. CASE pending[n] # NoPending
    BY <1>1 DEF Slots, OwnRecord
  <1>2. CASE pc[n] \in Checking /\ fr[n].ret = "prepared"
    BY <1>2 DEF Slots, OwnRecord
  <1> QED BY <1>1, <1>2 DEF Calls, NativeCall

\* The dead stay dead when no file and no id changes.
LEMMA DeadKept ==
  ASSUME Dead, NEW t \in Threads, Moves(t), pc[t] # "done",
         UNCHANGED <<gone, records, nextId>>
  PROVE  Dead'
  BY ThreadKinds DEF Dead, Moves

\* A step that re-establishes its launch's part keeps all bindings.
LEMMA BindingKept ==
  ASSUME Binding, NEW t \in Threads, Moves(t),
         \A l \in Launches \ {t} : reader'[l] = reader[l],
         t \in Launches => BindingOf(t)'
  PROVE  Binding'
  <1>1. ASSUME NEW l \in Launches PROVE BindingOf(l)'
    <2>1. CASE l = t
      BY <2>1
    <2>2. CASE l # t
      BY <2>2, ThreadKinds
      DEF Binding, BindingOf, Linked, Second, Moves
    <2> QED BY <2>1, <2>2
  <1> QED BY <1>1 DEF Binding

\* A launch that is doomed and sees the directory stays doomed.
LEMMA JudgedByLaunch ==
  ASSUME TypeOK, Calls, Slots, Judged, NEW t \in Launches, Moves(t),
         \A l \in Launches \ {t} : reader'[l] = reader[l],
         UNCHANGED overdue, pc'[t] # "idle",
         dir /\ Doomed(t) => Doomed(t)'
  PROVE  Judged'
  <1>1. ASSUME NEW n \in Natives, NEW l \in Launches PROVE Judges(n, l)'
    <2>1. pc'[n] = pc[n] /\ fr'[n] = fr[n]
      BY ThreadKinds, NativeIsNoNode DEF Moves
    <2>2. CASE l = t
      <3>1. pc[n] = "reap" => dir
        BY SlotOpen DEF Checking
      <3> QED BY <2>1, <2>2, <3>1 DEF Judged, Judges
    <2>3. CASE l # t
      BY <2>1, <2>3, ThreadKinds DEF Judged, Judges, Doomed, Linked, Moves
    <2> QED BY <2>2, <2>3
  <1> QED BY <1>1 DEF Judged

\* A step of a native keeps the judgements if it keeps its own.
LEMMA JudgedByNative ==
  ASSUME Judged, NEW n \in Natives, Moves(n), UNCHANGED <<reader, overdue>>,
         \A l \in Launches : Judges(n, l)'
  PROVE  Judged'
  <1>1. ASSUME NEW m \in Natives \ {n}, NEW l \in Launches PROVE Judges(m, l)'
    BY ThreadKinds, NativeIsNoNode DEF Judged, Judges, Doomed, Linked, Moves
  <1> QED BY <1>1 DEF Judged

\* A launch that is out and sees the directory stays out.
LEMMA PromisesByLaunch ==
  ASSUME TypeOK, Calls, Slots, Promises, NEW t \in Launches, Moves(t),
         UNCHANGED pending,
         t \in Rebinding /\ dir /\ Out(t) => Out(t)'
  PROVE  Promises'
  <1>1. ASSUME NEW n \in Natives PROVE Promise(n)'
    <2>1. pc'[n] = pc[n] /\ fr'[n] = fr[n]
      BY ThreadKinds, NativeIsNoNode DEF Moves
    <2>2. Promised(n)' => Promised(n) /\ dir
      BY <2>1, SlotOpen DEF Promised, Committed
    <2>3. ASSUME NEW l \in Rebinding, Promised(n)' PROVE Out(l)'
      <3>1. CASE l = t
        BY <2>2, <2>3, <3>1 DEF Promises, Promise
      <3>2. CASE l # t
        <4>1. pc'[l] = pc[l] /\ fr'[l] = fr[l]
          BY <3>2, ThreadKinds, AdmissionAssumption DEF Moves
        <4> QED BY <2>2, <2>3, <4>1 DEF Promises, Promise, Out
      <3> QED BY <3>1, <3>2
    <2> QED BY <2>1, <2>3 DEF Promises, Promise
  <1> QED BY <1>1 DEF Promises

\* A step of a native keeps the promises if it keeps its own.
LEMMA PromisesByNative ==
  ASSUME Promises, NEW n \in Natives, Moves(n),
         \A m \in Natives \ {n} : pending'[m] = pending[m], Promise(n)'
  PROVE  Promises'
  <1>1. \A l \in Rebinding : Out(l)' <=> Out(l)
    BY ThreadKinds, NativeIsNoNode, AdmissionAssumption DEF Out, Moves
  <1>2. ASSUME NEW m \in Natives \ {n} PROVE Promise(m)'
    BY <1>1, ThreadKinds DEF Promises, Promise, Promised, Committed, Moves
  <1> QED BY <1>2 DEF Promises

\* A step of a native keeps the records if it keeps its own.
LEMMA SlotsByNative ==
  ASSUME TypeOK, Slots, NEW n \in Natives, Moves(n), OwnRecord(n)',
         \A m \in Natives \ {n} : pending'[m] = pending[m],
         nextId' \in Nat, nextId <= nextId',
         records' # {} => dir',
         \A m \in Natives \ {n}, id \in Nat :
            /\ Slot(m, id) \in records \ gone => Slot(m, id) \in records'
            /\ Slot(m, id) \in gone' => Slot(m, id) \in gone,
         \A i \in Installers :
            pc[i] \in {"lock", "installing", "settle"} /\ Slot(i, 0) \in records =>
            Slot(i, 0) \in records'
  PROVE  Slots'
  <1>1. ASSUME NEW m \in Natives PROVE OwnRecord(m)'
    <2>1. CASE m = n
      BY <2>1
    <2>2. CASE m # n
      <3>1. pc'[m] = pc[m] /\ fr'[m] = fr[m]
        BY <2>2, ThreadKinds DEF Moves
      <3> QED BY <2>2, <3>1, OwnRecordKept DEF Slots
    <2> QED BY <2>1, <2>2
  <1>2. \A i \in Installers : pc'[i] = pc[i]
    BY ThreadKinds, NativeIsNoNode DEF Moves
  <1> QED BY <1>1, <1>2 DEF Slots

\* A step of a Node process keeps them if it starts no installer's work.
LEMMA SlotsByNode ==
  ASSUME TypeOK, Slots, NEW t \in Nodes, Moves(t),
         UNCHANGED <<dir, pending, nextId, gone>>,
         records' \subseteq records,
         \A m \in Natives, id \in Nat :
            Slot(m, id) \in records \ gone => Slot(m, id) \in records',
         \A i \in Installers :
            pc'[i] \in {"lock", "installing", "settle"} =>
            /\ pc[i] \in {"lock", "installing", "settle"}
            /\ Slot(i, 0) \in records => Slot(i, 0) \in records'
  PROVE  Slots'
  <1>1. ASSUME NEW m \in Natives PROVE OwnRecord(m)'
    <2>1. pc'[m] = pc[m] /\ fr'[m] = fr[m]
      BY ThreadKinds, NativeIsNoNode DEF Moves
    <2>2. nextId' \in Nat /\ nextId <= nextId'
      BY DEF TypeOK
    <2> QED BY <2>1, <2>2, OwnRecordKept DEF Slots
  <1> QED BY <1>1 DEF Slots

\* Every step keeps the calls.
LEMMA CallsStep ==
  ASSUME TypeOK, Calls, Next
  PROVE  Calls'
  <1> USE ThreadKinds, NativeIsNoNode, AdmissionAssumption, ThreadAssumption
  <1>1. ASSUME NEW n \in Natives, NEW force \in BOOLEAN, Prepare(n, force)
        PROVE  Calls'
    BY <1>1 DEF TypeOK, Calls, NativeCall, NodeCall, Checking, Looking,
       Prepare, Unpublish, Goto, slot, work
  <1>2. ASSUME NEW n \in Natives,
               Replaced(n) \/ RecoverOperations(n) \/
               Recovered(n)
        PROVE  Calls'
    BY <1>2 DEF TypeOK, Calls, NativeCall, NodeCall, Checking, Looking,
       Replaced, RemoveEmptyDir, RecoverOperations, DropStale, StaleRecord,
       Unpublish, Recovered, Goto, slot, work, restart
  <1>3. ASSUME NEW n \in Natives, MakeSlot(n)
        PROVE  Calls'
    BY <1>3 DEF TypeOK, Calls, NativeCall, NodeCall, Checking, Looking,
       MakeSlot, Finish, NoCall, Goto, slot, work, restart
  <1>4. ASSUME NEW n \in Natives, ListReaders(n)
        PROVE  Calls'
    BY <1>4 DEF TypeOK, Calls, NativeCall, NodeCall, Checking, Looking,
       ListReaders, Goto, slot, work, restart
  <1>5. ASSUME NEW n \in Natives, ReapReader(n)
        PROVE  Calls'
    BY <1>5 DEF TypeOK, Calls, NativeCall, NodeCall, Checking, Looking,
       ReapReader, Goto, slot, restart
  <1>6. ASSUME NEW n \in Natives, Prepared(n)
        PROVE  Calls'
    BY <1>6 DEF TypeOK, Calls, NativeCall, NodeCall, Checking, Looking,
       Prepared, Unpublish, Reserve, Finish, NoCall, Own, Goto, slot, work
  <1>7. ASSUME NEW n \in Natives, WriteRecord(n)
        PROVE  Calls'
    <2>1. WriteRecordOutcome(n)
      BY <1>7, WriteRecordMoves
    <2>2. NativeCall(n)'
      BY <2>1 DEF WriteRecordOutcome, NativeCall, Checking
    <2>3. \A m \in Natives \ {n} : pending'[m] = pending[m]
      BY <2>1 DEF WriteRecordOutcome, Reserve, TypeOK
    <2> QED BY <2>1, <2>2, <2>3, CallsKept, NativeIsNoNode DEF
       WriteRecordOutcome
  <1>8. ASSUME NEW n \in Natives, CheckReader(n)
        PROVE  Calls'
    <2>1. CheckReaderOutcome(n)
      BY <1>8, CheckReaderMoves
    <2>2. NativeCall(n)'
      BY <1>8, <2>1 DEF CheckReader, CheckReaderOutcome, Calls, NativeCall,
         Checking, restart
    <2> QED BY <2>1, <2>2, CallsKept, NativeIsNoNode DEF CheckReaderOutcome,
       restart
  <1>9. ASSUME NEW n \in Natives,
               Refused(n) \/ Cancel(n)
        PROVE  Calls'
    BY <1>9 DEF TypeOK, Calls, NativeCall, NodeCall, Checking, Looking,
       Refused, RemoveEmptyDir, Finish, NoCall, Cancel, Unpublish, Goto,
       slot, work, restart
  <1>10. ASSUME NEW n \in Natives, BeforeRestart(n)
        PROVE  Calls'
    BY <1>10 DEF TypeOK, Calls, NativeCall, NodeCall, Checking, Looking,
       BeforeRestart, NoCall, Goto, slot, work, restart
  <1>11. ASSUME NEW n \in Natives,
               Recheck(n) \/ EndNative(n)
        PROVE  Calls'
    BY <1>11 DEF TypeOK, Calls, NativeCall, NodeCall, Checking, Looking,
       Recheck, Finish, NoCall, EndNative, Goto, slot, work, restart
  <1>12. ASSUME NEW n \in Natives, Late(n)
        PROVE  Calls'
    <2>1. CommitOutcome(n) /\ UNCHANGED <<pc, fr>>
      BY <1>12, LateMoves
    <2>2. ASSUME NEW m \in Natives PROVE NativeCall(m)'
      BY <2>1, PendingAssumption DEF CommitOutcome, Calls, NativeCall
    <2> QED BY <2>1, <2>2 DEF Calls, NodeCall
  <1>13. ASSUME NEW n \in Natives, InspectWork(n)
        PROVE  Calls'
    <2>1. InspectWorkOutcome(n)
      BY <1>13, InspectWorkMoves
    <2>2. NativeCall(n)'
      BY <1>13, <2>1 DEF InspectWork, InspectWorkOutcome, Calls, NativeCall,
         Checking, restart
    <2> QED BY <2>1, <2>2, CallsKept, NativeIsNoNode DEF InspectWorkOutcome,
       restart
  <1>14. ASSUME NEW n \in Natives, Commit(n)
        PROVE  Calls'
    <2>1. CommitOutcome(n) /\ Moves(n) /\ pc'[n] = "idle"
      BY <1>14, CommitMoves
    <2>2. NativeCall(n)'
      BY <2>1 DEF NativeCall, Checking
    <2> QED BY <2>1, <2>2, CallsKept, NativeIsNoNode DEF CommitOutcome
  <1>15. ASSUME NEW t \in Nodes, SlotExists(t)
        PROVE  Calls'
    <2>1. SlotExistsOutcome(t)
      BY <1>15, SlotExistsMoves
    <2>2. NodeCall(t)'
      BY <1>15, <2>1 DEF SlotExists, SlotExistsOutcome, Calls, NodeCall,
         Looking
    <2> QED BY <2>1, <2>2, CallsKept, NativeIsNoNode DEF SlotExistsOutcome,
       restart
  <1>16. ASSUME NEW t \in Nodes,
               NodeRecover(t) \/ NodeRecovered(t)
        PROVE  Calls'
    BY <1>16 DEF TypeOK, Calls, NativeCall, NodeCall, Checking, Looking,
       NodeRecover, DropStale, StaleRecord, Unpublish, NodeRecovered,
       RemoveEmptyDir, Goto, slot, work, restart
  <1>17. ASSUME NEW t \in Nodes, NodeRead(t)
        PROVE  Calls'
    <2>1. NodeReadOutcome(t)
      BY <1>17, NodeReadMoves
    <2>2. NodeCall(t)'
      BY <1>17, <2>1 DEF NodeRead, NodeReadOutcome, Calls, NodeCall, Looking
    <2> QED BY <2>1, <2>2, CallsKept, NativeIsNoNode DEF NodeReadOutcome,
       restart
  <1>18. ASSUME NEW l \in Launches, ReserveLaunch(l)
        PROVE  Calls'
    BY <1>18 DEF TypeOK, Calls, NativeCall, NodeCall, Checking, Looking,
       ReserveLaunch, Inspect, Goto, slot, restart
  <1>19. ASSUME NEW l \in Launches,
               OpenReader(l) \/ WritePid(l)
        PROVE  Calls'
    BY <1>19 DEF TypeOK, Calls, NativeCall, NodeCall, Checking, Looking,
       OpenReader, RefuseLaunch, StaleReader, WritePid, Goto, slot, work,
       restart
  <1>20. ASSUME NEW l \in Launches,
               ReleaseReader(l) \/ FinishWork(l) \/
               GraceOver(l)
        PROVE  Calls'
    BY <1>20 DEF TypeOK, Calls, NativeCall, NodeCall, Checking, Looking,
       ReleaseReader, FinishWork, GraceOver, Goto, slot, work, restart
  <1>21. ASSUME NEW l \in Launches, Reserved(l)
        PROVE  Calls'
    <2>1. ReservedOutcome(l)
      BY <1>21, ReservedMoves
    <2>2. NodeCall(l)'
      BY <1>21, <2>1 DEF Reserved, ReservedOutcome, Calls, NodeCall, Looking
    <2> QED BY <2>1, <2>2, CallsKept, NativeIsNoNode DEF ReservedOutcome,
       restart
  <1>22. ASSUME NEW l \in Launches, StillLinked(l)
        PROVE  Calls'
    <2>1. StillLinkedOutcome(l)
      BY <1>22, StillLinkedMoves
    <2>2. NodeCall(l)'
      BY <1>22, <2>1 DEF StillLinked, StillLinkedOutcome, Calls, NodeCall,
         Looking
    <2> QED BY <2>1, <2>2, CallsKept, NativeIsNoNode DEF StillLinkedOutcome,
       restart
  <1>23. ASSUME NEW l \in Launches, Bound(l)
        PROVE  Calls'
    <2>1. BoundOutcome(l)
      BY <1>23, BoundMoves
    <2>2. NodeCall(l)'
      BY <1>23, <2>1 DEF Bound, BoundOutcome, Calls, NodeCall, Looking
    <2> QED BY <2>1, <2>2, CallsKept, NativeIsNoNode DEF BoundOutcome, restart
  <1>24. ASSUME NEW i \in Installers, BeginInstall(i)
        PROVE  Calls'
    BY <1>24 DEF TypeOK, Calls, NativeCall, NodeCall, Checking, Looking,
       BeginInstall, Inspect, Goto, slot, work, restart
  <1>25. ASSUME NEW i \in Installers,
               ClaimSlot(i) \/ WriteOperation(i)
        PROVE  Calls'
    BY <1>25 DEF TypeOK, Calls, NativeCall, NodeCall, Checking, Looking,
       ClaimSlot, WriteOperation, Publish, Goto, slot, work, restart
  <1>26. ASSUME NEW i \in Installers,
               TakeLock(i) \/ FinishInstall(i) \/
               ReleaseOperation(i) \/ Settled(i)
        PROVE  Calls'
    BY <1>26 DEF TypeOK, Calls, NativeCall, NodeCall, Checking, Looking,
       TakeLock, FinishInstall, ReleaseOperation, Unpublish, Settled,
       RemoveEmptyDir, Goto, slot, work, restart
  <1>27. ASSUME NEW o \in Observers, Observe(o)
        PROVE  Calls'
    BY <1>27 DEF TypeOK, Calls, NativeCall, NodeCall, Checking, Looking,
       Observe, Inspect, Goto, slot, work, restart
  <1>28. ASSUME NEW o \in Observers, ListWorkLaunches(o)
        PROVE  Calls'
    BY <1>28 DEF TypeOK, Calls, NativeCall, NodeCall, Checking, Looking,
       ListWorkLaunches, Finish, NoCall, Goto, slot, restart
  <1>29. ASSUME NEW r \in Readers, NodeDies(r)
        PROVE  Calls'
    BY <1>29 DEF TypeOK, Calls, NativeCall, NodeCall, Checking, Looking,
       NodeDies, NoCall, Goto, slot, work, restart
  <1>30. ASSUME SlotAges
        PROVE  Calls'
    BY <1>30 DEF TypeOK, Calls, NativeCall, NodeCall, Checking, Looking,
       SlotAges, slot, work, restart
  <1> QED
    BY <1>1, <1>2, <1>3, <1>4, <1>5, <1>6, <1>7, <1>8, <1>9, <1>10, <1>11,
       <1>12, <1>13, <1>14, <1>15, <1>16, <1>17, <1>18, <1>19, <1>20,
       <1>21, <1>22, <1>23, <1>24, <1>25, <1>26, <1>27, <1>28, <1>29,
       <1>30
    DEF Next, NativeStep, LaunchStep, InstallStep, ObserverStep, InspectStep

\* Every step keeps the dead and the ids.
LEMMA DeadStep ==
  ASSUME TypeOK, Calls, Dead, Slots, Next
  PROVE  Dead'
  <1> USE ThreadKinds, NativeIsNoNode, AdmissionAssumption, ThreadAssumption
  <1>1. ASSUME NEW n \in Natives, NEW force \in BOOLEAN, Prepare(n, force)
        PROVE  Dead'
    BY <1>1 DEF TypeOK, Dead, Record, Prepare, Unpublish, Goto, slot, work
  <1>2. ASSUME NEW n \in Natives,
               Replaced(n) \/ RecoverOperations(n) \/
               Recovered(n) \/ MakeSlot(n) \/ ListReaders(n)
               \/ ReapReader(n) \/ Prepared(n)
        PROVE  Dead'
    BY <1>2 DEF TypeOK, Dead, Record, Replaced, RemoveEmptyDir,
       RecoverOperations, DropStale, StaleRecord, Unpublish, Recovered,
       MakeSlot, Finish, NoCall, ListReaders, ReapReader, Prepared, Reserve,
       Own, Goto, slot, work, restart
  <1>3. ASSUME NEW n \in Natives, WriteRecord(n)
        PROVE  Dead'
    <2>1. WriteRecordOutcome(n)
      BY <1>3, WriteRecordMoves
    <2>2. pc[n] = "write" /\ fr[n].id <= nextId
      BY <1>3 DEF WriteRecord, Slots, OwnRecord, Drawing
    <2>3. \A rec \in records' : rec \in records \/ rec = Slot(n, fr[n].id)
      BY <2>1 DEF WriteRecordOutcome, Publish, slot
    <2>4. \A rec \in records' : rec.id <= nextId
      BY <2>2, <2>3 DEF Dead, Slot
    <2>5. \A r \in Readers : pc'[r] = pc[r]
      BY <2>1 DEF WriteRecordOutcome, Moves
    <2> QED BY <2>1, <2>4, <2>5 DEF WriteRecordOutcome, Dead
  <1>4. ASSUME NEW n \in Natives, CheckReader(n)
        PROVE  Dead'
    <2>1. CheckReaderOutcome(n)
      BY <1>4, CheckReaderMoves
    <2> QED BY <1>4, <2>1, DeadKept DEF CheckReader, CheckReaderOutcome, slot,
       restart
  <1>5. ASSUME NEW n \in Natives,
               Refused(n) \/ Cancel(n) \/ BeforeRestart(n) \/
               Recheck(n)
        PROVE  Dead'
    BY <1>5 DEF TypeOK, Dead, Record, Refused, RemoveEmptyDir, Finish,
       NoCall, Cancel, Unpublish, BeforeRestart, Recheck, Goto, slot, work,
       restart
  <1>6. ASSUME NEW n \in Natives, Late(n)
        PROVE  Dead'
    <2>1. CommitOutcome(n) /\ UNCHANGED <<pc, fr>>
      BY <1>6, LateMoves
    <2> QED BY <2>1 DEF TypeOK, Dead, Record, CommitOutcome, slot, work
  <1>7. ASSUME NEW n \in Natives, InspectWork(n)
        PROVE  Dead'
    <2>1. InspectWorkOutcome(n)
      BY <1>7, InspectWorkMoves
    <2> QED BY <1>7, <2>1, DeadKept DEF InspectWork, InspectWorkOutcome, slot,
       restart
  <1>8. ASSUME NEW n \in Natives, Commit(n)
        PROVE  Dead'
    <2>1. CommitOutcome(n) /\ Moves(n)
      BY <1>8, CommitMoves
    <2> QED BY <1>8, <2>1, DeadKept DEF Commit, CommitOutcome, slot
  <1>9. ASSUME NEW n \in Natives, EndNative(n)
        PROVE  Dead'
    <2>1. \A r \in Readers : pc'[r] = pc[r] /\ (r \in gone' => r \in gone)
      BY <1>9 DEF EndNative, Finish, Goto, TypeOK, Record
    <2>2. \A rec \in gone' : rec \in gone \/ (rec \in records /\ rec.owner = n)
      BY <1>9 DEF EndNative
    <2>3. records' = records /\ nextId' = nextId
      BY <1>9 DEF EndNative, slot
    <2> QED BY <2>1, <2>2, <2>3 DEF Dead
  <1>10. ASSUME NEW t \in Nodes, SlotExists(t)
        PROVE  Dead'
    <2>1. SlotExistsOutcome(t)
      BY <1>10, SlotExistsMoves
    <2> QED BY <1>10, <2>1, DeadKept DEF SlotExists, SlotExistsOutcome, slot,
       restart
  <1>11. ASSUME NEW t \in Nodes,
               NodeRecover(t) \/ NodeRecovered(t)
        PROVE  Dead'
    BY <1>11 DEF TypeOK, Dead, Record, NodeRecover, DropStale, StaleRecord,
       Unpublish, NodeRecovered, RemoveEmptyDir, Goto, slot, work, restart
  <1>12. ASSUME NEW t \in Nodes, NodeRead(t)
        PROVE  Dead'
    <2>1. NodeReadOutcome(t)
      BY <1>12, NodeReadMoves
    <2> QED BY <1>12, <2>1, DeadKept DEF NodeRead, NodeReadOutcome, slot,
       restart
  <1>13. ASSUME NEW l \in Launches,
               ReserveLaunch(l) \/ OpenReader(l) \/
               WritePid(l) \/ ReleaseReader(l) \/
               FinishWork(l) \/ GraceOver(l)
        PROVE  Dead'
    BY <1>13 DEF TypeOK, Dead, Record, ReserveLaunch, Inspect, OpenReader,
       RefuseLaunch, StaleReader, WritePid, ReleaseReader, FinishWork,
       GraceOver, Goto, slot, work, restart
  <1>14. ASSUME NEW l \in Launches, Reserved(l)
        PROVE  Dead'
    <2>1. ReservedOutcome(l)
      BY <1>14, ReservedMoves
    <2> QED BY <1>14, <2>1, DeadKept DEF Reserved, ReservedOutcome, slot,
       restart
  <1>15. ASSUME NEW l \in Launches, StillLinked(l)
        PROVE  Dead'
    <2>1. StillLinkedOutcome(l)
      BY <1>15, StillLinkedMoves
    <2> QED BY <1>15, <2>1, DeadKept DEF StillLinked, StillLinkedOutcome,
       slot, restart
  <1>16. ASSUME NEW l \in Launches, Bound(l)
        PROVE  Dead'
    <2>1. BoundOutcome(l)
      BY <1>16, BoundMoves
    <2> QED BY <1>16, <2>1, DeadKept DEF Bound, BoundOutcome, slot, restart
  <1>17. ASSUME NEW i \in Installers,
               BeginInstall(i) \/ ClaimSlot(i) \/
               WriteOperation(i) \/ TakeLock(i) \/
               FinishInstall(i) \/ ReleaseOperation(i) \/
               Settled(i)
        PROVE  Dead'
    BY <1>17 DEF TypeOK, Dead, Record, BeginInstall, Inspect, ClaimSlot,
       WriteOperation, Publish, TakeLock, FinishInstall, ReleaseOperation,
       Unpublish, Settled, RemoveEmptyDir, Goto, slot, work, restart
  <1>18. ASSUME NEW o \in Observers,
               Observe(o) \/ ListWorkLaunches(o)
        PROVE  Dead'
    BY <1>18 DEF TypeOK, Dead, Record, Observe, Inspect, ListWorkLaunches,
       Finish, NoCall, Goto, slot, work, restart
  <1>19. ASSUME NEW r \in Readers, NodeDies(r)
        PROVE  Dead'
    BY <1>19 DEF TypeOK, Dead, Record, NodeDies, NoCall, Goto, slot, work,
       restart
  <1>20. ASSUME SlotAges
        PROVE  Dead'
    BY <1>20 DEF TypeOK, Dead, Record, SlotAges, work, restart
  <1> QED
    BY <1>1, <1>2, <1>3, <1>4, <1>5, <1>6, <1>7, <1>8, <1>9, <1>10, <1>11,
       <1>12, <1>13, <1>14, <1>15, <1>16, <1>17, <1>18, <1>19, <1>20
    DEF Next, NativeStep, LaunchStep, InstallStep, ObserverStep, InspectStep

\* Every step keeps the records.
LEMMA SlotsStep ==
  ASSUME TypeOK, Calls, Dead, Slots, Next
  PROVE  Slots'
  <1> USE ThreadKinds, NativeIsNoNode, AdmissionAssumption, ThreadAssumption
  <1>1. ASSUME NEW n \in Natives, NEW force \in BOOLEAN, Prepare(n, force)
        PROVE  Slots'
    <2>1. /\ nextId' = nextId + 1 /\ nextId' \in Nat /\ nextId <= nextId'
          /\ gone' = gone
      BY <1>1 DEF Prepare, TypeOK
    <2>2. pc' \in [Threads -> Labels] /\ fr' \in [Threads -> Frame]
      BY <1>1, TypeStep DEF TypeOK, Next
    <2>3. Moves(n)
      BY <1>1, <2>2 DEF Prepare, Goto, Moves, TypeOK
    <2>4. pc'[n] \in Drawing /\ fr'[n].id = nextId'
      <3>1. fr'[n] = [NoCall EXCEPT !.id = nextId', !.force = force]
        BY <1>1 DEF Prepare, TypeOK
      <3> QED BY <1>1, <3>1 DEF Prepare, Goto, Drawing, NoCall, TypeOK
    <2>5. /\ pending'[n] = NoPending
          /\ \A m \in Natives \ {n} : pending'[m] = pending[m]
      BY <1>1 DEF Prepare, TypeOK
    <2>6. Slot(n, nextId') \notin gone
      <3>1. Slot(n, nextId') \in Record
        BY <2>1 DEF Slot, Record
      <3>2. ~(nextId + 1 <= nextId)
        BY DEF TypeOK
      <3> QED BY <2>1, <3>1, <3>2 DEF Dead, Slot
    <2>7. OwnRecord(n)'
      BY <2>1, <2>4, <2>5, <2>6 DEF OwnRecord, Drawing, Checking
    <2>8. /\ dir' = dir /\ records' \subseteq records
          /\ \A rec \in records \ records' : rec.owner = n
      BY <1>1 DEF Prepare, Unpublish, slot
    <2>9. \A m \in Natives \cup Installers, id \in Nat :
             m # n /\ Slot(m, id) \in records => Slot(m, id) \in records'
      BY <2>8 DEF Slot
    <2>10. \A i \in Installers : i # n
      OBVIOUS
    <2> QED BY <2>1, <2>3, <2>5, <2>7, <2>8, <2>9, <2>10, SlotsByNative
            DEF TypeOK, Slots
  <1>2. ASSUME NEW n \in Natives, Replaced(n)
        PROVE  Slots'
    BY <1>2 DEF TypeOK, Calls, NativeCall, NodeCall, Dead, Slots, OwnRecord,
       Slot, Drawing, Checking, Record, Replaced, RemoveEmptyDir, Goto,
       slot, work, restart
  <1>3. ASSUME NEW n \in Natives, Recovered(n)
        PROVE  Slots'
    BY <1>3 DEF TypeOK, Calls, NativeCall, NodeCall, Dead, Slots, OwnRecord,
       Slot, Drawing, Checking, Record, Recovered, RemoveEmptyDir, Goto,
       slot, work, restart
  <1>4. ASSUME NEW n \in Natives, ListReaders(n)
        PROVE  Slots'
    BY <1>4 DEF TypeOK, Calls, NativeCall, NodeCall, Dead, Slots, OwnRecord,
       Slot, Drawing, Checking, Record, ListReaders, Goto, slot, work,
       restart
  <1>5. ASSUME NEW n \in Natives, ReapReader(n)
        PROVE  Slots'
    BY <1>5 DEF TypeOK, Calls, NativeCall, NodeCall, Dead, Slots, OwnRecord,
       Slot, Drawing, Checking, Record, ReapReader, Goto, slot, restart
  <1>6. ASSUME NEW n \in Natives, Refused(n)
        PROVE  Slots'
    BY <1>6 DEF TypeOK, Calls, NativeCall, NodeCall, Dead, Slots, OwnRecord,
       Slot, Drawing, Checking, Record, Refused, RemoveEmptyDir, Finish,
       NoCall, Goto, slot, work, restart
  <1>7. ASSUME NEW n \in Natives, Cancel(n)
        PROVE  Slots'
    BY <1>7 DEF TypeOK, Calls, NativeCall, NodeCall, Dead, Slots, OwnRecord,
       Slot, Drawing, Checking, Record, Cancel, Unpublish, Goto, slot, work
  <1>8. ASSUME NEW n \in Natives, BeforeRestart(n)
        PROVE  Slots'
    BY <1>8 DEF TypeOK, Calls, NativeCall, NodeCall, Dead, Slots, OwnRecord,
       Slot, Drawing, Checking, Record, BeforeRestart, NoCall, Goto, slot,
       work, restart
  <1>9. ASSUME NEW n \in Natives, RecoverOperations(n)
        PROVE  Slots'
    <2>1. /\ Moves(n) /\ pc'[n] \in {"recovered", "mkdir"}
          /\ dir' = dir /\ records' \subseteq records
          /\ \A m \in Natives, id \in Nat :
                Slot(m, id) \in records \ gone => Slot(m, id) \in records'
          /\ \A i \in Installers, id \in Nat :
                Slot(i, id) \in records /\ i \notin gone => Slot(i, id) \in records'
      BY <1>9, DropStaleKeeps DEF RecoverOperations, Labels
    <2>2. \A i \in Installers : i \in gone => pc[i] = "done"
      BY DEF Dead
    <2>3. UNCHANGED <<gone, pending, nextId, fr>> /\ pc[n] = "recover"
      BY <1>9 DEF RecoverOperations, restart
    <2>4. OwnRecord(n)'
      BY <2>1, <2>3, SlotIds DEF Slots, OwnRecord, Drawing, Checking
    <2> QED BY <2>1, <2>2, <2>3, <2>4, SlotsByNative DEF TypeOK, Slots
  <1>10. ASSUME NEW n \in Natives, MakeSlot(n)
        PROVE  Slots'
    <2>1. \/ Moves(n) /\ pc'[n] = "idle"
          \/ Moves(n) /\ pc'[n] = "write" /\ fr'[n] = fr[n]
      BY <1>10, FinishMoves, GotoMoves DEF MakeSlot, Labels
    <2>2. /\ UNCHANGED <<records, gone, pending, nextId>>
          /\ dir => dir'
          /\ pc[n] = "mkdir"
      BY <1>10 DEF MakeSlot, slot, restart
    <2>3. OwnRecord(n)'
      BY <2>1, <2>2 DEF Slots, OwnRecord, Drawing, Checking
    <2> QED BY <2>1, <2>2, <2>3, SlotsByNative DEF TypeOK, Slots
  <1>11. ASSUME NEW n \in Natives, WriteRecord(n)
        PROVE  Slots'
    <2>1. WriteRecordOutcome(n)
      BY <1>11, WriteRecordMoves
    <2>2. /\ pc[n] = "write" /\ pending[n] = NoPending
          /\ fr[n].id <= nextId /\ Slot(n, fr[n].id) \notin gone
      BY <1>11 DEF WriteRecord, Slots, OwnRecord, Drawing
    <2>3. /\ \A m \in Natives \ {n} : pending'[m] = pending[m]
          /\ pending'[n] = NoPending \/ (pending'[n].id = fr[n].id
                                          /\ Slot(n, fr[n].id) \in records')
      BY <2>1, <2>2 DEF WriteRecordOutcome, Reserve, Publish, TypeOK
    <2>4. /\ records \subseteq records' /\ (records' # {} => dir')
          /\ pc'[n] = "scan" => Slot(n, fr[n].id) \in records'
      BY <2>1 DEF WriteRecordOutcome, Publish, Slots, slot
    <2>5. OwnRecord(n)'
      BY <2>1, <2>2, <2>3, <2>4
      DEF WriteRecordOutcome, OwnRecord, Drawing, Checking
    <2> QED BY <2>1, <2>3, <2>4, <2>5, SlotsByNative DEF WriteRecordOutcome,
       TypeOK
  <1>12. ASSUME NEW n \in Natives, CheckReader(n)
        PROVE  Slots'
    <2>1. CheckReaderOutcome(n)
      BY <1>12, CheckReaderMoves
    <2>2. pc[n] = "check"
      BY <1>12 DEF CheckReader
    <2>3. OwnRecord(n)'
      BY <2>1, <2>2 DEF CheckReaderOutcome, Slots, OwnRecord, Drawing,
         Checking,
         slot, restart
    <2> QED BY <2>1, <2>3, SlotsByNative
            DEF CheckReaderOutcome, TypeOK, Slots, slot, restart
  <1>13. ASSUME NEW n \in Natives, Prepared(n)
        PROVE  Slots'
    <2>1. /\ pc[n] = "check" /\ fr[n].ret = "prepared"
          /\ UNCHANGED <<gone, nextId>>
          /\ \A m \in Natives \ {n} : pending'[m] = pending[m]
      BY <1>13 DEF Prepared, Reserve, TypeOK
    <2>2. /\ pending[n] = NoPending
          /\ Slot(n, fr[n].id) \in records \ gone
      BY <2>1 DEF Slots, OwnRecord, Checking
    <2>3. CASE fr[n].held
      <3>1. Moves(n) /\ pc'[n] = "refused"
        BY <1>13, <2>3, GotoMoves DEF Prepared, Labels
      <3>2. /\ dir' = dir /\ pending' = pending
            /\ \A rec \in records \ records' : rec.owner = n
            /\ records' \subseteq records
        BY <1>13, <2>3 DEF Prepared, Unpublish, Own
      <3>3. \A m \in Natives \cup Installers, id \in Nat :
               m # n /\ Slot(m, id) \in records => Slot(m, id) \in records'
        BY <3>2 DEF Slot
      <3>4. OwnRecord(n)'
        BY <2>2, <3>1, <3>2 DEF OwnRecord, Drawing, Checking
      <3>5. \A i \in Installers : i # n
        OBVIOUS
      <3> QED BY <2>1, <3>1, <3>2, <3>3, <3>4, <3>5, SlotsByNative DEF TypeOK,
         Slots
    <2>4. CASE ~fr[n].held
      <3>1. Moves(n) /\ pc'[n] = "idle" /\ UNCHANGED slot
        BY <1>13, <2>4, FinishMoves DEF Prepared
      <3>2. pending'[n].id = fr[n].id
        BY <1>13, <2>4 DEF Prepared, Reserve, TypeOK
      <3>3. OwnRecord(n)'
        BY <2>1, <2>2, <3>1, <3>2 DEF OwnRecord, Drawing, Checking, slot
      <3> QED BY <2>1, <3>1, <3>3, SlotsByNative DEF TypeOK, Slots, slot
    <2> QED BY <2>3, <2>4
  <1>14. ASSUME NEW n \in Natives, Late(n)
        PROVE  Slots'
    <2>1. CommitOutcome(n) /\ UNCHANGED <<pc, fr>>
      BY <1>14, LateMoves
    <2>2. ASSUME NEW m \in Natives PROVE OwnRecord(m)'
      BY <2>1, PendingAssumption DEF CommitOutcome, Slots, OwnRecord, slot
    <2> QED BY <2>1, <2>2 DEF CommitOutcome, Slots, slot
  <1>15. ASSUME NEW n \in Natives, InspectWork(n)
        PROVE  Slots'
    <2>1. InspectWorkOutcome(n)
      BY <1>15, InspectWorkMoves
    <2>2. OwnRecord(n)'
      BY <2>1 DEF InspectWorkOutcome, Slots, OwnRecord, Drawing, Checking,
         slot, restart
    <2> QED BY <2>1, <2>2, SlotsByNative
            DEF InspectWorkOutcome, TypeOK, Slots, slot, restart
  <1>16. ASSUME NEW n \in Natives, Recheck(n)
        PROVE  Slots'
    <2>1. Moves(n) /\ (pc'[n] = "idle" \/ (pc'[n] = "commit" /\ fr'[n] = fr[n]))
      BY <1>16, FinishMoves, GotoMoves DEF Recheck, Labels
    <2>2. UNCHANGED <<slot, gone, restart>>
      BY <1>16 DEF Recheck
    <2>3. OwnRecord(n)'
      BY <2>1, <2>2 DEF Slots, OwnRecord, Drawing, Checking, slot, restart
    <2> QED BY <2>1, <2>2, <2>3, SlotsByNative DEF TypeOK, Slots, slot, restart
  <1>17. ASSUME NEW n \in Natives, Commit(n)
        PROVE  Slots'
    <2>1. CommitOutcome(n) /\ Moves(n) /\ pc'[n] = "idle"
      BY <1>17, CommitMoves
    <2>2. OwnRecord(n)'
      BY <2>1, PendingAssumption
      DEF CommitOutcome, Slots, OwnRecord, Drawing, Checking, slot
    <2> QED BY <2>1, <2>2, SlotsByNative DEF CommitOutcome, TypeOK, Slots, slot
  <1>18. ASSUME NEW n \in Natives, EndNative(n)
        PROVE  Slots'
    BY <1>18 DEF TypeOK, Calls, NativeCall, NodeCall, Dead, Slots,
       OwnRecord, Slot, Drawing, Checking, Record, EndNative, Finish,
       NoCall, Goto, slot, work
  <1>19. ASSUME NEW t \in Nodes, SlotExists(t)
        PROVE  Slots'
    <2>1. SlotExistsOutcome(t)
      BY <1>19, SlotExistsMoves
    <2>2. ASSUME NEW i \in Installers, pc'[i] \in {"lock", "installing", "settle"}
          PROVE  pc[i] \in {"lock", "installing", "settle"}
      BY <1>19, <2>1, <2>2 DEF SlotExists, SlotExistsOutcome, Moves, Calls,
         NodeCall, Looking
    <2> QED BY <2>1, <2>2, SlotsByNode DEF SlotExistsOutcome, slot, restart
  <1>20. ASSUME NEW t \in Nodes, NodeRecover(t)
        PROVE  Slots'
    <2>1. /\ Moves(t) /\ pc'[t] \in {"nodeRecovered", "nodeRead"}
          /\ dir' = dir /\ records' \subseteq records
          /\ \A m \in Natives, id \in Nat :
                Slot(m, id) \in records \ gone => Slot(m, id) \in records'
          /\ \A i \in Installers, id \in Nat :
                Slot(i, id) \in records /\ i \notin gone => Slot(i, id) \in records'
      BY <1>20, DropStaleKeeps DEF NodeRecover, Labels
    <2>2. \A i \in Installers : i \in gone => pc[i] = "done"
      BY DEF Dead
    <2>3. UNCHANGED <<gone, pending, nextId>> /\ pc[t] = "nodeRecover"
      BY <1>20 DEF NodeRecover, restart
    <2>4. ASSUME NEW i \in Installers, pc'[i] \in {"lock", "installing", "settle"}
          PROVE  /\ pc[i] \in {"lock", "installing", "settle"}
                 /\ Slot(i, 0) \in records => Slot(i, 0) \in records'
      BY <2>1, <2>2, <2>4 DEF Moves
    <2> QED BY <2>1, <2>3, <2>4, SlotsByNode
  <1>21. ASSUME NEW t \in Nodes, NodeRecovered(t)
        PROVE  Slots'
    BY <1>21 DEF TypeOK, Calls, NativeCall, NodeCall, Dead, Slots,
       OwnRecord, Slot, Drawing, Checking, Record, NodeRecovered,
       RemoveEmptyDir, Goto, slot, work, restart
  <1>22. ASSUME NEW t \in Nodes, NodeRead(t)
        PROVE  Slots'
    <2>1. NodeReadOutcome(t)
      BY <1>22, NodeReadMoves
    <2>2. ASSUME NEW i \in Installers, pc'[i] \in {"lock", "installing", "settle"}
          PROVE  pc[i] \in {"lock", "installing", "settle"}
      BY <1>22, <2>1, <2>2 DEF NodeRead, NodeReadOutcome, Moves, Calls,
         NodeCall, Looking
    <2> QED BY <2>1, <2>2, SlotsByNode DEF NodeReadOutcome, slot, restart
  <1>23. ASSUME NEW l \in Launches,
               ReserveLaunch(l) \/ OpenReader(l) \/
               WritePid(l) \/ ReleaseReader(l) \/
               FinishWork(l) \/ GraceOver(l)
        PROVE  Slots'
    BY <1>23 DEF TypeOK, Calls, NativeCall, NodeCall, Dead, Slots,
       OwnRecord, Slot, Drawing, Checking, Record, ReserveLaunch, Inspect,
       OpenReader, RefuseLaunch, StaleReader, WritePid, ReleaseReader,
       FinishWork, GraceOver, Goto, slot, work, restart
  <1>24. ASSUME NEW l \in Launches, Reserved(l)
        PROVE  Slots'
    <2>1. ReservedOutcome(l)
      BY <1>24, ReservedMoves
    <2>2. ASSUME NEW i \in Installers, pc'[i] \in {"lock", "installing", "settle"}
          PROVE  pc[i] \in {"lock", "installing", "settle"}
      BY <1>24, <2>1, <2>2 DEF Reserved, ReservedOutcome, Moves, Calls,
         NodeCall, Looking
    <2> QED BY <2>1, <2>2, SlotsByNode DEF ReservedOutcome, slot, restart
  <1>25. ASSUME NEW l \in Launches, StillLinked(l)
        PROVE  Slots'
    <2>1. StillLinkedOutcome(l)
      BY <1>25, StillLinkedMoves
    <2>2. ASSUME NEW i \in Installers, pc'[i] \in {"lock", "installing", "settle"}
          PROVE  pc[i] \in {"lock", "installing", "settle"}
      BY <1>25, <2>1, <2>2 DEF StillLinked, StillLinkedOutcome, Moves, Calls,
         NodeCall, Looking
    <2> QED BY <2>1, <2>2, SlotsByNode DEF StillLinkedOutcome, slot, restart
  <1>26. ASSUME NEW l \in Launches, Bound(l)
        PROVE  Slots'
    <2>1. BoundOutcome(l)
      BY <1>26, BoundMoves
    <2>2. ASSUME NEW i \in Installers, pc'[i] \in {"lock", "installing", "settle"}
          PROVE  pc[i] \in {"lock", "installing", "settle"}
      BY <1>26, <2>1, <2>2 DEF Bound, BoundOutcome, Moves, Calls, NodeCall,
         Looking
    <2> QED BY <2>1, <2>2, SlotsByNode DEF BoundOutcome, slot, restart
  <1>27. ASSUME NEW i \in Installers,
               BeginInstall(i) \/ ClaimSlot(i) \/
               WriteOperation(i) \/ TakeLock(i) \/
               FinishInstall(i) \/ ReleaseOperation(i) \/
               Settled(i)
        PROVE  Slots'
    BY <1>27 DEF TypeOK, Calls, NativeCall, NodeCall, Dead, Slots,
       OwnRecord, Slot, Drawing, Checking, Record, BeginInstall, Inspect,
       ClaimSlot, WriteOperation, Publish, TakeLock, FinishInstall,
       ReleaseOperation, Unpublish, Settled, RemoveEmptyDir, Goto, slot,
       work, restart
  <1>28. ASSUME NEW o \in Observers,
               Observe(o) \/ ListWorkLaunches(o)
        PROVE  Slots'
    BY <1>28 DEF TypeOK, Calls, NativeCall, NodeCall, Dead, Slots,
       OwnRecord, Slot, Drawing, Checking, Record, Observe, Inspect,
       ListWorkLaunches, Finish, NoCall, Goto, slot, work, restart
  <1>29. ASSUME NEW r \in Readers, NodeDies(r)
        PROVE  Slots'
    <2>1. /\ Moves(r) /\ pc'[r] = "done"
      <3>1. pc' \in [Threads -> Labels] /\ fr' \in [Threads -> Frame]
        BY <1>29, TypeStep DEF TypeOK, Next
      <3> QED BY <1>29, <3>1 DEF NodeDies, Goto, Moves, TypeOK
    <2>2. UNCHANGED <<slot, pending, nextId>> /\ gone' = gone \cup {r}
      BY <1>29 DEF NodeDies, restart
    <2>3. r \notin Record
      OBVIOUS
    <2>4. ASSUME NEW m \in Natives PROVE OwnRecord(m)'
      <3>1. pc'[m] = pc[m] /\ fr'[m] = fr[m]
        BY <2>1 DEF Moves
      <3>2. \A id \in Nat : Slot(m, id) \in Record
        BY DEF Slot, Record
      <3>3. \A id \in Nat : Slot(m, id) \in gone' => Slot(m, id) \in gone
        BY <2>2, <2>3, <3>2
      <3>4. nextId' \in Nat /\ nextId <= nextId'
        BY <2>2 DEF TypeOK
      <3> QED BY <2>2, <3>1, <3>3, <3>4, OwnRecordKept DEF Slots, slot
    <2>5. \A i \in Installers : pc'[i] = pc[i] \/ pc'[i] = "done"
      BY <2>1 DEF Moves
    <2> QED BY <2>2, <2>4, <2>5 DEF Slots, slot
  <1>30. ASSUME SlotAges
        PROVE  Slots'
    BY <1>30 DEF TypeOK, Calls, NativeCall, NodeCall, Dead, Slots,
       OwnRecord, Slot, Drawing, Checking, Record, SlotAges, slot, work,
       restart
  <1> QED
    BY <1>1, <1>2, <1>3, <1>4, <1>5, <1>6, <1>7, <1>8, <1>9, <1>10, <1>11,
       <1>12, <1>13, <1>14, <1>15, <1>16, <1>17, <1>18, <1>19, <1>20,
       <1>21, <1>22, <1>23, <1>24, <1>25, <1>26, <1>27, <1>28, <1>29,
       <1>30
    DEF Next, NativeStep, LaunchStep, InstallStep, ObserverStep, InspectStep

\* Every step keeps the readers and their bindings.
LEMMA BindingStep ==
  ASSUME TypeOK, Calls, Dead, Slots, Binding, Judged, Next
  PROVE  Binding'
  <1> USE ThreadKinds, NativeIsNoNode, AdmissionAssumption, ThreadAssumption
  <1>1. ASSUME NEW n \in Natives, NEW force \in BOOLEAN, Prepare(n, force)
        PROVE  Binding'
    BY <1>1 DEF TypeOK, Calls, NodeCall, Dead, Binding, BindingOf, Second,
       Linked, Judged, Judges, Doomed, Looking, Prepare, Unpublish, Goto,
       slot, work
  <1>2. ASSUME NEW n \in Natives,
               Replaced(n) \/ RecoverOperations(n) \/
               Recovered(n) \/ MakeSlot(n) \/ ListReaders(n)
               \/ ReapReader(n) \/ Prepared(n)
        PROVE  Binding'
    BY <1>2 DEF TypeOK, Calls, NodeCall, Dead, Binding, BindingOf, Second,
       Linked, Judged, Judges, Doomed, Looking, Replaced, RemoveEmptyDir,
       RecoverOperations, DropStale, StaleRecord, Unpublish, Recovered,
       MakeSlot, Finish, NoCall, ListReaders, ReapReader, Prepared, Reserve,
       Own, Goto, slot, work, restart
  <1>3. ASSUME NEW n \in Natives, WriteRecord(n)
        PROVE  Binding'
    <2>1. WriteRecordOutcome(n)
      BY <1>3, WriteRecordMoves
    <2> QED BY <2>1, BindingKept DEF WriteRecordOutcome, work
  <1>4. ASSUME NEW n \in Natives, CheckReader(n)
        PROVE  Binding'
    <2>1. CheckReaderOutcome(n)
      BY <1>4, CheckReaderMoves
    <2> QED BY <2>1, BindingKept DEF CheckReaderOutcome, work
  <1>5. ASSUME NEW n \in Natives,
               Refused(n) \/ Cancel(n) \/ BeforeRestart(n) \/
               Recheck(n) \/ EndNative(n)
        PROVE  Binding'
    BY <1>5 DEF TypeOK, Calls, NodeCall, Dead, Binding, BindingOf, Second,
       Linked, Judged, Judges, Doomed, Looking, Refused, RemoveEmptyDir,
       Finish, NoCall, Cancel, Unpublish, BeforeRestart, Recheck, EndNative,
       Goto, slot, work, restart
  <1>6. ASSUME NEW n \in Natives, Late(n)
        PROVE  Binding'
    <2>1. CommitOutcome(n) /\ UNCHANGED <<pc, fr>>
      BY <1>6, LateMoves
    <2> QED BY <2>1 DEF TypeOK, Calls, NodeCall, Dead, Binding, BindingOf,
       Second,
       Linked, Judged, Judges, Doomed, Looking, CommitOutcome, slot, work
  <1>7. ASSUME NEW n \in Natives, InspectWork(n)
        PROVE  Binding'
    <2>1. InspectWorkOutcome(n)
      BY <1>7, InspectWorkMoves
    <2> QED BY <2>1, BindingKept DEF InspectWorkOutcome, work
  <1>8. ASSUME NEW n \in Natives, Commit(n)
        PROVE  Binding'
    <2>1. CommitOutcome(n) /\ Moves(n)
      BY <1>8, CommitMoves
    <2> QED BY <2>1, BindingKept DEF CommitOutcome, work
  <1>9. ASSUME NEW t \in Nodes, SlotExists(t)
        PROVE  Binding'
    <2>1. SlotExistsOutcome(t)
      BY <1>9, SlotExistsMoves
    <2>2. t \in Launches => BindingOf(t)'
      BY <1>9, <2>1 DEF SlotExists, SlotExistsOutcome, Calls, NodeCall,
         Binding, BindingOf, Linked,
         Second, Looking, TypeOK, work
    <2>3. \A l2 \in Launches \ {t} : reader'[l2] = reader[l2]
      BY <2>1 DEF SlotExistsOutcome, TypeOK, work
    <2> QED BY <2>1, <2>2, <2>3, BindingKept DEF SlotExistsOutcome
  <1>10. ASSUME NEW t \in Nodes,
               NodeRecover(t) \/ NodeRecovered(t)
        PROVE  Binding'
    BY <1>10 DEF TypeOK, Calls, NodeCall, Dead, Binding, BindingOf, Second,
       Linked, Judged, Judges, Doomed, Looking, NodeRecover, DropStale,
       StaleRecord, Unpublish, NodeRecovered, RemoveEmptyDir, Goto, slot,
       work, restart
  <1>11. ASSUME NEW t \in Nodes, NodeRead(t)
        PROVE  Binding'
    <2>1. NodeReadOutcome(t)
      BY <1>11, NodeReadMoves
    <2>2. t \in Launches => BindingOf(t)'
      BY <1>11, <2>1 DEF NodeRead, NodeReadOutcome, Calls, NodeCall, Binding,
         BindingOf, Linked,
         Second, Looking, TypeOK, work
    <2>3. \A l2 \in Launches \ {t} : reader'[l2] = reader[l2]
      BY <2>1 DEF NodeReadOutcome, TypeOK, work
    <2> QED BY <2>1, <2>2, <2>3, BindingKept DEF NodeReadOutcome
  <1>12. ASSUME NEW l \in Launches, ReserveLaunch(l)
        PROVE  Binding'
    BY <1>12 DEF TypeOK, Calls, NodeCall, Dead, Binding, BindingOf, Second,
       Linked, Judged, Judges, Doomed, Looking, ReserveLaunch, Inspect,
       Goto, slot, restart
  <1>13. ASSUME NEW l \in Launches,
               OpenReader(l) \/ WritePid(l)
        PROVE  Binding'
    BY <1>13 DEF TypeOK, Calls, NodeCall, Dead, Binding, BindingOf, Second,
       Linked, Judged, Judges, Doomed, Looking, OpenReader, RefuseLaunch,
       StaleReader, WritePid, Goto, slot, work, restart
  <1>14. ASSUME NEW l \in Launches,
               ReleaseReader(l) \/ FinishWork(l) \/
               GraceOver(l)
        PROVE  Binding'
    BY <1>14 DEF TypeOK, Calls, NodeCall, Dead, Binding, BindingOf, Second,
       Linked, Judged, Judges, Doomed, Looking, ReleaseReader, FinishWork,
       GraceOver, Goto, slot, work, restart
  <1>15. ASSUME NEW l \in Launches, Reserved(l)
        PROVE  Binding'
    <2>1. ReservedOutcome(l)
      BY <1>15, ReservedMoves
    <2>2. BindingOf(l)'
      BY <1>15, <2>1 DEF Reserved, ReservedOutcome, Calls, NodeCall, Binding,
         BindingOf, Linked,
         Second, Looking, TypeOK, work
    <2>3. \A l2 \in Launches \ {l} : reader'[l2] = reader[l2]
      BY <2>1 DEF ReservedOutcome, TypeOK, work
    <2> QED BY <2>1, <2>2, <2>3, BindingKept DEF ReservedOutcome
  <1>16. ASSUME NEW l \in Launches, StillLinked(l)
        PROVE  Binding'
    <2>1. StillLinkedOutcome(l)
      BY <1>16, StillLinkedMoves
    <2>2. BindingOf(l)'
      BY <1>16, <2>1 DEF StillLinked, StillLinkedOutcome, Calls, NodeCall,
         Binding, BindingOf, Linked,
         Second, Looking, TypeOK, work
    <2>3. \A l2 \in Launches \ {l} : reader'[l2] = reader[l2]
      BY <2>1 DEF StillLinkedOutcome, TypeOK, work
    <2> QED BY <2>1, <2>2, <2>3, BindingKept DEF StillLinkedOutcome
  <1>17. ASSUME NEW l \in Launches, Bound(l)
        PROVE  Binding'
    <2>1. BoundOutcome(l)
      BY <1>17, BoundMoves
    <2>2. BindingOf(l)'
      BY <1>17, <2>1 DEF Bound, BoundOutcome, Calls, NodeCall, Binding,
         BindingOf, Linked,
         Second, Looking, TypeOK, work
    <2>3. \A l2 \in Launches \ {l} : reader'[l2] = reader[l2]
      BY <2>1 DEF BoundOutcome, TypeOK, work
    <2> QED BY <2>1, <2>2, <2>3, BindingKept DEF BoundOutcome
  <1>18. ASSUME NEW i \in Installers,
               BeginInstall(i) \/ ClaimSlot(i) \/
               WriteOperation(i) \/ TakeLock(i) \/
               FinishInstall(i) \/ ReleaseOperation(i) \/
               Settled(i)
        PROVE  Binding'
    BY <1>18 DEF TypeOK, Calls, NodeCall, Dead, Binding, BindingOf, Second,
       Linked, Judged, Judges, Doomed, Looking, BeginInstall, Inspect,
       ClaimSlot, WriteOperation, Publish, TakeLock, FinishInstall,
       ReleaseOperation, Unpublish, Settled, RemoveEmptyDir, Goto, slot,
       work, restart
  <1>19. ASSUME NEW o \in Observers,
               Observe(o) \/ ListWorkLaunches(o)
        PROVE  Binding'
    BY <1>19 DEF TypeOK, Calls, NodeCall, Dead, Binding, BindingOf, Second,
       Linked, Judged, Judges, Doomed, Looking, Observe, Inspect,
       ListWorkLaunches, Finish, NoCall, Goto, slot, work, restart
  <1>20. ASSUME NEW r \in Readers, NodeDies(r)
        PROVE  Binding'
    BY <1>20 DEF TypeOK, Calls, NodeCall, Dead, Binding, BindingOf, Second,
       Linked, Judged, Judges, Doomed, Looking, NodeDies, NoCall, Goto,
       slot, work, restart
  <1>21. ASSUME SlotAges
        PROVE  Binding'
    BY <1>21 DEF TypeOK, Calls, NodeCall, Dead, Binding, BindingOf, Second,
       Linked, Judged, Judges, Doomed, Looking, SlotAges, slot, work,
       restart
  <1> QED
    BY <1>1, <1>2, <1>3, <1>4, <1>5, <1>6, <1>7, <1>8, <1>9, <1>10, <1>11,
       <1>12, <1>13, <1>14, <1>15, <1>16, <1>17, <1>18, <1>19, <1>20,
       <1>21
    DEF Next, NativeStep, LaunchStep, InstallStep, ObserverStep, InspectStep

\* Every step keeps the judgements.
LEMMA JudgedStep ==
  ASSUME TypeOK, Calls, Dead, Slots, Binding, Judged, Next
  PROVE  Judged'
  <1> USE ThreadKinds, NativeIsNoNode, AdmissionAssumption, ThreadAssumption
  <1>1. ASSUME NEW n \in Natives, NEW force \in BOOLEAN, Prepare(n, force)
        PROVE  Judged'
    BY <1>1 DEF TypeOK, Calls, NativeCall, NodeCall, Dead, Slots, OwnRecord,
       Binding, BindingOf, Second, Linked, Judged, Judges, Doomed, Looking,
       Checking, Prepare, Unpublish, Goto, slot, work
  <1>2. ASSUME NEW n \in Natives,
               Replaced(n) \/ RecoverOperations(n) \/
               Recovered(n)
        PROVE  Judged'
    BY <1>2 DEF TypeOK, Calls, NativeCall, NodeCall, Dead, Slots, OwnRecord,
       Binding, BindingOf, Second, Linked, Judged, Judges, Doomed, Looking,
       Checking, Replaced, RemoveEmptyDir, RecoverOperations, DropStale,
       StaleRecord, Unpublish, Recovered, Goto, slot, work, restart
  <1>3. ASSUME NEW n \in Natives, MakeSlot(n)
        PROVE  Judged'
    BY <1>3 DEF TypeOK, Calls, NativeCall, NodeCall, Dead, Slots, OwnRecord,
       Binding, BindingOf, Second, Linked, Judged, Judges, Doomed, Looking,
       Checking, MakeSlot, Finish, NoCall, Goto, slot, work, restart
  <1>4. ASSUME NEW n \in Natives, ListReaders(n)
        PROVE  Judged'
    BY <1>4 DEF TypeOK, Calls, NativeCall, NodeCall, Dead, Slots, OwnRecord,
       Binding, BindingOf, Second, Linked, Judged, Judges, Doomed, Looking,
       Checking, ListReaders, Goto, slot, work, restart
  <1>5. ASSUME NEW n \in Natives, ReapReader(n)
        PROVE  Judged'
    BY <1>5 DEF TypeOK, Calls, NativeCall, NodeCall, Dead, Slots, OwnRecord,
       Binding, BindingOf, Second, Linked, Judged, Judges, Doomed, Looking,
       Checking, ReapReader, Goto, slot, restart
  <1>6. ASSUME NEW n \in Natives, Prepared(n)
        PROVE  Judged'
    BY <1>6 DEF TypeOK, Calls, NativeCall, NodeCall, Dead, Slots, OwnRecord,
       Binding, BindingOf, Second, Linked, Judged, Judges, Doomed, Looking,
       Checking, Prepared, Unpublish, Reserve, Finish, NoCall, Own, Goto,
       slot, work
  <1>7. ASSUME NEW n \in Natives, WriteRecord(n)
        PROVE  Judged'
    <2>1. WriteRecordOutcome(n)
      BY <1>7, WriteRecordMoves
    <2> QED BY <2>1, JudgedByNative DEF WriteRecordOutcome, Judges, work
  <1>8. ASSUME NEW n \in Natives, CheckReader(n)
        PROVE  Judged'
    <2>1. CheckReaderOutcome(n)
      BY <1>8, CheckReaderMoves
    <2>2. ASSUME NEW l \in Launches PROVE Judges(n, l)'
      <3>1. pc'[l] = pc[l] /\ fr'[l] = fr[l] /\ reader'[l] = reader[l]
                /\ overdue' = overdue
        BY <2>1 DEF CheckReaderOutcome, Moves, work
      <3>2. l \in fr[n].todo => pc[l] # "idle"
        BY <1>8 DEF CheckReader, Judged, Judges
      <3>3. StaleReader(l) => pc[l] = "done" \/ (reader[l] = "unbound" /\ l \in overdue)
        BY DEF StaleReader, Dead
      <3> QED BY <2>1, <3>1, <3>2, <3>3
              DEF CheckReaderOutcome, Judges, Doomed, Linked
    <2> QED BY <2>1, <2>2, JudgedByNative DEF CheckReaderOutcome, work
  <1>9. ASSUME NEW n \in Natives,
               Refused(n) \/ Cancel(n) \/ BeforeRestart(n) \/
               Recheck(n) \/ EndNative(n)
        PROVE  Judged'
    BY <1>9 DEF TypeOK, Calls, NativeCall, NodeCall, Dead, Slots, OwnRecord,
       Binding, BindingOf, Second, Linked, Judged, Judges, Doomed, Looking,
       Checking, Refused, RemoveEmptyDir, Finish, NoCall, Cancel, Unpublish,
       BeforeRestart, Recheck, EndNative, Goto, slot, work, restart
  <1>10. ASSUME NEW n \in Natives, Late(n)
        PROVE  Judged'
    <2>1. CommitOutcome(n) /\ UNCHANGED <<pc, fr>>
      BY <1>10, LateMoves
    <2> QED BY <2>1 DEF TypeOK, Calls, NativeCall, NodeCall, Dead, Slots,
       OwnRecord,
       Binding, BindingOf, Second, Linked, Judged, Judges, Doomed, Looking,
       Checking, CommitOutcome, slot, work
  <1>11. ASSUME NEW n \in Natives, InspectWork(n)
        PROVE  Judged'
    <2>1. InspectWorkOutcome(n)
      BY <1>11, InspectWorkMoves
    <2> QED BY <2>1, JudgedByNative DEF InspectWorkOutcome, Judges, work
  <1>12. ASSUME NEW n \in Natives, Commit(n)
        PROVE  Judged'
    <2>1. CommitOutcome(n) /\ Moves(n) /\ pc'[n] = "idle"
      BY <1>12, CommitMoves
    <2> QED BY <2>1, JudgedByNative DEF CommitOutcome, Judges, work
  <1>13. ASSUME NEW t \in Nodes, SlotExists(t)
        PROVE  Judged'
    <2>1. SlotExistsOutcome(t)
      BY <1>13, SlotExistsMoves
    <2>3. \A l \in Launches : reader'[l] = reader[l]
      BY <2>1 DEF SlotExistsOutcome, TypeOK, work
    <2>4. CASE t \in Launches
      <3>1. Doomed(t) /\ dir => Doomed(t)'
        BY <1>13, <2>1, <2>4 DEF SlotExists, SlotExistsOutcome, Calls,
           NodeCall, Binding, BindingOf,
           Doomed, Linked, Looking, TypeOK, work
      <3>2. pc'[t] # "idle"
        BY <1>13, <2>1 DEF SlotExists, SlotExistsOutcome, Calls, NodeCall,
           Looking
      <3> QED BY <2>1, <2>3, <2>4, <3>1, <3>2, JudgedByLaunch DEF
         SlotExistsOutcome, work
    <2>5. CASE t \notin Launches
      BY <2>1, <2>3, <2>5, NativeIsNoNode
      DEF Judged, Judges, Doomed, Linked, SlotExistsOutcome, Moves, work
    <2> QED BY <2>4, <2>5
  <1>14. ASSUME NEW t \in Nodes,
               NodeRecover(t) \/ NodeRecovered(t)
        PROVE  Judged'
    BY <1>14 DEF TypeOK, Calls, NativeCall, NodeCall, Dead, Slots,
       OwnRecord, Binding, BindingOf, Second, Linked, Judged, Judges,
       Doomed, Looking, Checking, NodeRecover, DropStale, StaleRecord,
       Unpublish, NodeRecovered, RemoveEmptyDir, Goto, slot, work, restart
  <1>15. ASSUME NEW t \in Nodes, NodeRead(t)
        PROVE  Judged'
    <2>1. NodeReadOutcome(t)
      BY <1>15, NodeReadMoves
    <2>3. \A l \in Launches : reader'[l] = reader[l]
      BY <2>1 DEF NodeReadOutcome, TypeOK, work
    <2>4. CASE t \in Launches
      <3>1. Doomed(t) /\ dir => Doomed(t)'
        BY <1>15, <2>1, <2>4 DEF NodeRead, NodeReadOutcome, Calls, NodeCall,
           Binding, BindingOf,
           Doomed, Linked, Looking, TypeOK, work
      <3>2. pc'[t] # "idle"
        BY <1>15, <2>1 DEF NodeRead, NodeReadOutcome, Calls, NodeCall, Looking
      <3> QED BY <2>1, <2>3, <2>4, <3>1, <3>2, JudgedByLaunch DEF
         NodeReadOutcome, work
    <2>5. CASE t \notin Launches
      BY <2>1, <2>3, <2>5, NativeIsNoNode
      DEF Judged, Judges, Doomed, Linked, NodeReadOutcome, Moves, work
    <2> QED BY <2>4, <2>5
  <1>16. ASSUME NEW l \in Launches,
               ReserveLaunch(l) \/ OpenReader(l) \/
               WritePid(l) \/ ReleaseReader(l) \/
               FinishWork(l) \/ GraceOver(l)
        PROVE  Judged'
    BY <1>16 DEF TypeOK, Calls, NativeCall, NodeCall, Dead, Slots,
       OwnRecord, Binding, BindingOf, Second, Linked, Judged, Judges,
       Doomed, Looking, Checking, ReserveLaunch, Inspect, OpenReader,
       RefuseLaunch, StaleReader, WritePid, ReleaseReader, FinishWork,
       GraceOver, Goto, slot, work, restart
  <1>17. ASSUME NEW l \in Launches, Reserved(l)
        PROVE  Judged'
    <2>1. ReservedOutcome(l)
      BY <1>17, ReservedMoves
    <2>2. Doomed(l) /\ dir => Doomed(l)'
      BY <1>17, <2>1 DEF Reserved, ReservedOutcome, Binding, BindingOf,
         Doomed, Linked, Looking,
         work
    <2> QED BY <2>1, <2>2, JudgedByLaunch DEF ReservedOutcome, work
  <1>18. ASSUME NEW l \in Launches, StillLinked(l)
        PROVE  Judged'
    <2>1. StillLinkedOutcome(l)
      BY <1>18, StillLinkedMoves
    <2>2. Doomed(l) /\ dir => Doomed(l)'
      BY <1>18, <2>1 DEF StillLinked, StillLinkedOutcome, Binding, BindingOf,
         Doomed, Linked, Looking,
         work
    <2> QED BY <2>1, <2>2, JudgedByLaunch DEF StillLinkedOutcome, work
  <1>19. ASSUME NEW l \in Launches, Bound(l)
        PROVE  Judged'
    <2>1. BoundOutcome(l)
      BY <1>19, BoundMoves
    <2>2. Doomed(l) /\ dir => Doomed(l)'
      BY <1>19, <2>1 DEF Bound, BoundOutcome, Binding, BindingOf, Doomed,
         Linked, Looking,
         work
    <2> QED BY <2>1, <2>2, JudgedByLaunch DEF BoundOutcome, work
  <1>20. ASSUME NEW i \in Installers,
               BeginInstall(i) \/ ClaimSlot(i) \/
               WriteOperation(i) \/ TakeLock(i) \/
               FinishInstall(i) \/ ReleaseOperation(i) \/
               Settled(i)
        PROVE  Judged'
    BY <1>20 DEF TypeOK, Calls, NativeCall, NodeCall, Dead, Slots,
       OwnRecord, Binding, BindingOf, Second, Linked, Judged, Judges,
       Doomed, Looking, Checking, BeginInstall, Inspect, ClaimSlot,
       WriteOperation, Publish, TakeLock, FinishInstall, ReleaseOperation,
       Unpublish, Settled, RemoveEmptyDir, Goto, slot, work, restart
  <1>21. ASSUME NEW o \in Observers,
               Observe(o) \/ ListWorkLaunches(o)
        PROVE  Judged'
    BY <1>21 DEF TypeOK, Calls, NativeCall, NodeCall, Dead, Slots,
       OwnRecord, Binding, BindingOf, Second, Linked, Judged, Judges,
       Doomed, Looking, Checking, Observe, Inspect, ListWorkLaunches,
       Finish, NoCall, Goto, slot, work, restart
  <1>22. ASSUME NEW r \in Readers, NodeDies(r)
        PROVE  Judged'
    BY <1>22 DEF TypeOK, Calls, NativeCall, NodeCall, Dead, Slots,
       OwnRecord, Binding, BindingOf, Second, Linked, Judged, Judges,
       Doomed, Looking, Checking, NodeDies, NoCall, Goto, slot, work,
       restart
  <1>23. ASSUME SlotAges
        PROVE  Judged'
    BY <1>23 DEF TypeOK, Calls, NativeCall, NodeCall, Dead, Slots,
       OwnRecord, Binding, BindingOf, Second, Linked, Judged, Judges,
       Doomed, Looking, Checking, SlotAges, slot, work, restart
  <1> QED
    BY <1>1, <1>2, <1>3, <1>4, <1>5, <1>6, <1>7, <1>8, <1>9, <1>10, <1>11,
       <1>12, <1>13, <1>14, <1>15, <1>16, <1>17, <1>18, <1>19, <1>20,
       <1>21, <1>22, <1>23
    DEF Next, NativeStep, LaunchStep, InstallStep, ObserverStep, InspectStep

\* Every step keeps the promises.
LEMMA PromisesStep ==
  ASSUME TypeOK, Calls, Dead, Slots, Binding, Promises, Next
  PROVE  Promises'
  <1> USE ThreadKinds, NativeIsNoNode, AdmissionAssumption, ThreadAssumption
  <1>1. ASSUME NEW n \in Natives, NEW force \in BOOLEAN, Prepare(n, force)
        PROVE  Promises'
    BY <1>1 DEF TypeOK, Calls, NativeCall, NodeCall, Dead, Slots, OwnRecord,
       Binding, BindingOf, Second, Linked, Promises, Promise, Promised, Out,
       Committed, Looking, Checking, Prepare, Unpublish, Goto, slot, work
  <1>2. ASSUME NEW n \in Natives,
               Replaced(n) \/ RecoverOperations(n) \/
               Recovered(n)
        PROVE  Promises'
    BY <1>2 DEF TypeOK, Calls, NativeCall, NodeCall, Dead, Slots, OwnRecord,
       Binding, BindingOf, Second, Linked, Promises, Promise, Promised, Out,
       Committed, Looking, Checking, Replaced, RemoveEmptyDir,
       RecoverOperations, DropStale, StaleRecord, Unpublish, Recovered,
       Goto, slot, work, restart
  <1>3. ASSUME NEW n \in Natives, MakeSlot(n)
        PROVE  Promises'
    BY <1>3 DEF TypeOK, Calls, NativeCall, NodeCall, Dead, Slots, OwnRecord,
       Binding, BindingOf, Second, Linked, Promises, Promise, Promised, Out,
       Committed, Looking, Checking, MakeSlot, Finish, NoCall, Goto, slot,
       work, restart
  <1>4. ASSUME NEW n \in Natives, ListReaders(n)
        PROVE  Promises'
    BY <1>4 DEF TypeOK, Calls, NativeCall, NodeCall, Dead, Slots, OwnRecord,
       Binding, BindingOf, Second, Linked, Promises, Promise, Promised, Out,
       Committed, Looking, Checking, ListReaders, Goto, slot, work, restart
  <1>5. ASSUME NEW n \in Natives, ReapReader(n)
        PROVE  Promises'
    BY <1>5 DEF TypeOK, Calls, NativeCall, NodeCall, Dead, Slots, OwnRecord,
       Binding, BindingOf, Second, Linked, Promises, Promise, Promised, Out,
       Committed, Looking, Checking, ReapReader, Goto, slot, restart
  <1>6. ASSUME NEW n \in Natives, Prepared(n)
        PROVE  Promises'
    BY <1>6 DEF TypeOK, Calls, NativeCall, NodeCall, Dead, Slots, OwnRecord,
       Binding, BindingOf, Second, Linked, Promises, Promise, Promised, Out,
       Committed, Looking, Checking, Prepared, Unpublish, Reserve, Finish,
       NoCall, Own, Goto, slot, work
  <1>7. ASSUME NEW n \in Natives, WriteRecord(n)
        PROVE  Promises'
    <2>1. WriteRecordOutcome(n)
      BY <1>7, WriteRecordMoves
    <2>2. pending[n] = NoPending
      BY <1>7 DEF WriteRecord, Slots, OwnRecord, Drawing
    <2>3. pending'[n] = NoPending \/ ~pending'[n].committed
      BY <2>1, <2>2 DEF WriteRecordOutcome, Reserve, TypeOK
    <2>4. Promise(n)'
      BY <2>1, <2>3
      DEF WriteRecordOutcome, Promise, Promised, Committed, Checking
    <2>5. \A m \in Natives \ {n} : pending'[m] = pending[m]
      BY <2>1 DEF WriteRecordOutcome, Reserve, TypeOK
    <2> QED BY <2>1, <2>4, <2>5, PromisesByNative DEF WriteRecordOutcome
  <1>8. ASSUME NEW n \in Natives, CheckReader(n)
        PROVE  Promises'
    <2>1. CheckReaderOutcome(n)
      BY <1>8, CheckReaderMoves
    <2>2. Promised(n)' => Promised(n)
      BY <1>8, <2>1
      DEF CheckReader, CheckReaderOutcome, Promised, Committed, Checking, restart
    <2>3. \A l \in Rebinding : Out(l) => Out(l)'
      BY <2>1 DEF CheckReaderOutcome, Moves, Out
    <2>4. Promise(n)'
      BY <2>1, <2>2, <2>3 DEF CheckReaderOutcome, Promises, Promise
    <2> QED BY <2>1, <2>4, PromisesByNative DEF CheckReaderOutcome, restart
  <1>9. ASSUME NEW n \in Natives,
               Refused(n) \/ Cancel(n)
        PROVE  Promises'
    BY <1>9 DEF TypeOK, Calls, NativeCall, NodeCall, Dead, Slots, OwnRecord,
       Binding, BindingOf, Second, Linked, Promises, Promise, Promised, Out,
       Committed, Looking, Checking, Refused, RemoveEmptyDir, Finish,
       NoCall, Cancel, Unpublish, Goto, slot, work, restart
  <1>10. ASSUME NEW n \in Natives, BeforeRestart(n)
        PROVE  Promises'
    BY <1>10 DEF TypeOK, Calls, NativeCall, NodeCall, Dead, Slots,
       OwnRecord, Binding, BindingOf, Second, Linked, Promises, Promise,
       Promised, Out, Committed, Looking, Checking, BeforeRestart, NoCall,
       Goto, slot, work, restart
  <1>11. ASSUME NEW n \in Natives,
               Recheck(n) \/ EndNative(n)
        PROVE  Promises'
    BY <1>11 DEF TypeOK, Calls, NativeCall, NodeCall, Dead, Slots,
       OwnRecord, Binding, BindingOf, Second, Linked, Promises, Promise,
       Promised, Out, Committed, Looking, Checking, Recheck, Finish, NoCall,
       EndNative, Goto, slot, work, restart
  <1>12. ASSUME NEW n \in Natives, Late(n)
        PROVE  Promises'
    <2>1. /\ CommitOutcome(n) /\ UNCHANGED <<pc, fr>>
          /\ pending'[n].committed = pending[n].committed
      BY <1>12, LateMoves
    <2>2. ASSUME NEW m \in Natives PROVE Promise(m)'
      BY <2>1, PendingAssumption
      DEF CommitOutcome, Promises, Promise, Promised, Committed, Out
    <2> QED BY <2>2 DEF Promises
  <1>13. ASSUME NEW n \in Natives, InspectWork(n)
        PROVE  Promises'
    <2>1. InspectWorkOutcome(n)
      BY <1>13, InspectWorkMoves
    <2>2. ASSUME IdleWindow(n), NEW l \in Rebinding PROVE Out(l)
      <3>1. l \in Launches /\ BindingOf(l)
        BY DEF Binding
      <3>2. Second(l) => l \in gone
        BY <2>2, <3>1 DEF IdleWindow, StaleReader, BindingOf
      <3>3. l \in gone => pc[l] = "done"
        BY <3>1 DEF Dead
      <3> QED BY <3>1, <3>2, <3>3 DEF BindingOf, Second, Linked, Out, Looking
    <2>3. \A l \in Rebinding : Out(l) => Out(l)'
      BY <2>1 DEF InspectWorkOutcome, Moves, Out
    <2>4. Promise(n)'
      BY <2>1, <2>2, <2>3
      DEF InspectWorkOutcome, Promises, Promise, Promised, Committed, Checking,
          restart
    <2> QED BY <2>1, <2>4, PromisesByNative DEF InspectWorkOutcome, restart
  <1>14. ASSUME NEW n \in Natives, Commit(n)
        PROVE  Promises'
    <2>1. CommitOutcome(n) /\ Moves(n) /\ pc'[n] = "idle"
      BY <1>14, CommitMoves
    <2>2. Promised(n)' => Promised(n)
      BY <1>14, <2>1, PendingAssumption
      DEF Commit, CommitOutcome, Promises, Promise, Promised, Committed, Checking
    <2>3. \A l \in Rebinding : Out(l) => Out(l)'
      BY <2>1 DEF Moves, Out
    <2>4. Promise(n)'
      BY <2>1, <2>2, <2>3 DEF Promises, Promise
    <2> QED BY <2>1, <2>4, PromisesByNative DEF CommitOutcome
  <1>15. ASSUME NEW t \in Nodes, SlotExists(t)
        PROVE  Promises'
    <2>1. SlotExistsOutcome(t)
      BY <1>15, SlotExistsMoves
    <2>2. CASE t \in Launches
      <3>1. Out(t) /\ dir => Out(t)'
        BY <1>15, <2>1 DEF SlotExists, SlotExistsOutcome, Calls, NodeCall,
           Out, Looking
      <3> QED BY <2>1, <2>2, <3>1, PromisesByLaunch DEF SlotExistsOutcome,
         restart
    <2>3. CASE t \notin Launches
      BY <2>1, <2>3, NativeIsNoNode
      DEF Promises, Promise, Promised, Committed, Out, SlotExistsOutcome, Moves, restart
    <2> QED BY <2>2, <2>3
  <1>16. ASSUME NEW t \in Nodes,
               NodeRecover(t) \/ NodeRecovered(t)
        PROVE  Promises'
    BY <1>16 DEF TypeOK, Calls, NativeCall, NodeCall, Dead, Slots,
       OwnRecord, Binding, BindingOf, Second, Linked, Promises, Promise,
       Promised, Out, Committed, Looking, Checking, NodeRecover, DropStale,
       StaleRecord, Unpublish, NodeRecovered, RemoveEmptyDir, Goto, slot,
       work, restart
  <1>17. ASSUME NEW t \in Nodes, NodeRead(t)
        PROVE  Promises'
    <2>1. NodeReadOutcome(t)
      BY <1>17, NodeReadMoves
    <2>2. CASE t \in Launches
      <3>1. Out(t) /\ dir => Out(t)'
        BY <1>17, <2>1 DEF NodeRead, NodeReadOutcome, Calls, NodeCall, Out,
           Looking
      <3> QED BY <2>1, <2>2, <3>1, PromisesByLaunch DEF NodeReadOutcome,
         restart
    <2>3. CASE t \notin Launches
      BY <2>1, <2>3, NativeIsNoNode
      DEF Promises, Promise, Promised, Committed, Out, NodeReadOutcome, Moves, restart
    <2> QED BY <2>2, <2>3
  <1>18. ASSUME NEW l \in Launches,
               ReserveLaunch(l) \/ OpenReader(l) \/
               WritePid(l) \/ ReleaseReader(l) \/
               FinishWork(l) \/ GraceOver(l)
        PROVE  Promises'
    BY <1>18 DEF TypeOK, Calls, NativeCall, NodeCall, Dead, Slots,
       OwnRecord, Binding, BindingOf, Second, Linked, Promises, Promise,
       Promised, Out, Committed, Looking, Checking, ReserveLaunch, Inspect,
       OpenReader, RefuseLaunch, StaleReader, WritePid, ReleaseReader,
       FinishWork, GraceOver, Goto, slot, work, restart
  <1>19. ASSUME NEW l \in Launches, Reserved(l)
        PROVE  Promises'
    <2>1. ReservedOutcome(l)
      BY <1>19, ReservedMoves
    <2>2. l \in Rebinding /\ Out(l) => Out(l)'
      BY <1>19, <2>1 DEF Reserved, ReservedOutcome, Binding, BindingOf, Out
    <2> QED BY <2>1, <2>2, PromisesByLaunch DEF ReservedOutcome, restart
  <1>20. ASSUME NEW l \in Launches, StillLinked(l)
        PROVE  Promises'
    <2>1. StillLinkedOutcome(l)
      BY <1>20, StillLinkedMoves
    <2>2. l \in Rebinding /\ Out(l) => Out(l)'
      BY <1>20, <2>1 DEF StillLinked, StillLinkedOutcome, Binding, BindingOf,
         Out
    <2> QED BY <2>1, <2>2, PromisesByLaunch DEF StillLinkedOutcome, restart
  <1>21. ASSUME NEW l \in Launches, Bound(l)
        PROVE  Promises'
    <2>1. BoundOutcome(l)
      BY <1>21, BoundMoves
    <2>2. l \in Rebinding /\ Out(l) => Out(l)'
      BY <1>21, <2>1 DEF Bound, BoundOutcome, Binding, BindingOf, Out
    <2> QED BY <2>1, <2>2, PromisesByLaunch DEF BoundOutcome, restart
  <1>22. ASSUME NEW i \in Installers,
               BeginInstall(i) \/ ClaimSlot(i) \/
               WriteOperation(i) \/ TakeLock(i) \/
               FinishInstall(i) \/ ReleaseOperation(i) \/
               Settled(i)
        PROVE  Promises'
    BY <1>22 DEF TypeOK, Calls, NativeCall, NodeCall, Dead, Slots,
       OwnRecord, Binding, BindingOf, Second, Linked, Promises, Promise,
       Promised, Out, Committed, Looking, Checking, BeginInstall, Inspect,
       ClaimSlot, WriteOperation, Publish, TakeLock, FinishInstall,
       ReleaseOperation, Unpublish, Settled, RemoveEmptyDir, Goto, slot,
       work, restart
  <1>23. ASSUME NEW o \in Observers,
               Observe(o) \/ ListWorkLaunches(o)
        PROVE  Promises'
    BY <1>23 DEF TypeOK, Calls, NativeCall, NodeCall, Dead, Slots,
       OwnRecord, Binding, BindingOf, Second, Linked, Promises, Promise,
       Promised, Out, Committed, Looking, Checking, Observe, Inspect,
       ListWorkLaunches, Finish, NoCall, Goto, slot, work, restart
  <1>24. ASSUME NEW r \in Readers, NodeDies(r)
        PROVE  Promises'
    BY <1>24 DEF TypeOK, Calls, NativeCall, NodeCall, Dead, Slots,
       OwnRecord, Binding, BindingOf, Second, Linked, Promises, Promise,
       Promised, Out, Committed, Looking, Checking, NodeDies, NoCall, Goto,
       slot, work, restart
  <1>25. ASSUME SlotAges
        PROVE  Promises'
    BY <1>25 DEF TypeOK, Calls, NativeCall, NodeCall, Dead, Slots,
       OwnRecord, Binding, BindingOf, Second, Linked, Promises, Promise,
       Promised, Out, Committed, Looking, Checking, SlotAges, slot, work,
       restart
  <1> QED
    BY <1>1, <1>2, <1>3, <1>4, <1>5, <1>6, <1>7, <1>8, <1>9, <1>10, <1>11,
       <1>12, <1>13, <1>14, <1>15, <1>16, <1>17, <1>18, <1>19, <1>20,
       <1>21, <1>22, <1>23, <1>24, <1>25
    DEF Next, NativeStep, LaunchStep, InstallStep, ObserverStep, InspectStep

----------------------------------------------------------------------------
(* The theorems *)

\* The initial state satisfies the invariant.
LEMMA InitInv == Init => IInv
  <1> SUFFICES ASSUME Init PROVE IInv
    OBVIOUS
  <1> USE ThreadKinds
  <1>1. TypeOK
    BY NoCallType DEF Init, TypeOK, Labels
  <1>2. \A t \in Threads : pc[t] = "idle" /\ fr[t].id = 0
    BY DEF Init, NoCall
  <1>3. Calls /\ Dead
    BY <1>2 DEF Init, Calls, NativeCall, NodeCall, Dead, Checking, Looking
  <1>4. Slots
    BY <1>2 DEF Init, Slots, OwnRecord, Drawing, Checking
  <1>5. Binding /\ Judged
    BY <1>2 DEF Init, Binding, BindingOf, Judged, Judges, Linked, Second,
       Looking
  <1>6. Promises
    BY <1>2 DEF Init, Promises, Promise, Promised, Committed, Checking
  <1> QED BY <1>1, <1>3, <1>4, <1>5, <1>6 DEF IInv

\* Every step, and no step, keeps it.
LEMMA InvStep == IInv /\ [Next]_vars => IInv'
  <1>1. ASSUME IInv, Next PROVE IInv'
    BY <1>1, TypeStep, CallsStep, DeadStep, SlotsStep, BindingStep, JudgedStep,
       PromisesStep DEF IInv
  <1>2. ASSUME IInv, UNCHANGED vars PROVE IInv'
    <2> USE <1>2 DEF vars
    <2>1. TypeOK'
      BY DEF IInv, TypeOK
    <2>2. Calls' /\ Dead'
      BY DEF IInv, Calls, NativeCall, NodeCall, Dead
    <2>3. Slots'
      BY DEF IInv, Slots, OwnRecord
    <2>4. Binding' /\ Judged'
      BY DEF IInv, Binding, BindingOf, Judged, Judges, Doomed, Linked, Second
    <2>5. Promises'
      BY DEF IInv, Promises, Promise, Promised, Committed, Out
    <2> QED BY <2>1, <2>2, <2>3, <2>4, <2>5 DEF IInv
  <1> QED BY <1>1, <1>2

\* The invariant holds throughout.
LEMMA Invariance == Spec => []IInv
  BY InitInv, InvStep, PTL DEF Spec

\* Every variable keeps its type.
THEOREM TypeCorrectness == Spec => []TypeOK
  <1>1. IInv => TypeOK
    BY DEF IInv
  <1> QED BY <1>1, Invariance, PTL

\* The record of a standing reservation, and of an installer at work, is in the
\* slot: no recovery of dead owners' records removes it (recover_operations and
\* inspectCliOperationAdmission), whoever dies and whatever directory is emptied.
THEOREM RecordsAreKept == Spec => []RecordKept
  <1>1. IInv => RecordKept
    BY DEF IInv, Slots, OwnRecord, RecordKept, Slot
  <1> QED BY <1>1, Invariance, PTL

\* No child process of a launch that binds again runs under a committed unforced
\* restart: before_restart looks at the readers after its record is written, and
\* bindWorkLaunch looks at the slot after its reader is.
THEOREM RestartExcludesWork == Spec => []NoWorkUnderRestart
  <1>1. IInv => NoWorkUnderRestart
    BY DEF IInv, Promises, Promise, Promised, Out, NoWorkUnderRestart
  <1> QED BY <1>1, Invariance, PTL
=============================================================================
