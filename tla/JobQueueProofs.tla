--------------------------- MODULE JobQueueProofs ---------------------------
(***************************************************************************)
(* The rows of the durable queue, proved for every set of requests,        *)
(* controls and workers, any limits and any order of calls: what a         *)
(* transaction does is stated for two tables J and C at a point inside it, *)
(* with the rows E that just ended and whose steers are still to be        *)
(* promoted.                                                               *)
(***************************************************************************)
EXTENDS JobQueue, FiniteSetTheorems, WellFoundedInduction, TLAPS

Live(row) == row.status \in Active
Present(row) == row.status # "absent"

\* The packet of a row, whatever table the row is in.
PacketIn(row) == IF row.session = None THEN None ELSE PacketFor(row.session)

\* The failures of a row against its budget and its claims.
BudgetOK(row) ==
    /\ Live(row) => row.tries < MaxAttempts
    /\ row.status = "leased" => row.tries < row.claims
    /\ row.status = "parked" =>
          row.tries = MaxAttempts \/ (Scheduled /\ row.tries > 0)
    /\ row.tries <= row.claims

\* One row: its session is the request it descends from, which is present.
RowOK(J, t, j) ==
    /\ ~Present(J[j]) => J[j].session = None /\ J[j].claims = 0 /\ J[j].tries = 0
    /\ Present(J[j]) =>
          /\ J[j].session \in Requests /\ Present(J[J[j].session])
          /\ J[j].cursor <= t
          /\ j \in Requests => J[j].session = j
    /\ BudgetOK(J[j])

\* Two rows of one session or of one packet.
PairOK(J, i, j) ==
    /\ Live(J[i]) /\ J[j].session = J[i].session =>
          ~Live(J[j]) /\ J[j].cursor < J[i].cursor
    /\ Live(J[i]) /\ Live(J[j]) =>
          PacketIn(J[i]) = None \/ PacketIn(J[i]) # PacketIn(J[j])

\* A steer that became the follow-up f.
FollowedBy(J, C, c, f) ==
    /\ f \in Controls
    /\ Present(J[f]) /\ J[f].session = J[C[c].job].session
    /\ J[f].cursor > J[C[c].job].cursor
    /\ J[C[c].job].status \in Ended
    /\ C[f].job = C[c].job /\ C[f].status = "follow_up"

\* One control, while the steers of the rows E are still to be promoted.
ControlOK(J, C, E, c) ==
    /\ Present(J[c]) => C[c].status = "follow_up"
    /\ C[c].status # "absent" => C[c].job \in JobIds /\ Present(J[C[c].job])
    /\ C[c].type = "steer" =>
          /\ C[c].status \in OpenStates => Live(J[C[c].job]) \/ C[c].job \in E
          /\ C[c].status = "follow_up" => FollowedBy(J, C, c, C[c].follow)
    /\ C[c].type = "abort" =>
          /\ C[c].status = "applied" => J[C[c].job].status = "cancelled"
          /\ C[c].status = "superseded" => J[C[c].job].status \in Ended

Tables(J, C, t, E) ==
    /\ J \in [JobIds -> Job] /\ C \in [Controls -> Control] /\ t \in Nat
    /\ \A j \in JobIds : RowOK(J, t, j)
    /\ \A i, j \in JobIds : i # j => PairOK(J, i, j)
    /\ \A c \in Controls : ControlOK(J, C, E, c)

\* The rows E have just ended: nothing else waits in their session or packet.
JustEnded(J, E) ==
    /\ E \subseteq JobIds
    /\ \A e \in E :
          /\ J[e].status \in Ended
          /\ \A j \in JobIds \ {e} :
                /\ J[j].session = J[e].session => ~Live(J[j]) /\ j \notin E
                /\ Live(J[j]) \/ j \in E =>
                      PacketIn(J[e]) = None \/ PacketIn(J[j]) # PacketIn(J[e])

\* What a worker remembers: a claim of a row that was made, a control of it.
RunOK(w) ==
    run[w] # Idle =>
       /\ run[w].job \in JobIds
       /\ 1 <= run[w].token /\ run[w].token <= job[run[w].job].claims
       /\ run[w].held # None =>
             ctl[run[w].held].status # "absent" /\ ctl[run[w].held].job = run[w].job

\* The limits, for a table.
LimitsOK(J) ==
    /\ Scheduled => Cardinality(LeasedIn(J)) <= MaxLeased
    /\ \A i, j \in LeasedIn(J) :
          JobKey(i) # None /\ JobKey(i) = JobKey(j) =>
          Cardinality(Sharing(J, i)) <= LimitOf[j]

Others ==
    /\ drain \in {"none", "this", "earlier"}
    /\ run \in [Workers -> Run]
    /\ cur \in [Workers -> Nat]
    /\ client \in Clients

IInv ==
    /\ Tables(job, ctl, top, {})
    /\ \A w \in Workers : RunOK(w)
    /\ LimitsOK(job)
    /\ Others

\* What a transaction may do to a row and to a control: nothing that settled
\* changes, and claims and controls are never taken back.
RowAdvances(old, new) ==
    /\ Present(old) => Present(new) /\ new.claims >= old.claims
    /\ old.status \in Ended => new = old
ControlAdvances(old, new) ==
    /\ old.status # "absent" => new.status # "absent" /\ new.job = old.job
    /\ old.status \notin OpenStates \cup {"absent"} => new = old
Advances(J, C, J2, C2) ==
    /\ \A j \in JobIds : RowAdvances(J[j], J2[j])
    /\ \A c \in Controls : ControlAdvances(C[c], C2[c])

----------------------------------------------------------------------------
(* Least elements and finite sets. *)

\* Every set of numbers has a least one.
LEMMA LeastNumber ==
  ASSUME NEW T, T \subseteq Nat, T # {}
  PROVE  \E x \in T : \A y \in T : x <= y
  <1>1. PICK x \in T : \A y \in T : ~(<<y, x>> \in OpToRel(<, Nat))
    BY WFMin, NatLessThanWellFounded
  <1>2. ASSUME NEW y \in T, y < x PROVE FALSE
    <2>1. <<y, x>> \in Nat \X Nat
      OBVIOUS
    <2>2. <<y, x>> \in OpToRel(<, Nat)
      BY <1>2, <2>1 DEF OpToRel
    <2> QED BY <1>1, <2>2
  <1> QED BY <1>2

\* The first of a set of controls is one of them.
LEMMA FirstIn ==
  ASSUME NEW C \in [Controls -> Control], NEW S, S \subseteq Controls, S # {}
  PROVE  First(C, S) \in S
  <1> DEFINE T == {C[c].seq : c \in S}
  <1>1. T \subseteq Nat /\ T # {}
    BY DEF Control
  <1>2. PICK x \in T : \A y \in T : x <= y
    BY <1>1, LeastNumber
  <1>3. \E c \in S : \A d \in S : C[c].seq <= C[d].seq
    BY <1>2
  <1> QED BY <1>3 DEF First

\* The first open control of a row is an open control of it.
LEMMA FirstOpen ==
  ASSUME NEW C \in [Controls -> Control], NEW j, NEW type, OpenOf(C, j, type) # {}
  PROVE  First(C, OpenOf(C, j, type)) \in OpenOf(C, j, type)
  BY FirstIn DEF OpenOf

\* The newest row of a session that has one is a row of the session.
LEMMA NewestIn ==
  ASSUME Tables(job, ctl, top, {}), NEW s \in Requests, Present(job[s])
  PROVE  /\ Newest(s) \in JobIds
         /\ job[Newest(s)].session = s
         /\ \A i \in JobIds : job[i].session = s => job[i].cursor <= job[Newest(s)].cursor
  <1> DEFINE S == {j \in JobIds : job[j].session = s}
             T == {top - job[j].cursor : j \in S}
  <1>1. s \in S
    BY QueueAssumption DEF Tables, RowOK, JobIds
  <1>2. \A j \in S : Present(job[j]) /\ job[j].cursor \in Nat /\ job[j].cursor <= top
    BY QueueAssumption DEF Tables, RowOK, Job
  <1>3. T \subseteq Nat /\ T # {}
    BY <1>1, <1>2 DEF Tables
  <1>4. PICK x \in T : \A y \in T : x <= y
    BY <1>3, LeastNumber
  <1>5. \E j \in S : \A i \in S : job[i].cursor <= job[j].cursor
    <2>1. PICK j \in S : x = top - job[j].cursor
      BY <1>4
    <2>2. ASSUME NEW i \in S PROVE job[i].cursor <= job[j].cursor
      <3>1. x <= top - job[i].cursor
        BY <1>4
      <3> QED BY <1>2, <2>1, <3>1 DEF Tables
    <2> QED BY <2>2
  <1> QED BY <1>5 DEF Newest

\* Sets of rows and of controls are finite.
LEMMA Finite ==
  /\ IsFiniteSet(JobIds)
  /\ \A S \in SUBSET JobIds : IsFiniteSet(S) /\ Cardinality(S) \in Nat
  /\ \A S \in SUBSET Controls : IsFiniteSet(S) /\ Cardinality(S) \in Nat
  <1>1. IsFiniteSet(JobIds)
    BY QueueAssumption, FS_Union DEF JobIds
  <1> QED BY <1>1, QueueAssumption, FS_Subset, FS_CardinalityType

----------------------------------------------------------------------------
(* What a transaction does to the tables, part by part. *)

\* A live row is updated, and ends if it is one of E.
Changed(old, new, ends) ==
    \/ new = old /\ ~ends
    \/ /\ Live(old)
       /\ IF ends THEN new.status \in Ended ELSE Live(new)
       /\ new.session = old.session /\ new.cursor = old.cursor
       /\ new.claims >= old.claims
       /\ BudgetOK(new)

\* The rows of E end, other live rows change.
LEMMA EndRows ==
  ASSUME NEW J, NEW C, NEW t, NEW J2 \in [JobIds -> Job], NEW E \in SUBSET JobIds,
         Tables(J, C, t, {}),
         \A j \in JobIds : Changed(J[j], J2[j], j \in E)
  PROVE  Tables(J2, C, t, E) /\ JustEnded(J2, E) /\ Advances(J, C, J2, C)
  <1>1. \A j \in JobIds :
           /\ Present(J2[j]) <=> Present(J[j])
           /\ J2[j].session = J[j].session /\ J2[j].cursor = J[j].cursor
           /\ J[j].status \in Ended => J2[j] = J[j] /\ j \notin E
           /\ j \in E => Live(J[j]) /\ J2[j].status \in Ended
           /\ Live(J2[j]) => Live(J[j]) /\ j \notin E
           /\ Live(J[j]) => Live(J2[j]) \/ j \in E
    BY DEF Changed, Live, Present, Active, Ended
  <1>2. \A j \in JobIds : PacketIn(J2[j]) = PacketIn(J[j])
    BY <1>1 DEF PacketIn
  <1>3. ASSUME NEW j \in JobIds PROVE RowOK(J2, t, j)
    <2>1. RowOK(J, t, j)
      BY DEF Tables
    <2>2. CASE J2[j] = J[j]
      <3>1. Present(J[j]) => J[j].session \in JobIds
        BY <2>1 DEF RowOK, JobIds
      <3> QED BY <1>1, <2>1, <2>2, <3>1 DEF RowOK
    <2>3. CASE J2[j] # J[j]
      <3>1. Present(J[j]) /\ BudgetOK(J2[j])
        BY <2>3 DEF Changed, Live, Present, Active
      <3>2. J[j].session \in JobIds
        BY <2>1, <3>1 DEF RowOK, JobIds
      <3> QED BY <1>1, <2>1, <3>1, <3>2 DEF RowOK
    <2> QED BY <2>2, <2>3
  <1>4. ASSUME NEW i \in JobIds, NEW j \in JobIds, i # j PROVE PairOK(J2, i, j)
    BY <1>1, <1>2, <1>4 DEF Tables, PairOK
  <1>5. ASSUME NEW c \in Controls PROVE ControlOK(J2, C, E, c)
    <2>1. ControlOK(J, C, {}, c) /\ c \in JobIds
      BY DEF Tables, JobIds
    <2>2. C[c].status = "follow_up" /\ C[c].type = "steer" =>
             FollowedBy(J2, C, c, C[c].follow)
      BY <1>1, <2>1 DEF ControlOK, FollowedBy, JobIds
    <2>3. C[c].status \in OpenStates => C[c].status # "absent"
      BY DEF OpenStates
    <2>4. \A j \in JobIds : J[j].status = "cancelled" => J[j].status \in Ended
      BY DEF Ended
    <2>5. C[c].status \in {"applied", "superseded"} => C[c].job \in JobIds
      BY <2>1 DEF ControlOK
    <2> QED BY <1>1, <2>1, <2>2, <2>3, <2>4, <2>5 DEF ControlOK
  <1>6. JustEnded(J2, E)
    <2> SUFFICES ASSUME NEW e \in E
                 PROVE  /\ J2[e].status \in Ended
                        /\ \A j \in JobIds \ {e} :
                              /\ J2[j].session = J2[e].session => ~Live(J2[j]) /\ j \notin E
                              /\ Live(J2[j]) \/ j \in E =>
                                    \/ PacketIn(J2[e]) = None
                                    \/ PacketIn(J2[j]) # PacketIn(J2[e])
      BY DEF JustEnded
    <2>1. J2[e].status \in Ended /\ Live(J[e])
      BY <1>1
    <2>2. ASSUME NEW j \in JobIds \ {e}
          PROVE  PairOK(J, e, j) /\ PairOK(J, j, e)
      BY DEF Tables
    <2> QED BY <1>1, <1>2, <2>1, <2>2 DEF PairOK
  <1>7. Advances(J, C, J2, C)
    BY <1>1 DEF Advances, RowAdvances, ControlAdvances, Changed, Job, Live, Present,
       Active, Tables
  <1> QED BY <1>3, <1>4, <1>5, <1>6, <1>7 DEF Tables

\* An open control is handed out, or applied.
Handled(J, old, new) ==
    \/ new = old
    \/ /\ old.status \in OpenStates
       /\ new.job = old.job /\ new.type = old.type
       /\ \/ new.status \in OpenStates
          \/ /\ new.status = "applied"
             /\ new.type = "abort" => J[new.job].status = "cancelled"

\* Handing out and applying open controls keeps the tables.
LEMMA HandleControls ==
  ASSUME NEW J, NEW C, NEW t, NEW E, NEW C2 \in [Controls -> Control],
         Tables(J, C, t, E),
         \A c \in Controls : Handled(J, C[c], C2[c])
  PROVE  Tables(J, C2, t, E) /\ Advances(J, C, J, C2)
  <1>1. \A c \in Controls :
           /\ C[c].status \notin OpenStates => C2[c] = C[c]
           /\ C2[c].status # "absent" <=> C[c].status # "absent"
           /\ C2[c].job = C[c].job /\ C2[c].type = C[c].type
           /\ C2[c].status \in OpenStates => C[c].status \in OpenStates
           /\ C2[c].status = "follow_up" => C2[c] = C[c]
    BY DEF Handled, OpenStates
  <1>2. ASSUME NEW c \in Controls PROVE ControlOK(J, C2, E, c)
    <2>1. ControlOK(J, C, E, c)
      BY DEF Tables
    <2>2. Present(J[c]) => C2[c].status = "follow_up"
      BY <1>1, <2>1 DEF ControlOK, OpenStates
    <2>3. C2[c].status = "follow_up" /\ C2[c].type = "steer" =>
             FollowedBy(J, C2, c, C2[c].follow)
      BY <1>1, <2>1 DEF ControlOK, FollowedBy, OpenStates
    <2>4. C2[c].type = "abort" =>
             /\ C2[c].status = "applied" => J[C2[c].job].status = "cancelled"
             /\ C2[c].status = "superseded" => J[C2[c].job].status \in Ended
      BY <2>1 DEF ControlOK, Handled, OpenStates
    <2> QED BY <1>1, <2>1, <2>2, <2>3, <2>4 DEF ControlOK
  <1>3. Advances(J, C, J, C2)
    BY <1>1 DEF Advances, RowAdvances, ControlAdvances, Tables, Job, OpenStates
  <1> QED BY <1>2, <1>3 DEF Tables

\* A control is inserted for a row.
LEMMA InsertControl ==
  ASSUME NEW J, NEW C, NEW t, NEW E, Tables(J, C, t, E),
         NEW c \in Controls, C[c].status = "absent",
         NEW row \in Control, row.job \in JobIds, Present(J[row.job]),
         row.status \in {"pending", "applied", "superseded"},
         row.type = "steer" =>
            row.status = "pending" /\ (Live(J[row.job]) \/ row.job \in E),
         row.type = "abort" =>
            /\ row.status = "applied" => J[row.job].status = "cancelled"
            /\ row.status = "superseded" => J[row.job].status \in Ended
  PROVE  /\ Tables(J, [C EXCEPT ![c] = row], t, E)
         /\ Advances(J, C, J, [C EXCEPT ![c] = row])
  <1> DEFINE C2 == [C EXCEPT ![c] = row]
  <1>1. /\ C2 \in [Controls -> Control] /\ C2[c] = row
        /\ \A d \in Controls \ {c} : C2[d] = C[d]
    BY DEF Tables
  <1>2. ASSUME NEW d \in Controls PROVE ControlOK(J, C2, E, d)
    <2>1. ControlOK(J, C, E, d)
      BY DEF Tables
    <2>2. CASE d = c
      BY <1>1, <2>1, <2>2 DEF ControlOK, OpenStates
    <2>3. CASE d # c
      <3>1. FollowedBy(J, C, d, C[d].follow) => FollowedBy(J, C2, d, C2[d].follow)
        BY <1>1, <2>3 DEF FollowedBy
      <3> QED BY <1>1, <2>1, <2>3, <3>1 DEF ControlOK
    <2> QED BY <2>2, <2>3
  <1>3. Advances(J, C, J, C2)
    BY <1>1 DEF Advances, RowAdvances, ControlAdvances, Tables, Job
  <1> HIDE DEF C2
  <1>4. Tables(J, C2, t, E)
    BY <1>1, <1>2 DEF Tables
  <1> QED BY <1>3, <1>4 DEF C2

\* What an inserted row is.
LEMMA NewRowIs ==
  ASSUME NEW s \in Requests, NEW n \in Nat
  PROVE  /\ PendingRow(s, n) \in Job
         /\ PendingRow(s, n).status = "pending" /\ PendingRow(s, n).session = s
         /\ PendingRow(s, n).cursor = n
         /\ PendingRow(s, n).claims = 0 /\ PendingRow(s, n).tries = 0
  <1>1. NoJob \in Job
    BY DEF NoJob, Job, Active, Ended
  <1>2. PendingRow(s, n) \in Job
    BY <1>1 DEF PendingRow, Job, Active, Ended
  <1> QED BY <1>2 DEF PendingRow, NoJob

\* Promotion: the follow-ups are new rows, of controls that were open.
LEMMA FollowUpsAre ==
  ASSUME NEW J, NEW C, NEW E, Tables(J, C, top, E), JustEnded(J, E)
  PROVE  /\ FollowUps(C, E) \in SUBSET Controls
         /\ \A f \in FollowUps(C, E) :
               /\ C[f].job \in E /\ C[f].type = "steer" /\ C[f].status \in OpenStates
               /\ f = First(C, OpenOf(C, C[f].job, "steer"))
               /\ f \in OpenOf(C, C[f].job, "steer")
               /\ ~Present(J[f])
  <1>1. ASSUME NEW f \in FollowUps(C, E)
        PROVE  /\ f \in Controls
               /\ C[f].job \in E /\ C[f].type = "steer" /\ C[f].status \in OpenStates
               /\ f = First(C, OpenOf(C, C[f].job, "steer"))
               /\ f \in OpenOf(C, C[f].job, "steer")
               /\ ~Present(J[f])
    <2>1. PICK e \in E : /\ OpenOf(C, e, "steer") # {}
                        /\ f = First(C, OpenOf(C, e, "steer"))
      BY DEF FollowUps
    <2>2. f \in OpenOf(C, e, "steer")
      BY <2>1, FirstOpen DEF Tables
    <2>3. /\ f \in Controls /\ C[f].job = e /\ C[f].type = "steer"
          /\ C[f].status \in OpenStates
      BY <2>2 DEF OpenOf
    <2>4. ControlOK(J, C, E, f)
      BY <2>3 DEF Tables
    <2>5. ~Present(J[f])
      BY <2>3, <2>4 DEF ControlOK, OpenStates
    <2> QED BY <2>1, <2>2, <2>3, <2>5
  <1> QED BY <1>1

\* The cursor of a follow-up is past every cursor handed out before.
LEMMA Ranks ==
  ASSUME NEW J \in [JobIds -> Job], NEW C, NEW F \in SUBSET Controls,
         \A f \in F : C[f].job \in JobIds, NEW f \in F
  PROVE  /\ Rank(J, C, F, f) \in Nat /\ 1 <= Rank(J, C, F, f)
         /\ Rank(J, C, F, f) <= Cardinality(F)
  <1> DEFINE S == {g \in F : J[C[g].job].cursor <= J[C[f].job].cursor}
  <1>1. J[C[f].job].cursor \in Nat
    BY DEF Job
  <1>2. f \in S /\ S \subseteq F
    BY <1>1
  <1>3. IsFiniteSet(F) /\ IsFiniteSet(S)
    BY <1>2, Finite
  <1>4. Cardinality(S) \in Nat /\ Cardinality(S) <= Cardinality(F)
    BY <1>2, <1>3, FS_Subset, FS_CardinalityType
  <1>5. Cardinality(S) # 0
    BY <1>2, <1>3, FS_EmptySet
  <1> QED BY <1>4, <1>5 DEF Rank

\* The steers of the rows that ended become follow-ups.
LEMMA PromoteTables ==
  ASSUME NEW J, NEW C, NEW E, Tables(J, C, top, E), JustEnded(J, E)
  PROVE  /\ Tables(PromotedJobs(J, C, E), PromotedControls(C, E),
                   top + Cardinality(FollowUps(C, E)), {})
         /\ Advances(J, C, PromotedJobs(J, C, E), PromotedControls(C, E))
         /\ LeasedIn(PromotedJobs(J, C, E)) = LeasedIn(J)
  <1> DEFINE F == FollowUps(C, E)
             J2 == PromotedJobs(J, C, E)
             C2 == PromotedControls(C, E)
             t == top + Cardinality(F)
             Turned(c) == \E e \in E : c \in OpenOf(C, e, "steer")
  <1>1. F \in SUBSET Controls /\ F \subseteq JobIds
    BY FollowUpsAre DEF JobIds
  <1>2. \A f \in F :
           /\ C[f].job \in E /\ C[f].type = "steer" /\ C[f].status \in OpenStates
           /\ f = First(C, OpenOf(C, C[f].job, "steer"))
           /\ f \in OpenOf(C, C[f].job, "steer")
           /\ ~Present(J[f])
    BY FollowUpsAre
  <1>3. Cardinality(F) \in Nat /\ top \in Nat /\ t \in Nat /\ top <= t
    BY <1>1, Finite DEF Tables
  <1>4. \A f \in F : /\ Rank(J, C, F, f) \in Nat /\ 1 <= Rank(J, C, F, f)
                     /\ Rank(J, C, F, f) <= Cardinality(F)
    BY <1>1, <1>2, Ranks DEF Tables, JustEnded
  <1>5. \A e \in E : /\ e \in JobIds /\ J[e].status \in Ended /\ Present(J[e])
                     /\ J[e].session \in Requests /\ Present(J[J[e].session])
                     /\ J[e].cursor \in Nat /\ J[e].cursor <= top
                     /\ e \notin F
    <2> SUFFICES ASSUME NEW e \in E
                 PROVE  /\ e \in JobIds /\ J[e].status \in Ended /\ Present(J[e])
                        /\ J[e].session \in Requests /\ Present(J[J[e].session])
                        /\ J[e].cursor \in Nat /\ J[e].cursor <= top
                        /\ e \notin F
      OBVIOUS
    <2>1. e \in JobIds /\ J[e].status \in Ended
      BY DEF JustEnded
    <2>2. RowOK(J, top, e) /\ J[e] \in Job
      BY <2>1 DEF Tables
    <2>3. Present(J[e])
      BY <2>1 DEF Present, Ended
    <2>4. J[e].cursor \in Nat
      BY <2>2 DEF Job
    <2> QED BY <1>2, <2>1, <2>2, <2>3, <2>4 DEF RowOK
  <1>6. \A f \in F :
           /\ J2[f] = PendingRow(J[C[f].job].session, top + Rank(J, C, F, f))
           /\ J2[f].status = "pending" /\ Live(J2[f]) /\ Present(J2[f])
           /\ J2[f].session = J[C[f].job].session
           /\ J2[f].cursor = top + Rank(J, C, F, f)
           /\ J2[f].claims = 0 /\ J2[f].tries = 0
           /\ J2[f].cursor \in Nat /\ top < J2[f].cursor /\ J2[f].cursor <= t
           /\ J2[f] \in Job
    <2> SUFFICES ASSUME NEW f \in F
                 PROVE  /\ J2[f] = PendingRow(J[C[f].job].session, top + Rank(J, C, F, f))
                        /\ J2[f].status = "pending" /\ Live(J2[f]) /\ Present(J2[f])
                        /\ J2[f].session = J[C[f].job].session
                        /\ J2[f].cursor = top + Rank(J, C, F, f)
                        /\ J2[f].claims = 0 /\ J2[f].tries = 0
                        /\ J2[f].cursor \in Nat /\ top < J2[f].cursor /\ J2[f].cursor <= t
                        /\ J2[f] \in Job
      OBVIOUS
    <2>1. J2[f] = PendingRow(J[C[f].job].session, top + Rank(J, C, F, f))
      BY <1>1 DEF PromotedJobs
    <2>2. /\ Rank(J, C, F, f) \in Nat /\ 1 <= Rank(J, C, F, f)
          /\ Rank(J, C, F, f) <= Cardinality(F)
      BY <1>4
    <2>3. J[C[f].job].session \in Requests
      BY <1>2, <1>5
    <2> HIDE DEF J2, F
    <2>4. /\ J2[f].status = "pending" /\ J2[f].session = J[C[f].job].session
          /\ J2[f].cursor = top + Rank(J, C, F, f)
          /\ J2[f].claims = 0 /\ J2[f].tries = 0
      BY <2>1 DEF PendingRow, NoJob
    <2>5. J2[f].cursor \in Nat /\ top < J2[f].cursor /\ J2[f].cursor <= t
      BY <1>3, <2>2, <2>4
    <2>6. J2[f] \in Job
      BY <1>3, <2>1, <2>2, <2>3, NewRowIs
    <2> QED BY <2>1, <2>4, <2>5, <2>6 DEF Live, Present, Active
  <1>7. \A j \in JobIds \ F : J2[j] = J[j]
    BY DEF PromotedJobs
  <1>8. J2 \in [JobIds -> Job]
    <2>1. J2 = [j \in JobIds |-> J2[j]]
      BY DEF PromotedJobs
    <2>2. \A j \in JobIds : J2[j] \in Job
      BY <1>6, <1>7 DEF Tables
    <2> QED BY <2>1, <2>2
  <1>9. \A c \in Controls :
           /\ ~Turned(c) => C2[c] = C[c]
           /\ Turned(c) => /\ C2[c].status = "follow_up" /\ C[c].status \in OpenStates
                           /\ C[c].type = "steer" /\ C[c].job \in E
                           /\ C2[c].job = C[c].job /\ C2[c].type = C[c].type
                           /\ C2[c].follow = First(C, OpenOf(C, C[c].job, "steer"))
                           /\ C2[c].follow \in F
                           /\ C[C2[c].follow].job = C[c].job
                           /\ C2[c] \in Control
    <2> SUFFICES ASSUME NEW c \in Controls
                 PROVE  /\ ~Turned(c) => C2[c] = C[c]
                        /\ Turned(c) =>
                              /\ C2[c].status = "follow_up" /\ C[c].status \in OpenStates
                              /\ C[c].type = "steer" /\ C[c].job \in E
                              /\ C2[c].job = C[c].job /\ C2[c].type = C[c].type
                              /\ C2[c].follow = First(C, OpenOf(C, C[c].job, "steer"))
                              /\ C2[c].follow \in F
                              /\ C[C2[c].follow].job = C[c].job
                              /\ C2[c] \in Control
      OBVIOUS
    <2>1. ~Turned(c) => C2[c] = C[c]
      BY DEF PromotedControls
    <2>2. ASSUME Turned(c)
          PROVE  /\ C2[c].status = "follow_up" /\ C[c].status \in OpenStates
                 /\ C[c].type = "steer" /\ C[c].job \in E
                 /\ C2[c].job = C[c].job /\ C2[c].type = C[c].type
                 /\ C2[c].follow = First(C, OpenOf(C, C[c].job, "steer"))
                 /\ C2[c].follow \in F
                 /\ C[C2[c].follow].job = C[c].job
                 /\ C2[c] \in Control
      <3>1. PICK e \in E : c \in OpenOf(C, e, "steer")
        BY <2>2
      <3>2. C[c].job = e /\ C[c].type = "steer" /\ C[c].status \in OpenStates
        BY <3>1 DEF OpenOf
      <3>3. First(C, OpenOf(C, e, "steer")) \in F
        BY <3>1 DEF FollowUps
      <3>4. First(C, OpenOf(C, e, "steer")) \in OpenOf(C, e, "steer")
        BY <3>1, FirstOpen DEF Tables
      <3>5. C[First(C, OpenOf(C, e, "steer"))].job = e
        BY <3>4 DEF OpenOf
      <3>6. C2[c] = [C[c] EXCEPT !.status = "follow_up", !.live = FALSE,
                                 !.follow = First(C, OpenOf(C, e, "steer"))]
        BY <3>1, <3>2 DEF PromotedControls
      <3>7. C[c] \in Control /\ First(C, OpenOf(C, e, "steer")) \in JobIds
        BY <1>1, <3>3 DEF Tables
      <3> HIDE DEF C2, F
      <3>8. /\ C2[c].status = "follow_up" /\ C2[c].job = C[c].job
            /\ C2[c].type = C[c].type
            /\ C2[c].follow = First(C, OpenOf(C, e, "steer")) /\ C2[c] \in Control
        BY <3>6, <3>7 DEF Control
      <3> QED BY <3>2, <3>3, <3>5, <3>8
    <2> QED BY <2>1, <2>2
  <1>10. C2 \in [Controls -> Control]
    <2>1. C2 = [c \in Controls |-> C2[c]]
      BY DEF PromotedControls
    <2>2. \A c \in Controls : C2[c] \in Control
      BY <1>9 DEF Tables
    <2> QED BY <2>1, <2>2
  <1>11. \A f \in F : /\ f \in Controls /\ Turned(f)
                       /\ C2[f].status = "follow_up" /\ C2[f].job = C[f].job
    <2>1. \A f \in F : f \in Controls /\ Turned(f)
      BY <1>1, <1>2
    <2> QED BY <1>9, <2>1
  <1>12. \A j \in JobIds : /\ Present(J[j]) => j \notin F /\ J2[j] = J[j]
                           /\ J[j].status \in Ended => j \notin F
    <2>1. \A j \in JobIds : J[j].status \in Ended => Present(J[j])
      BY DEF Present, Ended
    <2> QED BY <1>2, <1>7, <2>1
  <1> HIDE DEF F, J2, C2, t
  <1>13. ASSUME NEW j \in JobIds PROVE RowOK(J2, t, j)
    <2>1. CASE j \in F
      <3>1. BudgetOK(J2[j])
        BY <1>6, <2>1, QueueAssumption DEF BudgetOK
      <3>2. J2[j].session \in Requests /\ Present(J2[J2[j].session])
        <4>1. J2[j].session \in Requests /\ Present(J[J2[j].session])
          BY <1>2, <1>5, <1>6, <2>1
        <4>2. J2[j].session \in JobIds
          BY <4>1 DEF JobIds
        <4> QED BY <1>12, <4>1, <4>2
      <3>3. j \notin Requests
        BY <1>1, <2>1, QueueAssumption
      <3> QED BY <1>6, <2>1, <3>1, <3>2, <3>3 DEF RowOK
    <2>2. CASE j \notin F
      <3>1. RowOK(J, top, j) /\ J[j] \in Job /\ J2[j] = J[j]
        BY <1>7, <2>2 DEF Tables
      <3>2. J[j].cursor <= top => J[j].cursor <= t
        BY <1>3, <3>1 DEF Job
      <3>3. Present(J[j]) => Present(J2[J[j].session])
        <4>1. Present(J[j]) => J[j].session \in JobIds /\ Present(J[J[j].session])
          BY <3>1 DEF RowOK, JobIds
        <4> QED BY <1>12, <4>1
      <3> QED BY <3>1, <3>2, <3>3 DEF RowOK
    <2> QED BY <2>1, <2>2
  <1>14. ASSUME NEW i \in JobIds, NEW j \in JobIds, i # j PROVE PairOK(J2, i, j)
    <2>0. PairOK(J, i, j) /\ RowOK(J, top, i) /\ RowOK(J, top, j)
      BY <1>14 DEF Tables
    <2>1. CASE i \notin F /\ j \notin F
      BY <1>7, <2>0, <2>1 DEF PairOK
    <2>2. CASE i \in F /\ j \notin F
      <3> DEFINE e == C[i].job
      <3>1. e \in E /\ J2[j] = J[j] /\ J[j] \in Job
        BY <1>2, <1>7, <2>2 DEF Tables
      <3>2. /\ J2[i].session = J[e].session /\ top < J2[i].cursor /\ J2[i].cursor \in Nat
            /\ PacketIn(J2[i]) = PacketIn(J[e])
        BY <1>6, <2>2 DEF PacketIn
      <3>3. /\ J[e].session \in Requests /\ ~Live(J[e]) /\ e \in JobIds
        BY <1>5, <3>1 DEF Live, Active, Ended
      <3>4. j # e => /\ J[j].session = J[e].session => ~Live(J[j])
                     /\ Live(J[j]) => \/ PacketIn(J[e]) = None
                                      \/ PacketIn(J[j]) # PacketIn(J[e])
        BY <3>1 DEF JustEnded
      <3>5. J[j].session = J[e].session => Present(J[j]) /\ J[j].cursor <= top
        BY <2>0, <3>3, QueueAssumption DEF RowOK
      <3>6. J[j].session = J[e].session => J[j].cursor < J2[i].cursor
        BY <1>3, <3>1, <3>2, <3>5 DEF Job
      <3> QED BY <3>1, <3>2, <3>3, <3>4, <3>6 DEF PairOK
    <2>3. CASE i \notin F /\ j \in F
      <3> DEFINE e == C[j].job
      <3>1. e \in E /\ J2[i] = J[i]
        BY <1>2, <1>7, <2>3
      <3>2. J2[j].session = J[e].session /\ PacketIn(J2[j]) = PacketIn(J[e])
        BY <1>6, <2>3 DEF PacketIn
      <3>3. ~Live(J[e])
        BY <1>5, <3>1 DEF Live, Active, Ended
      <3>4. i # e => /\ J[i].session = J[e].session => ~Live(J[i])
                     /\ Live(J[i]) => \/ PacketIn(J[e]) = None
                                      \/ PacketIn(J[i]) # PacketIn(J[e])
        BY <3>1 DEF JustEnded
      <3> QED BY <3>1, <3>2, <3>3, <3>4 DEF PairOK
    <2>4. CASE i \in F /\ j \in F
      <3>1. C[i].job \in E /\ C[j].job \in E /\ C[i].job # C[j].job
        BY <1>2, <1>14, <2>4
      <3>2. /\ J2[i].session = J[C[i].job].session /\ J2[j].session = J[C[j].job].session
            /\ PacketIn(J2[i]) = PacketIn(J[C[i].job])
            /\ PacketIn(J2[j]) = PacketIn(J[C[j].job])
        BY <1>6, <2>4 DEF PacketIn
      <3>3. C[j].job \in JobIds \ {C[i].job}
        BY <1>5, <3>1
      <3>4. /\ J[C[j].job].session # J[C[i].job].session
            /\ \/ PacketIn(J[C[i].job]) = None
               \/ PacketIn(J[C[j].job]) # PacketIn(J[C[i].job])
        BY <3>1, <3>3 DEF JustEnded
      <3> QED BY <3>2, <3>4 DEF PairOK
    <2> QED BY <2>1, <2>2, <2>3, <2>4
  <1>15. ASSUME NEW c \in Controls PROVE ControlOK(J2, C2, {}, c)
    <2>1. ControlOK(J, C, E, c) /\ c \in JobIds
      BY DEF Tables, JobIds
    <2>2. CASE Turned(c)
      <3> DEFINE f == C2[c].follow
                 e == C[c].job
      <3>1. /\ C2[c].status = "follow_up" /\ C2[c].type = "steer" /\ C2[c].job = e
            /\ e \in E /\ f \in F /\ C[f].job = e
        BY <1>9, <2>2
      <3>2. /\ e \in JobIds /\ Present(J[e]) /\ J[e].status \in Ended
            /\ J2[e] = J[e] /\ J[e].cursor <= top /\ J[e].cursor \in Nat
        BY <1>5, <1>7, <3>1
      <3>3. /\ f \in Controls /\ Present(J2[f]) /\ J2[f].session = J[e].session
            /\ top < J2[f].cursor /\ J2[f].cursor \in Nat
        BY <1>1, <1>6, <3>1
      <3>4. C2[f].job = e /\ C2[f].status = "follow_up"
        BY <1>11, <3>1
      <3>5. J2[f].cursor > J2[e].cursor
        BY <1>3, <3>2, <3>3
      <3>6. FollowedBy(J2, C2, c, f)
        BY <3>1, <3>2, <3>3, <3>4, <3>5 DEF FollowedBy
      <3> HIDE DEF e, f
      <3> QED BY <3>1, <3>2, <3>6 DEF ControlOK, OpenStates, f
    <2>3. CASE ~Turned(c)
      <3>1. C2[c] = C[c] /\ c \notin F
        BY <1>9, <1>11, <2>3
      <3>2. J2[c] = J[c]
        BY <1>7, <2>1, <3>1
      <3>3. C[c].status # "absent" => C[c].job \in JobIds /\ Present(J2[C[c].job])
                                      /\ J2[C[c].job] = J[C[c].job]
        BY <1>12, <2>1 DEF ControlOK
      <3>4. C[c].type = "steer" /\ C[c].status \in OpenStates => C[c].job \notin E
        BY <2>3 DEF OpenOf
      <3>5. ASSUME C[c].type = "steer", C[c].status = "follow_up"
            PROVE  FollowedBy(J2, C2, c, C[c].follow)
        <4> DEFINE f == C[c].follow
        <4>1. FollowedBy(J, C, c, f)
          BY <2>1, <3>5 DEF ControlOK
        <4>2. f \in Controls /\ f \in JobIds /\ Present(J[f]) /\ C[f].status = "follow_up"
          BY <4>1 DEF FollowedBy, JobIds
        <4>3. J2[f] = J[f]
          BY <1>12, <4>2
        <4>4. C2[f] = C[f]
          BY <1>9, <4>2 DEF OpenStates
        <4>5. J2[C[c].job] = J[C[c].job]
          BY <3>3, <3>5
        <4> QED BY <3>1, <4>1, <4>3, <4>4, <4>5 DEF FollowedBy
      <3>6. C[c].status \in OpenStates \cup {"applied", "superseded"} => C[c].status # "absent"
        BY DEF OpenStates
      <3> QED BY <2>1, <3>1, <3>2, <3>3, <3>4, <3>5, <3>6 DEF ControlOK
    <2> QED BY <2>2, <2>3
  <1>16. Tables(J2, C2, t, {})
    BY <1>3, <1>8, <1>10, <1>13, <1>14, <1>15 DEF Tables
  <1>17. Advances(J, C, J2, C2)
    <2>1. ASSUME NEW j \in JobIds PROVE RowAdvances(J[j], J2[j])
      <3>1. J[j].claims \in Nat
        BY DEF Tables, Job
      <3>2. Present(J[j]) => J2[j] = J[j]
        BY <1>12
      <3>3. J[j].status \in Ended => Present(J[j])
        BY DEF Present, Ended
      <3> QED BY <3>1, <3>2, <3>3 DEF RowAdvances
    <2>2. ASSUME NEW c \in Controls PROVE ControlAdvances(C[c], C2[c])
      BY <1>9 DEF ControlAdvances
    <2> QED BY <2>1, <2>2 DEF Advances
  <1>18. LeasedIn(J2) = LeasedIn(J)
    <2>1. ASSUME NEW j \in JobIds PROVE J2[j].status = "leased" <=> J[j].status = "leased"
      BY <1>2, <1>6, <1>7 DEF Present
    <2> QED BY <2>1 DEF LeasedIn
  <1> QED BY <1>16, <1>17, <1>18 DEF J2, C2, t, F

----------------------------------------------------------------------------
(* A step assembled from its parts. *)

\* What advances twice has advanced.
LEMMA AdvancesTwice ==
  ASSUME NEW J1 \in [JobIds -> Job], NEW J2 \in [JobIds -> Job], NEW J3 \in [JobIds -> Job],
         NEW C1, NEW C2, NEW C3,
         Advances(J1, C1, J2, C2), Advances(J2, C2, J3, C3)
  PROVE  Advances(J1, C1, J3, C3)
  <1>1. ASSUME NEW j \in JobIds PROVE RowAdvances(J1[j], J3[j])
    <2>1. RowAdvances(J1[j], J2[j]) /\ RowAdvances(J2[j], J3[j])
      BY DEF Advances
    <2>2. J1[j].claims \in Nat /\ J2[j].claims \in Nat /\ J3[j].claims \in Nat
      BY DEF Job
    <2> QED BY <2>1, <2>2 DEF RowAdvances
  <1>2. ASSUME NEW c \in Controls PROVE ControlAdvances(C1[c], C3[c])
    <2>1. ControlAdvances(C1[c], C2[c]) /\ ControlAdvances(C2[c], C3[c])
      BY DEF Advances
    <2> QED BY <2>1 DEF ControlAdvances
  <1> QED BY <1>1, <1>2 DEF Advances

\* A step that leaves the tables alone advances.
LEMMA AdvancesSame ==
  ASSUME NEW J \in [JobIds -> Job], NEW C
  PROVE  Advances(J, C, J, C)
  BY DEF Advances, RowAdvances, ControlAdvances, Job

\* The rows of E are waited for by no more than they were.
LEMMA MoreEnded ==
  ASSUME NEW J, NEW C, NEW t, NEW E, Tables(J, C, t, {})
  PROVE  Tables(J, C, t, E)
  <1>1. ASSUME NEW c \in Controls PROVE ControlOK(J, C, E, c)
    <2>1. ControlOK(J, C, {}, c)
      BY DEF Tables
    <2> QED BY <2>1 DEF ControlOK
  <1> QED BY <1>1 DEF Tables

\* Live rows change or end, open controls are handled, and what ended is promoted.
LEMMA Transaction ==
  ASSUME Tables(job, ctl, top, {}),
         NEW J2 \in [JobIds -> Job], NEW E \in SUBSET JobIds,
         NEW C2 \in [Controls -> Control],
         \A j \in JobIds : Changed(job[j], J2[j], j \in E),
         \A c \in Controls : Handled(J2, ctl[c], C2[c])
  PROVE  /\ Tables(PromotedJobs(J2, C2, E), PromotedControls(C2, E),
                   top + Cardinality(FollowUps(C2, E)), {})
         /\ Advances(job, ctl, PromotedJobs(J2, C2, E), PromotedControls(C2, E))
         /\ LeasedIn(PromotedJobs(J2, C2, E)) = LeasedIn(J2)
  <1>1. Tables(J2, ctl, top, E) /\ JustEnded(J2, E) /\ Advances(job, ctl, J2, ctl)
    BY EndRows
  <1>2. Tables(J2, C2, top, E) /\ Advances(J2, ctl, J2, C2)
    BY <1>1, HandleControls
  <1>3. /\ Tables(PromotedJobs(J2, C2, E), PromotedControls(C2, E),
                   top + Cardinality(FollowUps(C2, E)), {})
        /\ Advances(J2, C2, PromotedJobs(J2, C2, E), PromotedControls(C2, E))
        /\ LeasedIn(PromotedJobs(J2, C2, E)) = LeasedIn(J2)
    BY <1>1, <1>2, PromoteTables
  <1>4. /\ job \in [JobIds -> Job]
        /\ PromotedJobs(J2, C2, E) \in [JobIds -> Job]
    BY <1>3 DEF Tables
  <1>5. Advances(job, ctl, J2, C2)
    BY <1>1, <1>2, <1>4, AdvancesTwice
  <1> QED BY <1>3, <1>4, <1>5, AdvancesTwice

\* The limits hold of fewer leases.
LEMMA FewerLeased ==
  ASSUME NEW J, NEW J2, LimitsOK(J), LeasedIn(J2) \subseteq LeasedIn(J)
  PROVE  LimitsOK(J2)
  <1>1. /\ LeasedIn(J) \in SUBSET JobIds
        /\ \A i \in JobIds : /\ Sharing(J, i) \in SUBSET JobIds
                             /\ Sharing(J2, i) \subseteq Sharing(J, i)
    BY DEF LeasedIn, Sharing
  <1>2. Cardinality(LeasedIn(J2)) <= Cardinality(LeasedIn(J))
    BY <1>1, Finite, FS_Subset
  <1>3. \A i \in JobIds : Cardinality(Sharing(J2, i)) <= Cardinality(Sharing(J, i))
    BY <1>1, Finite, FS_Subset
  <1>4. /\ Cardinality(LeasedIn(J)) \in Nat /\ Cardinality(LeasedIn(J2)) \in Nat
        /\ \A i \in JobIds : /\ Cardinality(Sharing(J, i)) \in Nat
                             /\ Cardinality(Sharing(J2, i)) \in Nat
    <2>1. LeasedIn(J2) \in SUBSET JobIds /\ \A i \in JobIds : Sharing(J2, i) \in SUBSET JobIds
      BY DEF LeasedIn, Sharing
    <2> QED BY <1>1, <2>1, Finite
  <1>5. Scheduled => Cardinality(LeasedIn(J2)) <= MaxLeased
    BY <1>2, <1>4, QueueAssumption DEF LimitsOK
  <1>6. ASSUME NEW i \in LeasedIn(J2), NEW j \in LeasedIn(J2), JobKey(i) # None,
               JobKey(i) = JobKey(j)
        PROVE  Cardinality(Sharing(J2, i)) <= LimitOf[j]
    <2>1. i \in LeasedIn(J) /\ j \in LeasedIn(J) /\ i \in JobIds
      BY DEF LeasedIn
    <2>2. Cardinality(Sharing(J, i)) <= LimitOf[j]
      BY <1>6, <2>1 DEF LimitsOK
    <2>3. LimitOf[j] \in Nat
      BY <1>6, QueueAssumption DEF JobKey
    <2> QED BY <1>3, <1>4, <2>1, <2>2, <2>3
  <1> QED BY <1>5, <1>6 DEF LimitsOK

\* A step that fits the tables, the runs and the limits preserves the invariant.
LEMMA Assembled ==
  ASSUME IInv, Tables(job', ctl', top', {}), Advances(job, ctl, job', ctl'),
         LimitsOK(job') \/ LeasedIn(job') \subseteq LeasedIn(job),
         run' \in [Workers -> Run],
         \A w \in Workers : run'[w] = run[w] \/ run'[w] = Idle \/ RunOK(w)',
         drain' \in {"none", "this", "earlier"},
         cur' \in [Workers -> Nat],
         client' = client
  PROVE  IInv'
  <1>1. Tables(job, ctl, top, {})'
    BY DEF Tables, RowOK, PairOK, ControlOK, FollowedBy, BudgetOK, PacketIn, PacketFor,
       Scheduled, Live, Present
  <1>2. LimitsOK(job)'
    <2>1. LimitsOK(job')
      BY FewerLeased DEF IInv
    <2> QED BY <2>1 DEF LimitsOK, JobKey, Scheduled, Sharing, LeasedIn
  <1>3. ASSUME NEW w \in Workers PROVE RunOK(w)'
    <2>1. CASE run'[w] = run[w] /\ run[w] # Idle
      <3> DEFINE j == run[w].job
                 c == run[w].held
      <3>1. /\ j \in JobIds /\ 1 <= run[w].token /\ run[w].token <= job[j].claims
            /\ c # None => ctl[c].status # "absent" /\ ctl[c].job = j
        BY <2>1 DEF IInv, RunOK
      <3>2. /\ RowOK(job, top, j) /\ job[j] \in Job /\ job'[j] \in Job
            /\ run[w].token \in Nat /\ c \in Controls \cup {None}
        BY <3>1 DEF IInv, Tables, Others, Run
      <3>3. job[j].claims \in Nat /\ job'[j].claims \in Nat
        BY <3>2 DEF Job
      <3>4. job'[j].claims >= job[j].claims
        BY <3>1, <3>2, <3>3 DEF RowOK, Advances, RowAdvances
      <3>5. c # None => ctl'[c].status # "absent" /\ ctl'[c].job = j
        BY <3>1, <3>2 DEF Advances, ControlAdvances
      <3> QED BY <2>1, <3>1, <3>2, <3>3, <3>4, <3>5 DEF RunOK
    <2>2. CASE run'[w] = Idle
      BY <2>2 DEF RunOK, Idle
    <2> QED BY <2>1, <2>2
  <1>4. Others'
    BY DEF Others, IInv
  <1> QED BY <1>1, <1>2, <1>3, <1>4 DEF IInv

\* A row without its lease is the same row with another status.
LEMMA UnleasedIs ==
  ASSUME NEW row \in Job, NEW status \in Active \cup Ended
  PROVE  /\ Unleased(row, status) \in Job
         /\ Unleased(row, status).status = status
         /\ Unleased(row, status).session = row.session
         /\ Unleased(row, status).cursor = row.cursor
         /\ Unleased(row, status).claims = row.claims
         /\ Unleased(row, status).tries = row.tries
  BY DEF Unleased, Job

\* The recovery of leased rows changes or ends them and applies their aborts.
LEMMA Recovery ==
  ASSUME IInv, NEW X \in SUBSET JobIds, \A j \in X : job[j].status = "leased"
  PROVE  /\ RecoveredJobs(X) \in [JobIds -> Job]
         /\ RecoveredControls(X) \in [Controls -> Control]
         /\ AbortedIn(X) \in SUBSET JobIds
         /\ \A j \in JobIds : Changed(job[j], RecoveredJobs(X)[j], j \in AbortedIn(X))
         /\ \A c \in Controls : Handled(RecoveredJobs(X), ctl[c], RecoveredControls(X)[c])
         /\ LeasedIn(RecoveredJobs(X)) \subseteq LeasedIn(job)
  <1> DEFINE J == RecoveredJobs(X)
             C == RecoveredControls(X)
             A == AbortedIn(X)
  <1>1. A \subseteq X /\ \A j \in A : OpenOf(ctl, j, "abort") # {}
    BY DEF AbortedIn
  <1>2. ASSUME NEW j \in JobIds
        PROVE  /\ J[j] \in Job
               /\ Changed(job[j], J[j], j \in A)
               /\ j \in A => J[j].status = "cancelled"
               /\ J[j].status = "leased" => job[j].status = "leased"
    <2>1. job[j] \in Job /\ RowOK(job, top, j)
      BY DEF IInv, Tables
    <2>2. CASE j \in A
      <3>1. J[j] = [Unleased(job[j], "cancelled") EXCEPT !.recovered = TRUE]
        BY <2>2 DEF RecoveredJobs
      <3>2. job[j].status = "leased"
        BY <1>1, <2>2
      <3> HIDE DEF J, A
      <3>3. /\ J[j] \in Job /\ J[j].status = "cancelled"
            /\ J[j].session = job[j].session /\ J[j].cursor = job[j].cursor
            /\ J[j].claims = job[j].claims /\ J[j].tries = job[j].tries
        <4> DEFINE u == Unleased(job[j], "cancelled")
        <4>1. /\ u \in Job /\ u.status = "cancelled" /\ u.session = job[j].session
              /\ u.cursor = job[j].cursor /\ u.claims = job[j].claims
              /\ u.tries = job[j].tries
          BY <2>1, UnleasedIs DEF Active, Ended
        <4> HIDE DEF u
        <4> QED BY <3>1, <4>1 DEF Job, u
      <3>4. BudgetOK(J[j]) /\ job[j].claims \in Nat
        BY <2>1, <3>2, <3>3 DEF RowOK, BudgetOK, Job, Live, Active
      <3> QED BY <2>2, <3>2, <3>3, <3>4 DEF Changed, Live, Active, Ended
    <2>3. CASE j \in X /\ j \notin A
      <3>1. J[j] = [Unleased(job[j], "pending") EXCEPT !.recovered = TRUE, !.due = TRUE]
        BY <2>3 DEF RecoveredJobs
      <3>2. job[j].status = "leased"
        BY <2>3
      <3> HIDE DEF J, A
      <3>3. /\ J[j] \in Job /\ J[j].status = "pending"
            /\ J[j].session = job[j].session /\ J[j].cursor = job[j].cursor
            /\ J[j].claims = job[j].claims /\ J[j].tries = job[j].tries
        <4> DEFINE u == Unleased(job[j], "pending")
        <4>1. /\ u \in Job /\ u.status = "pending" /\ u.session = job[j].session
              /\ u.cursor = job[j].cursor /\ u.claims = job[j].claims
              /\ u.tries = job[j].tries
          BY <2>1, UnleasedIs DEF Active, Ended
        <4> HIDE DEF u
        <4> QED BY <3>1, <4>1 DEF Job, u
      <3>4. BudgetOK(J[j]) /\ job[j].claims \in Nat
        BY <2>1, <3>2, <3>3 DEF RowOK, BudgetOK, Job, Live, Active
      <3> QED BY <2>3, <3>2, <3>3, <3>4 DEF Changed, Live, Active, Ended
    <2>4. CASE j \notin X
      <3>1. J[j] = job[j] /\ j \notin A
        BY <1>1, <2>4 DEF RecoveredJobs
      <3> HIDE DEF J, A
      <3> QED BY <2>1, <3>1 DEF Changed
    <2> QED BY <2>2, <2>3, <2>4
  <1>3. ASSUME NEW c \in Controls
        PROVE  C[c] \in Control /\ Handled(J, ctl[c], C[c])
    <2>1. ctl[c] \in Control
      BY DEF IInv, Tables
    <2>2. CASE \E j \in A : c = First(ctl, OpenOf(ctl, j, "abort"))
      <3>1. PICK j \in A : c = First(ctl, OpenOf(ctl, j, "abort"))
        BY <2>2
      <3>2. c \in OpenOf(ctl, j, "abort")
        BY <1>1, <3>1, FirstOpen DEF IInv, Tables
      <3>3. ctl[c].job = j /\ ctl[c].type = "abort" /\ ctl[c].status \in OpenStates
        BY <3>2 DEF OpenOf
      <3>4. C[c] = [ctl[c] EXCEPT !.status = "applied", !.live = FALSE]
        BY <2>2 DEF RecoveredControls
      <3>5. j \in JobIds /\ J[j].status = "cancelled"
        BY <1>1, <1>2, <3>1
      <3> HIDE DEF J, C, A
      <3> QED BY <2>1, <3>3, <3>4, <3>5 DEF Handled, Control
    <2>3. CASE ~\E j \in A : c = First(ctl, OpenOf(ctl, j, "abort"))
      <3>1. C[c] = ctl[c]
        BY <2>3 DEF RecoveredControls
      <3> QED BY <2>1, <3>1 DEF Handled
    <2> QED BY <2>2, <2>3
  <1>4. J \in [JobIds -> Job] /\ C \in [Controls -> Control]
    <2>1. J = [j \in JobIds |-> J[j]] /\ C = [c \in Controls |-> C[c]]
      BY DEF RecoveredJobs, RecoveredControls
    <2> QED BY <1>2, <1>3, <2>1
  <1>5. LeasedIn(J) \subseteq LeasedIn(job)
    BY <1>2 DEF LeasedIn
  <1> QED BY <1>1, <1>2, <1>3, <1>4, <1>5

\* The tables after a recovery and the promotion it needs.
LEMMA RecoveredTables ==
  ASSUME IInv, NEW X \in SUBSET JobIds, \A j \in X : job[j].status = "leased",
         NEW J, J = PromotedJobs(RecoveredJobs(X), RecoveredControls(X), AbortedIn(X)),
         NEW C, C = PromotedControls(RecoveredControls(X), AbortedIn(X)),
         NEW t, t = top + Cardinality(FollowUps(RecoveredControls(X), AbortedIn(X)))
  PROVE  /\ Tables(J, C, t, {}) /\ Advances(job, ctl, J, C)
         /\ LeasedIn(J) \subseteq LeasedIn(job)
  <1> DEFINE J2 == RecoveredJobs(X)
             C2 == RecoveredControls(X)
             E == AbortedIn(X)
  <1>1. /\ J2 \in [JobIds -> Job] /\ C2 \in [Controls -> Control] /\ E \in SUBSET JobIds
        /\ \A j \in JobIds : Changed(job[j], J2[j], j \in E)
        /\ \A c \in Controls : Handled(J2, ctl[c], C2[c])
        /\ LeasedIn(J2) \subseteq LeasedIn(job)
    BY Recovery
  <1>2. Tables(job, ctl, top, {})
    BY DEF IInv
  <1> HIDE DEF J2, C2, E
  <1>3. /\ Tables(PromotedJobs(J2, C2, E), PromotedControls(C2, E),
                   top + Cardinality(FollowUps(C2, E)), {})
        /\ Advances(job, ctl, PromotedJobs(J2, C2, E), PromotedControls(C2, E))
        /\ LeasedIn(PromotedJobs(J2, C2, E)) = LeasedIn(J2)
    BY <1>1, <1>2, Transaction
  <1> QED BY <1>1, <1>3 DEF J2, C2, E

----------------------------------------------------------------------------
(* The steps, one after the other. *)

\* What every step does: it preserves the invariant and takes nothing back.
Proceeds == IInv' /\ Advances(job, ctl, job', ctl')

\* One live row changes or ends.
LEMMA OneRow ==
  ASSUME IInv, NEW j \in JobIds, NEW row \in Job, NEW E, NEW J2,
         J2 = [job EXCEPT ![j] = row],
         Live(job[j]), E \in {{}, {j}},
         IF E = {} THEN Live(row) ELSE row.status \in Ended,
         row.session = job[j].session, row.cursor = job[j].cursor,
         row.claims >= job[j].claims, BudgetOK(row),
         row.status = "leased" => job[j].status = "leased"
  PROVE  /\ J2 \in [JobIds -> Job] /\ E \in SUBSET JobIds
         /\ \A i \in JobIds : Changed(job[i], J2[i], i \in E)
         /\ LeasedIn(J2) \subseteq LeasedIn(job)
         /\ J2[j] = row
  <1>1. job \in [JobIds -> Job]
    BY DEF IInv, Tables
  <1>2. /\ J2 \in [JobIds -> Job] /\ J2[j] = row
        /\ \A i \in JobIds \ {j} : J2[i] = job[i]
    BY <1>1
  <1>3. \A i \in JobIds : (i \in E) <=> (i = j /\ E # {})
    OBVIOUS
  <1>4. ASSUME NEW i \in JobIds PROVE Changed(job[i], J2[i], i \in E)
    <2>1. CASE i = j
      BY <1>2, <1>3, <2>1 DEF Changed
    <2>2. CASE i # j
      BY <1>2, <1>3, <2>2 DEF Changed
    <2> QED BY <2>1, <2>2
  <1>5. LeasedIn(J2) \subseteq LeasedIn(job)
    BY <1>2 DEF LeasedIn
  <1> QED BY <1>2, <1>4, <1>5

\* A step that writes a transaction and at most ends runs.
LEMMA Written ==
  ASSUME IInv,
         NEW J2 \in [JobIds -> Job], NEW E \in SUBSET JobIds,
         NEW C2 \in [Controls -> Control],
         \A j \in JobIds : Changed(job[j], J2[j], j \in E),
         \A c \in Controls : Handled(J2, ctl[c], C2[c]),
         LeasedIn(J2) \subseteq LeasedIn(job),
         Promote(J2, C2, E),
         run' \in [Workers -> Run],
         \A w \in Workers : run'[w] = run[w] \/ run'[w] = Idle,
         drain' \in {"none", "this", "earlier"},
         cur' \in [Workers -> Nat],
         client' = client
  PROVE  Proceeds
  <1>1. /\ Tables(job', ctl', top', {}) /\ Advances(job, ctl, job', ctl')
        /\ LeasedIn(job') = LeasedIn(J2)
    <2>1. Tables(job, ctl, top, {})
      BY DEF IInv
    <2>2. /\ job' = PromotedJobs(J2, C2, E) /\ ctl' = PromotedControls(C2, E)
          /\ top' = top + Cardinality(FollowUps(C2, E))
      BY DEF Promote
    <2>3. /\ Tables(PromotedJobs(J2, C2, E), PromotedControls(C2, E),
                     top + Cardinality(FollowUps(C2, E)), {})
          /\ Advances(job, ctl, PromotedJobs(J2, C2, E), PromotedControls(C2, E))
          /\ LeasedIn(PromotedJobs(J2, C2, E)) = LeasedIn(J2)
      BY <2>1, Transaction
    <2> QED BY <2>2, <2>3
  <1>2. IInv'
    BY <1>1, Assembled
  <1> QED BY <1>1, <1>2 DEF Proceeds

\* A step that changes live rows, adds nothing, and leaves runs and controls alone.
LEMMA WrittenPlain ==
  ASSUME IInv, job' \in [JobIds -> Job],
         \A j \in JobIds : Changed(job[j], job'[j], FALSE),
         LeasedIn(job') \subseteq LeasedIn(job),
         UNCHANGED <<ctl, top, run, cur, client>>,
         drain' \in {"none", "this", "earlier"}
  PROVE  Proceeds
  <1>1. Tables(job, ctl, top, {})
    BY DEF IInv
  <1>2. \A j \in JobIds : Changed(job[j], job'[j], j \in {})
    BY DEF Changed
  <1>3. Tables(job', ctl', top', {}) /\ Advances(job, ctl, job', ctl')
    BY <1>1, <1>2, EndRows
  <1>4. run' \in [Workers -> Run] /\ cur' \in [Workers -> Nat]
    BY DEF IInv, Others
  <1>5. IInv'
    BY <1>3, <1>4, Assembled
  <1> QED BY <1>3, <1>5 DEF Proceeds

\* A step that hands out or applies open controls.
LEMMA WrittenControls ==
  ASSUME IInv, ctl' \in [Controls -> Control],
         \A c \in Controls : Handled(job, ctl[c], ctl'[c]),
         UNCHANGED <<job, top, drain, cur, client>>,
         run' \in [Workers -> Run],
         \A w \in Workers : run'[w] = run[w] \/ run'[w] = Idle \/ RunOK(w)'
  PROVE  Proceeds
  <1>1. Tables(job, ctl, top, {})
    BY DEF IInv
  <1>2. Tables(job', ctl', top', {}) /\ Advances(job, ctl, job', ctl')
    BY <1>1, HandleControls
  <1>3. cur' \in [Workers -> Nat] /\ drain' \in {"none", "this", "earlier"}
    BY DEF IInv, Others
  <1>4. IInv'
    BY <1>2, <1>3, Assembled
  <1> QED BY <1>2, <1>4 DEF Proceeds

\* A step that leaves the tables alone.
LEMMA Quiet ==
  ASSUME IInv, UNCHANGED <<job, ctl, top, cur, client>>,
         drain' \in {"none", "this", "earlier"},
         run' \in [Workers -> Run],
         \A w \in Workers : run'[w] = run[w] \/ run'[w] = Idle
  PROVE  Proceeds
  <1>1. Tables(job', ctl', top', {}) /\ Advances(job, ctl, job', ctl')
    BY AdvancesSame DEF IInv, Tables
  <1>2. cur' \in [Workers -> Nat]
    BY DEF IInv, Others
  <1>3. IInv'
    BY <1>1, <1>2, Assembled
  <1> QED BY <1>1, <1>3 DEF Proceeds

\* A run that ends leaves no run.
LEMMA RunEnds ==
  ASSUME IInv, NEW w \in Workers, run' = [run EXCEPT ![w] = Idle]
  PROVE  /\ run' \in [Workers -> Run]
         /\ \A v \in Workers : run'[v] = run[v] \/ run'[v] = Idle
  <1>1. Idle \in Run
    BY DEF Idle, Run
  <1> QED BY <1>1 DEF IInv, Others

\* What the guard of a report says of the row.
LEMMA HoldsRow ==
  ASSUME IInv, NEW w \in Workers, Holds(w)
  PROVE  /\ run[w] # Idle /\ run[w].job \in JobIds
         /\ job[run[w].job].status = "leased" /\ Live(job[run[w].job])
         /\ job[run[w].job] \in Job /\ RowOK(job, top, run[w].job)
         /\ run[w].held # None =>
               /\ run[w].held \in Controls /\ ctl[run[w].held] \in Control
               /\ ctl[run[w].held].job = run[w].job
  <1>1. run[w] # Idle /\ job[run[w].job].status = "leased"
    BY DEF Holds
  <1>2. RunOK(w) /\ run[w] \in Run
    BY DEF IInv, Others
  <1>3. run[w].job \in JobIds
    BY <1>1, <1>2 DEF RunOK
  <1>4. job[run[w].job] \in Job /\ RowOK(job, top, run[w].job)
    BY <1>3 DEF IInv, Tables
  <1>5. run[w].held # None =>
           /\ run[w].held \in Controls /\ ctl[run[w].held] \in Control
           /\ ctl[run[w].held].job = run[w].job
    BY <1>1, <1>2 DEF RunOK, Run, IInv, Tables
  <1> QED BY <1>1, <1>3, <1>4, <1>5 DEF Live, Active

\* The controls stay as they are.
LEMMA HandledSame == \A J, C : \A c \in Controls : Handled(J, C[c], C[c])
  BY DEF Handled

\* A poll that leases nothing still sweeps.
LEMMA PollNothingProceeds ==
  ASSUME IInv, NEW w \in Workers, PollNothing(w)
  PROVE  Proceeds
  <1>1. Overdue \in SUBSET JobIds /\ \A j \in Overdue : job[j].status = "leased"
    BY DEF Overdue
  <1>2. /\ run' \in [Workers -> Run] /\ cur' \in [Workers -> Nat]
        /\ \A v \in Workers : run'[v] = run[v]
        /\ drain' = "none" /\ client' = client
    BY DEF PollNothing, IInv, Others
  <1>3. Promote(RecoveredJobs(Overdue), RecoveredControls(Overdue), AbortedIn(Overdue))
    BY DEF PollNothing
  <1> QED BY <1>1, <1>2, <1>3, Recovery, Written

\* The sweep recovers the leases that ran out.
LEMMA SweepProceeds ==
  ASSUME IInv, Sweep
  PROVE  Proceeds
  <1>1. Overdue \in SUBSET JobIds /\ \A j \in Overdue : job[j].status = "leased"
    BY DEF Overdue
  <1>2. /\ run' \in [Workers -> Run] /\ cur' \in [Workers -> Nat]
        /\ \A v \in Workers : run'[v] = run[v]
        /\ drain' \in {"none", "this", "earlier"} /\ client' = client
    BY DEF Sweep, IInv, Others
  <1>3. Promote(RecoveredJobs(Overdue), RecoveredControls(Overdue), AbortedIn(Overdue))
    BY DEF Sweep
  <1> QED BY <1>1, <1>2, <1>3, Recovery, Written

\* A refused report recovers the row it still holds.
LEMMA RefusedProceeds ==
  ASSUME IInv, NEW w \in Workers, Refused(w)
  PROVE  Proceeds
  <1> DEFINE X == IF Holds(w) THEN {run[w].job} ELSE {}
  <1>1. X \in SUBSET JobIds /\ \A j \in X : job[j].status = "leased"
    BY HoldsRow
  <1>2. Promote(RecoveredJobs(X), RecoveredControls(X), AbortedIn(X))
    BY DEF Refused
  <1>3. /\ run' \in [Workers -> Run]
        /\ \A v \in Workers : run'[v] = run[v] \/ run'[v] = Idle
    BY RunEnds DEF Refused
  <1>4. /\ cur' \in [Workers -> Nat]
        /\ drain' \in {"none", "this", "earlier"} /\ client' = client
    BY DEF Refused, IInv, Others
  <1> HIDE DEF X
  <1> QED BY <1>1, <1>2, <1>3, <1>4, Recovery, Written

\* A completion ends the row.
LEMMA CompleteProceeds ==
  ASSUME IInv, NEW w \in Workers, Complete(w)
  PROVE  Proceeds
  <1> DEFINE j == run[w].job
             row == Unleased(job[j], "completed")
             J2 == [job EXCEPT ![j] = row]
  <1>1. /\ j \in JobIds /\ Live(job[j]) /\ job[j] \in Job /\ RowOK(job, top, j)
    BY HoldsRow DEF Complete, Accepted
  <1>2. /\ row \in Job /\ row.status = "completed" /\ row.session = job[j].session
        /\ row.cursor = job[j].cursor /\ row.claims = job[j].claims
        /\ row.tries = job[j].tries
    BY <1>1, UnleasedIs DEF Ended
  <1>3. Promote(J2, ctl, {j}) /\ ctl \in [Controls -> Control]
    BY DEF Complete, IInv, Tables
  <1>4. /\ run' \in [Workers -> Run]
        /\ \A v \in Workers : run'[v] = run[v] \/ run'[v] = Idle
    BY RunEnds DEF Complete
  <1>5. /\ cur' \in [Workers -> Nat]
        /\ drain' \in {"none", "this", "earlier"} /\ client' = client
    BY DEF Complete, IInv, Others
  <1> HIDE DEF j, row
  <1>6. BudgetOK(row) /\ row.claims >= job[j].claims
    BY <1>1, <1>2 DEF BudgetOK, RowOK, Live, Active, Job
  <1>7. /\ J2 \in [JobIds -> Job] /\ {j} \in SUBSET JobIds
        /\ \A i \in JobIds : Changed(job[i], J2[i], i \in {j})
        /\ LeasedIn(J2) \subseteq LeasedIn(job)
    BY <1>1, <1>2, <1>6, OneRow DEF Ended
  <1> HIDE DEF J2
  <1> QED BY <1>3, <1>4, <1>5, <1>7, HandledSame, Written

\* A row with one more failure.
LEMMA TriedIs ==
  ASSUME NEW u \in Job, NEW due \in BOOLEAN, NEW row,
         row = [u EXCEPT !.tries = @ + 1, !.due = due]
  PROVE  /\ row \in Job /\ row.status = u.status /\ row.session = u.session
         /\ row.cursor = u.cursor /\ row.claims = u.claims
         /\ row.tries = u.tries + 1
  <1> DEFINE n == u.tries + 1
  <1>1. n \in Nat /\ row = [u EXCEPT !.tries = n, !.due = due]
    BY DEF Job
  <1> HIDE DEF n
  <1>2. row \in Job
    BY <1>1 DEF Job
  <1>3. /\ row.status = u.status /\ row.session = u.session
        /\ row.cursor = u.cursor /\ row.claims = u.claims /\ row.tries = n
    BY <1>1 DEF Job
  <1> QED BY <1>2, <1>3 DEF n

\* A failure spends one try, and parks the row when none is left.
LEMMA FailProceeds ==
  ASSUME IInv, NEW w \in Workers, NEW terminal \in BOOLEAN, Fail(w, terminal)
  PROVE  Proceeds
  <1> DEFINE j == run[w].job
             parked == Parked(j, terminal)
             status == IF parked THEN "parked" ELSE "pending"
             row == [Unleased(job[j], status)
                       EXCEPT !.tries = @ + 1, !.due = parked \/ ~Scheduled]
             E == IF parked THEN {j} ELSE {}
             J2 == [job EXCEPT ![j] = row]
  <1>1. /\ j \in JobIds /\ Live(job[j]) /\ job[j] \in Job /\ RowOK(job, top, j)
        /\ job[j].status = "leased"
    BY HoldsRow DEF Fail, Accepted
  <1>2. /\ row \in Job /\ row.status = status /\ row.session = job[j].session
        /\ row.cursor = job[j].cursor /\ row.claims = job[j].claims
        /\ row.tries = job[j].tries + 1
    <2> DEFINE u == Unleased(job[j], status)
               due == parked \/ ~Scheduled
    <2>1. /\ u \in Job /\ u.status = status /\ u.session = job[j].session
          /\ u.cursor = job[j].cursor /\ u.claims = job[j].claims
          /\ u.tries = job[j].tries
      BY <1>1, UnleasedIs DEF Active, Ended
    <2>2. row = [u EXCEPT !.tries = @ + 1, !.due = due]
      OBVIOUS
    <2>3. due \in BOOLEAN
      OBVIOUS
    <2> HIDE DEF u, row, status, parked, due
    <2>4. /\ row \in Job /\ row.status = u.status /\ row.session = u.session
          /\ row.cursor = u.cursor /\ row.claims = u.claims
          /\ row.tries = u.tries + 1
      BY <2>1, <2>2, <2>3, TriedIs
    <2> QED BY <2>1, <2>4
  <1>3. Promote(J2, ctl, E) /\ ctl \in [Controls -> Control]
    BY DEF Fail, IInv, Tables
  <1>4. /\ run' \in [Workers -> Run]
        /\ \A v \in Workers : run'[v] = run[v] \/ run'[v] = Idle
    BY RunEnds DEF Fail
  <1>5. /\ cur' \in [Workers -> Nat]
        /\ drain' \in {"none", "this", "earlier"} /\ client' = client
    BY DEF Fail, IInv, Others
  <1>6. BudgetOK(row)
    <2>1. /\ job[j].tries \in Nat /\ job[j].claims \in Nat
          /\ job[j].tries < MaxAttempts /\ job[j].tries < job[j].claims
      BY <1>1 DEF RowOK, BudgetOK, Job
    <2>2. parked => row.tries = MaxAttempts \/ (Scheduled /\ row.tries > 0)
      <3>1. terminal => Scheduled
        BY DEF Fail
      <3>2. parked => terminal \/ job[j].tries + 1 >= MaxAttempts
        BY DEF Parked
      <3> HIDE DEF row, parked
      <3> QED BY <1>2, <2>1, <3>1, <3>2, QueueAssumption
    <2>3. ~parked => row.tries < MaxAttempts
      <3>1. ~parked => ~(job[j].tries + 1 >= MaxAttempts)
        BY DEF Parked
      <3> HIDE DEF row, parked
      <3> QED BY <1>2, <2>1, <3>1, QueueAssumption
    <2>4. row.status = IF parked THEN "parked" ELSE "pending"
      BY <1>2
    <2> HIDE DEF row, parked
    <2> QED BY <1>2, <2>1, <2>2, <2>3, <2>4 DEF BudgetOK, Live, Active
  <1>7. /\ E \in {{}, {j}}
        /\ IF E = {} THEN Live(row) ELSE row.status \in Ended
        /\ row.status # "leased"
    <2>1. row.status = IF parked THEN "parked" ELSE "pending"
      BY <1>2
    <2> HIDE DEF row, parked
    <2> QED BY <2>1 DEF Live, Active, Ended
  <1>8. row.claims >= job[j].claims
    BY <1>1, <1>2 DEF Job
  <1> HIDE DEF j, row, E, parked, status
  <1>9. /\ J2 \in [JobIds -> Job] /\ E \in SUBSET JobIds
        /\ \A i \in JobIds : Changed(job[i], J2[i], i \in E)
        /\ LeasedIn(J2) \subseteq LeasedIn(job)
    BY <1>1, <1>2, <1>6, <1>7, <1>8, OneRow
  <1> HIDE DEF J2
  <1> QED BY <1>3, <1>4, <1>5, <1>9, HandledSame, Written

\* The row of a claim: one claim more, and a worker's.
LEMMA LeasedIs ==
  ASSUME NEW row \in Job, NEW w \in Workers
  PROVE  /\ Leased(row, w) \in Job /\ Leased(row, w).status = "leased"
         /\ Leased(row, w).session = row.session /\ Leased(row, w).cursor = row.cursor
         /\ Leased(row, w).claims = row.claims + 1 /\ Leased(row, w).tries = row.tries
  <1> DEFINE n == row.claims + 1
             new == [row EXCEPT !.status = "leased", !.by = w, !.expired = FALSE,
                                !.claims = n]
  <1>1. n \in Nat /\ Leased(row, w) = new
    BY DEF Leased, Job
  <1> HIDE DEF n
  <1>2. new \in Job
    BY <1>1 DEF Job, Active
  <1>3. /\ new.status = "leased" /\ new.session = row.session /\ new.cursor = row.cursor
        /\ new.claims = n /\ new.tries = row.tries
    BY DEF Job
  <1> QED BY <1>1, <1>2, <1>3 DEF n

\* A claim that the limits allow leaves the limits respected.
LEMMA ClaimLimits ==
  ASSUME NEW J \in [JobIds -> Job], NEW w, NEW j \in Claimable(J, w), LimitsOK(J),
         NEW J2, LeasedIn(J2) = LeasedIn(J) \cup {j}
  PROVE  LimitsOK(J2)
  <1> DEFINE L == LeasedIn(J)
             S(i) == Sharing(J, i)
  <1>1. /\ j \in JobIds /\ J[j].status = "pending" /\ j \notin L
        /\ Scheduled => Cardinality(L) < MaxLeased
        /\ JobKey(j) # None => \A i \in S(j) \cup {j} : Cardinality(S(j)) < LimitOf[i]
    BY DEF Claimable, KeyFree, LeasedIn
  <1>2. L \in SUBSET JobIds /\ IsFiniteSet(L) /\ Cardinality(L) \in Nat
    BY Finite DEF LeasedIn
  <1>3. \A i \in JobIds : /\ S(i) \subseteq L /\ IsFiniteSet(S(i))
                         /\ Cardinality(S(i)) \in Nat
    BY <1>2, Finite DEF Sharing
  <1>4. Scheduled => Cardinality(LeasedIn(J2)) <= MaxLeased
    <2>1. Cardinality(L \cup {j}) = Cardinality(L) + 1
      BY <1>1, <1>2, FS_AddElement
    <2> QED BY <1>1, <1>2, <2>1, QueueAssumption
  <1>5. ASSUME NEW a \in LeasedIn(J2), NEW b \in LeasedIn(J2), JobKey(a) # None,
               JobKey(a) = JobKey(b)
        PROVE  Cardinality(Sharing(J2, a)) <= LimitOf[b]
    <2>0. LimitOf[b] \in Nat /\ a \in JobIds
      <3>1. b \in Requests
        BY <1>5 DEF JobKey
      <3> QED BY <3>1, QueueAssumption DEF LeasedIn
    <2>1. CASE JobKey(a) = JobKey(j)
      <3>1. Sharing(J2, a) = S(j) \cup {j}
        BY <2>1 DEF Sharing
      <3>2. j \notin S(j)
        BY <1>1, <1>3
      <3>3. Cardinality(Sharing(J2, a)) = Cardinality(S(j)) + 1
        BY <1>1, <1>3, <3>1, <3>2, FS_AddElement
      <3>4. b \in S(j) \cup {j}
        BY <1>5, <2>1 DEF Sharing
      <3>5. Cardinality(S(j)) < LimitOf[b]
        BY <1>1, <1>5, <2>1, <3>4
      <3> HIDE DEF S
      <3> QED BY <1>1, <1>3, <2>0, <3>3, <3>5
    <2>2. CASE JobKey(a) # JobKey(j)
      <3>1. Sharing(J2, a) = S(a) /\ a \in L /\ b \in L
        BY <1>5, <2>2 DEF Sharing
      <3> QED BY <1>5, <3>1 DEF LimitsOK
    <2> QED BY <2>1, <2>2
  <1> QED BY <1>4, <1>5 DEF LimitsOK

\* A claim sweeps and leases one of the rows the sweep left.
LEMMA ClaimRowProceeds ==
  ASSUME IInv, NEW w \in Workers, NEW j \in JobIds, NEW heard \in BOOLEAN,
         ClaimRow(w, j, heard)
  PROVE  Proceeds
  <1> DEFINE J == SweptJobs
  <1>1. Overdue \in SUBSET JobIds /\ \A i \in Overdue : job[i].status = "leased"
    BY DEF Overdue
  <1>2. /\ Tables(J, ctl', top', {}) /\ Advances(job, ctl, J, ctl')
        /\ LeasedIn(J) \subseteq LeasedIn(job)
    BY <1>1, RecoveredTables DEF ClaimRow, SweptJobs
  <1>3. /\ j \in Claimable(J, w) /\ J[j].status = "pending"
        /\ job' = [J EXCEPT ![j] = Leased(J[j], w)]
    BY DEF ClaimRow, Claimable
  <1> HIDE DEF J
  <1>4. J \in [JobIds -> Job] /\ J[j] \in Job /\ RowOK(J, top', j)
    BY <1>2 DEF Tables
  <1>5. /\ Leased(J[j], w) \in Job /\ Leased(J[j], w).status = "leased"
        /\ Leased(J[j], w).session = J[j].session
        /\ Leased(J[j], w).cursor = J[j].cursor
        /\ Leased(J[j], w).claims = J[j].claims + 1
        /\ Leased(J[j], w).tries = J[j].tries
    BY <1>4, LeasedIs
  <1>6. J[j].claims \in Nat /\ J[j].tries \in Nat
    BY <1>4 DEF Job
  <1>7. /\ job' \in [JobIds -> Job] /\ job'[j] = Leased(J[j], w)
        /\ \A i \in JobIds \ {j} : job'[i] = J[i]
    BY <1>3, <1>4, <1>5
  <1>8. BudgetOK(Leased(J[j], w))
    BY <1>3, <1>4, <1>5, <1>6 DEF BudgetOK, RowOK, Live, Active
  <1>9. \A i \in JobIds : Changed(J[i], job'[i], i \in {})
    <2>1. Changed(J[j], job'[j], FALSE)
      BY <1>3, <1>5, <1>6, <1>7, <1>8 DEF Changed, Live, Active
    <2>2. \A i \in JobIds \ {j} : Changed(J[i], job'[i], FALSE)
      BY <1>7 DEF Changed
    <2> QED BY <2>1, <2>2 DEF Changed
  <1>10. Tables(job', ctl', top', {}) /\ Advances(J, ctl', job', ctl')
    BY <1>2, <1>7, <1>9, EndRows
  <1>11. Advances(job, ctl, job', ctl')
    <2>1. job \in [JobIds -> Job]
      BY DEF IInv, Tables
    <2> QED BY <1>2, <1>4, <1>7, <1>10, <2>1, AdvancesTwice
  <1>12. LeasedIn(job') = LeasedIn(J) \cup {j}
    BY <1>5, <1>7 DEF LeasedIn
  <1>13. LimitsOK(job')
    <2>1. LimitsOK(J)
      BY <1>2, FewerLeased DEF IInv
    <2> QED BY <1>3, <1>4, <1>12, <2>1, ClaimLimits
  <1>14. run' \in [Workers -> Run] /\ \A v \in Workers : run'[v] = run[v] \/ RunOK(v)'
    <2>1. CASE heard
      <3> DEFINE r == [Idle EXCEPT !.job = j, !.token = J[j].claims + 1]
      <3>1. run' = [run EXCEPT ![w] = r]
        BY <2>1 DEF ClaimRow, J
      <3>2. r \in Run /\ r.job = j /\ r.token = J[j].claims + 1 /\ r.held = None
        <4> DEFINE n == J[j].claims + 1
        <4>1. n \in Nat
          BY <1>6
        <4> HIDE DEF n
        <4>2. Idle \in Run
          BY DEF Idle, Run
        <4>3. [Idle EXCEPT !.job = j, !.token = n] \in Run
          BY <4>1, <4>2 DEF Run
        <4> QED BY <4>3 DEF n, Idle
      <3> HIDE DEF r
      <3>3. run' \in [Workers -> Run] /\ run'[w] = r
            /\ \A v \in Workers \ {w} : run'[v] = run[v]
        BY <3>1, <3>2 DEF IInv, Others
      <3>4. RunOK(w)'
        BY <1>5, <1>6, <1>7, <3>2, <3>3 DEF RunOK
      <3> QED BY <3>3, <3>4
    <2>2. CASE ~heard
      BY <2>2 DEF ClaimRow, IInv, Others
    <2> QED BY <2>1, <2>2
  <1>15. cur' \in [Workers -> Nat] /\ drain' = "none" /\ client' = client
    <2>1. J[j].cursor \in Nat /\ cur \in [Workers -> Nat]
      BY <1>4 DEF Job, IInv, Others
    <2> QED BY <2>1 DEF ClaimRow, J
  <1>16. IInv'
    BY <1>10, <1>11, <1>13, <1>14, <1>15, Assembled
  <1> QED BY <1>11, <1>16 DEF Proceeds

\* The control that is next for a row is an open control of it.
LEMMA NextForIs ==
  ASSUME IInv, NEW j \in JobIds,
         OpenOf(ctl, j, "abort") \cup OpenOf(ctl, j, "steer") # {}
  PROVE  /\ NextFor(j) \in Controls /\ ctl[NextFor(j)].job = j
         /\ ctl[NextFor(j)].status \in OpenStates
  <1>1. ctl \in [Controls -> Control]
    BY DEF IInv, Tables
  <1>2. CASE OpenOf(ctl, j, "abort") # {}
    <2>1. NextFor(j) \in OpenOf(ctl, j, "abort")
      BY <1>1, <1>2, FirstOpen DEF NextFor
    <2> QED BY <2>1 DEF OpenOf
  <1>3. CASE OpenOf(ctl, j, "abort") = {}
    <2>1. NextFor(j) \in OpenOf(ctl, j, "steer")
      BY <1>1, <1>3, FirstOpen DEF NextFor
    <2> QED BY <2>1 DEF OpenOf
  <1> QED BY <1>2, <1>3

\* A poll for a control hands an open one out.
LEMMA PollControlProceeds ==
  ASSUME IInv, NEW w \in Workers, NEW heard \in BOOLEAN, PollControl(w, heard)
  PROVE  Proceeds
  <1> DEFINE j == run[w].job
             c == NextFor(j)
             n == ctl[c].deliveries + 1
             row == [ctl[c] EXCEPT !.status = "delivered", !.deliveries = n, !.live = TRUE]
  <1>1. j \in JobIds /\ run[w] # Idle
    BY HoldsRow DEF PollControl, Accepted
  <1>2. c \in Controls /\ ctl[c].job = j /\ ctl[c].status \in OpenStates
    BY <1>1, NextForIs DEF PollControl
  <1>3. ctl \in [Controls -> Control] /\ ctl[c] \in Control
    BY <1>2 DEF IInv, Tables
  <1>4. ctl' = [ctl EXCEPT ![c] = row]
    BY <1>2, <1>3 DEF PollControl
  <1>5. n \in Nat
    BY <1>3 DEF Control
  <1> HIDE DEF n, c, j
  <1>6. /\ row \in Control /\ row.status = "delivered" /\ row.job = ctl[c].job
        /\ row.type = ctl[c].type
    BY <1>3, <1>5 DEF Control, OpenStates
  <1> HIDE DEF row
  <1>7. /\ ctl' \in [Controls -> Control] /\ ctl'[c] = row
        /\ \A d \in Controls \ {c} : ctl'[d] = ctl[d]
    BY <1>2, <1>3, <1>4, <1>6
  <1>8. \A d \in Controls : Handled(job, ctl[d], ctl'[d])
    BY <1>2, <1>6, <1>7 DEF Handled, OpenStates
  <1>9. UNCHANGED <<job, top, drain, cur, client>>
    BY DEF PollControl
  <1>10. run' \in [Workers -> Run] /\ \A v \in Workers : run'[v] = run[v] \/ RunOK(v)'
    <2>1. CASE heard
      <3> DEFINE r == [run[w] EXCEPT !.held = c, !.delivery = n]
      <3>0. run[w] \in Run
        BY DEF IInv, Others
      <3>1. run' = [run EXCEPT ![w] = r]
        BY <2>1, <3>0 DEF PollControl, c, n, j, IInv, Others
      <3>2. r \in Run /\ r.job = j /\ r.token = run[w].token /\ r.held = c
        BY <1>2, <1>5, <3>0 DEF Run, j
      <3> HIDE DEF r
      <3>3. run' \in [Workers -> Run] /\ run'[w] = r
            /\ \A v \in Workers \ {w} : run'[v] = run[v]
        BY <3>1, <3>2 DEF IInv, Others
      <3>4. /\ 1 <= run[w].token /\ run[w].token <= job[j].claims
        BY <1>1 DEF IInv, RunOK, j
      <3>5. RunOK(w)'
        BY <1>1, <1>2, <1>6, <1>7, <1>9, <3>2, <3>3, <3>4 DEF RunOK
      <3> QED BY <3>3, <3>5
    <2>2. CASE ~heard
      BY <2>2 DEF PollControl, IInv, Others
    <2> QED BY <2>1, <2>2
  <1> QED BY <1>7, <1>8, <1>9, <1>10, WrittenControls

\* An applied control keeps its row and its type.
LEMMA AppliedIs ==
  ASSUME NEW old \in Control, NEW row,
         row = [old EXCEPT !.status = "applied", !.live = FALSE]
  PROVE  /\ row \in Control /\ row.status = "applied" /\ row.job = old.job
         /\ row.type = old.type
  BY DEF Control

\* A receipt applies the steer.
LEMMA AcknowledgeSteerProceeds ==
  ASSUME IInv, NEW w \in Workers, AcknowledgeSteer(w)
  PROVE  Proceeds
  <1> DEFINE c == run[w].held
             row == [ctl[c] EXCEPT !.status = "applied", !.live = FALSE]
             r == [run[w] EXCEPT !.held = None, !.delivery = 0]
  <1>1. /\ run[w] # Idle /\ run[w].job \in JobIds
        /\ c # None => c \in Controls /\ ctl[c] \in Control
    BY HoldsRow DEF AcknowledgeSteer, Accepted
  <1>2. /\ c # None /\ ctl[c].status = "delivered" /\ ctl[c].type # "abort"
    BY DEF AcknowledgeSteer, DeliveryCurrent, Stopping
  <1>3. ctl \in [Controls -> Control] /\ run[w] \in Run /\ run \in [Workers -> Run]
    BY DEF IInv, Tables, Others
  <1>4. ctl' = [ctl EXCEPT ![c] = row] /\ run' = [run EXCEPT ![w] = r]
    BY <1>1, <1>2, <1>3 DEF AcknowledgeSteer
  <1>5. UNCHANGED <<job, top, drain, cur, client>>
    BY DEF AcknowledgeSteer
  <1>6. r \in Run /\ r.job = run[w].job /\ r.token = run[w].token /\ r.held = None
    BY <1>3 DEF Run
  <1> HIDE DEF c
  <1>7. row \in Control /\ row.status = "applied" /\ row.job = ctl[c].job
        /\ row.type = ctl[c].type
    BY <1>1, <1>2, AppliedIs
  <1> HIDE DEF row, r
  <1>8. /\ ctl' \in [Controls -> Control]
        /\ \A d \in Controls : Handled(job, ctl[d], ctl'[d])
    BY <1>1, <1>2, <1>3, <1>4, <1>7 DEF Handled, OpenStates
  <1>9. /\ run' \in [Workers -> Run] /\ run'[w] = r
        /\ \A v \in Workers \ {w} : run'[v] = run[v]
    BY <1>3, <1>4, <1>6
  <1>10. RunOK(w)'
    <2>1. /\ 1 <= run[w].token /\ run[w].token <= job[run[w].job].claims
      BY <1>1 DEF IInv, RunOK
    <2> QED BY <1>1, <1>5, <1>6, <1>9, <2>1 DEF RunOK
  <1> QED BY <1>5, <1>8, <1>9, <1>10, WrittenControls

\* The receipt of an abort cancels the row and applies the abort.
LEMMA AcknowledgeAbortProceeds ==
  ASSUME IInv, NEW w \in Workers, AcknowledgeAbort(w)
  PROVE  Proceeds
  <1> DEFINE j == run[w].job
             c == run[w].held
             row == Unleased(job[j], "cancelled")
             new == [ctl[c] EXCEPT !.status = "applied", !.live = FALSE]
             J2 == [job EXCEPT ![j] = row]
             C2 == [ctl EXCEPT ![c] = new]
  <1>1. /\ j \in JobIds /\ Live(job[j]) /\ job[j] \in Job /\ RowOK(job, top, j)
        /\ c # None => c \in Controls /\ ctl[c] \in Control /\ ctl[c].job = j
    BY HoldsRow DEF AcknowledgeAbort, Accepted
  <1>2. /\ c # None /\ ctl[c].status = "delivered"
    BY DEF AcknowledgeAbort, DeliveryCurrent
  <1>3. ctl \in [Controls -> Control]
    BY DEF IInv, Tables
  <1>4. Promote(J2, C2, {j})
    BY <1>1, <1>2, <1>3 DEF AcknowledgeAbort
  <1>5. /\ run' \in [Workers -> Run]
        /\ \A v \in Workers : run'[v] = run[v] \/ run'[v] = Idle
    BY RunEnds DEF AcknowledgeAbort
  <1>6. /\ cur' \in [Workers -> Nat]
        /\ drain' \in {"none", "this", "earlier"} /\ client' = client
    BY DEF AcknowledgeAbort, IInv, Others
  <1> HIDE DEF j, c
  <1>7. /\ row \in Job /\ row.status = "cancelled" /\ row.session = job[j].session
        /\ row.cursor = job[j].cursor /\ row.claims = job[j].claims
        /\ row.tries = job[j].tries
    BY <1>1, UnleasedIs DEF Ended
  <1>8. new \in Control /\ new.status = "applied" /\ new.job = ctl[c].job
        /\ new.type = ctl[c].type
    BY <1>1, <1>2, AppliedIs
  <1> HIDE DEF row, new
  <1>9. BudgetOK(row) /\ row.claims >= job[j].claims
    BY <1>1, <1>7 DEF BudgetOK, RowOK, Live, Active, Job
  <1>10. /\ J2 \in [JobIds -> Job] /\ {j} \in SUBSET JobIds /\ J2[j] = row
         /\ \A i \in JobIds : Changed(job[i], J2[i], i \in {j})
         /\ LeasedIn(J2) \subseteq LeasedIn(job)
    BY <1>1, <1>7, <1>9, OneRow DEF Ended
  <1> HIDE DEF J2
  <1>11. /\ C2 \in [Controls -> Control]
         /\ \A d \in Controls : Handled(J2, ctl[d], C2[d])
    BY <1>1, <1>2, <1>3, <1>7, <1>8, <1>10 DEF Handled, OpenStates
  <1> HIDE DEF C2
  <1> QED BY <1>4, <1>5, <1>6, <1>10, <1>11, Written

\* An enqueued row is the only one of its session, and of its packet.
LEMMA EnqueueProceeds ==
  ASSUME IInv, NEW k \in Requests, Enqueue(k)
  PROVE  Proceeds
  <1> DEFINE new == PendingRow(k, top + 1)
  <1>1. Tables(job, ctl, top, {})
    BY DEF IInv
  <1>2. /\ job \in [JobIds -> Job] /\ ctl \in [Controls -> Control] /\ top \in Nat
        /\ k \in JobIds /\ k # None
    BY <1>1, QueueAssumption DEF Tables, JobIds
  <1>3. /\ new \in Job /\ new.status = "pending" /\ new.session = k
        /\ new.cursor = top + 1 /\ new.claims = 0 /\ new.tries = 0
    BY <1>2, NewRowIs
  <1>4. /\ job[k].status = "absent" /\ job' = [job EXCEPT ![k] = new] /\ top' = top + 1
        /\ ~PacketTaken(PacketFor(k)) /\ UNCHANGED <<ctl, drain, run, cur, client>>
    BY DEF Enqueue
  <1> HIDE DEF new
  <1>5. /\ job' \in [JobIds -> Job] /\ job'[k] = new
        /\ \A j \in JobIds \ {k} : job'[j] = job[j]
    BY <1>2, <1>3, <1>4
  <1>6. Live(job'[k]) /\ Present(job'[k]) /\ ~Present(job[k])
    BY <1>3, <1>4, <1>5 DEF Live, Present, Active
  <1>7. \A j \in JobIds : Present(job[j]) =>
           /\ j # k /\ job'[j] = job[j] /\ job[j].session # k
           /\ job[j].cursor \in Nat /\ job[j].cursor <= top
    <2> SUFFICES ASSUME NEW j \in JobIds, Present(job[j])
                 PROVE  /\ j # k /\ job'[j] = job[j] /\ job[j].session # k
                        /\ job[j].cursor \in Nat /\ job[j].cursor <= top
      OBVIOUS
    <2>1. RowOK(job, top, j) /\ job[j] \in Job
      BY <1>1 DEF Tables
    <2> QED BY <1>5, <1>6, <2>1 DEF RowOK, Job
  <1>8. ASSUME NEW j \in JobIds PROVE RowOK(job', top', j)
    <2>1. CASE j = k
      <3>1. BudgetOK(new)
        BY <1>3, QueueAssumption DEF BudgetOK, Live
      <3> QED BY <1>2, <1>3, <1>4, <1>5, <1>6, <2>1, <3>1 DEF RowOK
    <2>2. CASE j # k
      <3>1. RowOK(job, top, j) /\ job'[j] = job[j]
        BY <1>1, <1>5, <2>2 DEF Tables
      <3>2. Present(job[j]) => job[j].cursor <= top'
        BY <1>2, <1>4, <1>7
      <3>3. Present(job[j]) => Present(job'[job[j].session])
        <4>1. Present(job[j]) => job[j].session \in JobIds /\ Present(job[job[j].session])
          BY <3>1 DEF RowOK, JobIds
        <4> QED BY <1>7, <4>1
      <3> QED BY <3>1, <3>2, <3>3 DEF RowOK
    <2> QED BY <2>1, <2>2
  <1>9. PacketIn(new) = PacketFor(k)
    BY <1>2, <1>3 DEF PacketIn
  <1>10. \A j \in JobIds : Live(job[j]) => \/ PacketFor(k) = None
                                          \/ PacketIn(job[j]) # PacketFor(k)
    BY <1>4 DEF PacketTaken, Live, Packet, PacketIn
  <1>11. ASSUME NEW i \in JobIds, NEW j \in JobIds, i # j PROVE PairOK(job', i, j)
    <2>0. PairOK(job, i, j) /\ RowOK(job, top, j)
      BY <1>1, <1>11 DEF Tables
    <2>1. CASE i # k /\ j # k
      BY <1>5, <2>0, <2>1 DEF PairOK
    <2>2. CASE i = k
      <3>1. job'[i] = new /\ job'[j] = job[j]
        BY <1>5, <1>11, <2>2
      <3>2. job[j].session # k
        BY <1>2, <1>7, <2>0 DEF RowOK
      <3> QED BY <1>3, <1>9, <1>10, <3>1, <3>2 DEF PairOK
    <2>3. CASE j = k
      <3>1. job'[j] = new /\ job'[i] = job[i]
        BY <1>5, <1>11, <2>3
      <3>2. Live(job[i]) => Present(job[i])
        BY DEF Live, Present, Active
      <3>3. Live(job[i]) => job[i].session # k
        BY <1>7, <3>2
      <3> QED BY <1>3, <1>9, <1>10, <3>1, <3>3 DEF PairOK
    <2> QED BY <2>1, <2>2, <2>3
  <1>12. ASSUME NEW c \in Controls PROVE ControlOK(job', ctl, {}, c)
    <2>1. ControlOK(job, ctl, {}, c) /\ c \in JobIds
      BY <1>1 DEF Tables, JobIds
    <2>2. job'[c] = job[c]
      BY <1>5, <2>1, QueueAssumption
    <2>3. ctl[c].status # "absent" =>
            Present(job'[ctl[c].job]) /\ job'[ctl[c].job] = job[ctl[c].job]
      BY <1>7, <2>1 DEF ControlOK
    <2>4. ctl[c].type = "steer" /\ ctl[c].status = "follow_up" =>
             FollowedBy(job', ctl, c, ctl[c].follow)
      <3> SUFFICES ASSUME ctl[c].type = "steer", ctl[c].status = "follow_up"
                   PROVE  FollowedBy(job', ctl, c, ctl[c].follow)
        OBVIOUS
      <3>1. FollowedBy(job, ctl, c, ctl[c].follow)
        BY <2>1 DEF ControlOK
      <3>2. job'[ctl[c].follow] = job[ctl[c].follow]
        BY <1>7, <3>1 DEF FollowedBy, JobIds
      <3> QED BY <2>3, <3>1, <3>2 DEF FollowedBy
    <2>5. ctl[c].status \in OpenStates \cup {"applied", "superseded"} => ctl[c].status # "absent"
      BY DEF OpenStates
    <2> QED BY <2>1, <2>2, <2>3, <2>4, <2>5 DEF ControlOK
  <1>13. Tables(job', ctl', top', {})
    <2>1. top' \in Nat /\ ctl' = ctl
      BY <1>2, <1>4
    <2>2. Tables(job', ctl, top', {})
      BY <1>2, <1>5, <1>8, <1>11, <1>12, <2>1 DEF Tables
    <2> QED BY <2>1, <2>2
  <1>14. Advances(job, ctl, job', ctl')
    <2>1. ASSUME NEW j \in JobIds PROVE RowAdvances(job[j], job'[j])
      <3>1. job[j].claims \in Nat
        BY <1>2 DEF Job
      <3>2. job[j].status \in Ended => Present(job[j])
        BY DEF Present, Ended
      <3> QED BY <1>7, <3>1, <3>2 DEF RowAdvances
    <2>2. ASSUME NEW c \in Controls PROVE ControlAdvances(ctl[c], ctl'[c])
      BY <1>4 DEF ControlAdvances
    <2> QED BY <2>1, <2>2 DEF Advances
  <1>15. LeasedIn(job') \subseteq LeasedIn(job)
    BY <1>3, <1>5 DEF LeasedIn
  <1>16. /\ run' \in [Workers -> Run] /\ cur' \in [Workers -> Nat]
         /\ drain' \in {"none", "this", "earlier"}
    BY <1>4 DEF IInv, Others
  <1>17. IInv'
    BY <1>4, <1>13, <1>14, <1>15, <1>16, Assembled
  <1> QED BY <1>14, <1>17 DEF Proceeds

\* The control that is sent for a row.
SentRow(type, j, status) ==
    [NoControl EXCEPT !.status = status, !.type = type, !.job = j, !.seq = NextSeq(j)]

\* It is a control of that row.
LEMMA SentIs ==
  ASSUME NEW j \in JobIds, NEW type \in {"steer", "abort"},
         NEW status \in {"pending", "applied", "superseded"}
  PROVE  /\ SentRow(type, j, status) \in Control
         /\ SentRow(type, j, status).status = status
         /\ SentRow(type, j, status).type = type /\ SentRow(type, j, status).job = j
  <1> DEFINE S == {c \in Controls : ctl[c].job = j}
             n == NextSeq(j)
  <1>1. S \in SUBSET Controls
    OBVIOUS
  <1>2. Cardinality(S) \in Nat
    BY <1>1, Finite
  <1>3. n \in Nat
    BY <1>2 DEF NextSeq
  <1> HIDE DEF n
  <1>4. NoControl \in Control
    BY DEF NoControl, Control
  <1>5. [NoControl EXCEPT !.status = status, !.type = type, !.job = j, !.seq = n] \in Control
    BY <1>3, <1>4 DEF Control, OpenStates
  <1> QED BY <1>5 DEF SentRow, n, NoControl

\* Tables with a control sent and the ended rows promoted are written.
LEMMA Sent ==
  ASSUME IInv, NEW J \in [JobIds -> Job], NEW C, NEW E,
         Tables(J, C, top, E), JustEnded(J, E), Advances(job, ctl, J, C),
         LeasedIn(J) \subseteq LeasedIn(job),
         Promote(J, C, E), UNCHANGED <<drain, run, cur, client>>
  PROVE  Proceeds
  <1>1. /\ Tables(job', ctl', top', {}) /\ Advances(J, C, job', ctl')
        /\ LeasedIn(job') = LeasedIn(J)
    BY PromoteTables DEF Promote
  <1>2. job \in [JobIds -> Job] /\ job' \in [JobIds -> Job]
    BY <1>1 DEF IInv, Tables
  <1>3. Advances(job, ctl, job', ctl')
    BY <1>1, <1>2, AdvancesTwice
  <1>4. /\ run' \in [Workers -> Run] /\ cur' \in [Workers -> Nat]
        /\ drain' \in {"none", "this", "earlier"}
    BY DEF IInv, Others
  <1>5. IInv'
    BY <1>1, <1>3, <1>4, Assembled
  <1> QED BY <1>3, <1>5 DEF Proceeds

\* A steer goes to the newest row of its session, or becomes a follow-up of it.
LEMMA QueueSteerProceeds ==
  ASSUME IInv, NEW c \in Controls, NEW s \in Requests, QueueSteer(c, s)
  PROVE  Proceeds
  <1> DEFINE j == Newest(s)
             ended == job[j].status \in Ended
             row == SentRow("steer", j, "pending")
             C == [ctl EXCEPT ![c] = row]
             E == IF ended THEN {j} ELSE {}
  <1>1. Tables(job, ctl, top, {}) /\ job \in [JobIds -> Job]
    BY DEF IInv, Tables
  <1>2. /\ Present(job[s]) /\ ctl[c].status = "absent"
        /\ ended => ~PacketTaken(PacketFor(s))
        /\ Promote(job, C, E) /\ UNCHANGED <<drain, run, cur, client>>
    BY DEF QueueSteer, Present, WithControl, SentRow
  <1>3. /\ j \in JobIds /\ job[j].session = s
        /\ \A i \in JobIds : job[i].session = s => job[i].cursor <= job[j].cursor
    BY <1>1, <1>2, NewestIn
  <1> HIDE DEF j
  <1>4. Present(job[j]) /\ (ended \/ Live(job[j]))
    <2>1. RowOK(job, top, j) /\ job[j] \in Job /\ s # None
      BY <1>1, <1>3, QueueAssumption DEF Tables
    <2>2. Present(job[j])
      BY <1>3, <2>1 DEF RowOK
    <2> QED BY <2>1, <2>2 DEF Job, Present, Live
  <1>5. row \in Control /\ row.status = "pending" /\ row.type = "steer" /\ row.job = j
    BY <1>3, SentIs
  <1>6. JustEnded(job, E)
    <2> SUFFICES ASSUME ended
                 PROVE  \A i \in JobIds \ {j} :
                           /\ job[i].session = job[j].session => ~Live(job[i]) /\ i \notin E
                           /\ Live(job[i]) \/ i \in E =>
                                 \/ PacketIn(job[j]) = None
                                 \/ PacketIn(job[i]) # PacketIn(job[j])
      BY <1>3 DEF JustEnded
    <2> SUFFICES ASSUME NEW i \in JobIds \ {j}
                 PROVE  /\ job[i].session = job[j].session => ~Live(job[i])
                        /\ Live(job[i]) => \/ PacketIn(job[j]) = None
                                          \/ PacketIn(job[i]) # PacketIn(job[j])
      OBVIOUS
    <2>1. PairOK(job, i, j) /\ job[i] \in Job /\ job[j] \in Job
      BY <1>1, <1>3 DEF Tables
    <2>2. job[i].session = job[j].session => ~Live(job[i])
      BY <1>3, <2>1 DEF PairOK, Job
    <2>3. PacketIn(job[j]) = PacketFor(s)
      BY <1>3, QueueAssumption DEF PacketIn
    <2>4. Live(job[i]) => PacketFor(s) = None \/ PacketIn(job[i]) # PacketFor(s)
      BY <1>2 DEF PacketTaken, Live, Packet, PacketIn
    <2> QED BY <2>2, <2>3, <2>4
  <1>7. Tables(job, ctl, top, E)
    BY <1>1, MoreEnded
  <1>8. j \in E \/ Live(job[j])
    BY <1>4
  <1> HIDE DEF row, E
  <1>9. Tables(job, C, top, E) /\ Advances(job, ctl, job, C)
    BY <1>2, <1>3, <1>4, <1>5, <1>7, <1>8, InsertControl
  <1> HIDE DEF C
  <1> QED BY <1>1, <1>2, <1>6, <1>9, Sent

\* An abort cancels a row that waits, and is delivered to one that is leased.
LEMMA QueueAbortProceeds ==
  ASSUME IInv, NEW c \in Controls, NEW s \in Requests, QueueAbort(c, s)
  PROVE  Proceeds
  <1> DEFINE j == Newest(s)
             idle == job[j].status = "pending"
             status == IF idle THEN "applied"
                       ELSE IF job[j].status = "leased" THEN "pending" ELSE "superseded"
             row == SentRow("abort", j, status)
             C == [ctl EXCEPT ![c] = row]
             E == IF idle THEN {j} ELSE {}
             new == Unleased(job[j], "cancelled")
             J == IF idle THEN [job EXCEPT ![j] = new] ELSE job
  <1>1. Tables(job, ctl, top, {}) /\ job \in [JobIds -> Job]
    BY DEF IInv, Tables
  <1>2. /\ Present(job[s]) /\ ctl[c].status = "absent"
        /\ UNCHANGED <<drain, run, cur, client>>
    BY DEF QueueAbort, Present
  <1>3. j \in JobIds /\ job[j].session = s
    BY <1>1, <1>2, NewestIn
  <1>4. Promote(J, C, E)
    BY <1>1, <1>3 DEF QueueAbort, WithControl, SentRow
  <1> HIDE DEF j
  <1>5. /\ Present(job[j]) /\ job[j].status \in Active \cup Ended /\ job[j] \in Job
        /\ RowOK(job, top, j)
    <2>1. RowOK(job, top, j) /\ job[j] \in Job /\ s # None
      BY <1>1, <1>3, QueueAssumption DEF Tables
    <2>2. Present(job[j])
      BY <1>3, <2>1 DEF RowOK
    <2> QED BY <2>1, <2>2 DEF Job, Present
  <1>6. row \in Control /\ row.status = status /\ row.type = "abort" /\ row.job = j
    <2>1. status \in {"pending", "applied", "superseded"}
      OBVIOUS
    <2> HIDE DEF status
    <2> QED BY <1>3, <2>1, SentIs
  <1>7. /\ J \in [JobIds -> Job] /\ E \in SUBSET JobIds
        /\ \A i \in JobIds : Changed(job[i], J[i], i \in E)
        /\ LeasedIn(J) \subseteq LeasedIn(job)
        /\ idle => J[j].status = "cancelled"
        /\ ~idle => J = job
        /\ Present(J[j])
    <2>1. CASE idle
      <3>1. /\ new \in Job /\ new.status = "cancelled" /\ new.session = job[j].session
            /\ new.cursor = job[j].cursor /\ new.claims = job[j].claims
            /\ new.tries = job[j].tries
        BY <1>5, UnleasedIs DEF Ended
      <3>2. J = [job EXCEPT ![j] = new] /\ E = {j} /\ Live(job[j])
        BY <2>1 DEF Live, Active
      <3> HIDE DEF J, new, E
      <3>3. BudgetOK(new) /\ new.claims >= job[j].claims
        BY <1>5, <3>1 DEF BudgetOK, RowOK, Live, Active, Job
      <3>4. /\ J \in [JobIds -> Job] /\ E \in SUBSET JobIds /\ J[j] = new
            /\ \A i \in JobIds : Changed(job[i], J[i], i \in E)
            /\ LeasedIn(J) \subseteq LeasedIn(job)
        BY <1>3, <3>1, <3>2, <3>3, OneRow DEF Ended
      <3> QED BY <2>1, <3>1, <3>4 DEF Present
    <2>2. CASE ~idle
      <3>1. J = job /\ E = {}
        BY <2>2
      <3>2. \A i \in JobIds : Changed(job[i], job[i], i \in {})
        BY DEF Changed
      <3> HIDE DEF J, E, idle
      <3> QED BY <1>1, <1>5, <2>2, <3>1, <3>2
    <2> QED BY <2>1, <2>2
  <1>8. /\ status \in {"pending", "applied", "superseded"}
        /\ status = "applied" => idle
        /\ status = "superseded" => ~idle /\ job[j].status \in Ended
    BY <1>5 DEF Active
  <1> HIDE DEF row, E, J, idle, status
  <1>9. Tables(J, ctl, top, E) /\ JustEnded(J, E) /\ Advances(job, ctl, J, ctl)
    BY <1>1, <1>7, EndRows
  <1>10. /\ status = "applied" => J[j].status = "cancelled"
         /\ status = "superseded" => J[j].status \in Ended
    BY <1>7, <1>8
  <1>11. Tables(J, C, top, E) /\ Advances(J, ctl, J, C)
    BY <1>2, <1>3, <1>6, <1>7, <1>8, <1>9, <1>10, InsertControl
  <1> HIDE DEF C
  <1>12. Advances(job, ctl, J, C)
    BY <1>1, <1>7, <1>9, <1>11, AdvancesTwice
  <1> QED BY <1>2, <1>4, <1>7, <1>9, <1>11, <1>12, Sent

\* A cancellation ends a live row.
LEMMA CancelProceeds ==
  ASSUME IInv, NEW j \in JobIds, Cancel(j)
  PROVE  Proceeds
  <1> DEFINE row == Unleased(job[j], "cancelled")
             J2 == [job EXCEPT ![j] = row]
  <1>1. job[j] \in Job /\ RowOK(job, top, j) /\ ctl \in [Controls -> Control]
    BY DEF IInv, Tables
  <1>2. Live(job[j])
    BY DEF Cancel, Live, Active
  <1>3. Promote(J2, ctl, {j})
    BY <1>1 DEF Cancel
  <1>4. /\ run' \in [Workers -> Run] /\ \A v \in Workers : run'[v] = run[v]
        /\ cur' \in [Workers -> Nat]
        /\ drain' \in {"none", "this", "earlier"} /\ client' = client
    BY DEF Cancel, IInv, Others
  <1>5. /\ row \in Job /\ row.status = "cancelled" /\ row.session = job[j].session
        /\ row.cursor = job[j].cursor /\ row.claims = job[j].claims
        /\ row.tries = job[j].tries
    BY <1>1, UnleasedIs DEF Ended
  <1> HIDE DEF row
  <1>6. BudgetOK(row) /\ row.claims >= job[j].claims
    BY <1>1, <1>5 DEF BudgetOK, RowOK, Live, Active, Job
  <1>7. /\ J2 \in [JobIds -> Job] /\ {j} \in SUBSET JobIds
        /\ \A i \in JobIds : Changed(job[i], J2[i], i \in {j})
        /\ LeasedIn(J2) \subseteq LeasedIn(job)
    BY <1>2, <1>5, <1>6, OneRow DEF Ended
  <1> HIDE DEF J2
  <1> QED BY <1>1, <1>3, <1>4, <1>7, HandledSame, Written

\* The end of a drain hands every lease back.
LEMMA FinishDrainProceeds ==
  ASSUME IInv, FinishDrain
  PROVE  Proceeds
  <1>1. job \in [JobIds -> Job]
    BY DEF IInv, Tables
  <1>2. ASSUME NEW j \in JobIds
        PROVE  /\ job'[j] \in Job /\ Changed(job[j], job'[j], FALSE)
               /\ job'[j].status # "leased"
    <2>1. job[j] \in Job /\ RowOK(job, top, j)
      BY DEF IInv, Tables
    <2>2. CASE job[j].status = "leased"
      <3>1. job'[j] = Unleased(job[j], "pending")
        BY <2>2 DEF FinishDrain
      <3>2. /\ job'[j] \in Job /\ job'[j].status = "pending"
            /\ job'[j].session = job[j].session /\ job'[j].cursor = job[j].cursor
            /\ job'[j].claims = job[j].claims /\ job'[j].tries = job[j].tries
        BY <2>1, <3>1, UnleasedIs DEF Active
      <3>3. BudgetOK(job'[j]) /\ job'[j].claims >= job[j].claims
        BY <2>1, <2>2, <3>2 DEF BudgetOK, RowOK, Live, Active, Job
      <3> QED BY <2>2, <3>2, <3>3 DEF Changed, Live, Active
    <2>3. CASE job[j].status # "leased"
      BY <2>1, <2>3 DEF FinishDrain, Changed
    <2> QED BY <2>2, <2>3
  <1>3. job' \in [JobIds -> Job]
    <2>1. job' = [j \in JobIds |-> job'[j]]
      BY DEF FinishDrain
    <2> QED BY <1>2, <2>1
  <1>4. LeasedIn(job') \subseteq LeasedIn(job)
    BY <1>2 DEF LeasedIn
  <1>5. UNCHANGED <<ctl, top, run, cur, client>> /\ drain' = "this"
    BY DEF FinishDrain
  <1> QED BY <1>2, <1>3, <1>4, <1>5, WrittenPlain

\* A lease runs out, or a retry becomes due.
LEMMA TimeProceeds ==
  ASSUME IInv, NEW j \in JobIds, LeaseRunsOut(j) \/ RetryIsDue(j)
  PROVE  Proceeds
  <1>1. job[j] \in Job /\ RowOK(job, top, j) /\ job \in [JobIds -> Job] /\ Live(job[j])
    BY DEF IInv, Tables, LeaseRunsOut, RetryIsDue, Live, Active
  <1>2. PICK row : /\ job' = [job EXCEPT ![j] = row]
                   /\ \/ row = [job[j] EXCEPT !.expired = TRUE]
                      \/ row = [job[j] EXCEPT !.due = TRUE]
    BY <1>1 DEF LeaseRunsOut, RetryIsDue
  <1>3. /\ row \in Job /\ row.status = job[j].status /\ row.session = job[j].session
        /\ row.cursor = job[j].cursor /\ row.claims = job[j].claims
        /\ row.tries = job[j].tries
    BY <1>1, <1>2 DEF Job
  <1>4. BudgetOK(row) /\ row.claims >= job[j].claims /\ Live(row)
    BY <1>1, <1>3 DEF BudgetOK, RowOK, Live, Job
  <1>5. /\ job' \in [JobIds -> Job]
        /\ \A i \in JobIds : Changed(job[i], job'[i], i \in {})
        /\ LeasedIn(job') \subseteq LeasedIn(job)
    <2> DEFINE E == {}
    <2>1. E \in {{}, {j}} /\ IF E = {} THEN Live(row) ELSE row.status \in Ended
      BY <1>4
    <2> HIDE DEF E
    <2>2. /\ job' \in [JobIds -> Job]
          /\ \A i \in JobIds : Changed(job[i], job'[i], i \in E)
          /\ LeasedIn(job') \subseteq LeasedIn(job)
      BY <1>1, <1>2, <1>3, <1>4, <2>1, OneRow
    <2> QED BY <2>2 DEF E
  <1>6. \A i \in JobIds : Changed(job[i], job'[i], FALSE)
    BY <1>5 DEF Changed
  <1>7. UNCHANGED <<ctl, top, drain, run, cur, client>>
    BY DEF LeaseRunsOut, RetryIsDue
  <1>8. drain' \in {"none", "this", "earlier"}
    BY <1>7 DEF IInv, Others
  <1> QED BY <1>5, <1>6, <1>7, <1>8, WrittenPlain

\* The lease of a delivery runs out.
LEMMA DeliveryRunsOutProceeds ==
  ASSUME IInv, NEW c \in Controls, DeliveryRunsOut(c)
  PROVE  Proceeds
  <1> DEFINE row == [ctl[c] EXCEPT !.live = FALSE]
  <1>1. ctl \in [Controls -> Control] /\ ctl[c] \in Control
    BY DEF IInv, Tables
  <1>2. /\ ctl' = [ctl EXCEPT ![c] = row] /\ ctl[c].status = "delivered"
        /\ UNCHANGED <<job, top, drain, run, cur, client>>
    BY <1>1 DEF DeliveryRunsOut
  <1>3. /\ row \in Control /\ row.status = ctl[c].status /\ row.job = ctl[c].job
        /\ row.type = ctl[c].type
    BY <1>1 DEF Control
  <1> HIDE DEF row
  <1>4. /\ ctl' \in [Controls -> Control]
        /\ \A d \in Controls : Handled(job, ctl[d], ctl'[d])
    BY <1>1, <1>2, <1>3 DEF Handled, OpenStates
  <1>5. run' \in [Workers -> Run] /\ \A w \in Workers : run'[w] = run[w]
    BY <1>2 DEF IInv, Others
  <1> QED BY <1>2, <1>4, <1>5, WrittenControls

----------------------------------------------------------------------------
(* The invariant and what follows from it. *)

\* The empty tables.
LEMMA Initially == Init => IInv
  <1> SUFFICES ASSUME Init PROVE IInv
    OBVIOUS
  <1>1. NoJob \in Job /\ NoControl \in Control /\ Idle \in Run
    BY DEF NoJob, Job, NoControl, Control, Idle, Run
  <1>2. /\ job \in [JobIds -> Job] /\ ctl \in [Controls -> Control] /\ top \in Nat
        /\ \A j \in JobIds : job[j] = NoJob
        /\ \A c \in Controls : ctl[c] = NoControl
    BY <1>1 DEF Init
  <1>3. ASSUME NEW j \in JobIds PROVE RowOK(job, top, j) /\ ~Live(job[j])
    BY <1>2, QueueAssumption DEF RowOK, BudgetOK, NoJob, Live, Present, Active
  <1>4. ASSUME NEW c \in Controls PROVE ControlOK(job, ctl, {}, c)
    <2>1. job[c] = NoJob
      BY <1>2 DEF JobIds
    <2> QED BY <1>2, <2>1 DEF ControlOK, NoJob, NoControl, Present, OpenStates
  <1>5. Tables(job, ctl, top, {})
    BY <1>2, <1>3, <1>4 DEF Tables, PairOK
  <1>6. \A w \in Workers : RunOK(w)
    BY DEF Init, RunOK
  <1>7. LimitsOK(job)
    <2>1. LeasedIn(job) = {}
      BY <1>2 DEF LeasedIn, NoJob
    <2>2. Cardinality(LeasedIn(job)) = 0
      BY <2>1, FS_EmptySet
    <2> QED BY <2>1, <2>2, QueueAssumption DEF LimitsOK
  <1>8. Others
    BY <1>1 DEF Init, Others
  <1> QED BY <1>5, <1>6, <1>7, <1>8 DEF IInv

\* Every step, of whatever actor, proceeds.
LEMMA StepsProceed == IInv /\ [Next]_vars => Proceeds
  <1> SUFFICES ASSUME IInv, [Next]_vars PROVE Proceeds
    OBVIOUS
  <1>0. run \in [Workers -> Run] /\ drain \in {"none", "this", "earlier"}
    BY DEF IInv, Others
  <1>1. ASSUME NEW w \in Workers, Poll(w) PROVE Proceeds
    <2>1. CASE PollNothing(w)
      BY <2>1, PollNothingProceeds
    <2>2. ASSUME NEW j \in JobIds, NEW heard \in BOOLEAN,
                 PollJob(w, j, heard) \/ PollNamed(w, j, heard)
          PROVE  Proceeds
      BY <2>2, ClaimRowProceeds DEF PollJob, PollNamed
    <2> QED BY <1>1, <2>1, <2>2 DEF Poll
  <1>2. ASSUME NEW w \in Workers, EndRun(w) PROVE Proceeds
    <2>1. CASE Complete(w)
      BY <2>1, CompleteProceeds
    <2>2. CASE Refused(w)
      BY <2>2, RefusedProceeds
    <2>3. CASE Stop(w)
      BY <1>0, <2>3, RunEnds, Quiet DEF Stop
    <2>4. CASE AcknowledgeAbort(w)
      BY <2>4, AcknowledgeAbortProceeds
    <2>5. ASSUME NEW terminal \in BOOLEAN, Fail(w, terminal) PROVE Proceeds
      BY <2>5, FailProceeds
    <2> QED BY <1>2, <2>1, <2>2, <2>3, <2>4, <2>5 DEF EndRun
  <1>3. ASSUME NEW w \in Workers, AcknowledgeSteer(w) PROVE Proceeds
    BY <1>3, AcknowledgeSteerProceeds
  <1>4. ASSUME NEW w \in Workers, NEW heard \in BOOLEAN, PollControl(w, heard)
        PROVE  Proceeds
    BY <1>4, PollControlProceeds
  <1>5. ASSUME NEW k \in Requests, Enqueue(k) PROVE Proceeds
    BY <1>5, EnqueueProceeds
  <1>6. ASSUME NEW c \in Controls, NEW s \in Requests, QueueSteer(c, s) \/ QueueAbort(c, s)
        PROVE  Proceeds
    BY <1>6, QueueSteerProceeds, QueueAbortProceeds
  <1>7. ASSUME NEW j \in JobIds, Cancel(j) \/ LeaseRunsOut(j) \/ RetryIsDue(j)
        PROVE  Proceeds
    BY <1>7, CancelProceeds, TimeProceeds
  <1>8. ASSUME NEW c \in Controls, DeliveryRunsOut(c) PROVE Proceeds
    BY <1>8, DeliveryRunsOutProceeds
  <1>9. CASE Sweep
    BY <1>9, SweepProceeds
  <1>10. CASE FinishDrain
    BY <1>10, FinishDrainProceeds
  <1>11. CASE BeginDrain \/ Restart \/ UNCHANGED vars
    BY <1>0, <1>11, Quiet DEF BeginDrain, Restart, vars
  <1> QED BY <1>1, <1>2, <1>3, <1>4, <1>5, <1>6, <1>7, <1>8, <1>9, <1>10, <1>11 DEF Next

\* The inductive invariant holds in every state.
THEOREM Inductive == Spec => []IInv
  <1>1. IInv /\ [Next]_vars => IInv'
    BY StepsProceed DEF Proceeds
  <1> QED BY <1>1, Initially, PTL DEF Spec

\* The rows of the two tables, and what the workers remember, are well formed.
THEOREM TypeCorrectness == Spec => []TypeOK
  <1>1. IInv => TypeOK
    BY DEF IInv, Tables, Others, TypeOK
  <1> QED BY <1>1, Inductive, PTL

\* A session and a packet have one active row at most, so that the unique
\* indexes never throw while a follow-up is inserted.
THEOREM RowsAreSerial == Spec => []Serial
  <1>1. IInv => Serial
    <2> SUFFICES ASSUME IInv PROVE Serial
      OBVIOUS
    <2>1. \A i, j \in JobIds : i # j => PairOK(job, i, j)
      BY DEF IInv, Tables
    <2>2. \A j \in JobIds : Packet(j) = PacketIn(job[j])
      BY DEF Packet, PacketIn
    <2> QED BY <2>1, <2>2 DEF Serial, PairOK, Live
  <1> QED BY <1>1, Inductive, PTL

\* No persisted steer is lost.
THEOREM SteersAreKept == Spec => []SteerKept
  <1>1. IInv => SteerKept
    <2> SUFFICES ASSUME IInv, NEW c \in Controls, ctl[c].type = "steer"
                 PROVE  /\ ctl[c].status \in OpenStates => job[ctl[c].job].status \in Active
                        /\ ctl[c].status = "follow_up" =>
                              LET f == ctl[c].follow IN
                              /\ job[f].status # "absent"
                              /\ job[f].session = job[ctl[c].job].session
                              /\ job[f].cursor > job[ctl[c].job].cursor
                              /\ job[ctl[c].job].status \in Ended
                              /\ ctl[f].job = ctl[c].job /\ ctl[f].status = "follow_up"
      BY DEF SteerKept
    <2>1. ControlOK(job, ctl, {}, c)
      BY DEF IInv, Tables
    <2> QED BY <2>1 DEF ControlOK, FollowedBy, Live, Present
  <1> QED BY <1>1, Inductive, PTL

\* An applied abort has cancelled its row.
THEOREM AbortsCancel == Spec => []AbortCancels
  <1>1. IInv => AbortCancels
    <2>1. IInv => \A c \in Controls : ControlOK(job, ctl, {}, c)
      BY DEF IInv, Tables
    <2> QED BY <2>1 DEF ControlOK, AbortCancels
  <1> QED BY <1>1, Inductive, PTL

\* The lease of a row is in the hands of one worker at most.
THEOREM LeaseHasOneHolder == Spec => []OneHolder
  <1>1. IInv => OneHolder
    <2>1. IInv => \A w \in Workers : run[w] # Idle => run[w].token <= job[run[w].job].claims
      BY DEF IInv, RunOK
    <2> QED BY <2>1 DEF OneHolder, Holds
  <1> QED BY <1>1, Inductive, PTL

\* Leases respect the cap and the smallest limit among the rows of a key.
THEOREM LimitsAreRespected == Spec => []Limits
  <1>1. IInv => Limits
    BY DEF IInv, LimitsOK, Limits
  <1> QED BY <1>1, Inductive, PTL

\* The budget of failures is spent by failures only.
THEOREM BudgetIsKept == Spec => []Budget
  <1>1. IInv => Budget
    <2>1. IInv => \A j \in JobIds : BudgetOK(job[j])
      BY DEF IInv, Tables, RowOK
    <2> QED BY <2>1 DEF Budget, BudgetOK, Live
  <1> QED BY <1>1, Inductive, PTL

\* What has settled stays settled.
THEOREM SettledStays == Spec => Settled
  <1>1. Proceeds =>
           /\ \A j \in JobIds : job[j].status \in Ended => job'[j] = job[j]
           /\ \A c \in Controls :
                ctl[c].status \notin OpenStates \cup {"absent"} => ctl'[c] = ctl[c]
    BY DEF Proceeds, Advances, RowAdvances, ControlAdvances
  <1>2. IInv /\ [Next]_vars =>
           [/\ \A j \in JobIds : job[j].status \in Ended => job'[j] = job[j]
            /\ \A c \in Controls :
                 ctl[c].status \notin OpenStates \cup {"absent"} => ctl'[c] = ctl[c]]_vars
    BY <1>1, StepsProceed
  <1> QED BY <1>2, Inductive, PTL DEF Spec, Settled

=============================================================================
