------------------------ MODULE AutomationFiresProofs ------------------------
(***************************************************************************)
(* The fires of an automation, proved for every schedule, policy and set of*)
(* calls and executions, and any limits: no slot is dropped, a precheck    *)
(* starts once, and a second lane has a cause.  The queue below the fires  *)
(* has no controls here, so each of its transactions is one change of rows.*)
(***************************************************************************)
EXTENDS AutomationFires, FiniteSetTheorems, WellFoundedInduction, TLAPS

\* A fire has a row of its own in the queue.
Present(J, k) == J[k].status # "absent"

\* Every slot of S below next has its fire, a later one has under the policy
\* "latest", or it was given up: SlotsKept for a schedule and a next_run_at
\* that need not be those of the automation now.
Kept(S, next, policy, given, J) ==
    \A s \in S : next = None \/ s < next =>
        \/ s \in given
        \/ Present(J, Slot(s))
        \/ policy = "latest" /\ \E r \in S : s < r /\ Present(J, Slot(r))

\* What every execution read when it began, and may write back, is covered too.
KeptInv ==
    auto.exists /\ auto.policy # "skip" =>
        /\ Kept(auto.slots, auto.next, auto.policy, missed, job)
        /\ \A w \in Workers : thr[w].at # "idle" =>
              Kept(thr[w].slots, thr[w].next, auto.policy, missed, job)

\* A run is of a fire, which is there unless the automation was deleted.
RunInv ==
    /\ \A w \in Workers : run[w] # Q!Idle =>
          run[w].job \in Fires /\ (auto.exists => Exists(run[w].job))
    /\ \A k \in Fires : auto.exists /\ ~Exists(k) => past[k] = NoPast
    /\ ~auto.exists => \A k \in Fires : ~Exists(k) /\ past[k].checks = 0

\* The precheck of a fire: what its column says against what was done.
CheckInv ==
    /\ \A k \in Fires :
          /\ past[k].checks <= 1
          /\ fire[k].precheck \in {"none", "pending", "bypassed"} => past[k].checks = 0
          /\ fire[k].precheck = "passed" => past[k].passed
          /\ past[k].lanes > 0 /\ fire[k].precheck \notin {"none", "bypassed"} =>
                past[k].passed
          /\ auto.exists /\ past[k].checks = 0 => ~past[k].passed
    /\ auto.exists => \A w \in Workers : run[w] # Q!Idle =>
          /\ thr[w].at = "precheck" =>
                /\ past[run[w].job].checks = 1 /\ ~past[run[w].job].passed
                /\ \A v \in Workers :
                      run[v] # Q!Idle /\ thr[v].at = "precheck" /\ run[v].job = run[w].job => v = w
          /\ thr[w].at = "launch" =>
                fire[run[w].job].precheck \in {"none", "bypassed"} \/ past[run[w].job].passed

\* Neither cause of a second lane.
Clean(k) == ~job[k].recovered /\ ~past[k].lost

\* Until its lease is recovered a fire has the one execution that holds it, and
\* without a cause for a second lane one that has a lane launches no more.
LaneInv ==
    auto.exists =>
        /\ \A w \in Workers : run[w] # Q!Idle /\ ~job[run[w].job].recovered => Q!Holds(w)
        /\ \A k \in Fires : Clean(k) /\ past[k].lanes > 0 =>
              /\ past[k].lanes = 1 /\ job[k].status # "pending"
              /\ \A w \in Workers : run[w] # Q!Idle /\ run[w].job = k => thr[w].at = "launched"

IInv == TypeOK /\ KeptInv /\ RunInv /\ CheckInv /\ LaneInv

-----------------------------------------------------------------------------
(* Rows of the queue.                                                       *)

Ended == {"completed", "parked", "cancelled"}
RowStatus == {"pending", "leased"} \cup Ended

\* A row whose lease is cleared keeps what was counted.
LEMMA UnleasedIs ==
  ASSUME NEW row \in Q!Job, NEW st \in RowStatus
  PROVE  /\ Q!Unleased(row, st) \in Q!Job /\ Q!Unleased(row, st).status = st
         /\ Q!Unleased(row, st).recovered = row.recovered
         /\ Q!Unleased(row, st).claims = row.claims
  BY DEF Q!Unleased, Q!Job, Q!Active, Q!Ended, RowStatus, Ended

\* A leased row names its worker, and its claim is a new one.
LEMMA LeasedIs ==
  ASSUME NEW row \in Q!Job, NEW w \in Workers
  PROVE  /\ Q!Leased(row, w) \in Q!Job /\ Q!Leased(row, w).status = "leased"
         /\ Q!Leased(row, w).recovered = row.recovered
         /\ Q!Leased(row, w).claims = row.claims + 1 /\ Q!Leased(row, w).by = w
<1> DEFINE n == row.claims + 1
           new == [row EXCEPT !.status = "leased", !.by = w, !.expired = FALSE, !.claims = n]
<1>1. n \in Nat /\ Q!Leased(row, w) = new  BY DEF Q!Leased, Q!Job
<1> HIDE DEF n
<1>2. new \in Q!Job  BY <1>1 DEF Q!Job, Q!Active
<1>3. /\ new.status = "leased" /\ new.recovered = row.recovered
      /\ new.claims = n /\ new.by = w
  BY DEF Q!Job
<1>4. QED  BY <1>1, <1>2, <1>3 DEF n

\* A new row.
LEMMA PendingIs ==
  ASSUME NEW k \in Fires, NEW c \in Nat
  PROVE  /\ Q!PendingRow(k, c) \in Q!Job /\ Q!PendingRow(k, c).status = "pending"
         /\ ~Q!PendingRow(k, c).recovered
<1>1. Q!NoJob \in Q!Job  BY DEF Q!NoJob, Q!Job, Q!Active
<1>2. Q!NoJob.recovered = FALSE  BY DEF Q!NoJob
<1>3. QED  BY <1>1, <1>2 DEF Q!PendingRow, Q!Job, Q!Active

\* A row that failed has its failure counted.
LEMMA TriedIs ==
  ASSUME NEW u \in Q!Job, NEW due \in BOOLEAN, NEW row,
         row = [u EXCEPT !.tries = @ + 1, !.due = due]
  PROVE  /\ row \in Q!Job /\ row.status = u.status /\ row.recovered = u.recovered
         /\ row.claims = u.claims
<1> DEFINE n == u.tries + 1
<1>1. n \in Nat /\ row = [u EXCEPT !.tries = n, !.due = due]  BY DEF Q!Job
<1> HIDE DEF n
<1>2. row \in Q!Job  BY <1>1 DEF Q!Job
<1>3. row.status = u.status /\ row.recovered = u.recovered /\ row.claims = u.claims
  BY <1>1 DEF Q!Job
<1>4. QED  BY <1>2, <1>3

\* Without controls nothing is promoted and no abort is open.
LEMMA NoControls ==
  /\ \A C, j, type : Q!OpenOf(C, j, type) = {}
  /\ \A C, E : Q!FollowUps(C, E) = {}
  /\ \A X : Q!AbortedIn(X) = {}
<1>1. \A C, j, type : Q!OpenOf(C, j, type) = {}  BY DEF Q!OpenOf
<1>2. \A C, E : Q!FollowUps(C, E) = {}  BY <1>1 DEF Q!FollowUps
<1>3. \A X : Q!AbortedIn(X) = {}  BY <1>1 DEF Q!AbortedIn
<1>4. QED  BY <1>1, <1>2, <1>3

\* So the rows a transaction ends with are the ones it wrote.
LEMMA NoPromotion ==
  ASSUME NEW J, J \in [Fires -> Q!Job], NEW C, NEW E
  PROVE  Q!PromotedJobs(J, C, E) = J
<1>1. Q!JobIds = Fires  BY DEF Q!JobIds
<1>2. Q!PromotedJobs(J, C, E) = [k \in Fires |-> J[k]]
  BY <1>1, NoControls DEF Q!PromotedJobs
<1>3. QED  BY <1>2

\* The queue counts as this module does.
LEMMA SameCardinality == \A S : Q!Cardinality(S) = Cardinality(S)
BY DEF Q!Cardinality, Cardinality

\* A transaction writes its rows.
LEMMA PromoteWrites ==
  ASSUME NEW J, J \in [Fires -> Q!Job], NEW C, NEW E, top \in Nat, Q!Promote(J, C, E)
  PROVE  job' = J /\ top' = top
<1>1. Cardinality(Q!FollowUps(C, E)) = 0  BY NoControls, FS_EmptySet
<1>2. job' = Q!PromotedJobs(J, C, E) /\ top' = top + Q!Cardinality(Q!FollowUps(C, E))
  BY DEF Q!Promote
<1>3. QED  BY <1>1, <1>2, NoPromotion, SameCardinality

\* A recovery puts the rows of X back into the queue, and says so.
LEMMA RecoveredAre ==
  ASSUME job \in [Fires -> Q!Job], NEW X
  PROVE  /\ Q!RecoveredJobs(X) \in [Fires -> Q!Job]
         /\ \A k \in Fires :
               LET row == Q!RecoveredJobs(X)[k] IN
               IF k \in X THEN row.status = "pending" /\ row.recovered /\ row.claims = job[k].claims
               ELSE row = job[k]
<1>1. Q!JobIds = Fires  BY DEF Q!JobIds
<1> DEFINE back(k) == [Q!Unleased(job[k], "pending") EXCEPT !.recovered = TRUE, !.due = TRUE]
<1>2. Q!RecoveredJobs(X) = [k \in Fires |-> IF k \in X THEN back(k) ELSE job[k]]
  BY <1>1, NoControls DEF Q!RecoveredJobs
<1>3. ASSUME NEW k \in Fires
      PROVE  back(k) \in Q!Job /\ back(k).status = "pending" /\ back(k).recovered
             /\ back(k).claims = job[k].claims
  <2> DEFINE u == Q!Unleased(job[k], "pending")
  <2>1. u \in Q!Job /\ u.status = "pending" /\ u.claims = job[k].claims
    BY UnleasedIs DEF RowStatus
  <2> HIDE DEF u
  <2>2. LET row == [u EXCEPT !.recovered = TRUE, !.due = TRUE] IN
        row \in Q!Job /\ row.status = "pending" /\ row.recovered /\ row.claims = job[k].claims
    BY <2>1 DEF Q!Job
  <2>3. QED  BY <2>2 DEF u
<1> HIDE DEF back
<1>4. QED  BY <1>2, <1>3

-----------------------------------------------------------------------------
(* Slots of a schedule.                                                     *)

\* A set of numbers has a least one, by the well-foundedness of <.
LEMMA LeastNumber ==
  ASSUME NEW T, T \subseteq Nat, T # {}
  PROVE  \E x \in T : \A y \in T : x <= y
<1>1. PICK x \in T : \A y \in T : ~(<<y, x>> \in OpToRel(<, Nat))
  BY WFMin, NatLessThanWellFounded
<1>2. ASSUME NEW y \in T, y < x PROVE FALSE
  <2>1. <<y, x>> \in Nat \X Nat  OBVIOUS
  <2>2. <<y, x>> \in OpToRel(<, Nat)  BY <1>2, <2>1 DEF OpToRel
  <2>3. QED  BY <1>1, <2>2
<1>3. QED  BY <1>2

\* Every set of slots has a first and a last one, the least of what is left.
LEMMA Ends ==
  ASSUME NEW S \in SUBSET Slots, S # {}
  PROVE  /\ Least(S) \in S /\ \A r \in S : Least(S) <= r
         /\ Greatest(S) \in S /\ \A r \in S : r <= Greatest(S)
<1>1. Slots \subseteq Nat /\ MaxTime \in Nat  BY FiresAssumption DEF Slots
<1>2. \E x \in S : \A y \in S : x <= y  BY <1>1, LeastNumber
<1>3. \E x \in S : \A y \in S : y <= x
  <2> DEFINE T == {MaxTime - y : y \in S}
  <2>1. T \subseteq Nat /\ T # {}
    <3>1. \A y \in S : y \in 1..MaxTime  BY DEF Slots
    <3>2. \A y \in S : MaxTime - y \in Nat  BY <1>1, <3>1
    <3>3. QED  BY <3>2
  <2>2. PICK t \in T : \A u \in T : t <= u  BY <2>1, LeastNumber
  <2>3. PICK x \in S : t = MaxTime - x  BY <2>2
  <2>4. ASSUME NEW y \in S PROVE y <= x
    <3>1. MaxTime - y \in T  OBVIOUS
    <3>2. MaxTime - x <= MaxTime - y  BY <2>2, <2>3, <3>1
    <3>3. QED  BY <1>1, <3>2
  <2>5. QED  BY <2>4
<1>4. Least(S) \in S /\ \A r \in S : Least(S) <= r  BY <1>2 DEF Least
<1>5. Greatest(S) \in S /\ \A r \in S : r <= Greatest(S)  BY <1>3 DEF Greatest
<1>6. QED  BY <1>4, <1>5

\* The slots of a schedule before the one that is computed are not later than
\* the moment it is computed for.
LEMMA NextRun ==
  ASSUME NEW S \in SUBSET Slots, NEW t \in Nat
  PROVE  LET n == computeNextRunAt(S, t) IN
         n \in Slots \cup {None} /\ \A s \in S : n = None \/ s < n => s <= t
<1> DEFINE later == S \ 0..t
           n == computeNextRunAt(S, t)
<1>1. Slots \subseteq Nat /\ None \notin Slots  BY FiresAssumption DEF Slots
<1>2. CASE later = {}
  <2>1. n = None  BY <1>2 DEF computeNextRunAt
  <2>2. \A s \in S : s <= t  BY <1>1, <1>2
  <2>3. QED  BY <2>1, <2>2
<1>3. CASE later # {}
  <2>1. n = Least(later)  BY <1>3 DEF computeNextRunAt
  <2>2. n \in later /\ \A r \in later : n <= r  BY <1>3, <2>1, Ends
  <2> HIDE DEF n
  <2>3. ASSUME NEW s \in S, s < n PROVE s <= t
    <3>1. s \in Nat /\ n \in Nat  BY <1>1, <2>2
    <3>2. s \notin later  BY <2>2, <2>3, <3>1
    <3>3. s \in 0..t  BY <3>2
    <3>4. QED  BY <3>3
  <2>4. QED  BY <1>1, <2>2, <2>3 DEF n
<1>4. QED  BY <1>2, <1>3

\* The last slot that is not later than a moment.
LEMMA PreviousRun ==
  ASSUME NEW S \in SUBSET Slots, NEW t \in Nat
  PROVE  LET p == computePreviousRunAt(S, t) IN
         /\ p = None => \A s \in S : s > t
         /\ p # None => p \in S /\ p <= t /\ \A s \in S : s <= t => s <= p
<1> DEFINE past_ == S \cap 0..t
           p == computePreviousRunAt(S, t)
<1>1. Slots \subseteq Nat /\ None \notin Slots  BY FiresAssumption DEF Slots
<1>2. CASE past_ = {}
  <2>1. p = None  BY <1>2 DEF computePreviousRunAt
  <2>2. \A s \in S : s > t  BY <1>1, <1>2
  <2>3. QED  BY <2>1, <2>2
<1>3. CASE past_ # {}
  <2>1. p = Greatest(past_)  BY <1>3 DEF computePreviousRunAt
  <2>2. p \in past_ /\ \A r \in past_ : r <= p  BY <1>3, <2>1, Ends
  <2>3. ASSUME NEW s \in S, s <= t PROVE s <= p  BY <1>1, <2>2, <2>3
  <2>4. QED  BY <1>1, <2>2, <2>3
<1>4. QED  BY <1>2, <1>3

\* What a tick fires: every slot of the schedule it passes over, the last one
\* under the policy "latest".
LEMMA Due ==
  ASSUME auto \in Automation, now \in 0..MaxTime, auto.next # None, auto.next <= now
  PROVE  /\ DueSlots \subseteq Slots
         /\ NextAfterDue \in Slots \cup {None}
         /\ auto.policy # "skip" =>
            \A s \in auto.slots : NextAfterDue = None \/ s < NextAfterDue =>
              \/ s < auto.next \/ s \in DueSlots
              \/ auto.policy = "latest" /\ \E r \in auto.slots : s < r /\ r \in DueSlots
<1>1. /\ Slots \subseteq Nat /\ None \notin Slots /\ now \in Nat /\ MaxAllSlots \in Nat \ {0}
      /\ IsFiniteSet(Slots)
  <2>1. MaxTime \in Nat /\ MaxAllSlots \in Nat \ {0} /\ None \notin Nat  BY FiresAssumption
  <2>2. IsFiniteSet(1..MaxTime)  BY <2>1, FS_Interval
  <2>3. QED  BY <2>1, <2>2 DEF Slots
<1>2. /\ auto.slots \in SUBSET Slots /\ auto.next \in Slots
      /\ auto.policy \in {"latest", "all", "skip"}
  BY FiresAssumption DEF Automation
<1>3. CASE auto.policy = "skip"
  <2>1. DueSlots = {} /\ NextAfterDue = computeNextRunAt(auto.slots, now)
    BY <1>3 DEF DueSlots, NextAfterDue
  <2>2. QED  BY <1>1, <1>2, <1>3, <2>1, NextRun
<1>4. CASE auto.policy = "latest"
  <2> DEFINE p == computePreviousRunAt(auto.slots, now)
             q == IF p # None /\ p >= auto.next THEN p ELSE auto.next
             n == computeNextRunAt(auto.slots, now)
  <2>1. DueSlots = {q} /\ NextAfterDue = n  BY <1>4 DEF DueSlots, NextAfterDue
  <2>2. /\ n \in Slots \cup {None}
        /\ \A s \in auto.slots : n = None \/ s < n => s <= now
    BY <1>1, <1>2, NextRun
  <2>3. /\ p = None => \A s \in auto.slots : s > now
        /\ p # None => p \in auto.slots /\ p <= now /\ \A s \in auto.slots : s <= now => s <= p
    BY <1>1, <1>2, PreviousRun
  <2> HIDE DEF n, p
  <2>4. q \in Slots  BY <1>2, <2>3
  <2>5. ASSUME NEW s \in auto.slots, n = None \/ s < n
        PROVE  s < auto.next \/ s = q \/ (s < q /\ q \in auto.slots)
    <3>1. s <= now /\ s \in Nat  BY <1>1, <1>2, <2>2, <2>5
    <3>2. auto.next \in Nat /\ now \in Nat  BY <1>1, <1>2
    <3>3. p # None  BY <2>3, <3>1, <3>2
    <3>4. p \in auto.slots /\ s <= p  BY <2>3, <3>1, <3>3
    <3>5. p \in Nat  BY <1>1, <1>2, <3>4
    <3>6. QED  BY <3>1, <3>2, <3>3, <3>4, <3>5
  <2>6. QED  BY <1>4, <2>1, <2>2, <2>4, <2>5
<1>5. CASE auto.policy = "all"
  <2> DEFINE due == {auto.next} \cup {s \in auto.slots : auto.next < s /\ s <= now}
             g == Greatest(DueSlots)
             n == computeNextRunAt(auto.slots, g)
  <2>1. DueSlots = {s \in due : Cardinality(Before(due, s)) < MaxAllSlots} /\ NextAfterDue = n
    BY <1>5 DEF DueSlots, NextAfterDue
  <2>2. due \subseteq Slots /\ IsFiniteSet(due)  BY <1>1, <1>2, FS_Subset
  <2>3. auto.next \in DueSlots
    <3>1. auto.next \in Nat /\ \A r \in due : r \in Nat  BY <1>1, <1>2
    <3>2. \A r \in due : ~(r < auto.next)  BY <3>1
    <3>3. Before(due, auto.next) = {}  BY <3>2 DEF Before
    <3>4. Cardinality(Before(due, auto.next)) < MaxAllSlots  BY <1>1, <3>3, FS_EmptySet
    <3>5. QED  BY <2>1, <3>4
  <2>4. g \in DueSlots /\ DueSlots \subseteq Slots  BY <2>1, <2>2, <2>3, Ends
  <2>5. g \in Nat /\ g <= now /\ g \in due  BY <1>1, <1>2, <2>1, <2>4
  <2>6. /\ n \in Slots \cup {None}
        /\ \A s \in auto.slots : n = None \/ s < n => s <= g
    BY <1>2, <2>5, NextRun
  <2> HIDE DEF g, n
  <2>7. ASSUME NEW s \in auto.slots, n = None \/ s < n
        PROVE  s < auto.next \/ s \in DueSlots
    <3>1. SUFFICES ASSUME ~(s < auto.next) PROVE s \in DueSlots  OBVIOUS
    <3>2. s \in Nat /\ s <= g /\ auto.next \in Nat  BY <1>1, <1>2, <2>6, <2>7
    <3>3. s \in due  BY <1>1, <2>5, <3>1, <3>2
    <3>4. Before(due, s) \subseteq Before(due, g)
      <4>1. \A r \in due : r \in Nat  BY <1>1, <2>2
      <4>2. \A r \in due : r < s => r < g  BY <2>5, <3>2, <4>1
      <4>3. QED  BY <4>2 DEF Before
    <3>5. IsFiniteSet(Before(due, g))  BY <2>2, FS_Subset DEF Before
    <3>6. /\ Cardinality(Before(due, s)) <= Cardinality(Before(due, g))
          /\ Cardinality(Before(due, s)) \in Nat /\ Cardinality(Before(due, g)) \in Nat
      BY <3>4, <3>5, FS_Subset, FS_CardinalityType
    <3>7. Cardinality(Before(due, g)) < MaxAllSlots  BY <2>1, <2>4
    <3>8. QED  BY <1>1, <2>1, <3>3, <3>6, <3>7
  <2>8. QED  BY <2>1, <2>4, <2>6, <2>7
<1>6. QED  BY <1>2, <1>3, <1>4, <1>5

-----------------------------------------------------------------------------
(* What steps have in common.                                               *)

QueueTyped == job \in [Fires -> Q!Job] /\ top \in Nat /\ run \in [Workers -> Q!Run]

\* The queue's variables are three here.
LEMMA QueueTypes == (Q!TypeOK <=> QueueTyped) /\ (Q!TypeOK' <=> QueueTyped')
<1>1. Q!JobIds = Fires  BY DEF Q!JobIds
<1>2. [c \in {} |-> None] \in [{} -> Q!Control]  OBVIOUS
<1>3. [w \in Workers |-> 0] \in [Workers -> Nat]  OBVIOUS
<1>4. Q!TypeOK <=> QueueTyped  BY <1>1, <1>2, <1>3 DEF Q!TypeOK, QueueTyped
<1>5. Q!TypeOK' <=> QueueTyped'  BY <1>1, <1>2, <1>3 DEF Q!TypeOK, QueueTyped
<1>6. QED  BY <1>4, <1>5

\* Coverage is not lost while slots are given up and fires are inserted.
LEMMA Grown ==
  ASSUME NEW S \in SUBSET Slots, NEW next, NEW policy, NEW M, NEW M2, NEW J, NEW J2,
         Kept(S, next, policy, M, J), M \subseteq M2,
         \A k \in Fires : Present(J, k) => Present(J2, k)
  PROVE  Kept(S, next, policy, M2, J2)
<1>1. \A s \in S : Slot(s) \in Fires  BY DEF Fires
<1>2. QED  BY <1>1 DEF Kept

\* Executions keep what they read, or read what is there now.
LEMMA KeptGrows ==
  ASSUME TypeOK, KeptInv, auto'.policy = auto.policy, auto'.exists => auto.exists,
         missed \subseteq missed',
         auto'.exists => \A k \in Fires : Present(job, k) => Present(job', k),
         \A w \in Workers : thr'[w].at # "idle" =>
            \/ thr[w].at # "idle" /\ thr'[w].slots = thr[w].slots /\ thr'[w].next = thr[w].next
            \/ thr'[w].slots = auto.slots /\ thr'[w].next = auto.next,
         auto'.exists /\ auto.policy # "skip" =>
            Kept(auto'.slots, auto'.next, auto.policy, missed', job')
  PROVE  KeptInv'
<1>1. SUFFICES ASSUME auto'.exists, auto.policy # "skip"
               PROVE  \A w \in Workers : thr'[w].at # "idle" =>
                         Kept(thr'[w].slots, thr'[w].next, auto.policy, missed', job')
  BY DEF KeptInv
<1>2. TAKE w \in Workers
<1>3. HAVE thr'[w].at # "idle"
<1>4. thr[w].slots \in SUBSET Slots /\ auto.slots \in SUBSET Slots
  BY FiresAssumption DEF TypeOK, Execution, Automation
<1>5. CASE thr[w].at # "idle" /\ thr'[w].slots = thr[w].slots /\ thr'[w].next = thr[w].next
  <2>1. Kept(thr[w].slots, thr[w].next, auto.policy, missed, job)
    BY <1>1, <1>5 DEF KeptInv
  <2>2. QED  BY <1>1, <1>4, <1>5, <2>1, Grown
<1>6. CASE thr'[w].slots = auto.slots /\ thr'[w].next = auto.next
  <2>1. Kept(auto.slots, auto.next, auto.policy, missed, job)  BY <1>1 DEF KeptInv
  <2>2. QED  BY <1>1, <1>4, <1>6, <2>1, Grown
<1>7. QED  BY <1>3, <1>5, <1>6

\* The same when the automation keeps its schedule and next_run_at.
LEMMA KeptStays ==
  ASSUME TypeOK, KeptInv, auto'.policy = auto.policy, auto'.exists => auto.exists,
         auto'.slots = auto.slots, auto'.next = auto.next, missed \subseteq missed',
         auto'.exists => \A k \in Fires : Present(job, k) => Present(job', k),
         \A w \in Workers : thr'[w].at # "idle" =>
            \/ thr[w].at # "idle" /\ thr'[w].slots = thr[w].slots /\ thr'[w].next = thr[w].next
            \/ thr'[w].slots = auto.slots /\ thr'[w].next = auto.next
  PROVE  KeptInv'
<1>1. auto.slots \in SUBSET Slots  BY FiresAssumption DEF TypeOK, Automation
<1>2. ASSUME auto'.exists, auto.policy # "skip"
      PROVE  Kept(auto'.slots, auto'.next, auto.policy, missed', job')
  <2>1. Kept(auto.slots, auto.next, auto.policy, missed, job)  BY <1>2 DEF KeptInv
  <2>2. QED  BY <1>1, <1>2, <2>1, Grown
<1>3. QED  BY <1>2, KeptGrows

\* A row that no execution claimed or ended: unless its lease was recovered it
\* does not go back into the queue, and a lease stays as it is.
RowQuiet(old, new) ==
    old.status # "absent" =>
        /\ new.status # "absent"
        /\ old.recovered => new.recovered
        /\ ~new.recovered =>
              /\ old.status = "leased" =>
                    new.status = "leased" /\ new.by = old.by /\ new.claims = old.claims
              /\ old.status # "pending" => new.status # "pending"

RowsQuiet ==
    /\ \A k \in Fires : RowQuiet(job[k], job'[k])
    /\ ~auto.exists => \A k \in Fires : Exists(k)' => Exists(k)

\* Such rows leave the executions as they are.
LEMMA QuietKeeps ==
  ASSUME RunInv, LaneInv, RowsQuiet, run' = run, thr' = thr, past' = past,
         auto'.exists = auto.exists
  PROVE  RunInv' /\ LaneInv'
<1>1. \A k \in Fires : Exists(k) => Exists(k)'  BY DEF RowsQuiet, RowQuiet, Exists
<1>2. RunInv'  BY <1>1 DEF RunInv, RowsQuiet
<1>3. LaneInv'
  <2>1. SUFFICES ASSUME auto.exists PROVE LaneInv'  BY DEF LaneInv
  <2>2. ASSUME NEW w \in Workers, run[w] # Q!Idle, ~job'[run[w].job].recovered
        PROVE  Q!Holds(w)'
    <3> DEFINE j == run[w].job
    <3>1. j \in Fires /\ Exists(j)  BY <2>1, <2>2 DEF RunInv
    <3>2. ~job[j].recovered  BY <2>2, <3>1 DEF RowsQuiet, RowQuiet, Exists
    <3>3. Q!Holds(w)  BY <2>1, <2>2, <3>2 DEF LaneInv
    <3>4. job[j].status = "leased" /\ job[j].claims = run[w].token /\ job[j].by = w
      BY <3>3 DEF Q!Holds
    <3>5. job'[j].status = "leased" /\ job'[j].by = job[j].by /\ job'[j].claims = job[j].claims
      BY <2>2, <3>1, <3>4 DEF RowsQuiet, RowQuiet
    <3>6. QED  BY <2>2, <3>4, <3>5 DEF Q!Holds
  <2>3. ASSUME NEW k \in Fires, Clean(k)', past[k].lanes > 0
        PROVE  /\ past[k].lanes = 1 /\ job'[k].status # "pending"
               /\ \A w \in Workers : run[w] # Q!Idle /\ run[w].job = k => thr[w].at = "launched"
    <3>1. Exists(k)
      <4>1. SUFFICES ASSUME ~Exists(k) PROVE FALSE  OBVIOUS
      <4>2. past[k] = NoPast  BY <2>1, <4>1 DEF RunInv
      <4>3. QED  BY <2>3, <4>2 DEF NoPast
    <3>2. Clean(k)  BY <2>3, <3>1 DEF Clean, RowsQuiet, RowQuiet, Exists
    <3>3. /\ past[k].lanes = 1 /\ job[k].status # "pending"
          /\ \A w \in Workers : run[w] # Q!Idle /\ run[w].job = k => thr[w].at = "launched"
      BY <2>1, <2>3, <3>2 DEF LaneInv
    <3>4. job'[k].status # "pending"
      BY <2>3, <3>1, <3>3 DEF RowsQuiet, RowQuiet, Clean, Exists
    <3>5. QED  BY <3>3, <3>4
  <2>4. QED  BY <2>2, <2>3 DEF LaneInv
<1>4. QED  BY <1>2, <1>3

\* The precheck is not touched by a step that starts or goes on with none.
LEMMA CheckStays ==
  ASSUME CheckInv, fire' = fire, auto'.exists => auto.exists,
         \A k \in Fires : /\ past'[k].checks = past[k].checks
                          /\ past'[k].passed = past[k].passed
                          /\ past'[k].lanes = past[k].lanes,
         \A w \in Workers : run'[w] # Q!Idle =>
            run'[w] = run[w] /\ thr'[w] = thr[w] /\ (auto'.exists => run[w].job \in Fires)
  PROVE  CheckInv'
<1>1. \A k \in Fires :
        /\ past'[k].checks <= 1
        /\ fire'[k].precheck \in {"none", "pending", "bypassed"} => past'[k].checks = 0
        /\ fire'[k].precheck = "passed" => past'[k].passed
        /\ past'[k].lanes > 0 /\ fire'[k].precheck \notin {"none", "bypassed"} => past'[k].passed
        /\ auto'.exists /\ past'[k].checks = 0 => ~past'[k].passed
  BY DEF CheckInv
<1>2. ASSUME auto'.exists, NEW w \in Workers, run'[w] # Q!Idle
      PROVE  /\ thr'[w].at = "precheck" =>
                  /\ past'[run'[w].job].checks = 1 /\ ~past'[run'[w].job].passed
                  /\ \A v \in Workers :
                        run'[v] # Q!Idle /\ thr'[v].at = "precheck" /\ run'[v].job = run'[w].job
                          => v = w
             /\ thr'[w].at = "launch" =>
                  fire'[run'[w].job].precheck \in {"none", "bypassed"} \/ past'[run'[w].job].passed
  <2> DEFINE k == run[w].job
  <2>1. run'[w] = run[w] /\ thr'[w] = thr[w] /\ k \in Fires /\ auto.exists  BY <1>2
  <2>2. /\ thr[w].at = "precheck" =>
              /\ past[k].checks = 1 /\ ~past[k].passed
              /\ \A v \in Workers :
                    run[v] # Q!Idle /\ thr[v].at = "precheck" /\ run[v].job = k => v = w
        /\ thr[w].at = "launch" =>
              fire[k].precheck \in {"none", "bypassed"} \/ past[k].passed
    BY <1>2, <2>1 DEF CheckInv
  <2>3. \A v \in Workers : run'[v] # Q!Idle => run'[v] = run[v] /\ thr'[v] = thr[v]  OBVIOUS
  <2>4. QED  BY <2>1, <2>2, <2>3
<1>3. QED  BY <1>1, <1>2 DEF CheckInv

\* What the end of an execution may do to the row it was of: end it or put it
\* back, as its holder, or leave it.
RowEnds(w, k) ==
    \/ job'[k] = job[k]
    \/ /\ Q!Holds(w)
       /\ job'[k].status # "absent" /\ (job[k].recovered => job'[k].recovered)
       /\ job'[k].status = "pending" =>
             job'[k].recovered \/ past'[k].lost \/ past[k].lanes = 0

\* An execution ends.
LEMMA EndKeeps ==
  ASSUME TypeOK, RunInv, CheckInv, LaneInv, NEW w \in Workers, run[w] # Q!Idle,
         run' = [run EXCEPT ![w] = Q!Idle], thr' = [thr EXCEPT ![w] = NotRunning],
         fire' = fire, auto'.exists = auto.exists,
         RowEnds(w, run[w].job),
         \A k \in Fires \ {run[w].job} : job'[k] = job[k] /\ past'[k] = past[k],
         \A k \in Fires : /\ past'[k].checks = past[k].checks
                          /\ past'[k].passed = past[k].passed
                          /\ past'[k].lanes = past[k].lanes
                          /\ past[k].lost => past'[k].lost,
         ~auto.exists => job' = job,
         auto.exists => \A k \in Fires : past'[k] # past[k] => Exists(k)
  PROVE  RunInv' /\ CheckInv' /\ LaneInv'
<1> DEFINE j == run[w].job
<1>1. j \in Fires /\ (auto.exists => Exists(j))  BY DEF RunInv
<1>2. run'[w] = Q!Idle /\ \A v \in Workers \ {w} : run'[v] = run[v] /\ thr'[v] = thr[v]
  BY QueueTypes DEF TypeOK, QueueTyped
<1>3. \A k \in Fires : Exists(k) => Exists(k)'  BY <1>1 DEF RowEnds, Exists, Q!Holds
<1>4. \A v \in Workers : run'[v] # Q!Idle => v # w /\ run'[v] = run[v] /\ thr'[v] = thr[v]
  BY <1>2
<1>5. RunInv'
  <2>1. \A v \in Workers : run'[v] # Q!Idle =>
           run'[v].job \in Fires /\ (auto'.exists => job'[run'[v].job].status # "absent")
    BY <1>3, <1>4 DEF RunInv, Exists
  <2>2. ASSUME NEW k \in Fires, auto'.exists, ~Exists(k)' PROVE past'[k] = NoPast
    <3>1. ~Exists(k)  BY <1>3, <2>2
    <3>2. past[k] = NoPast /\ past'[k] = past[k]  BY <2>2, <3>1 DEF RunInv
    <3>3. QED  BY <3>2
  <2>3. ~auto'.exists => \A k \in Fires : ~Exists(k)' /\ past'[k].checks = 0
    BY DEF RunInv, Exists
  <2>4. QED  BY <2>1, <2>2, <2>3 DEF RunInv, Exists
<1>6. CheckInv'
  <2>1. \A v \in Workers : run'[v] # Q!Idle => run[v].job \in Fires  BY <1>4 DEF RunInv
  <2>2. QED  BY <1>4, <2>1, CheckStays
<1>7. LaneInv'
  <2>1. SUFFICES ASSUME auto.exists PROVE LaneInv'  BY DEF LaneInv
  <2>2. ASSUME NEW v \in Workers, run'[v] # Q!Idle, ~job'[run'[v].job].recovered
        PROVE  Q!Holds(v)'
    <3> DEFINE k == run[v].job
    <3>1. v # w /\ run'[v] = run[v] /\ k \in Fires  BY <1>4, <2>2 DEF RunInv
    <3>2. ~job[k].recovered  BY <2>2, <3>1 DEF RowEnds
    <3>3. Q!Holds(v)  BY <2>1, <2>2, <3>1, <3>2 DEF LaneInv
    <3>4. job'[k] = job[k]  BY <3>1, <3>3 DEF RowEnds, Q!Holds
    <3>5. QED  BY <2>2, <3>1, <3>3, <3>4 DEF Q!Holds
  <2>3. ASSUME NEW k \in Fires, Clean(k)', past'[k].lanes > 0
        PROVE  /\ past'[k].lanes = 1 /\ job'[k].status # "pending"
               /\ \A v \in Workers :
                     run'[v] # Q!Idle /\ run'[v].job = k => thr'[v].at = "launched"
    <3>1. Clean(k)  BY <2>3, <1>1 DEF Clean, RowEnds
    <3>2. /\ past[k].lanes = 1 /\ job[k].status # "pending"
          /\ \A v \in Workers : run[v] # Q!Idle /\ run[v].job = k => thr[v].at = "launched"
      BY <2>1, <2>3, <3>1 DEF LaneInv
    <3>3. job'[k].status # "pending"  BY <2>3, <3>2 DEF RowEnds, Clean
    <3>4. QED  BY <1>4, <2>3, <3>2, <3>3
  <2>4. QED  BY <2>2, <2>3 DEF LaneInv
<1>8. QED  BY <1>5, <1>6, <1>7

-----------------------------------------------------------------------------
(* The operator, and time.                                                  *)

\* A new automation has no fire, and its next slot is the first.
LEMMA Initially == Init => IInv
<1> SUFFICES ASSUME Init PROVE IInv  OBVIOUS
<1>1. /\ MaxTime \in Nat /\ None \notin Nat /\ MaxEvents \in Nat /\ Schedules \subseteq SUBSET Slots
      /\ 0 \in 0..MaxTime /\ 0 \in 0..MaxEvents
  BY FiresAssumption
<1>2. PICK slots \in Schedules \cup {{}}, policy \in Policies, precheck \in Guarded :
        auto = [exists |-> TRUE, enabled |-> TRUE, slots |-> slots,
                next |-> computeNextRunAt(slots, 0), policy |-> policy, precheck |-> precheck]
  BY DEF Init
<1>3. slots \in SUBSET Slots  BY <1>1, <1>2
<1>4. /\ computeNextRunAt(slots, 0) \in Slots \cup {None}
      /\ \A s \in slots : computeNextRunAt(slots, 0) = None \/ s < computeNextRunAt(slots, 0)
            => s <= 0
  BY <1>3, NextRun
<1>5. \A s \in slots : ~(s <= 0)  BY <1>1, <1>3 DEF Slots
<1>6. auto \in Automation  BY <1>2, <1>4 DEF Automation
<1>7. Q!NoJob \in Q!Job /\ Q!NoJob.status = "absent"  BY DEF Q!NoJob, Q!Job, Q!Active, Q!Ended
<1>8. Q!Idle \in Q!Run  BY DEF Q!Idle, Q!Run
<1>9. QueueTyped  BY <1>7, <1>8 DEF Init, QueueTyped
<1>10. NoFire \in [precheck : Prechecks, born : 0..MaxTime]  BY <1>1 DEF NoFire, Prechecks
<1>11. NotRunning \in Execution /\ NotRunning.at = "idle"
  BY <1>1 DEF NotRunning, Execution, Stages
<1>12. NoPast \in Past  BY DEF NoPast, Past
<1>13. \A w \in Workers : run[w] = Q!Idle /\ thr[w] = NotRunning  BY DEF Init
<1>14. \A k \in Fires : ~Exists(k) /\ fire[k] = NoFire /\ past[k] = NoPast
  BY <1>7 DEF Init, Exists
<1>15. TypeOK
  <2>1. /\ now \in 0..MaxTime /\ events \in 0..MaxEvents /\ missed \subseteq Slots
        /\ fire \in [Fires -> [precheck : Prechecks, born : 0..MaxTime]]
        /\ thr \in [Workers -> Execution] /\ past \in [Fires -> Past]
    BY <1>1, <1>10, <1>11, <1>12 DEF Init
  <2>2. QED  BY <1>6, <1>9, <1>11, <1>13, <1>14, <2>1, QueueTypes DEF TypeOK
<1>16. KeptInv
  <2>1. Kept(auto.slots, auto.next, auto.policy, missed, job)  BY <1>2, <1>4, <1>5 DEF Kept
  <2>2. QED  BY <1>11, <1>13, <2>1 DEF KeptInv
<1>17. RunInv  BY <1>2, <1>13, <1>14 DEF RunInv
<1>18. CheckInv
  <2>1. NoPast.checks = 0 /\ NoPast.lanes = 0 /\ ~NoPast.passed /\ NoFire.precheck = "none"
    BY DEF NoPast, NoFire
  <2>2. QED  BY <1>13, <1>14, <2>1 DEF CheckInv
<1>19. LaneInv
  <2>1. NoPast.lanes = 0  BY DEF NoPast
  <2>2. QED  BY <1>13, <1>14, <2>1 DEF LaneInv
<1>20. QED  BY <1>15, <1>16, <1>17, <1>18, <1>19 DEF IInv

\* Rows, executions and fires stay as they are.
LEMMA NothingRuns ==
  ASSUME IInv, UNCHANGED <<fire, thr, past, run, job>>, auto'.exists = auto.exists
  PROVE  RunInv' /\ CheckInv' /\ LaneInv'
<1>1. RowsQuiet  BY DEF RowsQuiet, RowQuiet, Exists
<1>2. RunInv' /\ LaneInv'  BY <1>1, QuietKeeps DEF IInv
<1>3. CheckInv'  BY CheckStays DEF IInv, RunInv
<1>4. QED  BY <1>2, <1>3

\* Time, and enabling, touch no row.
LEMMA AdvanceKeeps == IInv /\ (Advance \/ Enable \/ UNCHANGED vars) => IInv'
<1> SUFFICES ASSUME IInv, Advance \/ Enable \/ UNCHANGED vars PROVE IInv'  OBVIOUS
<1>1. /\ UNCHANGED <<fire, thr, past, missed, job, top, run>>
      /\ auto' = auto \/ auto' = [auto EXCEPT !.enabled = TRUE]
      /\ now' = now \/ (now < MaxTime /\ now' = now + 1)
      /\ events' = events \/ (events < MaxEvents /\ events' = events + 1)
  BY DEF Advance, Enable, Edited, Event, vars
<1>2. auto \in Automation  BY DEF IInv, TypeOK
<1>3. /\ auto' \in Automation /\ auto'.exists = auto.exists /\ auto'.policy = auto.policy
      /\ auto'.slots = auto.slots /\ auto'.next = auto.next
  BY <1>1, <1>2 DEF Automation
<1>4. TypeOK'
  <2>1. now' \in 0..MaxTime /\ events' \in 0..MaxEvents
    BY <1>1, FiresAssumption DEF IInv, TypeOK
  <2>2. QueueTyped'  BY <1>1, QueueTypes DEF IInv, TypeOK, QueueTyped
  <2>3. QED  BY <1>1, <1>3, <2>1, <2>2, QueueTypes DEF IInv, TypeOK, Exists
<1>5. KeptInv'  BY <1>1, <1>3, KeptStays DEF IInv
<1>6. QED  BY <1>1, <1>3, <1>4, <1>5, NothingRuns DEF IInv

\* An edit gives up the slots that are over.
LEMMA EditKeeps ==
  ASSUME IInv, NEW slots \in Schedules \cup {{}}, EditSchedule(slots)
  PROVE  IInv'
<1> DEFINE n == computeNextRunAt(slots, now)
<1>1. /\ UNCHANGED <<now, fire, thr, past, job, top, run>>
      /\ auto' = [auto EXCEPT !.slots = slots, !.next = n]
      /\ missed' = missed \cup (Slots \cap 0..now)
      /\ events < MaxEvents /\ events' = events + 1
  BY DEF EditSchedule, Edited, Event
<1>2. auto \in Automation /\ now \in Nat /\ slots \in SUBSET Slots
  BY FiresAssumption DEF IInv, TypeOK
<1>3. n \in Slots \cup {None} /\ \A s \in slots : n = None \/ s < n => s <= now
  BY <1>2, NextRun
<1> HIDE DEF n
<1>4. /\ auto' \in Automation /\ auto'.exists = auto.exists /\ auto'.policy = auto.policy
      /\ auto'.slots = slots /\ auto'.next = n
  BY <1>1, <1>2, <1>3 DEF Automation
<1>5. TypeOK'
  <2>1. events' \in 0..MaxEvents  BY <1>1, FiresAssumption DEF IInv, TypeOK
  <2>2. QueueTyped'  BY <1>1, QueueTypes DEF IInv, TypeOK, QueueTyped
  <2>3. missed' \subseteq Slots  BY <1>1 DEF IInv, TypeOK
  <2>4. QED  BY <1>1, <1>4, <2>1, <2>2, <2>3, QueueTypes DEF IInv, TypeOK, Exists
<1>6. KeptInv'
  <2>1. \A s \in slots : s <= now => s \in missed'  BY <1>1, <1>2 DEF Slots
  <2>2. Kept(slots, n, auto.policy, missed', job')  BY <1>3, <2>1 DEF Kept
  <2>3. QED  BY <1>1, <1>4, <2>2, KeptGrows DEF IInv
<1>7. QED  BY <1>1, <1>4, <1>5, <1>6, NothingRuns DEF IInv

-----------------------------------------------------------------------------
(* Rows that no execution writes: leases, retries, cancellations.           *)

\* Rows that are there stay quiet, and no row is new.
LEMMA QuietRowsKeep ==
  ASSUME IInv, job' \in [Fires -> Q!Job], top' = top, RowsQuiet,
         \A k \in Fires : Exists(k)' => Exists(k),
         UNCHANGED <<now, fire, thr, past, missed, run>>,
         auto' \in Automation, auto'.exists = auto.exists, auto'.policy = auto.policy,
         auto'.slots = auto.slots, auto'.next = auto.next, events' \in 0..MaxEvents
  PROVE  IInv'
<1>1. \A k \in Fires : Exists(k)' <=> Exists(k)  BY DEF RowsQuiet, RowQuiet, Exists
<1>2. TypeOK'
  <2>1. QueueTyped'  BY QueueTypes DEF IInv, TypeOK, QueueTyped
  <2>2. \A k \in Fires : ~Exists(k)' => fire'[k] = NoFire  BY <1>1 DEF IInv, TypeOK
  <2>3. QED  BY <2>1, <2>2, QueueTypes DEF IInv, TypeOK, Exists
<1>3. KeptInv'
  <2>1. \A k \in Fires : Present(job, k) => Present(job', k)  BY <1>1 DEF Exists, Present
  <2>2. QED  BY <2>1, KeptStays DEF IInv
<1>4. RunInv' /\ LaneInv'  BY QuietKeeps DEF IInv
<1>5. CheckInv'  BY CheckStays DEF IInv, RunInv
<1>6. QED  BY <1>2, <1>3, <1>4, <1>5 DEF IInv

\* The rows of a recovery.
LEMMA RecoveryIsQuiet ==
  ASSUME TypeOK, NEW X, \A k \in X : job[k].status = "leased",
         job' = Q!RecoveredJobs(X)
  PROVE  RowsQuiet /\ job' \in [Fires -> Q!Job] /\ \A k \in Fires : Exists(k)' => Exists(k)
<1>1. job \in [Fires -> Q!Job]  BY QueueTypes DEF TypeOK, QueueTyped
<1>2. /\ job' \in [Fires -> Q!Job]
      /\ \A k \in Fires :
            IF k \in X THEN job'[k].status = "pending" /\ job'[k].recovered
            ELSE job'[k] = job[k]
  BY <1>1, RecoveredAre
<1>3. \A k \in Fires : Exists(k)' => Exists(k)  BY <1>2 DEF Exists
<1>4. QED  BY <1>2, <1>3 DEF RowsQuiet, RowQuiet

\* A recovery leaves its rows to be claimed again, marked as recovered.
LEMMA RecoverKeeps == IInv /\ Recover => IInv'
<1> SUFFICES ASSUME IInv, Recover PROVE IInv'  OBVIOUS
<1>1. job \in [Fires -> Q!Job] /\ top \in Nat
  BY QueueTypes DEF IInv, TypeOK, QueueTyped
<1> DEFINE X == Q!Overdue
           J == Q!RecoveredJobs(X)
<1>2. Q!Promote(J, Q!RecoveredControls(X), Q!AbortedIn(X)) /\ run' = run
  BY DEF Recover, Q!Sweep
<1>3. J \in [Fires -> Q!Job]  BY <1>1, RecoveredAre
<1>4. job' = J /\ top' = top  BY <1>1, <1>2, <1>3, PromoteWrites
<1>5. \A k \in X : job[k].status = "leased"  BY DEF Q!Overdue
<1>6. RowsQuiet /\ job' \in [Fires -> Q!Job] /\ \A k \in Fires : Exists(k)' => Exists(k)
  BY <1>4, <1>5, RecoveryIsQuiet DEF IInv
<1>7. UNCHANGED <<now, auto, fire, thr, past, events, missed>>  BY DEF Recover
<1>8. QED  BY <1>2, <1>4, <1>6, <1>7, QuietRowsKeep DEF IInv, TypeOK

\* A lease that runs out, or a retry that is due, changes no status.
LEMMA TimeKeeps ==
  ASSUME IInv, NEW k \in Fires, LeaseEnds(k) \/ RetryDue(k)
  PROVE  IInv'
<1>1. job \in [Fires -> Q!Job] /\ top \in Nat
  BY QueueTypes DEF IInv, TypeOK, QueueTyped
<1>2. /\ job[k].status # "absent"
      /\ \/ job' = [job EXCEPT ![k].expired = TRUE]
         \/ job' = [job EXCEPT ![k].due = TRUE]
      /\ UNCHANGED <<now, auto, fire, thr, past, missed, run, top>>
      /\ events' = events \/ (events < MaxEvents /\ events' = events + 1)
  BY DEF LeaseEnds, RetryDue, Q!LeaseRunsOut, Q!RetryIsDue, Event
<1>3. /\ job' \in [Fires -> Q!Job]
      /\ \A i \in Fires \ {k} : job'[i] = job[i]
      /\ job'[k].status = job[k].status /\ job'[k].by = job[k].by
      /\ job'[k].claims = job[k].claims /\ job'[k].recovered = job[k].recovered
  <2>1. \/ job'[k] = [job[k] EXCEPT !.expired = TRUE]
        \/ job'[k] = [job[k] EXCEPT !.due = TRUE]
    BY <1>1, <1>2
  <2>2. \A i \in Fires \ {k} : job'[i] = job[i]  BY <1>1, <1>2
  <2>3. job[k] \in Q!Job  BY <1>1
  <2>4. job'[k] \in Q!Job  BY <2>1, <2>3 DEF Q!Job
  <2>5. job' \in [Fires -> Q!Job]  BY <1>1, <1>2, <2>4
  <2>6. /\ job'[k].status = job[k].status /\ job'[k].by = job[k].by
        /\ job'[k].claims = job[k].claims /\ job'[k].recovered = job[k].recovered
    BY <2>1, <2>3 DEF Q!Job
  <2>7. QED  BY <2>2, <2>5, <2>6
<1>4. RowsQuiet /\ \A i \in Fires : Exists(i)' => Exists(i)
  BY <1>3 DEF RowsQuiet, RowQuiet, Exists
<1>5. events' \in 0..MaxEvents  BY <1>2, FiresAssumption DEF IInv, TypeOK
<1>6. QED  BY <1>2, <1>3, <1>4, <1>5, QuietRowsKeep DEF IInv, TypeOK

\* Disabling cancels fires that wait; a cancelled fire still covers its slot.
LEMMA DisableKeeps ==
  ASSUME IInv, NEW cancelled \in BOOLEAN, Disable(cancelled)
  PROVE  IInv'
<1>1. job \in [Fires -> Q!Job] /\ auto \in Automation
  BY QueueTypes DEF IInv, TypeOK, QueueTyped
<1>2. /\ auto' = [auto EXCEPT !.enabled = FALSE]
      /\ job' = [k \in Fires |-> IF cancelled /\ job[k].status = "pending"
                                 THEN Q!Unleased(job[k], "cancelled") ELSE job[k]]
      /\ UNCHANGED <<now, fire, thr, past, missed, top, run>>
      /\ events < MaxEvents /\ events' = events + 1
  BY DEF Disable, Edited, Event
<1>3. /\ auto' \in Automation /\ auto'.exists = auto.exists /\ auto'.policy = auto.policy
      /\ auto'.slots = auto.slots /\ auto'.next = auto.next
  BY <1>1, <1>2 DEF Automation
<1>4. \A k \in Fires :
        /\ Q!Unleased(job[k], "cancelled") \in Q!Job
        /\ Q!Unleased(job[k], "cancelled").status = "cancelled"
        /\ Q!Unleased(job[k], "cancelled").recovered = job[k].recovered
  BY <1>1, UnleasedIs DEF RowStatus, Ended
<1>5. /\ job' \in [Fires -> Q!Job]
      /\ \A k \in Fires :
            \/ job'[k] = job[k]
            \/ /\ job[k].status = "pending" /\ job'[k].status = "cancelled"
               /\ job'[k].recovered = job[k].recovered
  BY <1>1, <1>2, <1>4
<1>6. RowsQuiet /\ \A i \in Fires : Exists(i)' => Exists(i)
  BY <1>5 DEF RowsQuiet, RowQuiet, Exists
<1>7. events' \in 0..MaxEvents  BY <1>2, FiresAssumption DEF IInv, TypeOK
<1>8. QED  BY <1>2, <1>3, <1>5, <1>6, <1>7, QuietRowsKeep

-----------------------------------------------------------------------------
(* New fires.                                                               *)

\* The fires ids are new, the others as they were.
NewFires(ids) ==
    /\ ids \subseteq Fires /\ auto.exists
    /\ job' \in [Fires -> Q!Job] /\ top' \in Nat
    /\ fire' \in [Fires -> [precheck : Prechecks, born : 0..MaxTime]]
    /\ \A k \in ids : /\ ~Exists(k) /\ Exists(k)'
                      /\ fire'[k].precheck \in {"none", "pending", "bypassed"}
    /\ \A k \in Fires \ ids : job'[k] = job[k] /\ fire'[k] = fire[k]
    /\ UNCHANGED <<now, thr, past, missed, run>>
    /\ events' \in 0..MaxEvents
    /\ auto' \in Automation /\ auto'.exists = auto.exists /\ auto'.policy = auto.policy
    /\ auto'.slots = auto.slots

\* They fit in, if next_run_at passes over no slot that has no fire.
LEMMA NewFiresKeep ==
  ASSUME IInv, NEW ids, NewFires(ids),
         auto.policy # "skip" => Kept(auto.slots, auto'.next, auto.policy, missed, job')
  PROVE  IInv'
<1>1. \A k \in Fires : Exists(k) => Exists(k)' /\ job'[k] = job[k] /\ fire'[k] = fire[k]
  BY DEF NewFires, Exists
<1>2. TypeOK'
  <2>1. QueueTyped'  BY QueueTypes DEF IInv, TypeOK, QueueTyped, NewFires
  <2>2. \A k \in Fires : ~Exists(k)' => fire'[k] = NoFire
    BY <1>1 DEF IInv, TypeOK, NewFires
  <2>3. QED  BY <2>1, <2>2, QueueTypes DEF IInv, TypeOK, Exists, NewFires
<1>3. KeptInv'
  <2>1. \A k \in Fires : Present(job, k) => Present(job', k)  BY <1>1 DEF Exists, Present
  <2>2. QED  BY <2>1, KeptGrows DEF IInv, NewFires
<1>4. RowsQuiet  BY <1>1 DEF RowsQuiet, RowQuiet, Exists, NewFires
<1>5. RunInv' /\ LaneInv'  BY <1>4, QuietKeeps DEF IInv, NewFires
<1>6. CheckInv'
  <2>1. \A k \in ids : past[k].checks = 0 /\ past[k].lanes = 0 /\ ~past[k].passed
    BY DEF IInv, RunInv, NewFires, NoPast
  <2>2. ASSUME NEW k \in Fires
        PROVE  /\ past'[k].checks <= 1
               /\ fire'[k].precheck \in {"none", "pending", "bypassed"} => past'[k].checks = 0
               /\ fire'[k].precheck = "passed" => past'[k].passed
               /\ past'[k].lanes > 0 /\ fire'[k].precheck \notin {"none", "bypassed"} =>
                     past'[k].passed
               /\ auto'.exists /\ past'[k].checks = 0 => ~past'[k].passed
    <3>1. CASE k \in ids
      <4>1. fire'[k].precheck \in {"none", "pending", "bypassed"} /\ past'[k] = past[k]
        BY <3>1 DEF NewFires
      <4>2. QED  BY <2>1, <3>1, <4>1
    <3>2. CASE k \notin ids
      <4>1. fire'[k] = fire[k] /\ past'[k] = past[k] /\ auto'.exists = auto.exists
        BY <3>2 DEF NewFires
      <4>2. QED  BY <4>1 DEF IInv, CheckInv
    <3>3. QED  BY <3>1, <3>2
  <2>3. \A w \in Workers : run[w] # Q!Idle => fire'[run[w].job] = fire[run[w].job]
    BY <1>1 DEF IInv, RunInv, NewFires
  <2>4. QED  BY <2>2, <2>3 DEF IInv, CheckInv, NewFires
<1>7. QED  BY <1>2, <1>3, <1>5, <1>6 DEF IInv

\* The fires of different slots and calls differ.
LEMMA SlotsDiffer ==
  /\ \A s \in Slots : Slot(s) \in Fires /\ Slot(s)[1] = "slot" /\ Slot(s)[2] = s
  /\ \A c \in Calls : Manual(c) \in Fires /\ Manual(c)[1] = "manual"
BY DEF Slot, Manual, Fires

\* A tick gives every slot that next_run_at passes over its fire, or a later one.
LEMMA MaterializeKeeps == IInv /\ Materialize => IInv'
<1> SUFFICES ASSUME IInv, Materialize PROVE IInv'  OBVIOUS
<1> DEFINE new == {s \in DueSlots : ~Exists(Slot(s))}
           ids == {Slot(s) : s \in new}
           row(k) == Q!PendingRow(k, top + 1 + Cardinality(Before(new, k[2])))
           fresh == [NoFire EXCEPT !.precheck = IF auto.precheck THEN "pending" ELSE "none"]
           n == NextAfterDue
<1>1. /\ auto.exists /\ auto.next # None /\ auto.next <= now
      /\ job' = [k \in Fires |-> IF k \in ids THEN row(k) ELSE job[k]]
      /\ top' = top + Cardinality(new)
      /\ fire' = [k \in Fires |-> IF k \in ids THEN fresh ELSE fire[k]]
      /\ auto' = [auto EXCEPT !.next = n]
      /\ UNCHANGED <<now, thr, past, events, missed, run>>
  BY DEF Materialize
<1>2. /\ auto \in Automation /\ now \in 0..MaxTime /\ top \in Nat /\ job \in [Fires -> Q!Job]
      /\ fire \in [Fires -> [precheck : Prechecks, born : 0..MaxTime]]
      /\ missed \subseteq Slots /\ events \in 0..MaxEvents
  BY QueueTypes DEF IInv, TypeOK, QueueTyped
<1>3. /\ DueSlots \subseteq Slots /\ n \in Slots \cup {None}
      /\ auto.policy # "skip" =>
         \A s \in auto.slots : n = None \/ s < n =>
           \/ s < auto.next \/ s \in DueSlots
           \/ auto.policy = "latest" /\ \E r \in auto.slots : s < r /\ r \in DueSlots
  BY <1>1, <1>2, Due
<1> HIDE DEF n
<1>4. IsFiniteSet(new) /\ new \subseteq Slots
  <2>1. IsFiniteSet(1..MaxTime)  BY FiresAssumption, FS_Interval
  <2>2. QED  BY <1>3, <2>1, FS_Subset DEF Slots
<1>5. ids \subseteq Fires /\ \A k \in ids : ~Exists(k)  BY <1>4, SlotsDiffer
<1>6. top' \in Nat  BY <1>1, <1>2, <1>4, FS_CardinalityType
<1>7. ASSUME NEW k \in Fires
      PROVE  row(k) \in Q!Job /\ row(k).status = "pending"
  <2>1. Before(new, k[2]) \subseteq new  BY DEF Before
  <2>2. Cardinality(Before(new, k[2])) \in Nat  BY <1>4, <2>1, FS_Subset, FS_CardinalityType
  <2> DEFINE c == top + 1 + Cardinality(Before(new, k[2]))
  <2>3. c \in Nat  BY <1>2, <2>2
  <2> HIDE DEF c
  <2>4. Q!PendingRow(k, c) \in Q!Job /\ Q!PendingRow(k, c).status = "pending"
    BY <2>3, PendingIs
  <2>5. QED  BY <2>4 DEF c
<1> HIDE DEF row
<1>8. fresh \in [precheck : Prechecks, born : 0..MaxTime] /\ fresh.precheck \in {"none", "pending"}
  BY FiresAssumption DEF NoFire, Prechecks
<1> HIDE DEF fresh
<1>9. /\ auto' \in Automation /\ auto'.exists = auto.exists /\ auto'.policy = auto.policy
      /\ auto'.slots = auto.slots /\ auto'.next = n
  BY <1>1, <1>2, <1>3 DEF Automation
<1>10. /\ \A k \in ids : job'[k] = row(k) /\ fire'[k] = fresh
       /\ \A k \in Fires \ ids : job'[k] = job[k] /\ fire'[k] = fire[k]
  BY <1>1, <1>5
<1>11. \A k \in ids : Exists(k)'
  BY <1>5, <1>7, <1>10 DEF Exists
<1>12. /\ job' \in [Fires -> Q!Job]
       /\ fire' \in [Fires -> [precheck : Prechecks, born : 0..MaxTime]]
  BY <1>1, <1>2, <1>7, <1>8
<1>13. NewFires(ids)
  BY <1>1, <1>2, <1>5, <1>6, <1>8, <1>9, <1>10, <1>11, <1>12 DEF NewFires
<1>14. ASSUME auto.policy # "skip"
       PROVE  Kept(auto.slots, auto'.next, auto.policy, missed, job')
  <2>1. \A s \in DueSlots : Present(job', Slot(s))
    <3>1. SUFFICES ASSUME NEW s \in DueSlots PROVE Present(job', Slot(s))  OBVIOUS
    <3>2. Slot(s) \in Fires  BY <1>3, SlotsDiffer
    <3>3. CASE Slot(s) \in ids  BY <1>11, <3>3 DEF Exists, Present
    <3>4. CASE Slot(s) \notin ids
      <4>1. Exists(Slot(s))  BY <3>4
      <4>2. QED  BY <1>10, <3>2, <3>4, <4>1 DEF Exists, Present
    <3>5. QED  BY <3>3, <3>4
  <2>2. auto.slots \in SUBSET Slots  BY <1>2, FiresAssumption DEF Automation
  <2>3. \A k \in Fires : Present(job, k) => Present(job', k)
    BY <1>10, <1>11 DEF Exists, Present
  <2>4. Kept(auto.slots, auto.next, auto.policy, missed, job')
    <3>1. Kept(auto.slots, auto.next, auto.policy, missed, job)
      BY <1>1, <1>14 DEF IInv, KeptInv
    <3>2. QED  BY <2>2, <2>3, <3>1, Grown
  <2>5. \A s \in auto.slots : s < auto.next =>
          \/ s \in missed \/ Present(job', Slot(s))
          \/ auto.policy = "latest" /\ \E r \in auto.slots : s < r /\ Present(job', Slot(r))
    BY <2>4 DEF Kept
  <2>6. QED  BY <1>3, <1>9, <1>14, <2>1, <2>5 DEF Kept
<1>15. QED  BY <1>13, <1>14, NewFiresKeep

\* A call inserts its fire and leaves next_run_at alone.
LEMMA RunNowKeeps ==
  ASSUME IInv, NEW c \in Calls, NEW bypass \in BOOLEAN, RunNow(c, bypass)
  PROVE  IInv'
<1> DEFINE k == Manual(c)
           row == Q!PendingRow(k, top + 1)
           fresh == [precheck |-> IF bypass THEN "bypassed"
                                  ELSE IF auto.precheck THEN "pending" ELSE "none",
                     born |-> now]
<1>1. /\ auto.exists /\ job[k].status = "absent"
      /\ job' = [job EXCEPT ![k] = row] /\ top' = top + 1
      /\ fire' = [fire EXCEPT ![k] = fresh]
      /\ UNCHANGED <<now, auto, thr, past, missed, run>>
      /\ events < MaxEvents /\ events' = events + 1
  BY DEF RunNow, Q!Enqueue, Event
<1>2. /\ auto \in Automation /\ now \in 0..MaxTime /\ top \in Nat /\ job \in [Fires -> Q!Job]
      /\ fire \in [Fires -> [precheck : Prechecks, born : 0..MaxTime]]
      /\ missed \subseteq Slots /\ events \in 0..MaxEvents
  BY QueueTypes DEF IInv, TypeOK, QueueTyped
<1>3. k \in Fires  BY SlotsDiffer
<1>4. row \in Q!Job /\ row.status = "pending"  BY <1>2, <1>3, PendingIs
<1>5. /\ fresh \in [precheck : Prechecks, born : 0..MaxTime]
      /\ fresh.precheck \in {"none", "pending", "bypassed"}
  BY <1>2 DEF Prechecks
<1> HIDE DEF row, fresh, k
<1>6. events' \in 0..MaxEvents  BY <1>1, <1>2, FiresAssumption
<1>7. /\ job' \in [Fires -> Q!Job] /\ job'[k] = row
      /\ fire' \in [Fires -> [precheck : Prechecks, born : 0..MaxTime]] /\ fire'[k] = fresh
      /\ \A i \in Fires \ {k} : job'[i] = job[i] /\ fire'[i] = fire[i]
  BY <1>1, <1>2, <1>3, <1>4, <1>5
<1>8. ~Exists(k) /\ Exists(k)'  BY <1>1, <1>4, <1>7 DEF Exists
<1>9. NewFires({k})
  <2>1. top' \in Nat  BY <1>1, <1>2
  <2>2. /\ {k} \subseteq Fires /\ auto.exists /\ auto' \in Automation
        /\ auto'.exists = auto.exists /\ auto'.policy = auto.policy /\ auto'.slots = auto.slots
    BY <1>1, <1>2, <1>3
  <2>3. /\ \A i \in {k} : /\ ~Exists(i) /\ Exists(i)'
                          /\ fire'[i].precheck \in {"none", "pending", "bypassed"}
        /\ \A i \in Fires \ {k} : job'[i] = job[i] /\ fire'[i] = fire[i]
    BY <1>5, <1>7, <1>8
  <2>4. QED  BY <1>1, <1>6, <1>7, <2>1, <2>2, <2>3 DEF NewFires
<1>10. ASSUME auto.policy # "skip"
       PROVE  Kept(auto.slots, auto'.next, auto.policy, missed, job')
  <2>1. auto.slots \in SUBSET Slots  BY <1>2, FiresAssumption DEF Automation
  <2>2. \A i \in Fires : Present(job, i) => Present(job', i)
    BY <1>7, <1>8 DEF Exists, Present
  <2>3. Kept(auto.slots, auto.next, auto.policy, missed, job)
    BY <1>1, <1>10 DEF IInv, KeptInv
  <2>4. QED  BY <1>1, <2>1, <2>2, <2>3, Grown
<1>11. QED  BY <1>9, <1>10, NewFiresKeep

-----------------------------------------------------------------------------
(* An execution goes on.                                                    *)

\* A worker whose execution is somewhere has a run, of a fire that is there.
LEMMA RunningHasFire ==
  ASSUME TypeOK, RunInv, NEW w \in Workers, thr[w].at # "idle"
  PROVE  /\ run[w] # Q!Idle /\ run[w].job \in Fires
         /\ auto.exists => Exists(run[w].job)
         /\ ~auto.exists => fire[run[w].job] = NoFire
BY DEF TypeOK, RunInv

\* An execution ends its own precheck, the only one there is for its fire.
LEMMA PrecheckEndsKeeps ==
  ASSUME IInv, NEW w \in Workers, NEW answer \in {"passed", "skipped", "error"},
         PrecheckEnds(w, answer)
  PROVE  IInv'
<1> DEFINE k == run[w].job
           at == CASE answer = "passed" -> "launch"
                   [] answer = "skipped" -> "skip"
                   [] answer = "error" -> "error"
           pre == IF fire[k].precheck = "running" THEN answer ELSE fire[k].precheck
           ok == answer = "passed"
<1>1. /\ thr[w].at = "precheck"
      /\ fire' = [fire EXCEPT ![k].precheck = pre]
      /\ thr' = [thr EXCEPT ![w].at = at]
      /\ past' = [past EXCEPT ![k].passed = ok]
      /\ UNCHANGED <<now, auto, events, missed, job, top, run>>
  BY DEF PrecheckEnds
<1>2. /\ run[w] # Q!Idle /\ k \in Fires /\ (auto.exists => Exists(k))
      /\ ~auto.exists => fire[k] = NoFire
  BY <1>1, RunningHasFire DEF IInv
<1>3. /\ fire \in [Fires -> [precheck : Prechecks, born : 0..MaxTime]]
      /\ thr \in [Workers -> Execution] /\ past \in [Fires -> Past]
  BY DEF IInv, TypeOK
<1>4. at \in {"launch", "skip", "error"} /\ (at = "launch" => ok)  OBVIOUS
<1>5. pre \in Prechecks /\ ok \in BOOLEAN
  BY <1>2, <1>3 DEF Prechecks
<1>6. /\ fire[k].precheck = "running" => pre = answer
      /\ fire[k].precheck # "running" => pre = fire[k].precheck
  OBVIOUS
<1>7. ok <=> answer = "passed"  OBVIOUS
<1> HIDE DEF k, at, pre, ok
<1>8. /\ fire' \in [Fires -> [precheck : Prechecks, born : 0..MaxTime]]
      /\ fire'[k].precheck = pre /\ fire'[k].born = fire[k].born
      /\ \A i \in Fires \ {k} : fire'[i] = fire[i]
  BY <1>1, <1>2, <1>3, <1>5
<1>9. /\ thr' \in [Workers -> Execution] /\ thr'[w].at = at
      /\ thr'[w].slots = thr[w].slots /\ thr'[w].next = thr[w].next
      /\ \A v \in Workers \ {w} : thr'[v] = thr[v]
  BY <1>1, <1>3, <1>4 DEF Execution, Stages
<1>10. /\ past' \in [Fires -> Past] /\ past'[k].passed = ok
       /\ past'[k].checks = past[k].checks /\ past'[k].lanes = past[k].lanes
       /\ past'[k].lost = past[k].lost
       /\ \A i \in Fires \ {k} : past'[i] = past[i]
  <2>1. past'[k] = [past[k] EXCEPT !.passed = ok] /\ past[k] \in Past
    BY <1>1, <1>2, <1>3
  <2>2. past'[k] \in Past  BY <1>5, <2>1 DEF Past
  <2>3. /\ past'[k].checks = past[k].checks /\ past'[k].lanes = past[k].lanes
        /\ past'[k].lost = past[k].lost /\ past'[k].passed = ok
    BY <2>1 DEF Past
  <2>4. past' = [past EXCEPT ![k] = past'[k]]  BY <1>1, <1>2, <1>3, <2>1
  <2>5. past' \in [Fires -> Past] /\ \A i \in Fires \ {k} : past'[i] = past[i]
    BY <1>1, <1>2, <1>3, <2>2
  <2>6. QED  BY <2>3, <2>5
<1>11. fire[k] = NoFire => fire'[k] = NoFire
  <2>1. SUFFICES ASSUME fire[k] = NoFire PROVE fire'[k] = fire[k]  OBVIOUS
  <2>2. fire'[k] = [fire[k] EXCEPT !.precheck = pre]  BY <1>1, <1>2, <1>3
  <2>3. pre = fire[k].precheck  BY <1>6, <2>1 DEF NoFire
  <2>4. fire[k] \in [precheck : Prechecks, born : 0..MaxTime]  BY <1>2, <1>3
  <2>5. QED  BY <2>2, <2>3, <2>4
<1>12. TypeOK'
  <2>1. QueueTyped'  BY <1>1, QueueTypes DEF IInv, TypeOK, QueueTyped
  <2>2. \A i \in Fires : ~Exists(i)' => fire'[i] = NoFire
    BY <1>1, <1>8, <1>11 DEF IInv, TypeOK, Exists
  <2>3. \A v \in Workers : run'[v] = Q!Idle <=> thr'[v].at = "idle"
    BY <1>1, <1>2, <1>4, <1>9 DEF IInv, TypeOK
  <2>4. QED  BY <1>1, <1>8, <1>9, <1>10, <2>1, <2>2, <2>3, QueueTypes DEF IInv, TypeOK
<1>13. KeptInv'  BY <1>1, <1>9, KeptStays DEF IInv
<1>14. RunInv'
  <2>1. auto.exists => \A i \in Fires : ~Exists(i) => past'[i] = NoPast
    BY <1>2, <1>10 DEF IInv, RunInv
  <2>2. \A i \in Fires : past'[i].checks = past[i].checks  BY <1>10
  <2>3. QED  BY <1>1, <2>1, <2>2 DEF IInv, RunInv, Exists
<1>15. auto.exists =>
         /\ past[k].checks = 1 /\ ~past[k].passed
         /\ fire[k].precheck \notin {"none", "pending", "bypassed", "passed"}
         /\ past[k].lanes > 0 => FALSE
         /\ \A v \in Workers : run[v] # Q!Idle /\ thr[v].at = "precheck" /\ run[v].job = k => v = w
  BY <1>1, <1>2 DEF IInv, CheckInv, k
<1>16. CheckInv'
  <2>1. ASSUME NEW i \in Fires
        PROVE  /\ past'[i].checks <= 1
               /\ fire'[i].precheck \in {"none", "pending", "bypassed"} => past'[i].checks = 0
               /\ fire'[i].precheck = "passed" => past'[i].passed
               /\ past'[i].lanes > 0 /\ fire'[i].precheck \notin {"none", "bypassed"} =>
                     past'[i].passed
               /\ auto'.exists /\ past'[i].checks = 0 => ~past'[i].passed
    <3>1. CASE i # k
      <4>1. fire'[i] = fire[i] /\ past'[i] = past[i]  BY <1>8, <1>10, <3>1
      <4>2. QED  BY <1>1, <4>1 DEF IInv, CheckInv
    <3>2. CASE i = k /\ ~auto.exists
      <4>1. fire'[i].precheck = "none" /\ past'[i].checks = 0
        BY <1>2, <1>10, <1>11, <3>2 DEF NoFire, IInv, RunInv
      <4>2. QED  BY <1>1, <3>2, <4>1
    <3>3. CASE i = k /\ auto.exists
      <4>1. pre \notin {"none", "pending", "bypassed"} /\ (pre = "passed" => ok)
        BY <1>6, <1>7, <1>15, <3>3
      <4>2. past'[k].checks = 1 /\ ~(past'[k].lanes > 0)
        BY <1>10, <1>15, <3>3
      <4>3. QED  BY <1>8, <1>10, <3>3, <4>1, <4>2
    <3>4. QED  BY <3>1, <3>2, <3>3
  <2>2. ASSUME auto.exists, NEW v \in Workers, run[v] # Q!Idle
        PROVE  /\ thr'[v].at = "precheck" =>
                    /\ past'[run[v].job].checks = 1 /\ ~past'[run[v].job].passed
                    /\ \A u \in Workers :
                          run[u] # Q!Idle /\ thr'[u].at = "precheck" /\ run[u].job = run[v].job
                            => u = v
               /\ thr'[v].at = "launch" =>
                    fire'[run[v].job].precheck \in {"none", "bypassed"} \/ past'[run[v].job].passed
    <3>1. CASE v = w
      <4>1. thr'[v].at = at /\ run[v].job = k  BY <1>9, <3>1 DEF k
      <4>2. QED  BY <1>4, <1>10, <4>1
    <3>2. CASE v # w
      <4> DEFINE i == run[v].job
      <4>1. thr'[v] = thr[v] /\ i \in Fires  BY <1>9, <2>2, <3>2 DEF IInv, RunInv
      <4>2. /\ thr[v].at = "precheck" =>
                  /\ past[i].checks = 1 /\ ~past[i].passed
                  /\ \A u \in Workers :
                        run[u] # Q!Idle /\ thr[u].at = "precheck" /\ run[u].job = i => u = v
            /\ thr[v].at = "launch" =>
                  fire[i].precheck \in {"none", "bypassed"} \/ past[i].passed
        BY <2>2 DEF IInv, CheckInv
      <4>3. thr[v].at \in {"precheck", "launch"} => i # k
        BY <1>15, <2>2, <3>2, <4>2
      <4>4. thr[v].at \in {"precheck", "launch"} => fire'[i] = fire[i] /\ past'[i] = past[i]
        BY <1>8, <1>10, <4>1, <4>3
      <4>5. \A u \in Workers : thr'[u].at = "precheck" => thr[u].at = "precheck"
        BY <1>4, <1>9
      <4>6. QED  BY <4>1, <4>2, <4>4, <4>5
    <3>3. QED  BY <3>1, <3>2
  <2>3. QED  BY <1>1, <2>1, <2>2 DEF CheckInv
<1>17. LaneInv'
  <2>1. SUFFICES ASSUME auto.exists PROVE LaneInv'  BY <1>1 DEF LaneInv
  <2>2. \A v \in Workers : Q!Holds(v)' <=> Q!Holds(v)  BY <1>1 DEF Q!Holds
  <2>3. \A v \in Workers : run'[v] # Q!Idle /\ ~job'[run'[v].job].recovered => Q!Holds(v)'
    BY <1>1, <2>1, <2>2 DEF IInv, LaneInv
  <2>4. ASSUME NEW i \in Fires, Clean(i)', past'[i].lanes > 0
        PROVE  /\ past'[i].lanes = 1 /\ job'[i].status # "pending"
               /\ \A v \in Workers :
                     run'[v] # Q!Idle /\ run'[v].job = i => thr'[v].at = "launched"
    <3>1. i # k  BY <1>10, <1>15, <2>1, <2>4
    <3>2. past'[i] = past[i]  BY <1>10, <3>1
    <3>3. Clean(i)  BY <1>1, <2>4, <3>2 DEF Clean
    <3>4. /\ past[i].lanes = 1 /\ job[i].status # "pending"
          /\ \A v \in Workers : run[v] # Q!Idle /\ run[v].job = i => thr[v].at = "launched"
      BY <2>1, <2>4, <3>2, <3>3 DEF IInv, LaneInv
    <3>5. \A v \in Workers : run[v].job = i => v # w  BY <3>1 DEF k
    <3>6. QED  BY <1>1, <1>9, <3>2, <3>4, <3>5
  <2>5. QED  BY <2>3, <2>4 DEF LaneInv
<1>18. QED  BY <1>12, <1>13, <1>14, <1>16, <1>17 DEF IInv

\* A launch adds a lane: the first, unless there is a cause for a second.
LEMMA LaunchKeeps ==
  ASSUME IInv, NEW w \in Workers, NEW opened \in BOOLEAN, Launch(w, opened)
  PROVE  IInv'
<1> DEFINE k == run[w].job
           at == IF opened THEN "launched" ELSE "failed"
           n == past[k].lanes + (IF opened THEN 1 ELSE 0)
<1>1. /\ thr[w].at = "launch"
      /\ thr' = [thr EXCEPT ![w].at = at]
      /\ past' = [past EXCEPT ![k].lanes = n]
      /\ UNCHANGED <<now, auto, fire, events, missed, job, top, run>>
  BY DEF Launch
<1>2. /\ run[w] # Q!Idle /\ k \in Fires /\ (auto.exists => Exists(k))
      /\ ~auto.exists => fire[k] = NoFire
  BY <1>1, RunningHasFire DEF IInv
<1>3. thr \in [Workers -> Execution] /\ past \in [Fires -> Past] /\ past[k] \in Past
  BY <1>2 DEF IInv, TypeOK
<1>4. at \in {"launched", "failed"} /\ (opened => at = "launched")  OBVIOUS
<1>5. /\ past[k].lanes \in Nat /\ n \in Nat
      /\ ~opened => n = past[k].lanes
      /\ opened => n = past[k].lanes + 1
  BY <1>3 DEF Past
<1> HIDE DEF k, at, n
<1>6. /\ thr' \in [Workers -> Execution] /\ thr'[w].at = at
      /\ thr'[w].slots = thr[w].slots /\ thr'[w].next = thr[w].next
      /\ \A v \in Workers \ {w} : thr'[v] = thr[v]
  BY <1>1, <1>3, <1>4 DEF Execution, Stages
<1>7. /\ past' \in [Fires -> Past] /\ past'[k].lanes = n
      /\ past'[k].checks = past[k].checks /\ past'[k].passed = past[k].passed
      /\ past'[k].lost = past[k].lost
      /\ \A i \in Fires \ {k} : past'[i] = past[i]
  <2>1. past'[k] = [past[k] EXCEPT !.lanes = n]  BY <1>1, <1>2, <1>3
  <2>2. past'[k] \in Past  BY <1>3, <1>5, <2>1 DEF Past
  <2>3. /\ past'[k].checks = past[k].checks /\ past'[k].passed = past[k].passed
        /\ past'[k].lost = past[k].lost /\ past'[k].lanes = n
    BY <1>3, <2>1 DEF Past
  <2>4. past' \in [Fires -> Past] /\ \A i \in Fires \ {k} : past'[i] = past[i]
    BY <1>1, <1>2, <1>3, <2>2
  <2>5. QED  BY <2>3, <2>4
<1>8. TypeOK'
  <2>1. QueueTyped'  BY <1>1, QueueTypes DEF IInv, TypeOK, QueueTyped
  <2>2. \A v \in Workers : run'[v] = Q!Idle <=> thr'[v].at = "idle"
    BY <1>1, <1>2, <1>4, <1>6 DEF IInv, TypeOK
  <2>3. QED  BY <1>1, <1>6, <1>7, <2>1, <2>2, QueueTypes DEF IInv, TypeOK, Exists
<1>9. KeptInv'  BY <1>1, <1>6, KeptStays DEF IInv
<1>10. RunInv'
  <2>1. auto.exists => \A i \in Fires : ~Exists(i) => past'[i] = NoPast
    BY <1>2, <1>7 DEF IInv, RunInv
  <2>2. \A i \in Fires : past'[i].checks = past[i].checks  BY <1>7
  <2>3. QED  BY <1>1, <2>1, <2>2 DEF IInv, RunInv, Exists
<1>11. auto.exists => fire[k].precheck \in {"none", "bypassed"} \/ past[k].passed
  BY <1>1, <1>2 DEF IInv, CheckInv, k
<1>12. CheckInv'
  <2>1. ASSUME NEW i \in Fires
        PROVE  /\ past'[i].checks <= 1
               /\ fire'[i].precheck \in {"none", "pending", "bypassed"} => past'[i].checks = 0
               /\ fire'[i].precheck = "passed" => past'[i].passed
               /\ past'[i].lanes > 0 /\ fire'[i].precheck \notin {"none", "bypassed"} =>
                     past'[i].passed
               /\ auto'.exists /\ past'[i].checks = 0 => ~past'[i].passed
    <3>1. CASE i # k
      <4>1. past'[i] = past[i]  BY <1>7, <3>1
      <4>2. QED  BY <1>1, <4>1 DEF IInv, CheckInv
    <3>2. CASE i = k
      <4>1. fire[k].precheck \in {"none", "bypassed"} \/ past[k].passed
        BY <1>2, <1>11 DEF NoFire
      <4>2. QED  BY <1>1, <1>7, <3>2, <4>1 DEF IInv, CheckInv
    <3>3. QED  BY <3>1, <3>2
  <2>2. ASSUME auto.exists, NEW v \in Workers, run[v] # Q!Idle
        PROVE  /\ thr'[v].at = "precheck" =>
                    /\ past'[run[v].job].checks = 1 /\ ~past'[run[v].job].passed
                    /\ \A u \in Workers :
                          run[u] # Q!Idle /\ thr'[u].at = "precheck" /\ run[u].job = run[v].job
                            => u = v
               /\ thr'[v].at = "launch" =>
                    fire'[run[v].job].precheck \in {"none", "bypassed"} \/ past'[run[v].job].passed
    <3>1. v # w => thr'[v] = thr[v]  BY <1>6
    <3>2. thr'[v].at \in {"precheck", "launch"} => v # w  BY <1>4, <1>6
    <3>3. \A u \in Workers : thr'[u].at = "precheck" => thr[u].at = "precheck"
      BY <1>4, <1>6
    <3> DEFINE i == run[v].job
    <3>4. i \in Fires  BY <2>2 DEF IInv, RunInv
    <3>5. past'[i].checks = past[i].checks /\ past'[i].passed = past[i].passed
      BY <1>7, <3>4
    <3>6. /\ thr[v].at = "precheck" =>
                /\ past[i].checks = 1 /\ ~past[i].passed
                /\ \A u \in Workers :
                      run[u] # Q!Idle /\ thr[u].at = "precheck" /\ run[u].job = i => u = v
          /\ thr[v].at = "launch" =>
                fire[i].precheck \in {"none", "bypassed"} \/ past[i].passed
      BY <2>2 DEF IInv, CheckInv
    <3>7. QED  BY <1>1, <3>1, <3>2, <3>3, <3>5, <3>6
  <2>3. QED  BY <1>1, <2>1, <2>2 DEF CheckInv
<1>13. LaneInv'
  <2>1. SUFFICES ASSUME auto.exists PROVE LaneInv'  BY <1>1 DEF LaneInv
  <2>2. \A v \in Workers : Q!Holds(v)' <=> Q!Holds(v)  BY <1>1 DEF Q!Holds
  <2>3. \A v \in Workers : run'[v] # Q!Idle /\ ~job'[run'[v].job].recovered => Q!Holds(v)'
    BY <1>1, <2>1, <2>2 DEF IInv, LaneInv
  <2>4. ASSUME NEW i \in Fires, Clean(i)', past'[i].lanes > 0
        PROVE  /\ past'[i].lanes = 1 /\ job'[i].status # "pending"
               /\ \A v \in Workers :
                     run'[v] # Q!Idle /\ run'[v].job = i => thr'[v].at = "launched"
    <3>1. Clean(i)  BY <1>1, <1>7, <2>4 DEF Clean
    <3>2. past[i].lanes > 0 =>
            /\ past[i].lanes = 1 /\ job[i].status # "pending"
            /\ \A v \in Workers : run[v] # Q!Idle /\ run[v].job = i => thr[v].at = "launched"
      BY <2>1, <3>1 DEF IInv, LaneInv
    <3>3. CASE i # k
      <4>1. \A v \in Workers : run[v].job = i => v # w  BY <3>3 DEF k
      <4>2. QED  BY <1>1, <1>6, <1>7, <2>4, <3>2, <3>3, <4>1
    <3>4. CASE i = k
      <4>1. ~(past[k].lanes > 0)  BY <1>1, <1>2, <3>2, <3>4 DEF k
      <4>2. opened /\ n = 1  BY <1>5, <1>7, <2>4, <3>4, <4>1
      <4>3. \A v \in Workers : run[v] # Q!Idle /\ run[v].job = k => Q!Holds(v)
        BY <2>1, <3>1, <3>4 DEF IInv, LaneInv, Clean
      <4>4. job[k].status = "leased" /\ job[k].by = w  BY <1>2, <4>3 DEF Q!Holds, k
      <4>5. \A v \in Workers : run[v] # Q!Idle /\ run[v].job = k => v = w
        BY <4>3, <4>4 DEF Q!Holds
      <4>6. QED  BY <1>1, <1>4, <1>6, <1>7, <3>4, <4>2, <4>4, <4>5
    <3>5. QED  BY <3>3, <3>4
  <2>5. QED  BY <2>3, <2>4 DEF LaneInv
<1>14. QED  BY <1>8, <1>9, <1>10, <1>12, <1>13 DEF IInv

-----------------------------------------------------------------------------
(* An execution ends.                                                       *)

\* The end of a run, with the automation as it was.
LEMMA StopKeeps ==
  ASSUME IInv, NEW w \in Workers, thr[w].at # "idle",
         job' \in [Fires -> Q!Job], top' = top,
         run' = [run EXCEPT ![w] = Q!Idle], thr' = [thr EXCEPT ![w] = NotRunning],
         UNCHANGED <<now, auto, fire, past, missed>>, events' \in 0..MaxEvents,
         RowEnds(w, run[w].job), ~auto.exists => job' = job,
         \A k \in Fires \ {run[w].job} : job'[k] = job[k]
  PROVE  IInv'
<1> DEFINE j == run[w].job
<1>1. /\ run[w] # Q!Idle /\ j \in Fires /\ (auto.exists => Exists(j))
  BY RunningHasFire DEF IInv
<1>2. RunInv' /\ CheckInv' /\ LaneInv'  BY <1>1, EndKeeps DEF IInv
<1>3. \A k \in Fires : Exists(k) <=> Exists(k)'
  BY <1>1 DEF RowEnds, Q!Holds, Exists
<1>4. /\ thr' \in [Workers -> Execution] /\ thr'[w].at = "idle"
      /\ \A v \in Workers \ {w} : thr'[v] = thr[v]
  BY FiresAssumption DEF IInv, TypeOK, NotRunning, Execution, Stages
<1>5. TypeOK'
  <2>1. QueueTyped'
    <3>1. Q!Idle \in Q!Run  BY DEF Q!Idle, Q!Run
    <3>2. QED  BY <3>1, QueueTypes DEF IInv, TypeOK, QueueTyped
  <2>2. run'[w] = Q!Idle /\ \A v \in Workers \ {w} : run'[v] = run[v]
    BY QueueTypes DEF IInv, TypeOK, QueueTyped
  <2>3. \A v \in Workers : run'[v] = Q!Idle <=> thr'[v].at = "idle"
    BY <1>4, <2>2 DEF IInv, TypeOK
  <2>4. \A k \in Fires : ~Exists(k)' => fire'[k] = NoFire  BY <1>3 DEF IInv, TypeOK
  <2>5. QED  BY <1>4, <2>1, <2>3, <2>4, QueueTypes DEF IInv, TypeOK
<1>6. KeptInv'
  <2>1. \A k \in Fires : Present(job, k) => Present(job', k)  BY <1>3 DEF Exists, Present
  <2>2. \A v \in Workers : thr'[v].at # "idle" => thr'[v] = thr[v]  BY <1>4
  <2>3. QED  BY <2>1, <2>2, KeptStays DEF IInv
<1>7. QED  BY <1>2, <1>5, <1>6 DEF IInv

\* A stop leaves the row leased and the lane opened.
LEMMA CrashKeeps ==
  ASSUME IInv, NEW w \in Workers, Crash(w)
  PROVE  IInv'
<1>1. /\ run[w] # Q!Idle /\ run' = [run EXCEPT ![w] = Q!Idle]
      /\ thr' = [thr EXCEPT ![w] = NotRunning]
      /\ UNCHANGED <<now, auto, fire, past, missed, job, top>>
      /\ events < MaxEvents /\ events' = events + 1
  BY DEF Crash, Q!Stop, Event
<1>2. events' \in 0..MaxEvents  BY <1>1, FiresAssumption DEF IInv, TypeOK
<1>3. thr[w].at # "idle"  BY <1>1 DEF IInv, TypeOK
<1>4. job' \in [Fires -> Q!Job]  BY <1>1, QueueTypes DEF IInv, TypeOK, QueueTyped
<1>5. RowEnds(w, run[w].job)  BY <1>1 DEF RowEnds
<1>6. QED  BY <1>1, <1>2, <1>3, <1>4, <1>5, StopKeeps

\* A refused settlement recovers the lease if it was still held.
LEMMA SettleRefusedKeeps ==
  ASSUME IInv, NEW w \in Workers, SettleRefused(w)
  PROVE  IInv'
<1> DEFINE j == run[w].job
           X == IF Q!Holds(w) THEN {j} ELSE {}
<1>1. /\ thr[w].at \in {"launched", "failed", "skip", "error"}
      /\ Q!Promote(Q!RecoveredJobs(X), Q!RecoveredControls(X), Q!AbortedIn(X))
      /\ run' = [run EXCEPT ![w] = Q!Idle] /\ thr' = [thr EXCEPT ![w] = NotRunning]
      /\ UNCHANGED <<now, auto, fire, past, events, missed>>
  BY DEF SettleRefused, Q!Refused
<1>2. /\ run[w] # Q!Idle /\ j \in Fires /\ (auto.exists => Exists(j))
  BY <1>1, RunningHasFire DEF IInv
<1>3. job \in [Fires -> Q!Job] /\ top \in Nat
  BY QueueTypes DEF IInv, TypeOK, QueueTyped
<1>4. /\ Q!RecoveredJobs(X) \in [Fires -> Q!Job]
      /\ \A k \in Fires :
            LET row == Q!RecoveredJobs(X)[k] IN
            IF k \in X THEN row.status = "pending" /\ row.recovered /\ row.claims = job[k].claims
            ELSE row = job[k]
  BY <1>3, RecoveredAre
<1>5. job' = Q!RecoveredJobs(X) /\ top' = top
  <2> DEFINE J == Q!RecoveredJobs(X)
  <2>1. J \in [Fires -> Q!Job]  BY <1>4
  <2>2. Q!Promote(J, Q!RecoveredControls(X), Q!AbortedIn(X))  BY <1>1
  <2> HIDE DEF J
  <2>3. QED  BY <1>3, <2>1, <2>2, PromoteWrites DEF J
<1>6. RowEnds(w, j)  BY <1>2, <1>4, <1>5 DEF RowEnds
<1>7. \A k \in Fires \ {j} : job'[k] = job[k]  BY <1>4, <1>5
<1>8. ~auto.exists => job' = job
  <2>1. SUFFICES ASSUME ~auto.exists PROVE job' = job  OBVIOUS
  <2>2. ~Exists(j)  BY <1>2, <2>1 DEF IInv, RunInv
  <2>3. ~Q!Holds(w)  BY <2>2 DEF Q!Holds, Exists
  <2>4. \A k \in Fires : job'[k] = job[k]  BY <1>4, <1>5, <2>3
  <2>5. QED  BY <1>3, <1>4, <1>5, <2>4
<1>9. QED  BY <1>1, <1>4, <1>5, <1>6, <1>7, <1>8, StopKeeps DEF IInv, TypeOK

\* What a settlement that the queue accepts does to its row.
LEMMA SettleWrites ==
  ASSUME IInv, NEW w \in Workers, NEW ok \in BOOLEAN, NEW threw \in BOOLEAN,
         NEW written \in BOOLEAN, Settle(w, ok, threw, written)
  PROVE  /\ thr[w].at # "idle" /\ auto.exists /\ Q!Holds(w)
         /\ job' \in [Fires -> Q!Job] /\ top' = top /\ run' = [run EXCEPT ![w] = Q!Idle]
         /\ \A k \in Fires \ {run[w].job} : job'[k] = job[k]
         /\ LET j == run[w].job IN
            /\ job'[j].status # "absent" /\ (job[j].recovered => job'[j].recovered)
            /\ job'[j].status = "pending" => threw \/ thr[w].at = "failed"
<1> DEFINE j == run[w].job
<1>1. thr[w].at # "idle"  BY DEF Settle
<1>2. run[w] # Q!Idle /\ j \in Fires  BY <1>1, RunningHasFire DEF IInv
<1>3. job \in [Fires -> Q!Job] /\ top \in Nat /\ job[j] \in Q!Job
  BY <1>2, QueueTypes DEF IInv, TypeOK, QueueTyped
<1>4. CASE ok
  <2> DEFINE row == Q!Unleased(job[j], "completed")
             J == [job EXCEPT ![j] = row]
             C == [c \in {} |-> None]
  <2>1. Q!Complete(w)  BY <1>4 DEF Settle
  <2>2. Q!Accepted(w) /\ run' = [run EXCEPT ![w] = Q!Idle] /\ Q!Promote(J, C, {j})
    BY <2>1 DEF Q!Complete
  <2>3. row \in Q!Job /\ row.status = "completed" /\ row.recovered = job[j].recovered
    BY <1>3, UnleasedIs DEF RowStatus, Ended
  <2> HIDE DEF row
  <2>4. /\ J \in [Fires -> Q!Job] /\ J[j] = row
        /\ \A k \in Fires \ {j} : J[k] = job[k]
    BY <1>2, <1>3, <2>3
  <2> HIDE DEF J, C
  <2>5. job' = J /\ top' = top  BY <1>3, <2>2, <2>4, PromoteWrites
  <2>6. Q!Holds(w)  BY <2>2 DEF Q!Accepted
  <2>7. auto.exists  BY <1>2, <2>6 DEF Q!Holds, IInv, RunInv, Exists
  <2>8. QED  BY <1>1, <2>2, <2>3, <2>4, <2>5, <2>6, <2>7
<1>5. CASE ~ok
  <2> DEFINE terminal == Terminal(w, threw)
             parked == Q!Parked(j, terminal)
             u == Q!Unleased(job[j], IF parked THEN "parked" ELSE "pending")
             due == parked \/ ~Q!Scheduled
             row == [u EXCEPT !.tries = @ + 1, !.due = due]
             J == [job EXCEPT ![j] = row]
             C == [c \in {} |-> None]
             E == IF parked THEN {j} ELSE {}
  <2>1. Q!Fail(w, terminal)  BY <1>5 DEF Settle
  <2>2. Q!Accepted(w) /\ run' = [run EXCEPT ![w] = Q!Idle] /\ Q!Promote(J, C, E)
    BY <2>1 DEF Q!Fail
  <2>3. /\ u \in Q!Job /\ u.recovered = job[j].recovered
        /\ u.status = IF parked THEN "parked" ELSE "pending"
    BY <1>3, UnleasedIs DEF RowStatus, Ended
  <2>4. u.status = "pending" => ~terminal  BY <2>3 DEF Q!Parked
  <2>5. ~terminal => threw \/ thr[w].at = "failed"  BY <1>5 DEF Settle, Terminal
  <2>6. due \in BOOLEAN  BY DEF Q!Scheduled
  <2>7. u.status \in {"parked", "pending"}  BY <2>3
  <2> HIDE DEF u, due, parked, terminal
  <2>8. row \in Q!Job /\ row.status = u.status /\ row.recovered = u.recovered
    BY <2>3, <2>6, TriedIs
  <2> HIDE DEF row
  <2>9. /\ J \in [Fires -> Q!Job] /\ J[j] = row
        /\ \A k \in Fires \ {j} : J[k] = job[k]
    BY <1>2, <1>3, <2>8
  <2> HIDE DEF J, C, E
  <2>10. job' = J /\ top' = top  BY <1>3, <2>2, <2>9, PromoteWrites
  <2>11. Q!Holds(w)  BY <2>2 DEF Q!Accepted
  <2>12. auto.exists  BY <1>2, <2>11 DEF Q!Holds, IInv, RunInv, Exists
  <2>13. QED
    BY <1>1, <2>2, <2>3, <2>4, <2>5, <2>7, <2>8, <2>9, <2>10, <2>11, <2>12
<1>6. QED  BY <1>4, <1>5

\* The next_run_at that a settlement writes passes over no slot that has no
\* fire, but those it gives up.
LEMMA WrittenIsKept ==
  ASSUME IInv, auto.exists, auto.policy # "skip", NEW w \in Workers, thr[w].at # "idle",
         NEW M, missed \cup GivenUp(w) \subseteq M
  PROVE  Kept(auto.slots, NextWritten(w), auto.policy, M, job)
<1>1. /\ auto.slots \in SUBSET Slots /\ thr[w].slots \in SUBSET Slots
      /\ thr[w].claimed \in Nat /\ Slots \subseteq Nat
  <2>1. auto \in Automation /\ thr[w] \in Execution  BY DEF IInv, TypeOK
  <2>2. auto.slots \in SUBSET Slots /\ thr[w].slots \in SUBSET Slots
    BY <2>1, FiresAssumption DEF Automation, Execution
  <2>3. thr[w].claimed \in Nat  BY <2>1, FiresAssumption DEF Execution
  <2>4. QED  BY <2>2, <2>3 DEF Slots
<1>2. CASE auto.slots # thr[w].slots
  BY <1>1, <1>2 DEF Kept, GivenUp
<1>3. CASE auto.slots = thr[w].slots /\ run[w].job[1] = "manual" /\ thr[w].slots # {}
  <2> DEFINE n == computeNextRunAt(thr[w].slots, thr[w].claimed)
  <2>1. \A s \in thr[w].slots : n = None \/ s < n => s <= thr[w].claimed
    BY <1>1, NextRun
  <2>2. NextWritten(w) = n  BY <1>3 DEF NextWritten
  <2>3. Slots \cap 0..thr[w].claimed \subseteq M  BY <1>3 DEF GivenUp
  <2> HIDE DEF n
  <2>4. \A s \in Slots : s <= thr[w].claimed => s \in M  BY <1>1, <2>3
  <2>5. QED  BY <1>1, <1>3, <2>1, <2>2, <2>4 DEF Kept
<1>4. CASE auto.slots = thr[w].slots /\ ~(run[w].job[1] = "manual" /\ thr[w].slots # {})
  <2>1. NextWritten(w) = thr[w].next  BY <1>4 DEF NextWritten
  <2>2. Kept(thr[w].slots, thr[w].next, auto.policy, missed, job)  BY DEF IInv, KeptInv
  <2>3. QED  BY <1>1, <1>4, <2>1, <2>2, Grown
<1>5. QED  BY <1>2, <1>3, <1>4

\* A settlement ends the run, counts a loss and writes next_run_at.
LEMMA SettleKeeps ==
  ASSUME IInv, NEW w \in Workers, NEW ok \in BOOLEAN, NEW threw \in BOOLEAN,
         NEW written \in BOOLEAN, Settle(w, ok, threw, written)
  PROVE  IInv'
<1> DEFINE j == run[w].job
           lost == past[j].lost \/ threw
           n == NextWritten(w)
<1>1. /\ thr' = [thr EXCEPT ![w] = NotRunning]
      /\ past' = [past EXCEPT ![j].lost = lost]
      /\ auto' = IF written THEN [auto EXCEPT !.next = n] ELSE auto
      /\ missed' = IF written THEN missed \cup GivenUp(w) ELSE missed
      /\ UNCHANGED <<now, fire, events>>
  BY DEF Settle
<1>2. /\ thr[w].at # "idle" /\ auto.exists /\ Q!Holds(w)
      /\ job' \in [Fires -> Q!Job] /\ top' = top /\ run' = [run EXCEPT ![w] = Q!Idle]
      /\ \A k \in Fires \ {j} : job'[k] = job[k]
      /\ job'[j].status # "absent" /\ (job[j].recovered => job'[j].recovered)
      /\ job'[j].status = "pending" => threw \/ thr[w].at = "failed"
  BY SettleWrites
<1>3. run[w] # Q!Idle /\ j \in Fires /\ Exists(j)
  BY <1>2, RunningHasFire DEF IInv
<1>4. /\ auto \in Automation /\ thr \in [Workers -> Execution] /\ past \in [Fires -> Past]
      /\ past[j] \in Past /\ lost \in BOOLEAN
  BY <1>3 DEF IInv, TypeOK, Past
<1>5. lost <=> past[j].lost \/ threw  OBVIOUS
<1> HIDE DEF j, lost
<1>6. /\ past' \in [Fires -> Past]
      /\ \A k \in Fires \ {j} : past'[k] = past[k]
      /\ past'[j].lost = lost
      /\ \A k \in Fires : /\ past'[k].checks = past[k].checks
                          /\ past'[k].passed = past[k].passed
                          /\ past'[k].lanes = past[k].lanes
  <2>1. past'[j] = [past[j] EXCEPT !.lost = lost]  BY <1>1, <1>3, <1>4
  <2>2. past'[j] \in Past  BY <1>4, <2>1 DEF Past
  <2>3. /\ past'[j].checks = past[j].checks /\ past'[j].passed = past[j].passed
        /\ past'[j].lanes = past[j].lanes /\ past'[j].lost = lost
    BY <1>4, <2>1 DEF Past
  <2>4. past' \in [Fires -> Past] /\ \A k \in Fires \ {j} : past'[k] = past[k]
    BY <1>1, <1>3, <1>4, <2>2
  <2>5. QED  BY <2>3, <2>4
<1>7. /\ n \in Slots \cup {None} /\ GivenUp(w) \subseteq Slots
  <2>1. /\ thr[w].slots \in SUBSET Slots /\ thr[w].claimed \in Nat
        /\ thr[w].next \in Slots \cup {None}
    BY <1>4, FiresAssumption DEF Execution
  <2>2. computeNextRunAt(thr[w].slots, thr[w].claimed) \in Slots \cup {None}
    BY <2>1, NextRun
  <2>3. n \in Slots \cup {None}  BY <2>1, <2>2 DEF NextWritten
  <2>4. GivenUp(w) \subseteq Slots  BY DEF GivenUp
  <2>5. QED  BY <2>3, <2>4
<1> HIDE DEF n
<1>8. /\ auto' \in Automation /\ auto'.exists = auto.exists /\ auto'.policy = auto.policy
      /\ auto'.slots = auto.slots
      /\ written => auto'.next = n
      /\ ~written => auto' = auto
  BY <1>1, <1>4, <1>7 DEF Automation
<1>9. /\ thr' \in [Workers -> Execution] /\ thr'[w].at = "idle"
      /\ \A v \in Workers \ {w} : thr'[v] = thr[v]
  BY <1>1, <1>4, FiresAssumption DEF NotRunning, Execution, Stages
<1>10. missed' \subseteq Slots /\ missed \subseteq missed'  BY <1>1, <1>7 DEF IInv, TypeOK
<1>11. \A k \in Fires : Exists(k) <=> Exists(k)'  BY <1>2, <1>3 DEF Exists
<1>12. TypeOK'
  <2>1. QueueTyped'
    <3>1. Q!Idle \in Q!Run  BY DEF Q!Idle, Q!Run
    <3>2. QED  BY <1>2, <3>1, QueueTypes DEF IInv, TypeOK, QueueTyped
  <2>2. run'[w] = Q!Idle /\ \A v \in Workers \ {w} : run'[v] = run[v]
    BY <1>2, QueueTypes DEF IInv, TypeOK, QueueTyped
  <2>3. \A v \in Workers : run'[v] = Q!Idle <=> thr'[v].at = "idle"
    BY <1>9, <2>2 DEF IInv, TypeOK
  <2>4. \A k \in Fires : ~Exists(k)' => fire'[k] = NoFire  BY <1>1, <1>11 DEF IInv, TypeOK
  <2>5. QED  BY <1>1, <1>6, <1>8, <1>9, <1>10, <2>1, <2>3, <2>4, QueueTypes DEF IInv, TypeOK
<1>13. KeptInv'
  <2>1. \A k \in Fires : Present(job, k) => Present(job', k)  BY <1>11 DEF Exists, Present
  <2>2. \A v \in Workers : thr'[v].at # "idle" => thr[v].at # "idle" /\ thr'[v] = thr[v]
    BY <1>9
  <2>3. ASSUME auto.policy # "skip"
        PROVE  Kept(auto'.slots, auto'.next, auto.policy, missed', job')
    <3>1. auto.slots \in SUBSET Slots  BY <1>4, FiresAssumption DEF Automation
    <3>2. Kept(auto.slots, auto'.next, auto.policy, missed', job)
      <4>1. CASE written  BY <1>1, <1>2, <1>8, <2>3, <4>1, WrittenIsKept DEF n
      <4>2. CASE ~written  BY <1>1, <1>2, <1>8, <2>3, <4>2 DEF IInv, KeptInv
      <4>3. QED  BY <4>1, <4>2
    <3>3. QED  BY <1>8, <2>1, <3>1, <3>2, Grown
  <2>4. QED  BY <1>8, <1>10, <2>1, <2>2, <2>3, KeptGrows DEF IInv
<1>14. RunInv' /\ CheckInv' /\ LaneInv'
  <2>1. job'[j].status = "pending" =>
          job'[j].recovered \/ past'[j].lost \/ past[j].lanes = 0
    <3>1. SUFFICES ASSUME job'[j].status = "pending", ~job'[j].recovered, ~lost
                   PROVE  past[j].lanes = 0
      BY <1>6
    <3>2. Clean(j) /\ thr[w].at = "failed"  BY <1>2, <1>5, <3>1 DEF Clean
    <3>3. past[j].lanes > 0 => thr[w].at = "launched"
      BY <1>2, <1>3, <3>2 DEF IInv, LaneInv, j
    <3>4. past[j].lanes \in Nat  BY <1>4 DEF Past
    <3>5. QED  BY <3>2, <3>3, <3>4
  <2>2. RowEnds(w, run[w].job)  BY <1>2, <2>1 DEF RowEnds, j
  <2>3. \A k \in Fires : /\ past'[k].checks = past[k].checks
                         /\ past'[k].passed = past[k].passed
                         /\ past'[k].lanes = past[k].lanes
                         /\ past[k].lost => past'[k].lost
    BY <1>5, <1>6
  <2>4. \A k \in Fires \ {run[w].job} : job'[k] = job[k] /\ past'[k] = past[k]
    BY <1>2, <1>6 DEF j
  <2>5. \A k \in Fires : past'[k] # past[k] => Exists(k)  BY <1>3, <1>6
  <2>6. run[w] # Q!Idle  BY <1>3
  <2>7. auto'.exists = auto.exists /\ auto.exists  BY <1>2, <1>8
  <2>8. QED  BY <1>1, <1>2, <2>2, <2>3, <2>4, <2>5, <2>6, <2>7, EndKeeps DEF IInv
<1>15. QED  BY <1>12, <1>13, <1>14 DEF IInv

-----------------------------------------------------------------------------
(* A fire is claimed.                                                       *)

\* What a claim of fire k does in the queue: the overdue leases are recovered,
\* then the row, which waited, is leased to w.
Claimed(w, k, heard) ==
    /\ run[w] = Q!Idle /\ Exists(k)
    /\ job' \in [Fires -> Q!Job] /\ top' = top
    /\ job[k].status = "pending" \/ job'[k].recovered
    /\ job[k].recovered => job'[k].recovered
    /\ job'[k].status = "leased" /\ job'[k].by = w
    /\ \A i \in Fires \ {k} : RowQuiet(job[i], job'[i]) /\ (Exists(i)' => Exists(i))
    /\ run' \in [Workers -> Q!Run]
    /\ \A v \in Workers \ {w} : run'[v] = run[v]
    /\ IF heard THEN run'[w].job = k /\ run'[w].token = job'[k].claims
       ELSE run' = run

\* PollJob and PollNamed, by a tick or a route, do that.
LEMMA ClaimWrites ==
  ASSUME TypeOK, NEW w \in Workers, NEW k \in Fires, NEW heard \in BOOLEAN,
         Q!ClaimRow(w, k, heard)
  PROVE  Claimed(w, k, heard)
<1>1. job \in [Fires -> Q!Job] /\ top \in Nat /\ run \in [Workers -> Q!Run]
  BY QueueTypes DEF TypeOK, QueueTyped
<1> DEFINE J == Q!RecoveredJobs(Q!Overdue)
           row == Q!Leased(J[k], w)
           n == J[k].claims + 1
           new == [Q!Idle EXCEPT !.job = k, !.token = n]
<1>2. /\ J \in [Fires -> Q!Job]
      /\ \A i \in Fires :
            IF i \in Q!Overdue
            THEN J[i].status = "pending" /\ J[i].recovered /\ J[i].claims = job[i].claims
            ELSE J[i] = job[i]
  BY <1>1, RecoveredAre
<1>3. Q!SweptJobs = J  BY <1>2, NoPromotion DEF Q!SweptJobs
<1>4. \A i \in Q!Overdue : job[i].status = "leased"  BY DEF Q!Overdue
<1> HIDE DEF J
<1>5. /\ run[w] = Q!Idle /\ k \in Q!Claimable(J, w)
      /\ job' = [J EXCEPT ![k] = row]
      /\ run' = IF heard THEN [run EXCEPT ![w] = new] ELSE run
  BY <1>3 DEF Q!ClaimRow
<1>6. top' = top
  <2>1. Cardinality({}) = 0  BY FS_EmptySet
  <2>2. Q!Cardinality(Q!FollowUps(Q!RecoveredControls(Q!Overdue), Q!AbortedIn(Q!Overdue))) = 0
    BY <2>1, NoControls, SameCardinality
  <2>3. top' = top + Q!Cardinality(
          Q!FollowUps(Q!RecoveredControls(Q!Overdue), Q!AbortedIn(Q!Overdue)))
    BY DEF Q!ClaimRow
  <2>4. QED  BY <1>1, <2>2, <2>3
<1>7. J[k].status = "pending"  BY <1>5 DEF Q!Claimable
<1>8. /\ row \in Q!Job /\ row.status = "leased" /\ row.recovered = J[k].recovered
      /\ row.claims = n /\ row.by = w
  BY <1>2, LeasedIs
<1>9. n \in Nat  BY <1>2 DEF Q!Job
<1> HIDE DEF n, row
<1>10. new \in Q!Run /\ new.job = k /\ new.token = n
  <2>1. Q!JobIds = Fires  BY DEF Q!JobIds
  <2>2. QED  BY <1>9, <2>1 DEF Q!Idle, Q!Run
<1> HIDE DEF new
<1>11. job' \in [Fires -> Q!Job] /\ job'[k] = row /\ \A i \in Fires \ {k} : job'[i] = J[i]
  BY <1>2, <1>5, <1>8
<1>12. Exists(k)  BY <1>2, <1>4, <1>7 DEF Exists
<1>13. job[k].status = "pending" \/ row.recovered  BY <1>2, <1>7, <1>8
<1>14. job[k].recovered => row.recovered  BY <1>2, <1>8
<1>15. \A i \in Fires \ {k} : RowQuiet(job[i], job'[i]) /\ (Exists(i)' => Exists(i))
  BY <1>2, <1>4, <1>11 DEF RowQuiet, Exists
<1>16. /\ run' \in [Workers -> Q!Run] /\ \A v \in Workers \ {w} : run'[v] = run[v]
       /\ IF heard THEN run'[w].job = k /\ run'[w].token = n ELSE run' = run
  BY <1>1, <1>5, <1>10
<1>17. QED
  BY <1>5, <1>6, <1>8, <1>11, <1>12, <1>13, <1>14, <1>15, <1>16 DEF Claimed

\* What the claim is followed by.
LEMMA BeginKeeps ==
  ASSUME IInv, NEW w \in Workers, NEW k \in Fires, NEW claimed \in 0..now,
         NEW heard \in BOOLEAN, Claimed(w, k, heard), Begin(w, k, claimed, heard)
  PROVE  IInv'
<1> DEFINE decision == Decision(fire[k].precheck)
           pre == IF decision = "precheck" THEN "running"
                  ELSE IF fire[k].precheck = "running" THEN "error" ELSE fire[k].precheck
           checks == past[k].checks + (IF decision = "precheck" THEN 1 ELSE 0)
           new == [at |-> decision, slots |-> auto.slots, next |-> auto.next, claimed |-> claimed]
<1>1. /\ heard => /\ thr' = [thr EXCEPT ![w] = new]
                  /\ fire' = [fire EXCEPT ![k].precheck = pre]
                  /\ past' = [past EXCEPT ![k].checks = checks]
      /\ ~heard => UNCHANGED <<thr, fire, past>>
      /\ events < MaxEvents /\ events' = events + 1 /\ UNCHANGED <<now, auto, missed>>
  BY DEF Begin, Event
<1>2. /\ auto \in Automation /\ thr \in [Workers -> Execution] /\ past \in [Fires -> Past]
      /\ fire \in [Fires -> [precheck : Prechecks, born : 0..MaxTime]]
      /\ now \in 0..MaxTime /\ past[k] \in Past /\ past[k].checks \in Nat
  BY DEF IInv, TypeOK, Past
<1>3. auto.exists  BY DEF Claimed, IInv, RunInv
<1>4. /\ decision \in {"launch", "skip", "error", "precheck"}
      /\ decision = "precheck" <=> fire[k].precheck = "pending"
      /\ decision = "launch" => fire[k].precheck \in {"none", "bypassed", "passed"}
  BY <1>2 DEF Decision, Prechecks
<1>5. /\ decision = "precheck" => pre = "running" /\ checks = past[k].checks + 1
      /\ decision # "precheck" => /\ checks = past[k].checks
                                  /\ \/ pre = fire[k].precheck
                                     \/ fire[k].precheck = "running" /\ pre = "error"
  BY <1>2
<1>6. pre \in Prechecks /\ checks \in Nat  BY <1>2, <1>5 DEF Prechecks
<1>7. new \in Execution /\ new.at = decision
      /\ new.slots = auto.slots /\ new.next = auto.next
  <2>1. claimed \in 0..MaxTime  BY <1>2, FiresAssumption
  <2>2. QED  BY <1>2, <1>4, <2>1 DEF Automation, Execution, Stages
<1> HIDE DEF decision, pre, checks, new
<1>8. /\ fire' \in [Fires -> [precheck : Prechecks, born : 0..MaxTime]]
      /\ \A i \in Fires \ {k} : fire'[i] = fire[i]
      /\ fire'[k].precheck = IF heard THEN pre ELSE fire[k].precheck
  BY <1>1, <1>2, <1>6
<1>9. /\ thr' \in [Workers -> Execution]
      /\ \A v \in Workers \ {w} : thr'[v] = thr[v]
      /\ thr'[w] = IF heard THEN new ELSE thr[w]
  BY <1>1, <1>2, <1>7
<1>10. /\ past' \in [Fires -> Past]
       /\ \A i \in Fires \ {k} : past'[i] = past[i]
       /\ past'[k].checks = IF heard THEN checks ELSE past[k].checks
       /\ past'[k].passed = past[k].passed /\ past'[k].lanes = past[k].lanes
       /\ past'[k].lost = past[k].lost
  <2>1. CASE heard
    <3>1. past'[k] = [past[k] EXCEPT !.checks = checks]  BY <1>1, <1>2, <2>1
    <3>2. past'[k] \in Past  BY <1>2, <1>6, <3>1 DEF Past
    <3>3. /\ past'[k].passed = past[k].passed /\ past'[k].lanes = past[k].lanes
          /\ past'[k].lost = past[k].lost /\ past'[k].checks = checks
      BY <1>2, <3>1 DEF Past
    <3>4. past' \in [Fires -> Past] /\ \A i \in Fires \ {k} : past'[i] = past[i]
      BY <1>1, <1>2, <2>1, <3>2
    <3>5. QED  BY <2>1, <3>3, <3>4
  <2>2. CASE ~heard  BY <1>1, <1>2, <2>2
  <2>3. QED  BY <2>1, <2>2
<1>11. /\ thr[w].at = "idle" /\ run[w] = Q!Idle
       /\ run'[w] # Q!Idle <=> heard
       /\ \A v \in Workers \ {w} : run'[v] = run[v]
  <2>1. run[w] = Q!Idle /\ thr[w].at = "idle"  BY DEF Claimed, IInv, TypeOK
  <2>2. Q!Idle.job # k  BY FiresAssumption DEF Q!Idle
  <2>3. QED  BY <2>1, <2>2 DEF Claimed
<1>12. \A i \in Fires : Exists(i) <=> Exists(i)'  BY DEF Claimed, RowQuiet, Exists
<1>13. TypeOK'
  <2>1. QueueTyped'  BY QueueTypes DEF IInv, TypeOK, QueueTyped, Claimed
  <2>2. \A i \in Fires : ~Exists(i)' => fire'[i] = NoFire
    BY <1>8, <1>12 DEF IInv, TypeOK, Claimed
  <2>3. \A v \in Workers : run'[v] = Q!Idle <=> thr'[v].at = "idle"
    <3>1. SUFFICES ASSUME NEW v \in Workers PROVE run'[v] = Q!Idle <=> thr'[v].at = "idle"
      OBVIOUS
    <3>2. CASE v = w  BY <1>4, <1>7, <1>9, <1>11, <3>2
    <3>3. CASE v # w  BY <1>9, <1>11, <3>3 DEF IInv, TypeOK
    <3>4. QED  BY <3>2, <3>3
  <2>4. events' \in 0..MaxEvents  BY <1>1, FiresAssumption DEF IInv, TypeOK
  <2>5. QED  BY <1>1, <1>2, <1>8, <1>9, <1>10, <2>1, <2>2, <2>3, <2>4, QueueTypes DEF IInv, TypeOK
<1>14. KeptInv'
  <2>1. \A i \in Fires : Present(job, i) => Present(job', i)  BY <1>12 DEF Exists, Present
  <2>2. \A v \in Workers : thr'[v].at # "idle" =>
           \/ thr[v].at # "idle" /\ thr'[v].slots = thr[v].slots /\ thr'[v].next = thr[v].next
           \/ thr'[v].slots = auto.slots /\ thr'[v].next = auto.next
    BY <1>7, <1>9
  <2>3. QED  BY <1>1, <2>1, <2>2, KeptStays DEF IInv
<1>15. RunInv'
  <2>1. \A v \in Workers : run'[v] # Q!Idle =>
           run'[v].job \in Fires /\ job'[run'[v].job].status # "absent"
    <3>1. SUFFICES ASSUME NEW v \in Workers, run'[v] # Q!Idle
                   PROVE  run'[v].job \in Fires /\ job'[run'[v].job].status # "absent"
      OBVIOUS
    <3>2. CASE v = w
      <4>1. run'[v].job = k /\ job'[k].status = "leased"  BY <1>11, <3>1, <3>2 DEF Claimed
      <4>2. QED  BY <4>1
    <3>3. CASE v # w
      <4>1. run'[v] = run[v] /\ run[v].job \in Fires /\ Exists(run[v].job)
        BY <1>3, <1>11, <3>1, <3>3 DEF IInv, RunInv
      <4>2. QED  BY <1>12, <4>1 DEF Exists
    <3>4. QED  BY <3>2, <3>3
  <2>2. ASSUME NEW i \in Fires, ~Exists(i)' PROVE past'[i] = NoPast
    <3>1. ~Exists(i) /\ i # k  BY <1>12, <2>2 DEF Claimed
    <3>2. QED  BY <1>3, <1>10, <3>1 DEF IInv, RunInv
  <2>3. QED  BY <1>1, <1>3, <2>1, <2>2 DEF RunInv, Exists
<1>16. CheckInv'
  <2>1. /\ past[k].checks <= 1
        /\ fire[k].precheck \in {"none", "pending", "bypassed"} => past[k].checks = 0
        /\ fire[k].precheck = "passed" => past[k].passed
        /\ past[k].lanes > 0 /\ fire[k].precheck \notin {"none", "bypassed"} => past[k].passed
        /\ past[k].checks = 0 => ~past[k].passed
    BY <1>3 DEF IInv, CheckInv
  <2>2. ASSUME NEW i \in Fires
        PROVE  /\ past'[i].checks <= 1
               /\ fire'[i].precheck \in {"none", "pending", "bypassed"} => past'[i].checks = 0
               /\ fire'[i].precheck = "passed" => past'[i].passed
               /\ past'[i].lanes > 0 /\ fire'[i].precheck \notin {"none", "bypassed"} =>
                     past'[i].passed
               /\ auto'.exists /\ past'[i].checks = 0 => ~past'[i].passed
    <3>1. CASE i # k \/ ~heard
      <4>1. fire'[i] = fire[i] /\ past'[i] = past[i] /\ auto' = auto
        BY <1>1, <1>8, <1>10, <3>1
      <4>2. QED  BY <4>1 DEF IInv, CheckInv
    <3>2. CASE i = k /\ heard /\ decision = "precheck"
      <4>1. past[k].checks = 0 /\ checks = 1 /\ pre = "running"
        BY <1>2, <1>4, <1>5, <2>1, <3>2
      <4>2. past'[k].checks = 1 /\ fire'[k].precheck = "running"  BY <1>8, <1>10, <3>2, <4>1
      <4>3. past[k].lanes > 0 => past[k].passed  BY <1>4, <2>1, <3>2
      <4>4. QED  BY <1>10, <3>2, <4>2, <4>3
    <3>3. CASE i = k /\ heard /\ decision # "precheck"
      <4>1. /\ past'[k].checks = past[k].checks
            /\ \/ fire'[k].precheck = fire[k].precheck
               \/ fire[k].precheck = "running" /\ fire'[k].precheck = "error"
        BY <1>5, <1>8, <1>10, <3>3
      <4>2. QED  BY <1>10, <2>1, <3>3, <4>1
    <3>4. QED  BY <3>1, <3>2, <3>3
  <2>3. ASSUME NEW v \in Workers, run'[v] # Q!Idle, thr'[v].at \in {"precheck", "launch"}
        PROVE  /\ thr'[v].at = "precheck" =>
                    /\ past'[run'[v].job].checks = 1 /\ ~past'[run'[v].job].passed
                    /\ \A u \in Workers :
                          run'[u] # Q!Idle /\ thr'[u].at = "precheck" /\ run'[u].job = run'[v].job
                            => u = v
               /\ thr'[v].at = "launch" =>
                    \/ fire'[run'[v].job].precheck \in {"none", "bypassed"}
                    \/ past'[run'[v].job].passed
    <3>1. \A u \in Workers \ {w} : run[u] # Q!Idle /\ thr[u].at = "precheck" =>
            past[run[u].job].checks = 1
      BY <1>3 DEF IInv, CheckInv
    <3>2. \A u \in Workers \ {w} : run'[u] = run[u] /\ thr'[u] = thr[u]  BY <1>9, <1>11
    <3>3. heard => /\ thr'[w].at = decision /\ run'[w].job = k
                   /\ past'[k].checks = checks /\ fire'[k].precheck = pre
      BY <1>7, <1>8, <1>9, <1>10 DEF Claimed
    <3>4. CASE v = w
      <4>1. heard  BY <1>11, <2>3, <3>4
      <4>2. CASE decision = "precheck"
        <5>1. past[k].checks = 0 /\ checks = 1 /\ ~past[k].passed
          BY <1>2, <1>4, <1>5, <2>1, <4>2
        <5>2. \A u \in Workers \ {w} :
                 ~(run'[u] # Q!Idle /\ thr'[u].at = "precheck" /\ run'[u].job = k)
          BY <3>1, <3>2, <5>1
        <5>3. QED  BY <1>10, <3>3, <3>4, <4>1, <4>2, <5>1, <5>2
      <4>3. CASE decision = "launch"
        <5>1. fire[k].precheck \in {"none", "bypassed", "passed"} /\ pre = fire[k].precheck
          BY <1>4, <1>5, <4>3
        <5>2. fire'[k].precheck \in {"none", "bypassed"} \/ past'[k].passed
          BY <1>10, <2>1, <3>3, <4>1, <5>1
        <5>3. QED  BY <3>3, <3>4, <4>1, <4>3, <5>2
      <4>4. QED  BY <2>3, <3>3, <3>4, <4>1, <4>2, <4>3
    <3>5. CASE v # w
      <4> DEFINE i == run[v].job
      <4>1. /\ run'[v] = run[v] /\ thr'[v] = thr[v] /\ i \in Fires
        BY <2>3, <3>2, <3>5 DEF IInv, RunInv
      <4>2. /\ thr[v].at = "precheck" =>
                  /\ past[i].checks = 1 /\ ~past[i].passed
                  /\ \A u \in Workers :
                        run[u] # Q!Idle /\ thr[u].at = "precheck" /\ run[u].job = i => u = v
            /\ thr[v].at = "launch" =>
                  fire[i].precheck \in {"none", "bypassed"} \/ past[i].passed
        BY <1>3, <2>3, <4>1 DEF IInv, CheckInv
      <4>3. past'[i].passed = past[i].passed  BY <1>10, <4>1
      <4>4. CASE thr[v].at = "precheck"
        <5>1. past'[i].checks = 1
          <6>1. i = k => decision # "precheck"  BY <1>4, <2>1, <4>2, <4>4
          <6>2. QED  BY <1>5, <1>10, <4>1, <4>2, <4>4, <6>1
        <5>2. i = k /\ heard => thr'[w].at # "precheck"
          BY <1>4, <2>1, <3>3, <4>2, <4>4
        <5>3. \A u \in Workers :
                 run'[u] # Q!Idle /\ thr'[u].at = "precheck" /\ run'[u].job = i => u = v
          <6>1. SUFFICES ASSUME NEW u \in Workers, run'[u] # Q!Idle, thr'[u].at = "precheck",
                                run'[u].job = i
                         PROVE  u = v
            OBVIOUS
          <6>2. u # w  BY <1>11, <3>3, <5>2, <6>1
          <6>3. QED  BY <3>2, <4>2, <4>4, <6>1, <6>2
        <5>4. QED  BY <4>1, <4>2, <4>3, <4>4, <5>1, <5>3
      <4>5. CASE thr[v].at = "launch"
        <5>1. fire[i].precheck \in {"none", "bypassed"} => fire'[i].precheck = fire[i].precheck
          BY <1>4, <1>5, <1>8, <4>1
        <5>2. QED  BY <4>1, <4>2, <4>3, <4>5, <5>1
      <4>6. QED  BY <2>3, <4>1, <4>4, <4>5
    <3>6. QED  BY <3>4, <3>5
  <2>4. QED  BY <1>1, <2>2, <2>3 DEF CheckInv
<1>17. LaneInv'
  <2>1. ASSUME NEW v \in Workers, run'[v] # Q!Idle, ~job'[run'[v].job].recovered
        PROVE  Q!Holds(v)'
    <3>1. CASE v = w
      <4>1. /\ run'[w].job = k /\ run'[w].token = job'[k].claims
            /\ job'[k].status = "leased" /\ job'[k].by = w
        BY <1>11, <2>1, <3>1 DEF Claimed
      <4>2. QED  BY <2>1, <3>1, <4>1 DEF Q!Holds
    <3>2. CASE v # w
      <4> DEFINE i == run[v].job
      <4>1. run'[v] = run[v] /\ i \in Fires /\ Exists(i)
        BY <1>3, <1>11, <2>1, <3>2 DEF IInv, RunInv
      <4>2. ~job[i].recovered
        BY <2>1, <4>1 DEF Claimed, RowQuiet, Exists
      <4>3. Q!Holds(v)  BY <1>3, <2>1, <4>1, <4>2 DEF IInv, LaneInv
      <4>4. i # k  BY <2>1, <4>1, <4>3 DEF Q!Holds, Claimed
      <4>5. job'[i].status = "leased" /\ job'[i].by = job[i].by /\ job'[i].claims = job[i].claims
        BY <2>1, <4>1, <4>3, <4>4 DEF Claimed, RowQuiet, Q!Holds
      <4>6. QED  BY <2>1, <4>1, <4>3, <4>5 DEF Q!Holds
    <3>3. QED  BY <3>1, <3>2
  <2>2. ASSUME NEW i \in Fires, Clean(i)', past'[i].lanes > 0
        PROVE  /\ past'[i].lanes = 1 /\ job'[i].status # "pending"
               /\ \A v \in Workers :
                     run'[v] # Q!Idle /\ run'[v].job = i => thr'[v].at = "launched"
    <3>1. past'[i].lanes = past[i].lanes /\ past'[i].lost = past[i].lost  BY <1>10
    <3>2. Exists(i)
      <4>1. SUFFICES ASSUME ~Exists(i) PROVE FALSE  OBVIOUS
      <4>2. past[i] = NoPast  BY <1>3, <4>1 DEF IInv, RunInv
      <4>3. QED  BY <2>2, <3>1, <4>2 DEF NoPast
    <3>3. Clean(i)  BY <2>2, <3>1, <3>2 DEF Clean, Claimed, RowQuiet, Exists
    <3>4. /\ past[i].lanes = 1 /\ job[i].status # "pending"
          /\ \A v \in Workers : run[v] # Q!Idle /\ run[v].job = i => thr[v].at = "launched"
      BY <1>3, <2>2, <3>1, <3>3 DEF IInv, LaneInv
    <3>5. i # k  BY <2>2, <3>4 DEF Clean, Claimed
    <3>6. job'[i].status # "pending"
      BY <2>2, <3>2, <3>4, <3>5 DEF Clean, Claimed, RowQuiet, Exists
    <3>7. \A v \in Workers : run'[v] # Q!Idle /\ run'[v].job = i => v # w
      BY <1>11, <3>5 DEF Claimed
    <3>8. QED  BY <1>9, <1>11, <3>1, <3>4, <3>6, <3>7
  <2>3. QED  BY <2>1, <2>2 DEF LaneInv
<1>18. QED  BY <1>13, <1>14, <1>15, <1>16, <1>17 DEF IInv

\* Both claims, of the scheduler and of the route.
LEMMA ClaimKeeps ==
  ASSUME IInv, NEW w \in Workers, NEW heard \in BOOLEAN,
         \/ \E k \in Fires : Exists(k) /\ ClaimNext(w, k, heard)
         \/ \E c \in Calls : ClaimCall(w, c, heard)
  PROVE  IInv'
<1>1. PICK k \in Fires, claimed \in 0..now :
        Q!ClaimRow(w, k, heard) /\ Begin(w, k, claimed, heard)
  <2>1. ASSUME NEW k \in Fires, ClaimNext(w, k, heard)
        PROVE  \E claimed \in 0..now : Q!ClaimRow(w, k, heard) /\ Begin(w, k, claimed, heard)
    <3>1. now \in 0..MaxTime /\ fire[k].born \in 0..MaxTime /\ MaxTime \in Nat
      BY FiresAssumption DEF IInv, TypeOK
    <3>2. PICK claimed \in IF k[1] = "manual" THEN fire[k].born..now ELSE {0} :
            Q!PollJob(w, k, heard) /\ Begin(w, k, claimed, heard)
      BY <2>1 DEF ClaimNext
    <3>3. claimed \in 0..now  BY <3>1, <3>2
    <3>4. QED  BY <3>2, <3>3 DEF Q!PollJob
  <2>2. ASSUME NEW c \in Calls, ClaimCall(w, c, heard)
        PROVE  /\ Manual(c) \in Fires /\ now \in 0..now
               /\ Q!ClaimRow(w, Manual(c), heard) /\ Begin(w, Manual(c), now, heard)
    <3>1. now \in 0..now  BY FiresAssumption DEF IInv, TypeOK
    <3>2. QED  BY <2>2, <3>1, SlotsDiffer DEF ClaimCall, Q!PollNamed
  <2>3. QED  BY <2>1, <2>2
<1>2. Claimed(w, k, heard)  BY <1>1, ClaimWrites DEF IInv
<1>3. QED  BY <1>1, <1>2, BeginKeeps

-----------------------------------------------------------------------------
(* The automation is deleted, and the invariant.                            *)

\* Nothing is left to be covered or to run but executions without a row.
LEMMA DeleteKeeps == IInv /\ Delete => IInv'
<1> SUFFICES ASSUME IInv, Delete PROVE IInv'  OBVIOUS
<1>1. /\ auto' = [auto EXCEPT !.exists = FALSE]
      /\ fire' = [k \in Fires |-> NoFire] /\ job' = [k \in Fires |-> Q!NoJob]
      /\ past' = [k \in Fires |-> NoPast]
      /\ UNCHANGED <<now, thr, missed, top, run>>
      /\ events < MaxEvents /\ events' = events + 1
  BY DEF Delete, Edited, Event
<1>2. auto' \in Automation /\ ~auto'.exists  BY <1>1 DEF IInv, TypeOK, Automation
<1>3. Q!NoJob \in Q!Job /\ Q!NoJob.status = "absent"  BY DEF Q!NoJob, Q!Job, Q!Active, Q!Ended
<1>4. NoFire \in [precheck : Prechecks, born : 0..MaxTime] /\ NoFire.precheck = "none"
  BY FiresAssumption DEF NoFire, Prechecks
<1>5. NoPast \in Past /\ NoPast.checks = 0 /\ NoPast.lanes = 0  BY DEF NoPast, Past
<1>6. \A k \in Fires : ~Exists(k)' /\ fire'[k] = NoFire /\ past'[k] = NoPast
  BY <1>1, <1>3 DEF Exists
<1>7. TypeOK'
  <2>1. events' \in 0..MaxEvents  BY <1>1, FiresAssumption DEF IInv, TypeOK
  <2>2. QueueTyped'  BY <1>1, <1>3, QueueTypes DEF IInv, TypeOK, QueueTyped
  <2>3. /\ fire' \in [Fires -> [precheck : Prechecks, born : 0..MaxTime]]
        /\ past' \in [Fires -> Past]
    BY <1>1, <1>4, <1>5
  <2>4. QED  BY <1>1, <1>2, <1>6, <2>1, <2>2, <2>3, QueueTypes DEF IInv, TypeOK
<1>8. KeptInv'  BY <1>2 DEF KeptInv
<1>9. RunInv'
  <2>1. \A w \in Workers : run'[w] # Q!Idle => run'[w].job \in Fires
    BY <1>1 DEF IInv, RunInv
  <2>2. QED  BY <1>2, <1>5, <1>6, <2>1 DEF RunInv
<1>10. CheckInv'  BY <1>2, <1>4, <1>5, <1>6 DEF CheckInv
<1>11. LaneInv'  BY <1>2 DEF LaneInv
<1>12. QED  BY <1>7, <1>8, <1>9, <1>10, <1>11 DEF IInv

\* Every step of the scheduler, of a route and of time keeps the invariant.
LEMMA NextKeeps == IInv /\ [Next]_vars => IInv'
<1> SUFFICES ASSUME IInv, [Next]_vars PROVE IInv'  OBVIOUS
<1>1. CASE Materialize  BY <1>1, MaterializeKeeps
<1>2. CASE Enable \/ Advance \/ UNCHANGED vars  BY <1>2, AdvanceKeeps
<1>3. CASE Delete  BY <1>3, DeleteKeeps
<1>4. CASE Recover  BY <1>4, RecoverKeeps
<1>5. CASE \E c \in Calls, bypass \in BOOLEAN : RunNow(c, bypass)  BY <1>5, RunNowKeeps
<1>6. CASE \E slots \in Schedules \cup {{}} : EditSchedule(slots)  BY <1>6, EditKeeps
<1>7. CASE \E cancelled \in BOOLEAN : Disable(cancelled)  BY <1>7, DisableKeeps
<1>8. CASE \E k \in Fires : LeaseEnds(k) \/ RetryDue(k)  BY <1>8, TimeKeeps
<1>9. ASSUME NEW w \in Workers,
             \/ \E k \in Fires, heard \in BOOLEAN : Exists(k) /\ ClaimNext(w, k, heard)
             \/ \E c \in Calls, heard \in BOOLEAN : ClaimCall(w, c, heard)
      PROVE  IInv'
  BY <1>9, ClaimKeeps
<1>10. ASSUME NEW w \in Workers,
              \E answer \in {"passed", "skipped", "error"} : PrecheckEnds(w, answer)
       PROVE  IInv'
  BY <1>10, PrecheckEndsKeeps
<1>11. ASSUME NEW w \in Workers, \E opened \in BOOLEAN : Launch(w, opened)
       PROVE  IInv'
  BY <1>11, LaunchKeeps
<1>12. ASSUME NEW w \in Workers,
              \E ok, threw, written \in BOOLEAN : Settle(w, ok, threw, written)
       PROVE  IInv'
  BY <1>12, SettleKeeps
<1>13. ASSUME NEW w \in Workers, SettleRefused(w) \/ Crash(w) PROVE IInv'
  BY <1>13, SettleRefusedKeeps, CrashKeeps
<1>14. QED
  BY <1>1, <1>2, <1>3, <1>4, <1>5, <1>6, <1>7, <1>8, <1>9, <1>10, <1>11, <1>12, <1>13
  DEF Next

\* The invariant holds always.
THEOREM Invariance == Spec => []IInv
<1>1. Init => IInv  BY Initially
<1>2. IInv /\ [Next]_vars => IInv'  BY NextKeeps
<1>3. QED  BY <1>1, <1>2, PTL DEF Spec

-----------------------------------------------------------------------------
(* The theorems.                                                            *)

\* The rows of an automation, its fires, its executions and its queue stay well
\* formed: no fire outlives its job, and an execution is somewhere iff it runs.
THEOREM TypeCorrectness == Spec => []TypeOK
<1>1. IInv => TypeOK  BY DEF IInv
<1>2. QED  BY <1>1, Invariance, PTL

\* No slot is dropped: whatever ticks, settlements, edits and stops write to
\* next_run_at, and in any order, every slot before it has its fire, has a later
\* one under the policy "latest", or was given up.
THEOREM SlotsAreKept == Spec => []SlotsKept
<1>1. IInv => SlotsKept  BY DEF IInv, KeptInv, Kept, Present, SlotsKept, Exists
<1>2. QED  BY <1>1, Invariance, PTL

\* The precheck of a fire starts once, whatever stops and is retried, and no
\* lane is opened without a bypass unless it passed.
THEOREM PrechecksRunOnce == Spec => []PrecheckOnce
<1>1. IInv => PrecheckOnce  BY DEF IInv, CheckInv, PrecheckOnce
<1>2. QED  BY <1>1, Invariance, PTL

\* A fire gets a second lane only after a recovered lease or an execution that
\* threw when its lane was open, or once its automation is deleted.
THEOREM LanesHaveCauses == Spec => []LaunchedOnce
<1>1. ASSUME IInv PROVE LaunchedOnce
  <2>1. \A k \in Fires : past[k].lanes \in Nat  BY <1>1 DEF IInv, TypeOK, Past
  <2>2. QED  BY <1>1, <2>1 DEF IInv, LaneInv, Clean, LaunchedOnce
<1>2. QED  BY <1>1, Invariance, PTL

=============================================================================
