------------------------- MODULE MissionLockProofs -------------------------
(***************************************************************************)
(* The lock of the mission file, proved for any number of processes,       *)
(* sections and packets.  The argument is about who has the lock: a        *)
(* process that was not robbed of it finds its token in it, and the token  *)
(* of a section never comes back once another has been written over it.    *)
(***************************************************************************)
EXTENDS MissionLock, TLAPS

Pcs == {"idle"} \cup Waiting \cup Inside \cup Leaving
Lost == [why : {"no", "ceiling", "race", "releasing", "stolen"}, by : Tokens]
Frame ==
    [pc : Pcs, sec : Tokens, judged : Tokens, bypassed : BOOLEAN,
     target : Packets \cup {NoPacket}, doc : Files, merged : BOOLEAN,
     lost : Lost, late : BOOLEAN, over : BOOLEAN]
Locks == [maker : Sections, token : Tokens, old : BOOLEAN]

\* The lock L has the token, or the maker, x.
HasToken(L, x) == L # NoLock /\ L.token = x
HasMaker(L, x) == L # NoLock /\ L.maker = x

\* One frame, when b sections were begun and those of G died: its section is
\* begun and did not die, what it lost it lost to a section that was begun, and
\* what it judged is dead unless it remembers that it lives.
FrameOK(f, b, G) ==
    /\ f.pc = "idle" <=> f.sec = None
    /\ f.sec <= b /\ f.sec \notin G
    /\ f.lost.why = "no" => f.lost = NotLost
    /\ f.lost.why # "no" => f.lost.by # None /\ f.lost.by <= b
    /\ f.lost.why # "stolen"
    /\ f.lost.why = "releasing" => f.pc = "unlock"
    /\ f.pc \in {"idle", "try", "check", "remove"} => f.lost = NotLost
    /\ f.pc \in {"check", "remove"} => f.bypassed \/ f.judged \in G \cup {None}

\* A process that was not robbed of the lock has it.
Owns(f, L) ==
    /\ f.lost = NotLost /\ f.pc \in Inside \cup Leaving => HasToken(L, f.sec)
    /\ f.lost = NotLost /\ f.pc = "made" => HasMaker(L, f.sec) /\ L.token = None
    /\ f.pc = "unlock" /\ f.lost.why # "releasing" => HasToken(L, f.sec)

\* A section that sees no reason to merge still has the file F as it read it,
\* unless one that had lost its lock wrote.
Fresh(f, L, F) ==
    f.pc = "work" /\ ~f.over /\ ~f.bypassed /\ HasToken(L, f.sec) => f.doc = F

\* What D would write is the file F but for the packet that is meant.
KeepsBut(D, F, f) ==
    \A k \in Packets \ {f.target} : D[k] = F[k] \/ (~f.merged /\ f.over)

\* Between the last look at the file F and the write, T being the temporary one.
Writes(f, F, T) ==
    ~f.late => /\ f.pc = "write" => KeepsBut(f.doc, F, f)
               /\ f.pc = "rename" => T = NoFile \/ KeepsBut(T, F, f)

\* All that is said of one frame.
Good(f, b, G, L, F, T) ==
    FrameOK(f, b, G) /\ Owns(f, L) /\ Fresh(f, L, F) /\ Writes(f, F, T)

\* Two frames: they are of two sections, and who lost the lock at the ceiling
\* lost it to a section that remembers.
Pair(f, g) ==
    /\ f.sec = g.sec => f.sec = None
    /\ g.lost.why = "ceiling" /\ g.lost.by = f.sec => f.bypassed

IInv ==
    /\ TypeOK
    /\ gone \subseteq 1 .. begun
    /\ \A p \in Procs : Good(fr[p], begun, gone, lock, file, tmp)
    /\ \A p, q \in Procs : p # q => Pair(fr[p], fr[q])

----------------------------------------------------------------------------
(* A step assembled from its frames. *)

\* What type correctness says of the parts.
LEMMA Types ==
  ASSUME TypeOK
  PROVE  /\ lock = NoLock \/ lock \in Locks
         /\ file \in Files /\ (tmp = NoFile \/ tmp \in Files)
         /\ fr \in [Procs -> Frame] /\ begun \in Tokens /\ gone \subseteq Sections
  BY DEF TypeOK, Frame, Locks, Pcs, Lost

\* A lock directory is not the absent one.
LEMMA LockIs ==
  ASSUME NEW m \in Sections, NEW t \in Tokens, NEW o \in BOOLEAN
  PROVE  /\ [maker |-> m, token |-> t, old |-> o] \in Locks
         /\ [maker |-> m, token |-> t, old |-> o] # NoLock
  <1>1. m \in Nat /\ t \in Nat
    BY MissionLockAssumption DEF Sections, Tokens, None
  <1>2. [maker |-> m, token |-> t, old |-> o] \in [maker : Nat, token : Nat, old : BOOLEAN]
    BY <1>1
  <1> QED BY <1>2, NoLockAssumption DEF Locks

\* The pairs of frames after a step of p: the others keep their sections, and
\* whom p robs at the ceiling it remembers.
LEMMA PairsKept ==
  ASSUME IInv, NEW p \in Procs, NEW b \in Tokens, NEW G, NEW fr2 \in [Procs -> Frame],
         \A q \in Procs : FrameOK(fr2[q], b, G),
         \A q \in Procs \ {p} :
            /\ fr2[q].sec = fr[q].sec /\ fr2[q].bypassed = fr[q].bypassed
            /\ \/ fr2[q].lost = fr[q].lost
               \/ fr2[q].lost.why # "ceiling"
               \/ fr2[q].lost.by = fr[p].sec /\ fr2[p].sec = fr[p].sec /\ fr2[p].bypassed,
         fr2[p].sec \in {fr[p].sec, None, begun + 1},
         fr2[p].lost \in {fr[p].lost, NotLost},
         fr2[p].sec = fr[p].sec /\ fr[p].bypassed => fr2[p].bypassed
  PROVE  \A a, c \in Procs : a # c => Pair(fr2[a], fr2[c])
  <1> SUFFICES ASSUME NEW a \in Procs, NEW c \in Procs, a # c PROVE Pair(fr2[a], fr2[c])
    OBVIOUS
  <1>1. /\ FrameOK(fr[a], begun, gone) /\ FrameOK(fr[c], begun, gone)
        /\ FrameOK(fr2[a], b, G) /\ FrameOK(fr2[c], b, G)
        /\ fr[a] \in Frame /\ fr[c] \in Frame /\ begun \in Nat
    BY Types, MissionLockAssumption DEF IInv, Good, Tokens, Sections, None
  <1>2. /\ fr[a].sec \in Nat /\ fr[c].sec \in Nat /\ fr[a].lost.by \in Nat
        /\ fr[c].lost.by \in Nat
    BY <1>1, MissionLockAssumption DEF Frame, Lost, Tokens, Sections, None
  <1>3. CASE a # p /\ c # p
    <2>1. Pair(fr[a], fr[c]) /\ Pair(fr[a], fr[p])
      BY <1>3 DEF IInv
    <2> QED BY <1>1, <1>2, <1>3, <2>1 DEF Pair, FrameOK, NotLost
  <1>4. CASE a = p /\ c # p
    <2>1. Pair(fr[p], fr[c])
      BY <1>4 DEF IInv
    <2>2. fr2[a].sec = fr2[c].sec => fr2[a].sec = None
      BY <1>1, <1>2, <1>4, <2>1 DEF Pair, FrameOK
    <2>3. ASSUME fr2[c].lost.why = "ceiling", fr2[c].lost.by = fr2[a].sec
          PROVE  fr2[a].bypassed
      <3>1. CASE fr2[c].lost = fr[c].lost
        BY <1>1, <1>2, <1>4, <2>1, <2>3, <3>1 DEF Pair, FrameOK
      <3>2. CASE fr2[c].lost # fr[c].lost
        BY <1>4, <2>3, <3>2
      <3> QED BY <3>1, <3>2
    <2> QED BY <2>2, <2>3 DEF Pair
  <1>5. CASE a # p /\ c = p
    <2>1. Pair(fr[a], fr[p])
      BY <1>5 DEF IInv
    <2>2. NotLost.why # "ceiling"
      BY DEF NotLost
    <2> QED BY <1>1, <1>2, <1>5, <2>1, <2>2 DEF Pair, FrameOK
  <1> QED BY <1>3, <1>4, <1>5

\* The invariant from its parts after a step of p.
LEMMA Assembled ==
  ASSUME IInv, NEW p \in Procs,
         fr' \in [Procs -> Frame], begun' \in Tokens, gone' \subseteq 1 .. begun',
         lock' = NoLock \/ lock' \in Locks, file' \in Files,
         tmp' = NoFile \/ tmp' \in Files,
         \A q \in Procs : Good(fr'[q], begun', gone', lock', file', tmp'),
         \A q \in Procs \ {p} :
            /\ fr'[q].sec = fr[q].sec /\ fr'[q].bypassed = fr[q].bypassed
            /\ \/ fr'[q].lost = fr[q].lost
               \/ fr'[q].lost.why # "ceiling"
               \/ fr'[q].lost.by = fr[p].sec /\ fr'[p].sec = fr[p].sec /\ fr'[p].bypassed,
         fr'[p].sec \in {fr[p].sec, None, begun + 1},
         fr'[p].lost \in {fr[p].lost, NotLost},
         fr'[p].sec = fr[p].sec /\ fr[p].bypassed => fr'[p].bypassed
  PROVE  IInv'
  <1>1. \A a, c \in Procs : a # c => Pair(fr'[a], fr'[c])
    <2>1. \A q \in Procs : FrameOK(fr'[q], begun', gone')
      BY DEF Good
    <2> QED BY <2>1, PairsKept
  <1>2. gone' \subseteq Sections
    BY MissionLockAssumption DEF Tokens, Sections, None
  <1>3. TypeOK'
    BY <1>2 DEF TypeOK, Frame, Locks, Pcs, Lost
  <1>4. \A q \in Procs : Good(fr[q], begun, gone, lock, file, tmp)'
    OBVIOUS
  <1>5. \A a, c \in Procs : a # c => Pair(fr[a], fr[c])'
    BY <1>1
  <1> QED BY <1>3, <1>4, <1>5 DEF IInv

\* A frame that stays good while more sections begin or die.
LEMMA GoodStays ==
  ASSUME IInv, NEW p \in Procs, NEW q \in Procs \ {p},
         NEW b \in Tokens, begun <= b, NEW G,
         G = gone \/ (G = gone \cup {fr[p].sec} /\ fr[p].pc # "idle")
  PROVE  Good(fr[q], b, G, lock, file, tmp)
  <1>1. Good(fr[q], begun, gone, lock, file, tmp)
    BY DEF IInv
  <1>2. fr[q] \in Frame /\ begun \in Nat /\ b \in Nat
    BY Types, MissionLockAssumption DEF IInv, Tokens, Sections, None
  <1>3. fr[q].sec \in Nat /\ fr[q].lost.by \in Nat
    BY <1>2, MissionLockAssumption DEF Frame, Lost, Tokens, Sections, None
  <1>4. Pair(fr[p], fr[q]) /\ FrameOK(fr[p], begun, gone)
    BY DEF IInv, Good
  <1>5. fr[q].sec \notin G
    BY <1>1, <1>4 DEF Good, FrameOK, Pair
  <1> QED BY <1>1, <1>2, <1>3, <1>5 DEF Good, FrameOK

\* A step of p that changes its own frame only.
LEMMA SetStep ==
  ASSUME IInv, NEW p \in Procs, NEW own \in Frame, Set(p, own),
         UNCHANGED <<lock, file, tmp>>,
         begun' \in Tokens, begun <= begun', gone' \subseteq 1 .. begun',
         gone' = gone \/ (gone' = gone \cup {fr[p].sec} /\ fr[p].pc # "idle"),
         Good(own, begun', gone', lock, file, tmp),
         own.sec \in {fr[p].sec, None, begun + 1},
         own.lost \in {fr[p].lost, NotLost},
         own.sec = fr[p].sec /\ fr[p].bypassed => own.bypassed
  PROVE  IInv'
  <1>1. /\ fr \in [Procs -> Frame] /\ (lock = NoLock \/ lock \in Locks)
        /\ file \in Files /\ (tmp = NoFile \/ tmp \in Files)
    BY Types DEF IInv
  <1>2. /\ fr' \in [Procs -> Frame] /\ fr'[p] = own
        /\ \A q \in Procs \ {p} : fr'[q] = fr[q]
    BY <1>1 DEF Set
  <1>3. \A q \in Procs \ {p} : Good(fr[q], begun', gone', lock, file, tmp)
    BY GoodStays
  <1>4. \A q \in Procs : Good(fr'[q], begun', gone', lock', file', tmp')
    BY <1>2, <1>3
  <1>5. \A q \in Procs \ {p} : /\ fr'[q].sec = fr[q].sec /\ fr'[q].bypassed = fr[q].bypassed
                               /\ fr'[q].lost = fr[q].lost
    BY <1>2
  <1> QED BY <1>1, <1>2, <1>4, <1>5, Assembled

\* A frame and what is known of it.
LEMMA FrameIs ==
  ASSUME IInv, NEW p \in Procs
  PROVE  /\ fr[p] \in Frame /\ Good(fr[p], begun, gone, lock, file, tmp)
         /\ fr[p].sec \in Nat /\ fr[p].sec \in Tokens /\ begun \in Nat /\ begun \in Tokens
         /\ fr[p].sec # None => fr[p].sec \in Sections
         /\ gone \subseteq 1 .. begun /\ begun <= MaxSections
         /\ NotLost \in Lost
  <1>1. fr[p] \in Frame /\ begun \in Tokens
    BY Types DEF IInv
  <1>2. fr[p].sec \in Tokens
    BY <1>1 DEF Frame
  <1> QED BY <1>1, <1>2, MissionLockAssumption
         DEF IInv, Tokens, Sections, None, Lost, NotLost

\* A frame between sections is good.
LEMMA IdleGood ==
  ASSUME NEW bypassed \in BOOLEAN, NEW b \in Nat, NEW G, G \subseteq 1 .. b,
         NEW L, NEW F, NEW T
  PROVE  /\ Idle(bypassed) \in Frame /\ Good(Idle(bypassed), b, G, L, F, T)
         /\ Idle(bypassed).sec = None /\ Idle(bypassed).lost = NotLost
  <1>1. Idle(bypassed) \in Frame
    BY MissionLockAssumption DEF Idle, Frame, Pcs, Tokens, None, NotLost, Lost, Blank, Files,
       Values
  <1>2. None \notin G /\ None <= b
    BY DEF None
  <1>3. FrameOK(Idle(bypassed), b, G)
    BY <1>2 DEF FrameOK, Idle, NotLost
  <1> QED BY <1>1, <1>3 DEF Good, Owns, Fresh, Writes, Idle, NotLost, Inside, Leaving

----------------------------------------------------------------------------
(* The steps of one process that leave the lock alone. *)

\* Start begins a section that no frame and no lock knows.
LEMMA StartKeeps ==
  ASSUME IInv, NEW p \in Procs, NEW target \in Packets \cup {NoPacket}, Start(p, target)
  PROVE  IInv'
  <1> DEFINE n == begun + 1
             own == [fr[p] EXCEPT !.pc = "try", !.sec = n, !.target = target]
  <1>1. /\ fr[p] \in Frame /\ FrameOK(fr[p], begun, gone) /\ begun \in Nat
        /\ gone \subseteq 1 .. begun /\ begun <= MaxSections
    BY FrameIs DEF Good
  <1>2. /\ fr[p].pc = "idle" /\ begun < MaxSections /\ begun' = n /\ Set(p, own)
        /\ UNCHANGED <<lock, file, tmp, gone>>
    BY DEF Start, At
  <1>3. n \in Tokens /\ n \in Nat /\ n # None /\ n \notin gone
    BY <1>1, <1>2, MissionLockAssumption DEF Tokens, Sections, None
  <1> HIDE DEF n
  <1>4. /\ own \in Frame /\ own.pc = "try" /\ own.sec = n /\ own.lost = fr[p].lost
        /\ own.target = target
    BY <1>1, <1>3 DEF Frame, Pcs, Waiting
  <1> HIDE DEF own
  <1>5. Good(own, n, gone, lock, file, tmp)
    BY <1>1, <1>2, <1>3, <1>4
    DEF Good, FrameOK, Owns, Fresh, Writes, NotLost, Inside, Leaving
  <1>6. gone' \subseteq 1 .. begun' /\ begun <= begun'
    BY <1>1, <1>2 DEF n
  <1>7. own.sec \in {fr[p].sec, None, begun + 1}
    BY <1>4 DEF n
  <1>8. own.sec # fr[p].sec
    BY <1>1, <1>2, <1>3, <1>4 DEF FrameOK
  <1> QED BY <1>2, <1>3, <1>4, <1>5, <1>6, <1>7, <1>8, SetStep

\* A section that ends without the lock, or by a death.
LEMMA EndKeeps ==
  ASSUME IInv, NEW p \in Procs, NEW bypassed \in BOOLEAN, Set(p, Idle(bypassed)),
         UNCHANGED <<lock, file, tmp, begun>>,
         gone' = gone \/ (gone' = gone \cup {fr[p].sec} /\ fr[p].pc # "idle"),
         fr[p].sec = None => bypassed = fr[p].bypassed
  PROVE  IInv'
  <1>1. /\ fr[p] \in Frame /\ FrameOK(fr[p], begun, gone) /\ begun \in Nat
        /\ fr[p].sec \in Nat /\ begun \in Tokens /\ gone \subseteq 1 .. begun
    BY FrameIs DEF Good
  <1>2. gone' \subseteq 1 .. begun
    <2>1. fr[p].pc # "idle" => fr[p].sec # 0 /\ fr[p].sec <= begun
      BY <1>1 DEF FrameOK, None
    <2>2. fr[p].pc # "idle" => fr[p].sec \in 1 .. begun
      BY <1>1, <2>1
    <2> QED BY <1>1, <2>2
  <1>3. /\ Idle(bypassed) \in Frame /\ Good(Idle(bypassed), begun, gone', lock, file, tmp)
        /\ Idle(bypassed).sec = None /\ Idle(bypassed).lost = NotLost
    BY <1>1, <1>2, IdleGood
  <1>4. Idle(bypassed).bypassed = bypassed
    BY DEF Idle
  <1> QED BY <1>1, <1>2, <1>3, <1>4, SetStep

\* A section moves on without a write and without the lock changing hands.
LEMMA MoveKeeps ==
  ASSUME IInv, NEW p \in Procs, NEW own \in Frame, Set(p, own),
         UNCHANGED <<lock, file, tmp, begun, gone>>,
         own.sec = fr[p].sec, own.lost = fr[p].lost,
         fr[p].bypassed => own.bypassed,
         Good(own, begun, gone, lock, file, tmp)
  PROVE  IInv'
  <1>1. begun \in Tokens /\ begun \in Nat /\ gone \subseteq 1 .. begun
    BY FrameIs
  <1> QED BY <1>1, SetStep

\* The judgements of a holder.
LEMMA JudgeKeeps ==
  ASSUME IInv, NEW p \in Procs, JudgeDead(p) \/ JudgeOver(p) \/ Check(p)
  PROVE  IInv'
  <1>1. /\ fr[p] \in Frame /\ FrameOK(fr[p], begun, gone)
    BY FrameIs DEF Good
  <1>2. lock # NoLock => lock.token \in Tokens
    BY Types DEF IInv, Locks
  <1>3. CASE JudgeDead(p)
    <2> DEFINE own == [fr[p] EXCEPT !.pc = "check", !.judged = lock.token]
    <2>1. /\ Set(p, own) /\ fr[p].pc = "try" /\ HolderDead
          /\ UNCHANGED <<lock, file, tmp, begun, gone>>
      BY <1>3 DEF JudgeDead, At
    <2>2. lock.token \in gone \cup {None} /\ lock.token \in Tokens
      BY <1>2, <2>1 DEF HolderDead
    <2>3. /\ own \in Frame /\ own.pc = "check" /\ own.judged = lock.token
          /\ own.sec = fr[p].sec /\ own.lost = fr[p].lost /\ own.bypassed = fr[p].bypassed
      BY <1>1, <2>2 DEF Frame, Pcs, Waiting
    <2> HIDE DEF own
    <2>4. Good(own, begun, gone, lock, file, tmp)
      BY <1>1, <2>1, <2>2, <2>3
      DEF Good, FrameOK, Owns, Fresh, Writes, NotLost, Inside, Leaving
    <2> QED BY <2>1, <2>3, <2>4, MoveKeeps
  <1>4. CASE JudgeOver(p)
    <2> DEFINE own == [fr[p] EXCEPT !.pc = "check", !.judged = lock.token, !.bypassed = TRUE]
    <2>1. /\ Set(p, own) /\ fr[p].pc = "try" /\ lock # NoLock
          /\ UNCHANGED <<lock, file, tmp, begun, gone>>
      BY <1>4 DEF JudgeOver, At
    <2>3. /\ own \in Frame /\ own.pc = "check" /\ own.judged = lock.token
          /\ own.sec = fr[p].sec /\ own.lost = fr[p].lost /\ own.bypassed
      BY <1>1, <1>2, <2>1 DEF Frame, Pcs, Waiting
    <2> HIDE DEF own
    <2>4. Good(own, begun, gone, lock, file, tmp)
      BY <1>1, <2>1, <2>3
      DEF Good, FrameOK, Owns, Fresh, Writes, NotLost, Inside, Leaving
    <2> QED BY <2>1, <2>3, <2>4, MoveKeeps
  <1>5. CASE Check(p)
    <2> DEFINE again == [fr[p] EXCEPT !.pc = "try", !.judged = None]
               go == [fr[p] EXCEPT !.pc = "remove"]
    <2>1. /\ Set(p, again) \/ Set(p, go)
          /\ fr[p].pc = "check" /\ UNCHANGED <<lock, file, tmp, begun, gone>>
      BY <1>5 DEF Check, At
    <2>2. /\ again \in Frame /\ again.pc = "try"
          /\ again.sec = fr[p].sec /\ again.lost = fr[p].lost
          /\ again.bypassed = fr[p].bypassed
      BY <1>1 DEF Frame, Pcs, Waiting, Tokens, None
    <2>3. /\ go \in Frame /\ go.pc = "remove" /\ go.judged = fr[p].judged
          /\ go.sec = fr[p].sec /\ go.lost = fr[p].lost /\ go.bypassed = fr[p].bypassed
      BY <1>1 DEF Frame, Pcs, Waiting
    <2> HIDE DEF again, go
    <2>4. Good(again, begun, gone, lock, file, tmp)
      BY <1>1, <2>1, <2>2
      DEF Good, FrameOK, Owns, Fresh, Writes, NotLost, Inside, Leaving
    <2>5. Good(go, begun, gone, lock, file, tmp)
      BY <1>1, <2>1, <2>3
      DEF Good, FrameOK, Owns, Fresh, Writes, NotLost, Inside, Leaving
    <2> QED BY <2>1, <2>2, <2>3, <2>4, <2>5, MoveKeeps
  <1> QED BY <1>3, <1>4, <1>5

\* The look at the file, and the decision to write nothing.
LEMMA ReadKeeps ==
  ASSUME IInv, NEW p \in Procs, Read(p) \/ Abandon(p)
  PROVE  IInv'
  <1>1. /\ fr[p] \in Frame /\ Good(fr[p], begun, gone, lock, file, tmp)
    BY FrameIs
  <1>2. file \in Files
    BY Types DEF IInv
  <1>3. CASE Read(p)
    <2> DEFINE own == [fr[p] EXCEPT !.pc = "work", !.doc = file]
    <2>1. /\ Set(p, own) /\ fr[p].pc = "read"
          /\ UNCHANGED <<lock, file, tmp, begun, gone>>
      BY <1>3 DEF Read, At
    <2>3. /\ own \in Frame /\ own.pc = "work" /\ own.doc = file
          /\ own.sec = fr[p].sec /\ own.lost = fr[p].lost /\ own.bypassed = fr[p].bypassed
      BY <1>1, <1>2 DEF Frame, Pcs, Inside
    <2> HIDE DEF own
    <2>4. Good(own, begun, gone, lock, file, tmp)
      BY <1>1, <2>1, <2>3
      DEF Good, FrameOK, Owns, Fresh, Writes, NotLost, Inside, Leaving
    <2> QED BY <2>1, <2>3, <2>4, MoveKeeps
  <1>4. CASE Abandon(p)
    <2> DEFINE own == [fr[p] EXCEPT !.pc = "release"]
    <2>1. /\ Set(p, own) /\ fr[p].pc = "work"
          /\ UNCHANGED <<lock, file, tmp, begun, gone>>
      BY <1>4 DEF Abandon, At
    <2>3. /\ own \in Frame /\ own.pc = "release"
          /\ own.sec = fr[p].sec /\ own.lost = fr[p].lost /\ own.bypassed = fr[p].bypassed
      BY <1>1 DEF Frame, Pcs, Leaving
    <2> HIDE DEF own
    <2>4. Good(own, begun, gone, lock, file, tmp)
      BY <1>1, <2>1, <2>3
      DEF Good, FrameOK, Owns, Fresh, Writes, NotLost, Inside, Leaving
    <2> QED BY <2>1, <2>3, <2>4, MoveKeeps
  <1> QED BY <1>3, <1>4

\* The merge keeps what a section does not mean to change.
LEMMA MergeKeeps ==
  ASSUME NEW base, NEW theirs
  PROVE  Merged(base, base, theirs) = theirs
  BY DEF Merged

\* The merge makes up no value.
LEMMA MergedIs ==
  ASSUME NEW base, NEW ours, NEW theirs
  PROVE  Merged(base, ours, theirs) \in {ours, theirs, Absent}
  BY DEF Merged

\* What a section decides to write differs from the file in its packet only,
\* if it merges or nobody wrote over what it read.
LEMMA PersistKeeps ==
  ASSUME IInv, NEW p \in Procs, NEW value \in {fr[p].sec, Absent}, Persist(p, value)
  PROVE  IInv'
  <1> DEFINE base == fr[p].doc
             ours == [k \in Packets |-> IF k = fr[p].target THEN value ELSE base[k]]
             next == IF Compromised(p)
                     THEN [k \in Packets |-> Merged(base[k], ours[k], file[k])]
                     ELSE ours
             own == [fr[p] EXCEPT !.pc = "write", !.merged = Compromised(p), !.doc = next]
  <1>1. /\ fr[p] \in Frame /\ Good(fr[p], begun, gone, lock, file, tmp)
        /\ fr[p].sec \in Tokens
    BY FrameIs
  <1>2. file \in Files /\ fr[p].doc \in Files
    BY <1>1, Types DEF IInv, Frame
  <1>3. /\ Set(p, own) /\ fr[p].pc = "work"
        /\ UNCHANGED <<lock, file, tmp, begun, gone>>
    BY DEF Persist, At
  <1>4. /\ ours \in Files
        /\ \A k \in Packets \ {fr[p].target} : ours[k] = base[k]
    BY <1>1, <1>2 DEF Files, Values
  <1>5. next \in Files
    <2>1. CASE Compromised(p)
      <3>1. next = [k \in Packets |-> Merged(base[k], ours[k], file[k])]
        BY <2>1
      <3>2. \A k \in Packets : Merged(base[k], ours[k], file[k]) \in Values
        <4> SUFFICES ASSUME NEW k \in Packets
                     PROVE  Merged(base[k], ours[k], file[k]) \in Values
          OBVIOUS
        <4>1. ours[k] \in Values /\ file[k] \in Values /\ Absent \in Values
          BY <1>2, <1>4 DEF Files, Values
        <4> HIDE DEF ours, base
        <4> QED BY <4>1, MergedIs
      <3> HIDE DEF next, ours, base
      <3> QED BY <3>1, <3>2 DEF Files
    <2>2. CASE ~Compromised(p)
      BY <1>4, <2>2
    <2> QED BY <2>1, <2>2
  <1>6. \A k \in Packets \ {fr[p].target} :
           next[k] = file[k] \/ (~Compromised(p) /\ fr[p].over)
    <2> SUFFICES ASSUME NEW k \in Packets \ {fr[p].target}
                 PROVE  next[k] = file[k] \/ (~Compromised(p) /\ fr[p].over)
      OBVIOUS
    <2>0. ours[k] = base[k]
      BY <1>4
    <2>1. CASE Compromised(p)
      <3>1. next[k] = Merged(base[k], ours[k], file[k])
        BY <2>1
      <3> HIDE DEF next, ours, base
      <3> QED BY <2>0, <3>1, MergeKeeps
    <2>2. CASE ~Compromised(p)
      <3>1. next[k] = base[k]
        BY <2>0, <2>2
      <3>2. ~fr[p].over => base = file
        BY <1>1, <1>3, <2>2 DEF Good, Fresh, Compromised, HasToken
      <3> HIDE DEF next, ours, base
      <3> QED BY <2>2, <3>1, <3>2
    <2> QED BY <2>1, <2>2
  <1>7. Compromised(p) \in BOOLEAN
    BY <1>1 DEF Compromised, Frame
  <1> HIDE DEF next
  <1>8. /\ own \in Frame /\ own.pc = "write" /\ own.doc = next
        /\ own.merged = Compromised(p) /\ own.over = fr[p].over /\ own.target = fr[p].target
        /\ own.sec = fr[p].sec /\ own.lost = fr[p].lost /\ own.bypassed = fr[p].bypassed
    BY <1>1, <1>5, <1>7 DEF Frame, Pcs, Inside
  <1> HIDE DEF own
  <1>9. KeepsBut(own.doc, file, own)
    BY <1>6, <1>8 DEF KeepsBut
  <1>10. Good(own, begun, gone, lock, file, tmp)
    BY <1>1, <1>3, <1>8, <1>9
    DEF Good, FrameOK, Owns, Fresh, Writes, NotLost, Inside, Leaving
  <1> QED BY <1>3, <1>8, <1>10, MoveKeeps

\* The release leaves a lock that is not its own.
LEMMA ReleaseKeeps ==
  ASSUME IInv, NEW p \in Procs, Release(p)
  PROVE  IInv'
  <1>1. /\ fr[p] \in Frame /\ Good(fr[p], begun, gone, lock, file, tmp)
    BY FrameIs
  <1>2. fr[p].pc = "release" /\ UNCHANGED <<lock, file, tmp, begun, gone>>
    BY DEF Release
  <1>3. CASE HasToken(lock, fr[p].sec)
    <2> DEFINE own == [fr[p] EXCEPT !.pc = "unlock"]
    <2>1. Set(p, own)
      BY <1>3 DEF Release, At, HasToken
    <2>2. /\ own \in Frame /\ own.pc = "unlock"
          /\ own.sec = fr[p].sec /\ own.lost = fr[p].lost /\ own.bypassed = fr[p].bypassed
      BY <1>1 DEF Frame, Pcs, Leaving
    <2> HIDE DEF own
    <2>3. Good(own, begun, gone, lock, file, tmp)
      BY <1>1, <1>2, <1>3, <2>2
      DEF Good, FrameOK, Owns, Fresh, Writes, NotLost, Inside, Leaving
    <2> QED BY <1>2, <2>1, <2>2, <2>3, MoveKeeps
  <1>4. CASE ~HasToken(lock, fr[p].sec)
    <2>1. Set(p, Idle(FALSE))
      BY <1>4 DEF Release, HasToken
    <2>2. fr[p].sec # None
      BY <1>1, <1>2 DEF Good, FrameOK
    <2> QED BY <1>2, <2>1, <2>2, EndKeeps
  <1> QED BY <1>3, <1>4

----------------------------------------------------------------------------
(* The steps that change the lock. *)

\* A lock is made where there was none: nobody who was not robbed has one.
LEMMA MkdirKeeps ==
  ASSUME IInv, NEW p \in Procs, Mkdir(p)
  PROVE  IInv'
  <1> DEFINE own == [fr[p] EXCEPT !.pc = "made"]
  <1>1. /\ fr[p] \in Frame /\ Good(fr[p], begun, gone, lock, file, tmp)
        /\ fr[p].sec # None => fr[p].sec \in Sections
    BY FrameIs
  <1>2. /\ fr \in [Procs -> Frame] /\ begun \in Tokens /\ gone \subseteq 1 .. begun
        /\ file \in Files /\ (tmp = NoFile \/ tmp \in Files)
    BY Types DEF IInv
  <1>3. /\ Set(p, own) /\ fr[p].pc = "try" /\ lock = NoLock
        /\ lock' = [maker |-> fr[p].sec, token |-> None, old |-> FALSE]
        /\ UNCHANGED <<file, tmp, begun, gone>>
    BY DEF Mkdir, At
  <1>4. fr[p].sec # None
    BY <1>1, <1>3 DEF Good, FrameOK
  <1>5. lock' \in Locks /\ lock' # NoLock /\ lock'.maker = fr[p].sec /\ lock'.token = None
    <2>1. None \in Tokens /\ FALSE \in BOOLEAN
      BY DEF Tokens
    <2> QED BY <1>1, <1>3, <1>4, <2>1, LockIs
  <1>6. /\ own \in Frame /\ own.pc = "made"
        /\ own.sec = fr[p].sec /\ own.lost = fr[p].lost /\ own.bypassed = fr[p].bypassed
    BY <1>1 DEF Frame, Pcs, Waiting
  <1> HIDE DEF own
  <1>7. Good(own, begun, gone, lock', file, tmp)
    BY <1>1, <1>3, <1>4, <1>5, <1>6
    DEF Good, FrameOK, Owns, Fresh, Writes, NotLost, Inside, Leaving, HasMaker
  <1>8. \A q \in Procs \ {p} : Good(fr[q], begun, gone, lock', file, tmp)
    <2> SUFFICES ASSUME NEW q \in Procs \ {p}
                 PROVE  Good(fr[q], begun, gone, lock', file, tmp)
      OBVIOUS
    <2>1. Good(fr[q], begun, gone, lock, file, tmp)
      BY FrameIs
    <2>2. fr[q].pc = "work" => fr[q].sec # None
      BY <2>1 DEF Good, FrameOK
    <2> QED BY <1>3, <1>5, <2>1, <2>2 DEF Good, Owns, Fresh, HasToken, HasMaker
  <1>9. /\ fr' \in [Procs -> Frame] /\ fr'[p] = own
        /\ \A q \in Procs \ {p} : fr'[q] = fr[q]
    BY <1>2, <1>3, <1>6 DEF Set
  <1>10. \A q \in Procs : Good(fr'[q], begun', gone', lock', file', tmp')
    BY <1>3, <1>7, <1>8, <1>9
  <1>11. \A q \in Procs \ {p} : /\ fr'[q].sec = fr[q].sec /\ fr'[q].bypassed = fr[q].bypassed
                                /\ fr'[q].lost = fr[q].lost
    BY <1>9
  <1>12. /\ begun' \in Tokens /\ gone' \subseteq 1 .. begun' /\ file' \in Files
         /\ (tmp' = NoFile \/ tmp' \in Files)
    BY <1>2, <1>3
  <1> QED BY <1>5, <1>6, <1>9, <1>10, <1>11, <1>12, Assembled

\* Time changes neither the maker of the lock nor its token.
LEMMA AgeKeeps ==
  ASSUME IInv, Age
  PROVE  IInv'
  <1>1. lock \in Locks /\ lock # NoLock /\ lock' = [lock EXCEPT !.old = TRUE]
    BY Types DEF Age, IInv
  <1>2. /\ lock.maker \in Sections /\ lock.token \in Tokens
        /\ lock' = [maker |-> lock.maker, token |-> lock.token, old |-> TRUE]
    BY <1>1 DEF Locks
  <1>3. lock' \in Locks /\ lock' # NoLock /\ lock'.maker = lock.maker /\ lock'.token = lock.token
    BY <1>2, LockIs
  <1>4. UNCHANGED <<file, tmp, fr, begun, gone>>
    BY DEF Age
  <1>5. \A q \in Procs : Good(fr[q], begun, gone, lock', file, tmp)
    <2> SUFFICES ASSUME NEW q \in Procs PROVE Good(fr[q], begun, gone, lock', file, tmp)
      OBVIOUS
    <2>1. Good(fr[q], begun, gone, lock, file, tmp)
      BY FrameIs
    <2> QED BY <1>1, <1>3, <2>1 DEF Good, Owns, Fresh, HasToken, HasMaker
  <1>6. TypeOK'
    BY <1>3, <1>4 DEF IInv, TypeOK, Locks
  <1> QED BY <1>4, <1>5, <1>6 DEF IInv

\* Whom the removal or the overwriting of the lock by p robs.
Robs(p, q) ==
    /\ lock # NoLock /\ fr[q].sec \in {lock.maker, lock.token} \ {None}
    /\ fr[q].pc \in {"made"} \cup Inside \cup Leaving
    /\ fr[q].lost = NotLost \/ fr[q].pc = "unlock"

\* All but the loss.
SameFrame(f, g) ==
    /\ g.pc = f.pc /\ g.sec = f.sec /\ g.judged = f.judged /\ g.bypassed = f.bypassed
    /\ g.target = f.target /\ g.doc = f.doc /\ g.merged = f.merged
    /\ g.late = f.late /\ g.over = f.over

\* The robbed remember who robbed them, the others are as they were.
LEMMA Robbing ==
  ASSUME IInv, NEW p \in Procs, NEW why \in {"ceiling", "race", "stolen"},
         NEW own \in Frame, TakeLock(p, why, own)
  PROVE  /\ fr' \in [Procs -> Frame] /\ fr'[p] = own
         /\ \A q \in Procs \ {p} :
               /\ SameFrame(fr[q], fr'[q])
               /\ ~Robs(p, q) => fr'[q] = fr[q]
               /\ Robs(p, q) =>
                     /\ fr'[q].lost.why = IF fr[q].pc = "unlock" THEN "releasing" ELSE why
                     /\ fr'[q].lost.by = fr[p].sec
  <1>1. fr \in [Procs -> Frame]
    BY Types DEF IInv
  <1>2. fr' = [q \in Procs |-> fr'[q]] /\ fr'[p] = own
    BY DEF TakeLock
  <1>3. ASSUME NEW q \in Procs \ {p}
        PROVE  /\ fr'[q] \in Frame /\ SameFrame(fr[q], fr'[q])
               /\ ~Robs(p, q) => fr'[q] = fr[q]
               /\ Robs(p, q) =>
                     /\ fr'[q].lost.why = IF fr[q].pc = "unlock" THEN "releasing" ELSE why
                     /\ fr'[q].lost.by = fr[p].sec
    <2>1. CASE ~Robs(p, q)
      <3>1. fr'[q] = fr[q]
        BY <2>1 DEF TakeLock, Robs
      <3> QED BY <1>1, <2>1, <3>1 DEF SameFrame
    <2>2. CASE Robs(p, q)
      <3> DEFINE l == [why |-> IF fr[q].pc = "unlock" THEN "releasing" ELSE why,
                       by |-> fr[p].sec]
      <3>1. fr'[q] = [fr[q] EXCEPT !.lost = l]
        BY <2>2 DEF TakeLock, Robs
      <3>2. /\ l \in Lost /\ l.by = fr[p].sec
            /\ l.why = IF fr[q].pc = "unlock" THEN "releasing" ELSE why
        BY FrameIs DEF Lost
      <3>3. fr[q] \in Frame
        BY <1>1
      <3> HIDE DEF l
      <3>4. fr'[q] \in Frame /\ fr'[q].lost = l /\ SameFrame(fr[q], fr'[q])
        BY <3>1, <3>2, <3>3 DEF Frame, SameFrame
      <3> QED BY <2>2, <3>2, <3>4
    <2> QED BY <2>1, <2>2
  <1>4. fr' \in [Procs -> Frame]
    BY <1>2, <1>3
  <1> QED BY <1>2, <1>3, <1>4

\* A step that removes or overwrites the lock robs whoever had it.
LEMMA RobStep ==
  ASSUME IInv, NEW p \in Procs, NEW why \in {"ceiling", "race", "stolen"},
         NEW own \in Frame, TakeLock(p, why, own),
         UNCHANGED <<file, tmp, begun, gone>>,
         fr[p].sec # None,
         lock' = NoLock \/ (lock' \in Locks /\ lock'.token = fr[p].sec),
         why = "stolen" => \A q \in Procs \ {p} : Robs(p, q) => fr[q].pc = "unlock",
         why = "ceiling" => \A q \in Procs \ {p} : Robs(p, q) =>
            fr[q].pc = "unlock" \/ (own.sec = fr[p].sec /\ own.bypassed),
         Good(own, begun, gone, lock', file, tmp),
         own.sec \in {fr[p].sec, None}, own.lost \in {fr[p].lost, NotLost},
         own.sec = fr[p].sec /\ fr[p].bypassed => own.bypassed
  PROVE  IInv'
  <1>1. /\ fr' \in [Procs -> Frame] /\ fr'[p] = own
        /\ \A q \in Procs \ {p} :
               /\ SameFrame(fr[q], fr'[q])
               /\ ~Robs(p, q) => fr'[q] = fr[q]
               /\ Robs(p, q) =>
                     /\ fr'[q].lost.why = IF fr[q].pc = "unlock" THEN "releasing" ELSE why
                     /\ fr'[q].lost.by = fr[p].sec
    BY Robbing
  <1>2. /\ begun \in Tokens /\ gone \subseteq 1 .. begun
        /\ file \in Files /\ (tmp = NoFile \/ tmp \in Files)
    BY Types DEF IInv
  <1>3. FrameOK(fr[p], begun, gone)
    BY FrameIs DEF Good
  <1>4. ASSUME NEW q \in Procs \ {p}
        PROVE  Good(fr'[q], begun, gone, lock', file, tmp)
    <2> DEFINE f == fr[q]
               g == fr'[q]
    <2>1. Good(f, begun, gone, lock, file, tmp) /\ f \in Frame
      BY FrameIs
    <2>2. Pair(fr[p], f)
      BY DEF IInv
    <2>3. /\ SameFrame(f, g)
          /\ ~Robs(p, q) => g = f
          /\ Robs(p, q) => /\ g.lost.why = IF f.pc = "unlock" THEN "releasing" ELSE why
                           /\ g.lost.by = fr[p].sec
      BY <1>1
    <2>4. Robs(p, q) => f.pc \in {"made"} \cup Inside \cup Leaving
      BY DEF Robs
    <2>5. f.sec # fr[p].sec
      BY <2>2 DEF Pair
    <2>6. FrameOK(f, begun, gone)
      BY <2>1 DEF Good
    <2>7. FrameOK(g, begun, gone)
      <3>1. CASE ~Robs(p, q)
        BY <2>3, <2>6, <3>1
      <3>2. CASE Robs(p, q)
        <4>1. /\ g.lost.why = IF f.pc = "unlock" THEN "releasing" ELSE why
              /\ g.lost.by = fr[p].sec
              /\ f.pc \in {"made", "release", "unlock"} \cup Inside
          BY <2>3, <2>4, <3>2 DEF Leaving
        <4>2. g.lost.why # "no" /\ g.lost.why # "stolen"
          BY <3>2, <4>1
        <4>3. g.lost.by # None /\ g.lost.by <= begun
          BY <1>3, <4>1 DEF FrameOK
        <4>4. f.pc \notin {"idle", "try", "check", "remove"}
          BY <4>1 DEF Inside
        <4>5. g.lost.why = "releasing" => g.pc = "unlock"
          BY <2>3, <4>1 DEF SameFrame
        <4> HIDE DEF f, g
        <4> QED BY <2>3, <2>6, <4>2, <4>3, <4>4, <4>5 DEF FrameOK, SameFrame
      <3> QED BY <3>1, <3>2
    <2>8. Owns(g, lock')
      <3>1. Owns(f, lock)
        BY <2>1 DEF Good
      <3>2. f.pc # "idle" => f.sec # None
        BY <2>6 DEF FrameOK
      <3>3. ~(g.lost = NotLost /\ g.pc \in {"made"} \cup Inside \cup Leaving)
        <4> SUFFICES ASSUME g.lost = NotLost, g.pc \in {"made"} \cup Inside \cup Leaving
                     PROVE  FALSE
          OBVIOUS
        <4>1. ~Robs(p, q)
          BY <2>3 DEF NotLost
        <4>2. f.lost = NotLost /\ f.pc \in {"made"} \cup Inside \cup Leaving
          BY <2>3, <4>1
        <4>3. HasToken(lock, f.sec) \/ HasMaker(lock, f.sec)
          BY <3>1, <4>2 DEF Owns
        <4>4. f.sec # None
          BY <3>2, <4>2 DEF Inside, Leaving
        <4> QED BY <4>1, <4>2, <4>3, <4>4 DEF Robs, HasToken, HasMaker
      <3>4. ~(g.pc = "unlock" /\ g.lost.why # "releasing")
        <4> SUFFICES ASSUME g.pc = "unlock", g.lost.why # "releasing" PROVE FALSE
          OBVIOUS
        <4>1. f.pc = "unlock"
          BY <2>3 DEF SameFrame
        <4>2. ~Robs(p, q) /\ g = f
          BY <2>3, <4>1
        <4>3. HasToken(lock, f.sec) /\ f.sec # None
          BY <3>1, <3>2, <4>1, <4>2 DEF Owns
        <4> QED BY <4>1, <4>2, <4>3 DEF Robs, HasToken, Leaving
      <3> HIDE DEF f, g
      <3> QED BY <3>3, <3>4 DEF Owns
    <2>9. Fresh(g, lock', file)
      <3>1. ~HasToken(lock', f.sec)
        BY <2>5 DEF HasToken
      <3> QED BY <2>3, <3>1 DEF Fresh, SameFrame
    <2>10. Writes(g, file, tmp)
      <3>1. Writes(f, file, tmp)
        BY <2>1 DEF Good
      <3> HIDE DEF f, g
      <3> QED BY <2>3, <3>1 DEF Writes, KeepsBut, SameFrame
    <2> QED BY <2>7, <2>8, <2>9, <2>10 DEF Good
  <1>5. \A q \in Procs : Good(fr'[q], begun', gone', lock', file', tmp')
    BY <1>1, <1>4
  <1>6. ASSUME NEW q \in Procs \ {p}
        PROVE  /\ fr'[q].sec = fr[q].sec /\ fr'[q].bypassed = fr[q].bypassed
               /\ \/ fr'[q].lost = fr[q].lost
                  \/ fr'[q].lost.why # "ceiling"
                  \/ fr'[q].lost.by = fr[p].sec /\ fr'[p].sec = fr[p].sec /\ fr'[p].bypassed
    BY <1>1 DEF SameFrame
  <1>7. /\ begun' \in Tokens /\ gone' \subseteq 1 .. begun' /\ file' \in Files
        /\ (tmp' = NoFile \/ tmp' \in Files) /\ (lock' = NoLock \/ lock' \in Locks)
    BY <1>2
  <1> QED BY <1>1, <1>5, <1>6, <1>7, Assembled

\* The metadata is written into whatever directory is there.
LEMMA WriteMetaKeeps ==
  ASSUME IInv, NEW p \in Procs, WriteMeta(p)
  PROVE  IInv'
  <1>1. /\ fr[p] \in Frame /\ Good(fr[p], begun, gone, lock, file, tmp)
        /\ fr[p].sec \in Tokens
    BY FrameIs
  <1>2. fr[p].pc = "made" /\ UNCHANGED <<file, tmp, begun, gone>>
    BY DEF WriteMeta
  <1>3. fr[p].sec # None
    BY <1>1, <1>2 DEF Good, FrameOK
  <1>4. CASE lock = NoLock
    <2>1. Set(p, Idle(fr[p].bypassed)) /\ lock' = lock /\ fr[p].bypassed \in BOOLEAN
      BY <1>1, <1>4 DEF WriteMeta, Frame
    <2> QED BY <1>2, <1>3, <2>1, EndKeeps
  <1>5. CASE lock # NoLock
    <2> DEFINE own == [fr[p] EXCEPT !.pc = "read"]
    <2>1. /\ lock' = [lock EXCEPT !.token = fr[p].sec, !.old = FALSE] /\ lock \in Locks
          /\ TakeLock(p, "race", own)
      BY <1>5, Types DEF WriteMeta, At, IInv
    <2>2. /\ lock.maker \in Sections
          /\ lock' = [maker |-> lock.maker, token |-> fr[p].sec, old |-> FALSE]
      BY <2>1 DEF Locks
    <2>3. lock' \in Locks /\ lock' # NoLock /\ lock'.token = fr[p].sec
      <3>1. FALSE \in BOOLEAN
        OBVIOUS
      <3> QED BY <1>1, <2>2, <3>1, LockIs
    <2>4. /\ own \in Frame /\ own.pc = "read"
          /\ own.sec = fr[p].sec /\ own.lost = fr[p].lost /\ own.bypassed = fr[p].bypassed
      BY <1>1 DEF Frame, Pcs, Inside
    <2> HIDE DEF own
    <2>5. Good(own, begun, gone, lock', file, tmp)
      BY <1>1, <1>2, <1>3, <2>3, <2>4
      DEF Good, FrameOK, Owns, Fresh, Writes, NotLost, Inside, Leaving, HasToken
    <2> QED BY <1>2, <1>3, <2>1, <2>3, <2>4, <2>5, RobStep
  <1> QED BY <1>4, <1>5

\* A waiter that removes the lock of a live holder as too old remembers it.
LEMMA RemoveKeeps ==
  ASSUME IInv, NEW p \in Procs, Remove(p)
  PROVE  IInv'
  <1> DEFINE own == [fr[p] EXCEPT !.pc = "try", !.judged = None]
             why == IF lock # NoLock /\ lock.token # None /\ lock.token = fr[p].judged
                    THEN "ceiling" ELSE "race"
  <1>1. /\ fr[p] \in Frame /\ Good(fr[p], begun, gone, lock, file, tmp)
    BY FrameIs
  <1>2. /\ fr[p].pc = "remove" /\ UNCHANGED <<file, tmp, begun, gone>>
        /\ lock' = NoLock /\ TakeLock(p, why, own)
    BY DEF Remove, At
  <1>3. fr[p].sec # None
    BY <1>1, <1>2 DEF Good, FrameOK
  <1>4. /\ own \in Frame /\ own.pc = "try"
        /\ own.sec = fr[p].sec /\ own.lost = fr[p].lost /\ own.bypassed = fr[p].bypassed
    BY <1>1 DEF Frame, Pcs, Waiting, Tokens, None
  <1> HIDE DEF own
  <1>5. Good(own, begun, gone, lock', file, tmp)
    BY <1>1, <1>2, <1>3, <1>4
    DEF Good, FrameOK, Owns, Fresh, Writes, NotLost, Inside, Leaving
  <1>6. ASSUME why = "ceiling", NEW q \in Procs \ {p}, Robs(p, q), fr[q].pc # "unlock"
        PROVE  fr[p].bypassed
    <2>1. lock.token # None /\ lock.token = fr[p].judged
      BY <1>6
    <2>2. fr[p].bypassed \/ lock.token \in gone
      BY <1>1, <1>2, <2>1 DEF Good, FrameOK
    <2>3. fr[q].lost = NotLost /\ fr[q].pc \in {"made"} \cup Inside \cup Leaving
      BY <1>6 DEF Robs
    <2>4. FrameOK(fr[q], begun, gone) /\ Owns(fr[q], lock)
      BY FrameIs DEF Good
    <2>5. fr[q].pc # "made"
      BY <2>1, <2>3, <2>4 DEF Owns
    <2>6. lock.token = fr[q].sec
      BY <2>3, <2>4, <2>5 DEF Owns, HasToken
    <2>7. fr[q].sec \notin gone
      BY <2>4 DEF FrameOK
    <2> QED BY <2>2, <2>6, <2>7
  <1>7. why \in {"ceiling", "race", "stolen"} /\ why # "stolen"
    OBVIOUS
  <1> HIDE DEF why
  <1> QED BY <1>2, <1>3, <1>4, <1>5, <1>6, <1>7, RobStep

\* The release removes no lock but its own, unless its own was taken meanwhile.
LEMMA UnlockKeeps ==
  ASSUME IInv, NEW p \in Procs, Unlock(p)
  PROVE  IInv'
  <1> DEFINE why == IF fr[p].lost.why = "releasing" THEN "race" ELSE "stolen"
  <1>1. /\ fr[p] \in Frame /\ Good(fr[p], begun, gone, lock, file, tmp)
        /\ begun \in Nat /\ gone \subseteq 1 .. begun
    BY FrameIs
  <1>2. /\ fr[p].pc = "unlock" /\ UNCHANGED <<file, tmp, begun, gone>>
        /\ lock' = NoLock /\ TakeLock(p, why, Idle(FALSE))
    BY DEF Unlock
  <1>3. fr[p].sec # None
    BY <1>1, <1>2 DEF Good, FrameOK
  <1>4. /\ Idle(FALSE) \in Frame /\ Good(Idle(FALSE), begun, gone, lock', file, tmp)
        /\ Idle(FALSE).sec = None /\ Idle(FALSE).lost = NotLost
    BY <1>1, IdleGood
  <1>5. ASSUME why = "stolen", NEW q \in Procs \ {p}, Robs(p, q)
        PROVE  fr[q].pc = "unlock"
    <2>1. HasToken(lock, fr[p].sec)
      BY <1>1, <1>2, <1>5 DEF Good, Owns
    <2>2. Owns(fr[q], lock) /\ Pair(fr[p], fr[q])
      BY FrameIs DEF Good, IInv
    <2>3. /\ fr[q].pc \in {"made"} \cup Inside \cup Leaving
          /\ fr[q].lost = NotLost \/ fr[q].pc = "unlock"
      BY <1>5 DEF Robs
    <2> QED BY <1>3, <2>1, <2>2, <2>3 DEF Owns, Pair, HasToken
  <1>6. why \in {"ceiling", "race", "stolen"} /\ why # "ceiling"
    OBVIOUS
  <1> HIDE DEF why
  <1> QED BY <1>2, <1>3, <1>4, <1>5, <1>6, RobStep

----------------------------------------------------------------------------
(* The steps that write. *)

\* All but what is remembered of the writes of others.
Reminded(f, g) ==
    /\ g.pc = f.pc /\ g.sec = f.sec /\ g.judged = f.judged /\ g.bypassed = f.bypassed
    /\ g.target = f.target /\ g.doc = f.doc /\ g.merged = f.merged /\ g.lost = f.lost

\* A write is remembered by those about to write, and one without the lock by
\* those at work.
LEMMA Writing ==
  ASSUME IInv, NEW p \in Procs, NEW own \in Frame, NEW replaces \in BOOLEAN,
         Write(p, own, replaces)
  PROVE  /\ fr' \in [Procs -> Frame] /\ fr'[p] = own
         /\ \A q \in Procs \ {p} :
               /\ Reminded(fr[q], fr'[q])
               /\ fr'[q].late = (fr[q].late \/ fr[q].pc \in {"write", "rename"})
               /\ fr'[q].over = (fr[q].over \/
                     /\ replaces /\ fr[q].pc = "work"
                     /\ fr[p].lost \notin {NotLost, [why |-> "ceiling", by |-> fr[q].sec]})
  <1>1. fr \in [Procs -> Frame]
    BY Types DEF IInv
  <1>2. fr' = [q \in Procs |-> fr'[q]] /\ fr'[p] = own
    BY DEF Write
  <1>3. ASSUME NEW q \in Procs \ {p}
        PROVE  /\ fr'[q] \in Frame /\ Reminded(fr[q], fr'[q])
               /\ fr'[q].late = (fr[q].late \/ fr[q].pc \in {"write", "rename"})
               /\ fr'[q].over = (fr[q].over \/
                     /\ replaces /\ fr[q].pc = "work"
                     /\ fr[p].lost \notin {NotLost, [why |-> "ceiling", by |-> fr[q].sec]})
    <2> DEFINE l == fr[q].late \/ fr[q].pc \in {"write", "rename"}
               o == fr[q].over \/
                     /\ replaces /\ fr[q].pc = "work"
                     /\ fr[p].lost \notin {NotLost, [why |-> "ceiling", by |-> fr[q].sec]}
    <2>1. fr'[q] = [fr[q] EXCEPT !.late = l, !.over = o]
      BY DEF Write
    <2>2. fr[q] \in Frame
      BY <1>1
    <2>3. l \in BOOLEAN /\ o \in BOOLEAN
      BY <2>2 DEF Frame
    <2> HIDE DEF l, o
    <2>4. /\ fr'[q] \in Frame /\ Reminded(fr[q], fr'[q])
          /\ fr'[q].late = l /\ fr'[q].over = o
      BY <2>1, <2>2, <2>3 DEF Frame, Reminded
    <2> QED BY <2>4 DEF l, o
  <1>4. fr' \in [Procs -> Frame]
    BY <1>2, <1>3
  <1> QED BY <1>2, <1>3, <1>4

\* A step that writes one of the files.
LEMMA WriteStep ==
  ASSUME IInv, NEW p \in Procs, NEW own \in Frame, NEW replaces \in BOOLEAN,
         Write(p, own, replaces),
         UNCHANGED <<lock, begun, gone>>,
         file' \in Files, tmp' = NoFile \/ tmp' \in Files,
         replaces \/ file' = file,
         fr[p].pc \in {"write", "rename"},
         Good(own, begun, gone, lock, file', tmp'),
         own.sec = fr[p].sec, own.lost = fr[p].lost, own.bypassed = fr[p].bypassed
  PROVE  IInv'
  <1>1. /\ fr' \in [Procs -> Frame] /\ fr'[p] = own
        /\ \A q \in Procs \ {p} :
               /\ Reminded(fr[q], fr'[q])
               /\ fr'[q].late = (fr[q].late \/ fr[q].pc \in {"write", "rename"})
               /\ fr'[q].over = (fr[q].over \/
                     /\ replaces /\ fr[q].pc = "work"
                     /\ fr[p].lost \notin {NotLost, [why |-> "ceiling", by |-> fr[q].sec]})
    BY Writing
  <1>2. /\ begun \in Tokens /\ gone \subseteq 1 .. begun
        /\ (lock = NoLock \/ lock \in Locks)
    BY Types DEF IInv
  <1>3. FrameOK(fr[p], begun, gone) /\ Owns(fr[p], lock)
    BY FrameIs DEF Good
  <1>4. ASSUME NEW q \in Procs \ {p}
        PROVE  Good(fr'[q], begun, gone, lock, file', tmp')
    <2> DEFINE f == fr[q]
               g == fr'[q]
    <2>1. /\ Good(f, begun, gone, lock, file, tmp) /\ f \in Frame
          /\ Pair(fr[p], f) /\ Pair(f, fr[p])
      BY FrameIs DEF IInv
    <2>2. Reminded(f, g)
      BY <1>1
    <2>3. FrameOK(g, begun, gone) /\ Owns(g, lock)
      <3>1. FrameOK(f, begun, gone) /\ Owns(f, lock)
        BY <2>1 DEF Good
      <3> HIDE DEF f, g
      <3>2. FrameOK(g, begun, gone)
        BY <2>2, <3>1 DEF FrameOK, Reminded
      <3>3. Owns(g, lock)
        BY <2>2, <3>1 DEF Owns, Reminded
      <3> QED BY <3>2, <3>3
    <2>4. Writes(g, file', tmp')
      <3>1. f.pc \in {"write", "rename"} => g.late
        BY <1>1
      <3> HIDE DEF f, g
      <3> QED BY <2>2, <3>1 DEF Writes, Reminded
    <2>5. Fresh(g, lock, file')
      <3> SUFFICES ASSUME g.pc = "work", ~g.over, ~g.bypassed, HasToken(lock, g.sec)
                   PROVE  g.doc = file'
        BY DEF Fresh
      <3>1. f.pc = "work" /\ ~f.bypassed /\ HasToken(lock, f.sec) /\ g.doc = f.doc
        BY <2>2 DEF Reminded
      <3>2. /\ ~f.over
            /\ replaces => fr[p].lost \in {NotLost, [why |-> "ceiling", by |-> f.sec]}
        BY <1>1, <3>1
      <3>3. f.doc = file
        BY <2>1, <3>1, <3>2 DEF Good, Fresh
      <3>4. fr[p].lost # NotLost
        <4> SUFFICES ASSUME fr[p].lost = NotLost PROVE FALSE
          OBVIOUS
        <4>1. HasToken(lock, fr[p].sec)
          BY <1>3 DEF Owns, Inside
        <4>2. fr[p].sec # None
          BY <1>3 DEF FrameOK
        <4> QED BY <2>1, <3>1, <4>1, <4>2 DEF Pair, HasToken
      <3>5. fr[p].lost # [why |-> "ceiling", by |-> f.sec]
        BY <2>1, <3>1 DEF Pair
      <3> QED BY <3>1, <3>2, <3>3, <3>4, <3>5
    <2> QED BY <2>3, <2>4, <2>5 DEF Good
  <1>5. \A q \in Procs : Good(fr'[q], begun', gone', lock', file', tmp')
    BY <1>1, <1>4
  <1>6. \A q \in Procs \ {p} : /\ fr'[q].sec = fr[q].sec /\ fr'[q].bypassed = fr[q].bypassed
                               /\ fr'[q].lost = fr[q].lost
    BY <1>1 DEF Reminded
  <1>7. /\ begun' \in Tokens /\ gone' \subseteq 1 .. begun'
        /\ (lock' = NoLock \/ lock' \in Locks)
    BY <1>2
  <1> QED BY <1>1, <1>5, <1>6, <1>7, Assembled

\* The temporary file is what the section meant to write.
LEMMA WriteTmpKeeps ==
  ASSUME IInv, NEW p \in Procs, WriteTmp(p)
  PROVE  IInv'
  <1> DEFINE own == [fr[p] EXCEPT !.pc = "rename", !.doc = Blank]
  <1>1. /\ fr[p] \in Frame /\ Good(fr[p], begun, gone, lock, file, tmp)
    BY FrameIs
  <1>2. file \in Files /\ fr[p].doc \in Files
    BY <1>1, Types DEF IInv, Frame
  <1>3. /\ fr[p].pc = "write" /\ tmp' = fr[p].doc /\ Write(p, own, FALSE)
        /\ UNCHANGED <<lock, file, begun, gone>>
    BY DEF WriteTmp, At
  <1>4. Blank \in Files
    BY DEF Blank, Files, Values, Tokens
  <1>5. /\ own \in Frame /\ own.pc = "rename" /\ own.merged = fr[p].merged
        /\ own.over = fr[p].over /\ own.late = fr[p].late /\ own.target = fr[p].target
        /\ own.sec = fr[p].sec /\ own.lost = fr[p].lost /\ own.bypassed = fr[p].bypassed
    BY <1>1, <1>4 DEF Frame, Pcs, Inside
  <1> HIDE DEF own
  <1>6. Writes(own, file, tmp')
    BY <1>1, <1>3, <1>5 DEF Good, Writes, KeepsBut
  <1>7. Good(own, begun, gone, lock, file', tmp')
    BY <1>1, <1>3, <1>5, <1>6 DEF Good, FrameOK, Owns, Fresh, NotLost, Inside, Leaving
  <1> QED BY <1>2, <1>3, <1>5, <1>7, WriteStep

\* The temporary file becomes the file.
LEMMA RenameKeeps ==
  ASSUME IInv, NEW p \in Procs, Rename(p)
  PROVE  IInv'
  <1> DEFINE own == [fr[p] EXCEPT !.pc = "release"]
  <1>1. /\ fr[p] \in Frame /\ Good(fr[p], begun, gone, lock, file, tmp)
    BY FrameIs
  <1>2. /\ fr[p].pc = "rename" /\ tmp' = NoFile /\ Write(p, own, TRUE)
        /\ file' = IF tmp = NoFile THEN file ELSE tmp
        /\ UNCHANGED <<lock, begun, gone>>
    BY DEF Rename, At
  <1>3. file' \in Files
    BY <1>2, Types DEF IInv
  <1>4. /\ own \in Frame /\ own.pc = "release"
        /\ own.sec = fr[p].sec /\ own.lost = fr[p].lost /\ own.bypassed = fr[p].bypassed
    BY <1>1 DEF Frame, Pcs, Leaving
  <1> HIDE DEF own
  <1>5. Good(own, begun, gone, lock, file', tmp')
    BY <1>1, <1>2, <1>4 DEF Good, FrameOK, Owns, Fresh, Writes, NotLost, Inside, Leaving
  <1> QED BY <1>2, <1>3, <1>4, <1>5, WriteStep

----------------------------------------------------------------------------
(* The invariant, and what follows from it. *)

\* No lock, no section, an empty file.
LEMMA Initially == Init => IInv
  <1> SUFFICES ASSUME Init PROVE IInv
    OBVIOUS
  <1>1. /\ lock = NoLock /\ file = Blank /\ tmp = NoFile /\ begun = 0 /\ gone = {}
        /\ fr = [p \in Procs |-> Idle(FALSE)]
    BY DEF Init
  <1>2. /\ begun \in Nat /\ gone \subseteq 1 .. begun /\ begun \in Tokens /\ FALSE \in BOOLEAN
        /\ gone \subseteq Sections
    BY <1>1 DEF Tokens, None
  <1>3. /\ Idle(FALSE) \in Frame /\ Good(Idle(FALSE), begun, gone, lock, file, tmp)
        /\ Idle(FALSE).sec = None /\ Idle(FALSE).lost = NotLost
    BY <1>2, IdleGood
  <1>4. \A p \in Procs : fr[p] = Idle(FALSE)
    BY <1>1
  <1>5. Blank \in Files
    BY DEF Blank, Files, Values, Tokens
  <1>6. TypeOK
    <2>1. fr \in [Procs -> Frame]
      BY <1>1, <1>3
    <2> QED BY <1>1, <1>2, <1>5, <2>1 DEF TypeOK, Frame, Pcs, Lost
  <1>7. \A p, q \in Procs : Pair(fr[p], fr[q])
    <2>1. NotLost.why # "ceiling"
      BY DEF NotLost
    <2>2. \A p \in Procs : fr[p].sec = None /\ fr[p].lost = NotLost
      BY <1>3, <1>4
    <2> QED BY <2>1, <2>2 DEF Pair
  <1> QED BY <1>2, <1>3, <1>4, <1>6, <1>7 DEF IInv

\* Every step preserves the invariant.
LEMMA Inductive == IInv /\ [Next]_vars => IInv'
  <1> SUFFICES ASSUME IInv, [Next]_vars PROVE IInv'
    OBVIOUS
  <1>1. ASSUME NEW p \in Procs, NEW target \in Packets \cup {NoPacket}, Start(p, target)
        PROVE  IInv'
    BY <1>1, StartKeeps
  <1>2. ASSUME NEW p \in Procs, NEW value \in {fr[p].sec, Absent}, Persist(p, value)
        PROVE  IInv'
    BY <1>2, PersistKeeps
  <1>3. ASSUME NEW p \in Procs, Acquire(p) PROVE IInv'
    BY <1>3, MkdirKeeps, WriteMetaKeeps, JudgeKeeps, RemoveKeeps DEF Acquire
  <1>4. ASSUME NEW p \in Procs, GiveUp(p) PROVE IInv'
    <2>1. fr[p].bypassed \in BOOLEAN
      BY FrameIs DEF Frame
    <2> QED BY <1>4, <2>1, EndKeeps DEF GiveUp
  <1>5. ASSUME NEW p \in Procs, Crash(p) PROVE IInv'
    <2>1. fr[p].pc # "idle" /\ fr[p].sec # None
      BY <1>5, FrameIs DEF Crash, Good, FrameOK
    <2> QED BY <1>5, <2>1, EndKeeps DEF Crash
  <1>6. ASSUME NEW p \in Procs,
               Read(p) \/ Abandon(p) \/ WriteTmp(p) \/ Rename(p) \/ Release(p) \/ Unlock(p)
        PROVE  IInv'
    BY <1>6, ReadKeeps, WriteTmpKeeps, RenameKeeps, ReleaseKeeps, UnlockKeeps
  <1>7. CASE Age
    BY <1>7, AgeKeeps
  <1>8. CASE UNCHANGED vars
    BY <1>8 DEF vars, IInv, TypeOK
  <1> QED BY <1>1, <1>2, <1>3, <1>4, <1>5, <1>6, <1>7, <1>8 DEF Next

\* The inductive invariant holds in every state.
THEOREM Invariance == Spec => []IInv
  BY Initially, Inductive, PTL DEF Spec

\* The lock, the file and the sections are well formed.
THEOREM TypeCorrectness == Spec => []TypeOK
  <1>1. IInv => TypeOK
    BY DEF IInv
  <1> QED BY <1>1, Invariance, PTL

\* Two sections overlap only when the lock of one was broken at the ceiling or
\* by a waiter that had judged an earlier holder; no release takes the lock of
\* another.
THEOREM SectionsExclude == Spec => []Exclusive
  <1>1. IInv => Exclusive
    <2> SUFFICES ASSUME IInv, NEW p \in Procs, NEW q \in Procs, p # q,
                        InSection(p), InSection(q),
                        fr[p].lost.why \notin {"ceiling", "race"},
                        fr[q].lost.why \notin {"ceiling", "race"}
                 PROVE  FALSE
      BY DEF Exclusive
    <2>1. /\ fr[p] \in Frame /\ FrameOK(fr[p], begun, gone) /\ Owns(fr[p], lock)
          /\ fr[q] \in Frame /\ FrameOK(fr[q], begun, gone) /\ Owns(fr[q], lock)
          /\ Pair(fr[p], fr[q])
      BY FrameIs DEF Good, IInv
    <2>2. /\ fr[p].pc \in Inside /\ fr[p].pc # "unlock" /\ fr[p].pc # "idle"
          /\ fr[q].pc \in Inside /\ fr[q].pc # "unlock" /\ fr[q].pc # "idle"
      BY DEF InSection, Inside
    <2>3. fr[p].lost = NotLost /\ fr[q].lost = NotLost
      BY <2>1, <2>2 DEF FrameOK, Frame, Lost
    <2>4. HasToken(lock, fr[p].sec) /\ HasToken(lock, fr[q].sec)
      BY <2>1, <2>2, <2>3 DEF Owns
    <2>5. fr[p].sec # None
      BY <2>1, <2>2 DEF FrameOK
    <2> QED BY <2>1, <2>4, <2>5 DEF Pair, HasToken
  <1> QED BY <1>1, Invariance, PTL

\* Only the rename takes a section from its rename to its release.
LEMMA OnlyRename ==
  ASSUME IInv, [Next]_vars, NEW p \in Procs, fr[p].pc = "rename", fr'[p].pc = "release"
  PROVE  Rename(p)
  <1>0. fr \in [Procs -> Frame]
    BY Types DEF IInv
  <1>1. ASSUME NEW r \in Procs, NEW own, Set(r, own), r # p PROVE FALSE
    BY <1>0, <1>1 DEF Set
  <1>2. ASSUME NEW r \in Procs, NEW why, NEW own, TakeLock(r, why, own), r # p PROVE FALSE
    <2>1. \/ fr'[p] = fr[p]
          \/ \E l : fr'[p] = [fr[p] EXCEPT !.lost = l]
      BY <1>2 DEF TakeLock
    <2>2. fr[p] \in Frame
      BY <1>0
    <2> QED BY <2>1, <2>2 DEF Frame
  <1>3. ASSUME NEW r \in Procs, NEW own, NEW replaces, Write(r, own, replaces), r # p PROVE FALSE
    <2>1. \E l, o : fr'[p] = [fr[p] EXCEPT !.late = l, !.over = o]
      BY <1>3 DEF Write
    <2>2. fr[p] \in Frame
      BY <1>0
    <2> QED BY <2>1, <2>2 DEF Frame
  <1>4. ASSUME NEW r \in Procs, NEW target, Start(r, target) PROVE FALSE
    BY <1>1, <1>4 DEF Start
  <1>5. ASSUME NEW r \in Procs, NEW value, Persist(r, value) PROVE FALSE
    BY <1>1, <1>5 DEF Persist
  <1>6. ASSUME NEW r \in Procs, Acquire(r) PROVE FALSE
    <2>1. fr[r].pc \in {"try", "made", "check", "remove"}
      BY <1>6 DEF Acquire, Mkdir, WriteMeta, JudgeDead, JudgeOver, Check, Remove
    <2>2. \/ \E own : Set(r, own)
          \/ \E why, own : TakeLock(r, why, own)
      BY <1>6 DEF Acquire, Mkdir, WriteMeta, JudgeDead, JudgeOver, Check, Remove
    <2> QED BY <1>1, <1>2, <2>1, <2>2
  <1>7. ASSUME NEW r \in Procs, GiveUp(r) \/ Read(r) \/ Abandon(r) \/ Release(r) PROVE FALSE
    BY <1>1, <1>7 DEF GiveUp, Read, Abandon, Release
  <1>8. ASSUME NEW r \in Procs, Crash(r) PROVE FALSE
    <2>1. r = p
      BY <1>1, <1>8 DEF Crash
    <2>2. fr'[p] = Idle(FALSE)
      BY <1>0, <1>8, <2>1 DEF Crash, Set
    <2> QED BY <2>2 DEF Idle
  <1>9. ASSUME NEW r \in Procs, WriteTmp(r) PROVE FALSE
    BY <1>3, <1>9 DEF WriteTmp
  <1>10. ASSUME NEW r \in Procs, Unlock(r) PROVE FALSE
    BY <1>2, <1>10 DEF Unlock
  <1>11. ASSUME NEW r \in Procs, Rename(r) PROVE r = p
    BY <1>3, <1>11 DEF Rename
  <1>12. ~Age /\ ~UNCHANGED vars
    BY DEF Age, vars
  <1> QED BY <1>4, <1>5, <1>6, <1>7, <1>8, <1>9, <1>10, <1>11, <1>12 DEF Next

\* A write changes no packet but its own, with the two exceptions.
THEOREM ChangesAreKept == Spec => ChangesKept
  <1>1. ASSUME IInv, [Next]_vars, NEW p \in Procs, fr[p].pc = "rename", fr'[p].pc = "release",
               NEW k \in Packets \ {fr[p].target}
        PROVE  file'[k] = file[k] \/ fr[p].late \/ (~fr[p].merged /\ fr[p].over)
    <2>1. Writes(fr[p], file, tmp)
      BY <1>1, FrameIs DEF Good
    <2>2. file' = IF tmp = NoFile THEN file ELSE tmp
      BY <1>1, OnlyRename DEF Rename
    <2> QED BY <1>1, <2>1, <2>2 DEF Writes, KeepsBut
  <1>2. IInv /\ [Next]_vars =>
           [\A p \in Procs : fr[p].pc = "rename" /\ fr'[p].pc = "release" =>
              \A k \in Packets \ {fr[p].target} :
                \/ file'[k] = file[k]
                \/ fr[p].late
                \/ ~fr[p].merged /\ fr[p].over]_vars
    BY <1>1
  <1> QED BY <1>2, Invariance, PTL DEF Spec, ChangesKept

=============================================================================
