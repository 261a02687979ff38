----------------------------- MODULE MissionLock -----------------------------
(***************************************************************************)
(* The lock of orchestrator-state.json across processes                    *)
(* (src/lib/orchestrator/control-plane.ts) and the sections it guards: the *)
(* API server, the ws server and the workers of both read, change and      *)
(* replace that one file.                                                  *)
(*                                                                         *)
(* The lock is a directory that mkdir creates; its holder then writes its  *)
(* pid, the time and a token into it.  A waiter breaks the lock of a dead  *)
(* holder, and after a hard ceiling that of a live one; the two sections   *)
(* that then overlap are to merge what they write.  Every call on the file *)
(* system is a step, and a process may stall or die before any of them.    *)
(* Within a process a promise chain admits one section at a time, so a     *)
(* process is here one section after another.                              *)
(*                                                                         *)
(* A section is a number, which is also its token and the value of what it *)
(* writes.  The file is its packets.  Left out: the other fields of the    *)
(* mission, a write of another mission, what reconciliation derives from   *)
(* lanes, withControlPlaneLock (its callers write for themselves and do    *)
(* not merge), and a new process that has the pid of a dead holder (its    *)
(* lock then waits for the ceiling).                                       *)
(***************************************************************************)
EXTENDS Integers

CONSTANTS
  Procs,
  Packets,
  NoPacket,
  Absent,       \* the value of a packet that the mission does not have
  NoLock,       \* there is no lock directory
  NoFile,       \* there is no temporary file
  MaxSections   \* bound of the model on the sections of all processes

ASSUME MissionLockAssumption == NoPacket \notin Packets /\ MaxSections \in Nat

\* The value that stands for no directory is not a directory.
ASSUME NoLockAssumption == NoLock \notin [maker : Nat, token : Nat, old : BOOLEAN]

VARIABLES
  lock,    \* LOCK_DIR: who made it, the token in holder.json, too old or not
  file,    \* ORCHESTRATOR_PATH
  tmp,     \* ORCHESTRATOR_TMP_PATH, which all writers share
  fr,      \* per process: its section, where it is in it, and three facts of
           \* its history: lost, who removed its lock and why; late, whether
           \* another wrote between its last look and its write; over, whether
           \* a section that had lost its lock wrote during it
  begun,   \* the sections begun
  gone     \* the sections whose process died in them

vars == <<lock, file, tmp, fr, begun, gone>>

None == 0
Sections == 1 .. MaxSections
Tokens == Sections \cup {None}
Values == Tokens \cup {Absent}
Files == [Packets -> Values]
Blank == [k \in Packets |-> None]

Waiting == {"try", "check", "remove", "made"}
Inside == {"read", "work", "write", "rename"}
Leaving == {"release", "unlock"}

InSection(p) == fr[p].pc \in Inside
NotLost == [why |-> "no", by |-> None]

\* A process between sections: only a bypass that never got the lock is
\* remembered.
Idle(bypassed) ==
  [pc |-> "idle", sec |-> None, judged |-> None, bypassed |-> bypassed,
   target |-> NoPacket, doc |-> Blank, merged |-> FALSE,
   lost |-> NotLost, late |-> FALSE, over |-> FALSE]

Init ==
  /\ lock = NoLock
  /\ file = Blank
  /\ tmp = NoFile
  /\ fr = [p \in Procs |-> Idle(FALSE)]
  /\ begun = 0
  /\ gone = {}

At(p, pc) == [fr[p] EXCEPT !.pc = pc]
Set(p, own) == fr' = [fr EXCEPT ![p] = own]

\* p removes or overwrites the lock; who of the others had it, its maker or the
\* one whose metadata is in it, has lost it.
TakeLock(p, why, own) ==
  fr' = [q \in Procs |->
    IF q = p THEN own
    ELSE IF /\ lock # NoLock /\ fr[q].sec \in {lock.maker, lock.token} \ {None}
            /\ fr[q].pc \in {"made"} \cup Inside \cup Leaving
            /\ fr[q].lost = NotLost \/ fr[q].pc = "unlock"
         THEN [fr[q] EXCEPT !.lost =
                 [why |-> IF fr[q].pc = "unlock" THEN "releasing" ELSE why, by |-> fr[p].sec]]
         ELSE fr[q]]

-----------------------------------------------------------------------------
(* Taking the lock.                                                         *)

\* withLockedState, or the sync, which changes nothing (target NoPacket): its
\* turn in the chain has come.
Start(p, target) ==
  /\ fr[p].pc = "idle" /\ begun < MaxSections
  /\ begun' = begun + 1
  /\ Set(p, [At(p, "try") EXCEPT !.sec = begun + 1, !.target = target])
  /\ UNCHANGED <<lock, file, tmp, gone>>

\* The wait timeout of the caller; a bypass it began is not forgotten.
GiveUp(p) ==
  /\ fr[p].pc = "try"
  /\ Set(p, Idle(fr[p].bypassed))
  /\ UNCHANGED <<lock, file, tmp, begun, gone>>

Mkdir(p) ==
  /\ fr[p].pc = "try" /\ lock = NoLock
  /\ lock' = [maker |-> fr[p].sec, token |-> None, old |-> FALSE]
  /\ Set(p, At(p, "made"))
  /\ UNCHANGED <<file, tmp, begun, gone>>

\* The second half of the acquisition.  If the directory is gone the write
\* throws; if another has made it again, the write goes into that one.
WriteMeta(p) ==
  /\ fr[p].pc = "made"
  /\ IF lock = NoLock
     THEN Set(p, Idle(fr[p].bypassed)) /\ UNCHANGED lock
     ELSE /\ lock' = [lock EXCEPT !.token = fr[p].sec, !.old = FALSE]
          /\ TakeLock(p, "race", At(p, "read"))
  /\ UNCHANGED <<file, tmp, begun, gone>>

\* judgeLockHolder.  Without metadata only the age tells.
HolderDead ==
  /\ lock # NoLock
  /\ IF lock.token = None THEN lock.old ELSE lock.token \in gone

JudgeDead(p) ==
  /\ fr[p].pc = "try" /\ HolderDead
  /\ Set(p, [At(p, "check") EXCEPT !.judged = lock.token])
  /\ UNCHANGED <<lock, file, tmp, begun, gone>>

\* Variant: the breaker of a live holder's lock forgets that it lives.
JudgeOverForgotten(p) ==
  /\ fr[p].pc = "try" /\ lock # NoLock /\ ~HolderDead /\ lock.old
  /\ Set(p, [At(p, "check") EXCEPT !.judged = lock.token])
  /\ UNCHANGED <<lock, file, tmp, begun, gone>>

\* The holder lives and the lock is older than the hard ceiling.
JudgeOver(p) ==
  /\ fr[p].pc = "try" /\ lock # NoLock /\ ~HolderDead /\ lock.old
  /\ Set(p, [At(p, "check") EXCEPT !.judged = lock.token, !.bypassed = TRUE])
  /\ UNCHANGED <<lock, file, tmp, begun, gone>>

\* Variant: a lock with any holder's token is left alone.
CheckAnyHolder(p) ==
  /\ fr[p].pc = "check"
  /\ IF lock # NoLock /\ lock.token # None
     THEN Set(p, [At(p, "try") EXCEPT !.judged = None])
     ELSE Set(p, At(p, "remove"))
  /\ UNCHANGED <<lock, file, tmp, begun, gone>>

\* breakLock: not if a new holder's token is there by now.
Check(p) ==
  /\ fr[p].pc = "check"
  /\ IF lock # NoLock /\ None \notin {fr[p].judged, lock.token} /\ lock.token # fr[p].judged
     THEN Set(p, [At(p, "try") EXCEPT !.judged = None])
     ELSE Set(p, At(p, "remove"))
  /\ UNCHANGED <<lock, file, tmp, begun, gone>>

\* The removal takes whatever directory is there now.
Remove(p) ==
  /\ fr[p].pc = "remove"
  /\ lock' = NoLock
  /\ TakeLock(p, IF lock # NoLock /\ lock.token # None /\ lock.token = fr[p].judged
                 THEN "ceiling" ELSE "race",
              [At(p, "try") EXCEPT !.judged = None])
  /\ UNCHANGED <<file, tmp, begun, gone>>

-----------------------------------------------------------------------------
(* A section.                                                               *)

Read(p) ==
  /\ fr[p].pc = "read"
  /\ Set(p, [At(p, "work") EXCEPT !.doc = file])
  /\ UNCHANGED <<lock, file, tmp, begun, gone>>

\* heldLockCompromised.
Compromised(p) == fr[p].bypassed \/ lock = NoLock \/ lock.token # fr[p].sec

\* mergeBypassedMission for one packet: what was read, what this section
\* wants, what is in the file now.
Merged(base, ours, theirs) ==
  IF ours # Absent
  THEN IF ours = base THEN theirs ELSE ours
  ELSE IF base = Absent \/ theirs # base THEN theirs ELSE Absent

\* persistMissionUnderLock up to the write: a section that may overlap another
\* reads the file again and merges.
Persist(p, value) ==
  LET base == fr[p].doc
      ours == [k \in Packets |-> IF k = fr[p].target THEN value ELSE base[k]]
      next == IF Compromised(p) THEN [k \in Packets |-> Merged(base[k], ours[k], file[k])]
              ELSE ours IN
  /\ fr[p].pc = "work"
  /\ Set(p, [At(p, "write") EXCEPT !.merged = Compromised(p), !.doc = next])
  /\ UNCHANGED <<lock, file, tmp, begun, gone>>

\* The callback throws: nothing is written.
Abandon(p) ==
  /\ fr[p].pc = "work"
  /\ Set(p, At(p, "release"))
  /\ UNCHANGED <<lock, file, tmp, begun, gone>>

\* p writes one of the two files; what the others remember of it.
Write(p, own, replaces) ==
  fr' = [q \in Procs |->
    IF q = p THEN own
    ELSE [fr[q] EXCEPT
            !.late = @ \/ fr[q].pc \in {"write", "rename"},
            !.over = @ \/ /\ replaces /\ fr[q].pc = "work"
                          /\ fr[p].lost \notin {NotLost, [why |-> "ceiling", by |-> fr[q].sec]}]]

WriteTmp(p) ==
  /\ fr[p].pc = "write"
  /\ tmp' = fr[p].doc
  /\ Write(p, [At(p, "rename") EXCEPT !.doc = Blank], FALSE)
  /\ UNCHANGED <<lock, file, begun, gone>>

\* A writer that was overtaken finds no temporary file, and throws.
Rename(p) ==
  /\ fr[p].pc = "rename"
  /\ file' = IF tmp = NoFile THEN file ELSE tmp
  /\ tmp' = NoFile
  /\ Write(p, At(p, "release"), TRUE)
  /\ UNCHANGED <<lock, begun, gone>>

\* Variant: the lock is removed whoever holds it.
ReleaseUnchecked(p) ==
  /\ fr[p].pc = "release"
  /\ Set(p, At(p, "unlock"))
  /\ UNCHANGED <<lock, file, tmp, begun, gone>>

\* releaseFsLock: only a lock that is still its own.
Release(p) ==
  /\ fr[p].pc = "release"
  /\ Set(p, IF lock # NoLock /\ lock.token = fr[p].sec THEN At(p, "unlock") ELSE Idle(FALSE))
  /\ UNCHANGED <<lock, file, tmp, begun, gone>>

Unlock(p) ==
  /\ fr[p].pc = "unlock"
  /\ lock' = NoLock
  /\ TakeLock(p, IF fr[p].lost.why = "releasing" THEN "race" ELSE "stolen", Idle(FALSE))
  /\ UNCHANGED <<file, tmp, begun, gone>>

-----------------------------------------------------------------------------
(* The environment.                                                         *)

\* A process dies; it starts again under another pid.
Crash(p) ==
  /\ fr[p].pc # "idle"
  /\ gone' = gone \cup {fr[p].sec}
  /\ Set(p, Idle(FALSE))
  /\ UNCHANGED <<lock, file, tmp, begun>>

\* Time: a lock grows older than the ceiling, a directory without metadata
\* older than its grace, whether its maker died or is slow.
Age ==
  /\ lock # NoLock /\ ~lock.old
  /\ lock' = [lock EXCEPT !.old = TRUE]
  /\ UNCHANGED <<file, tmp, fr, begun, gone>>

Acquire(p) ==
  \/ Mkdir(p) \/ WriteMeta(p) \/ JudgeDead(p) \/ JudgeOver(p) \/ Check(p) \/ Remove(p)

Next ==
  \/ \E p \in Procs :
       \/ \E target \in Packets \cup {NoPacket} : Start(p, target)
       \/ \E value \in {fr[p].sec, Absent} : Persist(p, value)
       \/ Acquire(p) \/ GiveUp(p) \/ Read(p) \/ Abandon(p) \/ WriteTmp(p) \/ Rename(p)
       \/ Release(p) \/ Unlock(p) \/ Crash(p)
  \/ Age

Spec == Init /\ [][Next]_vars

\* The acquisition loop runs, and time passes; no section need ever move on.
FairSpec == Spec /\ WF_vars(Age) /\ \A p \in Procs : WF_vars(Acquire(p))

-----------------------------------------------------------------------------
(* Properties.                                                              *)

\* The lock, the file and the sections are well formed.
TypeOK ==
  /\ lock = NoLock \/ lock \in [maker : Sections, token : Tokens, old : BOOLEAN]
  /\ file \in Files
  /\ tmp = NoFile \/ tmp \in Files
  /\ fr \in [Procs ->
       [pc : {"idle"} \cup Waiting \cup Inside \cup Leaving, sec : Tokens,
        judged : Tokens, bypassed : BOOLEAN, target : Packets \cup {NoPacket},
        doc : Files, merged : BOOLEAN,
        lost : [why : {"no", "ceiling", "race", "releasing", "stolen"}, by : Tokens],
        late : BOOLEAN, over : BOOLEAN]]
  /\ begun \in Tokens /\ gone \subseteq Sections

\* Two processes are in their sections at once only if the lock of one of them
\* was broken while it lived: at the ceiling, or by a waiter that had judged
\* an earlier holder.  No release takes away another's lock.
Exclusive ==
  \A p, q \in Procs : p # q /\ InSection(p) /\ InSection(q) =>
    \E r \in {p, q} : fr[r].lost.why \in {"ceiling", "race"}

\* A write changes no packet but the one its section meant to change: what
\* another section wrote is neither replaced by an older value nor dropped,
\* although sections overlap once a lock was broken at the ceiling.  There are
\* two exceptions: another wrote after this one's last look at the file; or a
\* section that had lost its lock wrote while this one, which did not break
\* that lock, was at work, so that it had no reason to merge.
ChangesKept ==
  [][\A p \in Procs : fr[p].pc = "rename" /\ fr'[p].pc = "release" =>
       \A k \in Packets \ {fr[p].target} :
         \/ file'[k] = file[k]
         \/ fr[p].late
         \/ ~fr[p].merged /\ fr[p].over]_vars

\* Of finitely many sections, each that waits gets in, gives up or dies, even if
\* a holder stalls for ever or died between mkdir and its metadata.
Served == \A p \in Procs : fr[p].pc \in Waiting ~> fr[p].pc \notin Waiting

=============================================================================
