-------------------------- MODULE RestartAdmission --------------------------
(***************************************************************************)
(* Admission of work against a restart of the desktop application: the     *)
(* files through which native code (Rust) and Node processes exclude each  *)
(* other.  A restart or a CLI installer writes a record into one slot      *)
(* directory; every start of work writes a reader file of its own.  Each   *)
(* side publishes its file first and looks at the other's afterwards.      *)
(*                                                                         *)
(* Sources: crates/o8-restart-safety/src/lib.rs and lease_owner.rs (the    *)
(* restart), src/lib/app-update/work-launch-admission.ts and               *)
(* work-lease-owner.ts (the readers), src/lib/setup/                       *)
(* cli-operation-admission-shared.ts and stable-cli-update.ts (the         *)
(* installers and every Node inspection of the slot).                      *)
(*                                                                         *)
(* Grain.  A step is one file-system operation on a shared path (mkdir,    *)
(* rmdir, create, unlink, readdir), with the reads that cannot matter      *)
(* folded into it.  The mutex of RestartSafety is held from Prepare or     *)
(* BeforeRestart until the native is idle again.  A reader file is removed *)
(* at its own path and no path is used twice, so a file is its owner.      *)
(***************************************************************************)
EXTENDS Naturals, FiniteSets

CONSTANTS
    Natives,     \* application processes on one data directory
    Launches,    \* starts of work, one reader file each
    Rebinding,   \* the launches that bind again, with the pid of their child
    Installers,  \* CLI installer calls
    Observers,   \* Node processes that poll the idle window
    MaxOps,      \* bound: restart reservations
    Crashes,     \* TRUE: a process may die between two steps
    NoPending    \* no reservation

ASSUME AdmissionAssumption ==
    /\ Rebinding \subseteq Launches
    /\ MaxOps \in Nat
    /\ Crashes \in BOOLEAN
    /\ Natives \cap (Launches \cup Installers \cup Observers) = {}
    /\ Launches \cap (Installers \cup Observers) = {}
    /\ Installers \cap Observers = {}

Nodes == Launches \cup Installers \cup Observers
Threads == Natives \cup Nodes
Readers == Launches \cup Installers

\* A record in the slot directory: the reservation of a native, or an installer.
Record == [owner : Natives \cup Installers, id : Nat]
Reservation == [id : Nat, force : BOOLEAN, committed : BOOLEAN, late : BOOLEAN]

ASSUME PendingAssumption == NoPending \notin Reservation

\* A process is not a file, and no process id is the absent one.
ASSUME ThreadAssumption == Threads \cap (Record \cup {NoPending}) = {}

VARIABLES
    dir,       \* the slot directory exists
    aged,      \* it was seen unchanged for the whole grace period
    records,   \* the files in it
    reader,    \* reader[r]: r's reader or lock file: "none", "unbound", "bound"
    overdue,   \* the launches whose unbound grace is over
    gone,      \* dead owners: launches, installers and records of past natives
    pending,   \* pending[n]: the value under n's mutex
    leaving,   \* the natives running the cleanup of a committed restart
    nextId,    \* the ids drawn so far
    pc,        \* pc[t]: the step t takes next
    fr         \* fr[t]: the locals of t

vars == <<dir, aged, records, reader, overdue, gone, pending, leaving, nextId, pc, fr>>
slot == <<dir, aged, records>>
work == <<reader, overdue>>
restart == <<pending, leaving, nextId>>

NoCall == [ret |-> "none", id |-> 0, force |-> FALSE, todo |-> {},
           reap |-> NoPending, held |-> FALSE]

Init ==
    /\ dir = FALSE
    /\ aged = FALSE
    /\ records = {}
    /\ reader = [r \in Readers |-> "none"]
    /\ overdue = {}
    /\ gone = {}
    /\ pending = [n \in Natives |-> NoPending]
    /\ leaving = {}
    /\ nextId = 0
    /\ pc = [t \in Threads |-> "idle"]
    /\ fr = [t \in Threads |-> NoCall]

----------------------------------------------------------------------------
(* Steps *)

At(t, label) == pc[t] = label
Goto(t, label) == pc' = [pc EXCEPT ![t] = label]
Finish(t) == Goto(t, "idle") /\ fr' = [fr EXCEPT ![t] = NoCall]

\* Variant: the bounded grace of a partial record applied to every record.
StaleByAge(rec) == rec \in gone \/ rec.owner \in gone \/ aged

StaleRecord(rec) == rec \in gone \/ rec.owner \in gone
StaleReader(r) == r \in gone \/ (reader[r] = "unbound" /\ r \in overdue)

\* rmdir fails, and changes nothing, unless the directory is empty.
RemoveEmptyDir ==
    /\ dir' = (dir /\ records # {})
    /\ aged' = (aged /\ dir')
    /\ UNCHANGED records

\* Creating or removing a file is a change of the directory.
Publish(rec) == records' = records \cup {rec} /\ aged' = FALSE /\ UNCHANGED dir
Unpublish(old) == records' = records \ old /\ aged' = FALSE /\ UNCHANGED dir

\* Remove the records of dead owners; whether to remove the directory too.
DropStale(t, again, next) ==
    LET stale == {rec \in records : StaleRecord(rec)}
    IN /\ Goto(t, IF stale # {} \/ (dir /\ aged) THEN again ELSE next)
       /\ IF stale # {} THEN Unpublish(stale) ELSE UNCHANGED slot

----------------------------------------------------------------------------
(* RestartSafety::prepare_with_work, with the mutex held until idle *)

Own(n) == {rec \in records : rec.owner = n /\ rec.id = fr[n].id}

\* An unforced call is refused by a reservation that is committed or in time;
\* any other reservation is replaced.
Prepare(n, force) ==
    /\ At(n, "idle")
    /\ nextId < MaxOps
    /\ nextId' = nextId + 1
    /\ pending[n] # NoPending => force \/ (pending[n].late /\ ~pending[n].committed)
    /\ IF pending[n] = NoPending
       THEN /\ Goto(n, IF force THEN "mkdir" ELSE "recover")
            /\ UNCHANGED <<slot, pending>>
       ELSE /\ Unpublish({rec \in records : rec.owner = n /\ rec.id = pending[n].id})
            /\ pending' = [pending EXCEPT ![n] = NoPending]
            /\ Goto(n, "replaced")
    /\ fr' = [fr EXCEPT ![n] = [NoCall EXCEPT !.id = nextId', !.force = force]]
    /\ UNCHANGED <<work, gone, leaving>>

Replaced(n) ==
    /\ At(n, "replaced")
    /\ RemoveEmptyDir
    /\ Goto(n, IF fr[n].force THEN "mkdir" ELSE "recover")
    /\ UNCHANGED <<work, gone, restart, fr>>

\* recover_operations
RecoverOperations(n) ==
    /\ At(n, "recover")
    /\ DropStale(n, "recovered", "mkdir")
    /\ UNCHANGED <<work, gone, restart, fr>>

Recovered(n) ==
    /\ At(n, "recovered")
    /\ RemoveEmptyDir
    /\ Goto(n, "mkdir")
    /\ UNCHANGED <<work, gone, restart, fr>>

\* Creating the directory is the admission; force joins an existing one.
MakeSlot(n) ==
    /\ At(n, "mkdir")
    /\ \/ /\ ~dir
          /\ dir' = TRUE /\ aged' = FALSE
          /\ Goto(n, "write")
          /\ UNCHANGED <<records, fr>>
       \/ dir /\ fr[n].force /\ Goto(n, "write") /\ UNCHANGED <<slot, fr>>
       \/ dir /\ ~fr[n].force /\ Finish(n) /\ UNCHANGED slot
    /\ UNCHANGED <<work, gone, restart>>

Reserve(n) ==
    pending' = [pending EXCEPT ![n] =
        [id |-> fr[n].id, force |-> fr[n].force, committed |-> FALSE, late |-> FALSE]]

\* The record is created, unless the directory went away meanwhile: then force
\* makes it again.  Force takes no inventory and has its reservation at once.
WriteRecord(n) ==
    /\ At(n, "write")
    /\ IF ~dir
       THEN /\ IF fr[n].force THEN Goto(n, "mkdir") /\ UNCHANGED fr ELSE Finish(n)
            /\ UNCHANGED <<slot, pending>>
       ELSE /\ Publish([owner |-> n, id |-> fr[n].id])
            /\ IF fr[n].force
               THEN Reserve(n) /\ Finish(n)
               ELSE /\ Goto(n, "scan")
                    /\ fr' = [fr EXCEPT ![n].ret = "prepared"]
                    /\ UNCHANGED pending
    /\ UNCHANGED <<work, gone, leaving, nextId>>

----------------------------------------------------------------------------
(* check_leases *)

ListReaders(n) ==
    /\ At(n, "scan")
    /\ Goto(n, "check")
    /\ fr' = [fr EXCEPT ![n].todo = {r \in Readers : reader[r] # "none"},
                        ![n].held = FALSE]
    /\ UNCHANGED <<slot, work, gone, restart>>

\* One reader is read and judged; a file that has gone counts as stale.
CheckReader(n) ==
    /\ At(n, "check")
    /\ \E r \in fr[n].todo :
          IF reader[r] = "none" \/ StaleReader(r)
          THEN /\ Goto(n, "reap")
               /\ fr' = [fr EXCEPT ![n].todo = @ \ {r}, ![n].reap = r]
          ELSE /\ fr' = [fr EXCEPT ![n].todo = @ \ {r}, ![n].held = TRUE]
               /\ UNCHANGED pc
    /\ UNCHANGED <<slot, work, gone, restart>>

\* ... and then unlinked at its path.
ReapReader(n) ==
    /\ At(n, "reap")
    /\ reader' = [reader EXCEPT ![fr[n].reap] = "none"]
    /\ Goto(n, "check")
    /\ fr' = [fr EXCEPT ![n].reap = NoPending]
    /\ UNCHANGED <<slot, overdue, gone, restart>>

\* All readers checked: the reservation stands, or its record is taken back.
Prepared(n) ==
    /\ At(n, "check")
    /\ fr[n].todo = {}
    /\ fr[n].ret = "prepared"
    /\ IF fr[n].held
       THEN Unpublish(Own(n)) /\ Goto(n, "refused") /\ UNCHANGED <<fr, pending>>
       ELSE Reserve(n) /\ Finish(n) /\ UNCHANGED slot
    /\ UNCHANGED <<work, gone, leaving, nextId>>

Refused(n) ==
    /\ At(n, "refused")
    /\ RemoveEmptyDir
    /\ Finish(n)
    /\ UNCHANGED <<work, gone, restart>>

----------------------------------------------------------------------------
(* cancel, by a caller or by the timer of the reservation *)

Cancel(n) ==
    /\ At(n, "idle")
    /\ pending[n] # NoPending
    /\ ~pending[n].committed
    /\ Unpublish({rec \in records : rec.owner = n /\ rec.id = pending[n].id})
    /\ pending' = [pending EXCEPT ![n] = NoPending]
    /\ Goto(n, "refused")
    /\ UNCHANGED <<work, gone, leaving, nextId, fr>>

\* The deadline of the reservation passes.
Late(n) ==
    /\ pending[n] # NoPending
    /\ ~pending[n].late
    /\ ~pending[n].committed
    /\ pending' = [pending EXCEPT ![n].late = TRUE]
    /\ UNCHANGED <<slot, work, gone, leaving, nextId, pc, fr>>

----------------------------------------------------------------------------
(* before_restart *)

\* The reservation is current, in time and still owns its record.
BeforeRestart(n) ==
    /\ At(n, "idle")
    /\ pending[n] # NoPending
    /\ ~pending[n].committed
    /\ ~pending[n].late
    /\ [owner |-> n, id |-> pending[n].id] \in records
    /\ Goto(n, IF pending[n].force THEN "commit" ELSE "scan")
    /\ fr' = [fr EXCEPT ![n] = [NoCall EXCEPT !.ret = "inspect", !.id = pending[n].id]]
    /\ UNCHANGED <<slot, work, gone, restart>>

\* The idle window as Node reports it: no live reader, and this reservation
\* alone in the slot.  Lanes, runs and sessions of other kinds may refuse too.
IdleWindow(n) ==
    /\ \A r \in Readers : reader[r] # "none" => StaleReader(r)
    /\ records = Own(n)

InspectWork(n) ==
    /\ At(n, "check")
    /\ fr[n].todo = {}
    /\ fr[n].ret = "inspect"
    /\ \/ ~fr[n].held /\ IdleWindow(n) /\ Goto(n, "scan")
          /\ fr' = [fr EXCEPT ![n].ret = "commit"]
       \/ Finish(n)
    /\ UNCHANGED <<slot, work, gone, restart>>

Recheck(n) ==
    /\ At(n, "check")
    /\ fr[n].todo = {}
    /\ fr[n].ret = "commit"
    /\ IF fr[n].held THEN Finish(n) ELSE Goto(n, "commit") /\ UNCHANGED fr
    /\ UNCHANGED <<slot, work, gone, restart>>

Commit(n) ==
    /\ At(n, "commit")
    /\ IF pending[n].late
       THEN UNCHANGED <<pending, leaving>>
       ELSE /\ pending' = [pending EXCEPT ![n].committed = TRUE]
            /\ leaving' = leaving \cup {n}
    /\ Finish(n)
    /\ UNCHANGED <<slot, work, gone, nextId>>

\* The process ends, after its cleanup or by a crash, and another one starts.
\* Its records stay.
EndNative(n) ==
    /\ n \in leaving \/ Crashes
    /\ gone' = gone \cup {rec \in records : rec.owner = n}
    /\ pending' = [pending EXCEPT ![n] = NoPending]
    /\ leaving' = leaving \ {n}
    /\ Finish(n)
    /\ UNCHANGED <<slot, work, nextId>>

----------------------------------------------------------------------------
(* inspectCliOperationAdmission, in any Node process *)

Inspect(t, ret) ==
    /\ Goto(t, "exists")
    /\ fr' = [fr EXCEPT ![t].ret = ret]

Return(t, blocked) ==
    /\ Goto(t, fr[t].ret)
    /\ fr' = [fr EXCEPT ![t] = [NoCall EXCEPT !.held = blocked, !.id = fr[t].id]]

\* A launch whose slot directory does not exist looks no further.
SlotExists(t) ==
    /\ At(t, "exists")
    /\ IF t \in Launches /\ ~dir
       THEN Return(t, FALSE)
       ELSE Goto(t, "nodeRecover") /\ UNCHANGED fr
    /\ UNCHANGED <<slot, work, gone, restart>>

NodeRecover(t) ==
    /\ At(t, "nodeRecover")
    /\ DropStale(t, "nodeRecovered", "nodeRead")
    /\ UNCHANGED <<work, gone, restart, fr>>

\* Variant: the emptied directory is left to whoever comes next.
LeaveDir(t) ==
    /\ At(t, "nodeRecovered")
    /\ Goto(t, "nodeRead")
    /\ UNCHANGED <<slot, work, gone, restart, fr>>

NodeRecovered(t) ==
    /\ At(t, "nodeRecovered")
    /\ RemoveEmptyDir
    /\ Goto(t, "nodeRead")
    /\ UNCHANGED <<work, gone, restart, fr>>

\* Blocked while the directory exists, whatever is in it, or a live installer
\* lock does; the locks of dead installers are removed.
NodeRead(t) ==
    /\ At(t, "nodeRead")
    /\ reader' = [r \in Readers |->
                     IF r \in Installers \cap gone THEN "none" ELSE reader[r]]
    /\ Return(t, dir \/ \E i \in Installers : reader'[i] # "none")
    /\ UNCHANGED <<slot, overdue, gone, restart>>

----------------------------------------------------------------------------
(* Launches: reserveWorkLaunch and bindWorkLaunch *)

\* Publish the reader, then look at the writer.
ReserveLaunch(l) ==
    /\ At(l, "idle")
    /\ reader' = [reader EXCEPT ![l] = "unbound"]
    /\ Inspect(l, "reserved")
    /\ UNCHANGED <<slot, overdue, gone, restart>>

\* The writer was found: the launch is refused.
RefuseLaunch(l) ==
    /\ fr[l].held
    /\ Goto(l, "unlink")
    /\ UNCHANGED fr

\* The launch is admitted: start binding, at once or when a message arrives.
\* A first binding starts the child; one that binds again does so then.
Reserved(l) ==
    /\ At(l, "reserved")
    /\ RefuseLaunch(l) \/ (~fr[l].held /\ Inspect(l, "open"))
    /\ UNCHANGED <<slot, work, gone, restart>>

\* The reader must still be there and in time.
OpenReader(l) ==
    /\ At(l, "open")
    /\ \/ RefuseLaunch(l)
       \/ /\ ~fr[l].held
          /\ Goto(l, IF reader[l] = "none" \/ StaleReader(l) THEN "unlink" ELSE "bind")
          /\ UNCHANGED fr
    /\ UNCHANGED <<slot, work, gone, restart>>

\* The pid is written into the open file, wherever its path points by now.
WritePid(l) ==
    /\ At(l, "bind")
    /\ reader' = [reader EXCEPT ![l] = IF @ = "none" THEN @ ELSE "bound"]
    /\ Goto(l, "linked")
    /\ UNCHANGED <<slot, overdue, gone, restart, fr>>

\* The file must not have been unlinked, and the writer is looked at again.
StillLinked(l) ==
    /\ At(l, "linked")
    /\ IF reader[l] = "none" THEN Goto(l, "unlink") /\ UNCHANGED fr
                             ELSE Inspect(l, "bound")
    /\ UNCHANGED <<slot, work, gone, restart>>

\* Bound: the child is spawned and the launch binds again, or work runs.
Bound(l) ==
    /\ At(l, "bound")
    /\ \/ RefuseLaunch(l)
       \/ /\ ~fr[l].held
          /\ IF l \in Rebinding /\ fr[l].id = 0
             THEN /\ Goto(l, "exists")
                  /\ fr' = [fr EXCEPT ![l].ret = "open", ![l].id = 1]
             ELSE Goto(l, "running") /\ UNCHANGED fr
    /\ UNCHANGED <<slot, work, gone, restart>>

FinishWork(l) ==
    /\ At(l, "running")
    /\ Goto(l, "unlink")
    /\ UNCHANGED <<slot, work, gone, restart, fr>>

\* Release, after a refusal (which kills a spawned child) or at the exit.
ReleaseReader(l) ==
    /\ At(l, "unlink")
    /\ reader' = [reader EXCEPT ![l] = "none"]
    /\ Goto(l, "done")
    /\ UNCHANGED <<slot, overdue, gone, restart, fr>>

\* The grace of an unbound reader ends; its timestamp is never renewed.
GraceOver(l) ==
    /\ reader[l] = "unbound"
    /\ overdue' = overdue \cup {l}
    /\ UNCHANGED <<slot, reader, gone, restart, pc, fr>>

\* The slot directory stays unchanged for the grace period.
SlotAges ==
    /\ dir /\ ~aged
    /\ aged' = TRUE
    /\ UNCHANGED <<dir, records, work, gone, restart, pc, fr>>

----------------------------------------------------------------------------
(* Installers: withCliInstallerReservation around an update *)

BeginInstall(i) ==
    /\ At(i, "idle")
    /\ Inspect(i, "slot")
    /\ UNCHANGED <<slot, work, gone, restart>>

ClaimSlot(i) ==
    /\ At(i, "slot")
    /\ \/ (fr[i].held \/ dir) /\ Goto(i, "done") /\ UNCHANGED slot
       \/ /\ ~fr[i].held /\ ~dir
          /\ dir' = TRUE /\ aged' = FALSE
          /\ Goto(i, "writeOperation")
          /\ UNCHANGED records
    /\ UNCHANGED <<work, gone, restart, fr>>

WriteOperation(i) ==
    /\ At(i, "writeOperation")
    /\ IF dir THEN Publish([owner |-> i, id |-> 0]) /\ Goto(i, "lock")
              ELSE UNCHANGED slot /\ Goto(i, "done")
    /\ UNCHANGED <<work, gone, restart, fr>>

TakeLock(i) ==
    /\ At(i, "lock")
    /\ reader' = [reader EXCEPT ![i] = "bound"]
    /\ Goto(i, "installing")
    /\ UNCHANGED <<slot, overdue, gone, restart, fr>>

\* The task settles: its lock goes first, then its record.
FinishInstall(i) ==
    /\ At(i, "installing")
    /\ reader' = [reader EXCEPT ![i] = "none"]
    /\ Goto(i, "settle")
    /\ UNCHANGED <<slot, overdue, gone, restart, fr>>

ReleaseOperation(i) ==
    /\ At(i, "settle")
    /\ Unpublish({rec \in records : rec.owner = i})
    /\ Goto(i, "settled")
    /\ UNCHANGED <<work, gone, restart, fr>>

Settled(i) ==
    /\ At(i, "settled")
    /\ RemoveEmptyDir
    /\ Goto(i, "done")
    /\ UNCHANGED <<work, gone, restart, fr>>

----------------------------------------------------------------------------
(* Observers, and the death of a Node process *)

\* getUpdateIdleWindow without a reservation.
Observe(o) ==
    /\ At(o, "idle")
    /\ Inspect(o, "list")
    /\ UNCHANGED <<slot, work, gone, restart>>

\* listWorkLaunches removes the readers of dead owners.
ListWorkLaunches(o) ==
    /\ At(o, "list")
    /\ reader' = [r \in Readers |->
                     IF r \in Launches \cap gone THEN "none" ELSE reader[r]]
    /\ Finish(o)
    /\ UNCHANGED <<slot, overdue, gone, restart>>

NodeDies(r) ==
    /\ Crashes
    /\ pc[r] \notin {"idle", "done"}
    /\ gone' = gone \cup {r}
    /\ Goto(r, "done")
    /\ fr' = [fr EXCEPT ![r] = NoCall]
    /\ UNCHANGED <<slot, work, restart>>

----------------------------------------------------------------------------
NativeStep(n) ==
    \/ Replaced(n) \/ RecoverOperations(n) \/ Recovered(n) \/ MakeSlot(n)
    \/ WriteRecord(n) \/ ListReaders(n) \/ CheckReader(n) \/ ReapReader(n)
    \/ Prepared(n) \/ Refused(n) \/ InspectWork(n) \/ Recheck(n) \/ Commit(n)

InspectStep(t) == SlotExists(t) \/ NodeRecover(t) \/ NodeRecovered(t) \/ NodeRead(t)

LaunchStep(l) ==
    \/ InspectStep(l) \/ Reserved(l) \/ OpenReader(l) \/ WritePid(l)
    \/ StillLinked(l) \/ Bound(l) \/ ReleaseReader(l)

InstallStep(i) ==
    \/ InspectStep(i) \/ ClaimSlot(i) \/ WriteOperation(i) \/ TakeLock(i)
    \/ FinishInstall(i) \/ ReleaseOperation(i) \/ Settled(i)

ObserverStep(o) == InspectStep(o) \/ Observe(o) \/ ListWorkLaunches(o)

Next ==
    \/ \E n \in Natives : \/ NativeStep(n) \/ Cancel(n) \/ Late(n)
                          \/ BeforeRestart(n) \/ EndNative(n)
                          \/ \E force \in BOOLEAN : Prepare(n, force)
    \/ \E l \in Launches : \/ ReserveLaunch(l) \/ LaunchStep(l)
                           \/ FinishWork(l) \/ GraceOver(l)
    \/ \E i \in Installers : BeginInstall(i) \/ InstallStep(i)
    \/ \E o \in Observers : ObserverStep(o)
    \/ \E r \in Readers : NodeDies(r)
    \/ SlotAges

Spec == Init /\ [][Next]_vars

\* Fairness: a native and a Node process that took a step of a call takes the
\* next; the timer of a reservation fires and cancels it; the cleanup of a
\* committed restart ends the process; an installer's commands have timeouts;
\* the idle window is polled.  Nothing makes work end, or begin.
FairSpec ==
    /\ Spec
    /\ \A n \in Natives :
          /\ WF_vars(NativeStep(n)) /\ WF_vars(Late(n))
          /\ WF_vars(pending[n] # NoPending /\ pending[n].late /\ Cancel(n))
          /\ WF_vars(n \in leaving /\ EndNative(n))
    /\ \A l \in Launches : WF_vars(LaunchStep(l))
    /\ \A i \in Installers : WF_vars(InstallStep(i))
    /\ \A o \in Observers : WF_vars(ObserverStep(o))
    /\ WF_vars(SlotAges)

----------------------------------------------------------------------------
(* Properties *)

Labels == {"idle", "replaced", "recover", "recovered", "mkdir", "write", "scan",
           "check", "reap", "refused", "commit", "exists", "nodeRecover",
           "nodeRecovered", "nodeRead", "reserved", "open", "bind", "linked",
           "bound", "running", "unlink", "done", "slot", "writeOperation", "lock",
           "installing", "settle", "settled", "list"}
Returns == {"none", "prepared", "inspect", "commit", "reserved", "open", "bound",
            "slot", "list"}

Frame == [ret : Returns, id : Nat, force : BOOLEAN, todo : SUBSET Readers,
          reap : Readers \cup {NoPending}, held : BOOLEAN]

TypeOK ==
    /\ dir \in BOOLEAN /\ aged \in BOOLEAN
    /\ records \subseteq Record
    /\ reader \in [Readers -> {"none", "unbound", "bound"}]
    /\ overdue \subseteq Launches
    /\ gone \subseteq Readers \cup Record
    /\ pending \in [Natives -> Reservation \cup {NoPending}]
    /\ leaving \subseteq Natives
    /\ nextId \in Nat
    /\ pc \in [Threads -> Labels]
    /\ fr \in [Threads -> Frame]

\* n has promised its caller that no work is running, and is about to restart.
Committed(n) == pending[n] # NoPending /\ pending[n].committed /\ ~pending[n].force

\* While an unforced restart is committed no child process of a launch that
\* binds again (spawnWithWorkAdmission) runs, whatever order the reservation of
\* the restart, the reclaiming of readers, the two bindings, installers and
\* deaths happen in: writer and reader each publish before they look.
NoWorkUnderRestart ==
    \A n \in Natives, l \in Rebinding : ~(Committed(n) /\ pc[l] = "running")

\* The slot file of a standing reservation, and of an installer at work, is in
\* the slot: no recovery, in Rust or in Node, removes it under its live owner.
RecordKept ==
    /\ \A n \in Natives : pending[n] # NoPending =>
          [owner |-> n, id |-> pending[n].id] \in records
    /\ \A i \in Installers : pc[i] \in {"lock", "installing", "settle"} =>
          [owner |-> i, id |-> 0] \in records

\* A closed admission opens again, whoever closed it and wherever it died, as
\* long as some Node process goes on polling the idle window.
AdmissionReopens == dir ~> ~dir
=============================================================================
