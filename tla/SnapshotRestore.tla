--------------------------- MODULE SnapshotRestore ---------------------------
(***************************************************************************)
(* A VM that is saved to the snapshot library, restored from it and        *)
(* deleted together with its snapshots.  A restore moves the VM's disks    *)
(* into a backup directory, installs those of the snapshot, starts a       *)
(* process from them and moves everything back when a step fails.  What    *)
(* start, pause and stop do in detail is in VmLifecycle.                   *)
(***************************************************************************)
EXTENDS Library

CONSTANTS
  Disks,      \* bound: rootfs.ext4, kernel and drives: in every snapshot of this VM
  Extras,     \* bound: initrd, oci-init-version, egress-bootstrap: in a VM's directory only
  Requests    \* bound: restores and deletions of the VM, each served once

ASSUME RestoreConstants ==
  /\ Disks \cap Extras = {}
  /\ Requests \cap (Handlers \cup {"own", "fresh", "boot", None}) = {}
  /\ None \notin {"own", "fresh", "boot", "restore"}

VARIABLES
  dir,       \* the VM's directory: whose each file is: the VM's "own", "fresh", or of a restore
  backup,    \* the restore-backup directory of each restore; None: there is none
  state,     \* the VM's row
  proc,      \* its process: None, "boot" or the restore whose disks it was started from
  lock,      \* the VM's mutex
  q,         \* the requests
  captured   \* snapshots that name this VM as their source

vm   == <<dir, backup, state, proc, lock, q, captured>>
vars == <<library, vm>>

Files   == Disks \cup Extras
Owners  == {"own", "fresh", None} \cup Requests
Ended   == {"given", "undone", "unknown", "half", "refused", "cut"}
Restore == [op : {"restore"},
            step : {"verify", "install", "launch", "spawn", "load", "loaded", "error", "undo", "rollback"} \cup Ended,
            name : Names, old : SUBSET Files, new : SUBSET Disks, before : [Files -> Owners]]
Removal == [op : {"delete"}, step : {"disks", "snapshots", "row"} \cup Ended, purge : BOOLEAN]

ASSUME NoneIsNoBackup == None \notin [Files -> Owners]

TypeOK ==
  /\ LibraryTypeOK
  /\ dir \in [Files -> Owners]
  /\ backup \in [Requests -> [Files -> Owners] \cup {None}]
  /\ state \in {"stopped", "failed", "starting", "running", "paused", "unknown", "deleted"}
  /\ proc \in {None, "boot"} \cup Requests
  /\ lock \in Requests \cup Handlers \cup {None}
  /\ q \in [Requests -> Restore \cup Removal \cup {Idle}]
  /\ captured \subseteq Names

Init ==
  /\ LibraryInit
  /\ dir = [f \in Files |-> "own"]
  /\ backup = [r \in Requests |-> None]
  /\ state = IF kind = "snapshots" THEN "stopped" ELSE "deleted"
  /\ proc = None
  /\ lock = None
  /\ q = [r \in Requests |-> Idle]
  /\ captured = {}

-----------------------------------------------------------------------------
At(r, steps) == q[r] # Idle /\ q[r].step \in steps
To(r, step)  == q' = [q EXCEPT ![r].step = step] /\ lock' = IF step \in Ended THEN None ELSE lock
Stopped      == state \in {"stopped", "failed"} /\ proc = None

(* Start: missing disks are made again from the VM's assets. *)
Start ==
  /\ lock = None
  /\ Stopped
  /\ dir' = [f \in Files |-> IF f \in Disks /\ dir[f] = None THEN "fresh" ELSE dir[f]]
  /\ proc' = "boot"
  /\ state' = "running"
  /\ UNCHANGED <<library, backup, lock, q, captured>>

(* Pause, or refresh of a process that is paused. *)
Pause ==
  /\ lock = None
  /\ proc # None
  /\ state \in {"running", "starting", "unknown"}
  /\ state' = "paused"
  /\ UNCHANGED <<library, dir, backup, proc, lock, q, captured>>

(* Stop, or refresh of a process that has ended. *)
Stop ==
  /\ lock = None
  /\ state \notin {"deleted", "stopped", "failed"}
  /\ state' = "stopped"
  /\ proc' = None
  /\ UNCHANGED <<library, dir, backup, lock, q, captured>>

-----------------------------------------------------------------------------
(* save_snapshot keeps the VM's mutex until the library has the archive. *)
AskSave(i, n, a, c) ==
  /\ kind = "snapshots"
  /\ lock = None
  /\ state = "paused"
  /\ AskPut(i, n, a, c, TRUE)
  /\ h'[i].step = "again"
  /\ lock' = i
  /\ captured' = captured \cup {n}
  /\ UNCHANGED <<dir, backup, state, proc, q>>

(* Mutant: save gives the VM's mutex back once the disks are copied. *)
ReleasedEarly == IF lock \in Handlers THEN None ELSE lock

Released == IF lock \in Handlers /\ h'[lock] = Done THEN None ELSE lock

LibraryAlone ==
  /\ LibraryStep
  /\ lock' = Released
  /\ captured' = {n \in captured : row'[n] # None \/ (Used(n))'}
  /\ UNCHANGED <<dir, backup, state, proc, q>>

-----------------------------------------------------------------------------
(* Restore *)

AskRestore(r, n) ==
  /\ q[r] = Idle
  /\ lock = None
  /\ row[n] # None
  /\ Stopped
  /\ lock' = r
  /\ q' = [q EXCEPT ![r] = [op |-> "restore", step |-> "verify", name |-> n, old |-> {}, new |-> {}, before |-> dir]]
  /\ UNCHANGED <<library, dir, backup, state, proc, captured>>

(* verified_snapshot and ensure_target; then the backup directory is made. *)
Verify(r) ==
  /\ At(r, {"verify"})
  /\ mutex = None
  /\ LET n == q[r].name IN
       \/ /\ row[n] # None
          /\ row[n].trusted
          /\ file[n] = row[n].content
          /\ backup' = [backup EXCEPT ![r] = [f \in Files |-> None]]
          /\ To(r, "install")
       \/ To(r, "refused") /\ UNCHANGED backup
  /\ UNCHANGED <<library, dir, state, proc, captured>>

(* Mutant: the disks of the snapshot are renamed over those of the VM. *)
MovesNone(r) == {}

Moves(r) == {f \in Files : dir[f] # None} \ q[r].new

MoveOld(r, f) ==
  /\ At(r, {"install"})
  /\ q[r].new = {}
  /\ f \in Moves(r)
  /\ dir' = [dir EXCEPT ![f] = None]
  /\ backup' = [backup EXCEPT ![r][f] = dir[f]]
  /\ q' = [q EXCEPT ![r].old = @ \cup {f}]
  /\ UNCHANGED <<library, state, proc, lock, captured>>

PutNew(r, f) ==
  /\ At(r, {"install"})
  /\ Moves(r) = {}
  /\ f \in Disks \ q[r].new
  /\ dir' = [dir EXCEPT ![f] = r]
  /\ q' = [q EXCEPT ![r].new = @ \cup {f}, ![r].step = IF q[r].new \cup {f} = Disks THEN "launch" ELSE "install"]
  /\ UNCHANGED <<library, backup, state, proc, lock, captured>>

(* A rename of DiskSwap::install fails. *)
InstallFails(r) ==
  /\ At(r, {"install"})
  /\ Fault
  /\ To(r, "undo")
  /\ UNCHANGED <<kind, file, row, mutex, h, late, cut, dir, backup, state, proc, captured>>

Launch(r) ==
  /\ At(r, {"launch"})
  /\ state' = "starting"
  /\ To(r, "spawn")
  /\ UNCHANGED <<library, dir, backup, proc, captured>>

Spawn(r) ==
  /\ At(r, {"spawn"})
  /\ proc' = r
  /\ To(r, "load")
  /\ UNCHANGED <<library, dir, backup, state, captured>>

Load(r) ==
  /\ At(r, {"load"})
  /\ state' = "paused"
  /\ To(r, "loaded")
  /\ UNCHANGED <<library, dir, backup, proc, captured>>

(* DiskSwap::commit; if it fails the backup stays. *)
Commit(r) ==
  /\ At(r, {"loaded"})
  /\ backup' \in {backup, [backup EXCEPT ![r] = None]}
  /\ To(r, "given")
  /\ UNCHANGED <<library, dir, state, proc, captured>>

RestoreFails(r) ==
  /\ At(r, {"launch", "spawn", "load"})
  /\ Fault
  /\ To(r, "error")
  /\ UNCHANGED <<kind, file, row, mutex, h, late, cut, dir, backup, state, proc, captured>>

(* Mutant: what could not be stopped is left to itself. *)
LeavesProcess(r) == UNCHANGED proc /\ To(r, "rollback") /\ UNCHANGED state

KillFails(r) == UNCHANGED proc /\ state' = "unknown" /\ To(r, "unknown")

StopProcess(r) ==
  /\ At(r, {"error"})
  /\ \/ proc' = None /\ To(r, "rollback") /\ UNCHANGED <<state, faults>>
     \/ proc # None /\ Fault /\ KillFails(r)
  /\ UNCHANGED <<kind, file, row, mutex, h, late, cut, dir, backup, captured>>

RemoveNew(r, f) ==
  /\ At(r, {"undo", "rollback"})
  /\ f \in q[r].new
  /\ dir' = [dir EXCEPT ![f] = None]
  /\ q' = [q EXCEPT ![r].new = @ \ {f}]
  /\ UNCHANGED <<library, backup, state, proc, lock, captured>>

PutOld(r, f) ==
  /\ At(r, {"undo", "rollback"})
  /\ q[r].new = {}
  /\ f \in q[r].old
  /\ dir' = [dir EXCEPT ![f] = backup[r][f]]
  /\ backup' = [backup EXCEPT ![r][f] = None]
  /\ q' = [q EXCEPT ![r].old = @ \ {f}]
  /\ UNCHANGED <<library, state, proc, lock, captured>>

RolledBack(r) ==
  /\ At(r, {"undo", "rollback"})
  /\ q[r].new = {}
  /\ q[r].old = {}
  /\ backup' = [backup EXCEPT ![r] = None]
  /\ state' = IF q[r].step = "rollback" THEN "failed" ELSE state
  /\ To(r, "undone")
  /\ UNCHANGED <<library, dir, proc, captured>>

(* Mutant: a rollback that failed is reported like any failure. *)
ReportedFailed(r) == IF q[r].step = "rollback" THEN "failed" ELSE state

Reported(r) == IF q[r].step = "rollback" THEN "unknown" ELSE state

RollbackFails(r) ==
  /\ At(r, {"undo", "rollback"})
  /\ Fault
  /\ state' = Reported(r)
  /\ To(r, IF q[r].step = "rollback" THEN "unknown" ELSE "half")
  /\ UNCHANGED <<kind, file, row, mutex, h, late, cut, dir, backup, proc, captured>>

-----------------------------------------------------------------------------
(* delete_with_snapshots *)

AskRemove(r, p) ==
  /\ q[r] = Idle
  /\ lock = None
  /\ Stopped
  /\ lock' = r
  /\ q' = [q EXCEPT ![r] = [op |-> "delete", step |-> "disks", purge |-> p]]
  /\ UNCHANGED <<library, dir, backup, state, proc, captured>>

RemoveDisks(r) ==
  /\ At(r, {"disks"})
  /\ dir' = [f \in Files |-> None]
  /\ backup' = [b \in Requests |-> None]
  /\ To(r, IF q[r].purge THEN "snapshots" ELSE "row")
  /\ UNCHANGED <<library, state, proc, captured>>

(* delete_vm_snapshots, under the library's mutex: all of them, or some    *)
(* when one cannot be deleted, of which one may be left without its file.  *)
RemoveSnapshots(r) ==
  /\ At(r, {"snapshots"})
  /\ mutex = None
  /\ LET all == {n \in captured : row[n] # None} IN
       \E done \in SUBSET all, half \in SUBSET all :
         /\ row' = [n \in Names |-> IF n \in done THEN None ELSE row[n]]
         /\ file' = [n \in Names |-> IF n \in done \cup half THEN None ELSE file[n]]
         /\ cut' = (cut \ done) \cup half
         /\ captured' = captured \ done
         /\ \/ done = all /\ half = {} /\ To(r, "row") /\ UNCHANGED faults
            \/ done # all /\ half \cap done = {} /\ Cardinality(half) <= 1 /\ Fault /\ To(r, "refused")
  /\ UNCHANGED <<kind, mutex, h, late, dir, backup, state, proc>>

RemoveRow(r) ==
  /\ At(r, {"row"})
  /\ state' = "deleted"
  /\ To(r, "given")
  /\ UNCHANGED <<library, dir, backup, proc, captured>>

-----------------------------------------------------------------------------
(* The client disconnects while the request waits.  What DiskSwap does is  *)
(* not interrupted so.                                                     *)
Disconnect(r) ==
  /\ At(r, {"verify", "launch", "spawn", "load", "error", "snapshots", "row"})
  /\ Fault
  /\ To(r, "cut")
  /\ UNCHANGED <<kind, file, row, mutex, h, late, cut, dir, backup, state, proc, captured>>

(* The server ends; the VM's process need not. *)
ServerCrash ==
  /\ Crash
  /\ q' = [r \in Requests |-> IF q[r] # Idle /\ q[r].step \notin Ended THEN [q[r] EXCEPT !.step = "cut"] ELSE q[r]]
  /\ lock' = None
  /\ proc' \in {proc, None}
  /\ captured' = {n \in captured : row[n] # None}
  /\ UNCHANGED <<dir, backup, state>>

Next ==
  \/ LibraryAlone
  \/ Start \/ Pause \/ Stop
  \/ \E i \in Handlers, n \in Names, a \in Aliases, c \in Contents : AskSave(i, n, a, c)
  \/ \E r \in Requests :
       \/ \E n \in Names : AskRestore(r, n)
       \/ Verify(r) \/ InstallFails(r) \/ Launch(r) \/ Spawn(r) \/ Load(r) \/ Commit(r)
       \/ RestoreFails(r) \/ StopProcess(r) \/ RolledBack(r) \/ RollbackFails(r)
       \/ \E f \in Files : MoveOld(r, f) \/ PutNew(r, f) \/ RemoveNew(r, f) \/ PutOld(r, f)
       \/ \E p \in BOOLEAN : AskRemove(r, p)
       \/ RemoveDisks(r) \/ RemoveSnapshots(r) \/ RemoveRow(r)
       \/ Disconnect(r)
  \/ ServerCrash

Spec == Init /\ [][Next]_vars

-----------------------------------------------------------------------------
IsRestore(r) == q[r] # Idle /\ q[r].op = "restore"
IsRemoval(r) == q[r] # Idle /\ q[r].op = "delete"

(* "The backup survives cancellation or failed process cleanup until an    *)
(* explicit rollback/commit": whatever is interrupted, a disk of the VM    *)
(* exists until a restore has succeeded or the VM is deleted.              *)
OriginalsKept ==
  \A f \in Files :
    \/ dir[f] = "own"
    \/ \E r \in Requests : backup[r] # None /\ backup[r][f] = "own"
    \/ \E r \in Requests : IsRemoval(r) \/ (IsRestore(r) /\ At(r, {"given"}))

(* The disks of a restored VM that still runs are those of its snapshot,   *)
(* and nothing else that it could have read at its start.                  *)
LiveDisksStay ==
  proc \in Requests => \A f \in Files : dir[f] = IF f \in Disks THEN proc ELSE None

(* A restore that is answered leaves the disks of the snapshot or those    *)
(* there were before it, or says "unknown"; except when an installation    *)
(* could not be undone.                                                    *)
AllOrNothing ==
  [][\A r \in Requests :
       IsRestore(r) /\ q[r].step \notin Ended /\ q'[r].step \in Ended \ {"cut", "half"} =>
         \/ state' = "unknown"
         \/ dir' = IF q'[r].step = "given" THEN [f \in Files |-> IF f \in Disks THEN r ELSE None] ELSE q[r].before]_vars

(* No snapshot is left of a VM that was deleted with its snapshots, also   *)
(* when one was being saved.                                               *)
PurgedStayGone ==
  (\E r \in Requests : IsRemoval(r) /\ q[r].purge /\ At(r, {"given"})) =>
    \A n \in captured : row[n] = None

(* The library's rows, archives and names agree, for whoever looks.          *)
CatalogHolds == Coherent /\ AliasesUnique

(* The disks of the VM survive its restores, and a guest keeps those it has. *)
DisksSurvive == OriginalsKept /\ LiveDisksStay

(* Whatever is cut off: no step puts an archive over another or brings back  *)
(* an interrupted one, and none leaves a restore half done.                  *)
StepsWhole == NoClobber /\ InterruptedStaysOut /\ AllOrNothing

-----------------------------------------------------------------------------
(* The inductive invariant behind these, besides LibraryInv.                 *)

Active(r) == q[r] # Idle /\ q[r].step \notin Ended

(* A request under way has the VM's mutex.                                   *)
Locked == \A r \in Requests : Active(r) => lock = r

(* A restore has no backup until it has verified the snapshot.               *)
NoBackupYet == \A r \in Requests : q[r] = Idle \/ At(r, {"verify"}) => backup[r] = None

(* Where each file is while the disks are moved, there or back: an old file  *)
(* that was moved is in the backup, one that was not is in its place.        *)
Moved(r) ==
  /\ backup[r] # None
  /\ \A f \in Files :
       /\ f \in q[r].new => dir[f] = r
       /\ IF f \in q[r].old
          THEN /\ backup[r][f] = q[r].before[f]
               /\ f \notin q[r].new => dir[f] = None
          ELSE /\ backup[r][f] = None
               /\ q[r].before[f] = IF f \in q[r].new THEN None ELSE dir[f]

Installed(r) == \A f \in Files : dir[f] = IF f \in Disks THEN r ELSE None

DisksInOrder ==
  \A r \in Requests :
    /\ At(r, {"verify"}) => dir = q[r].before /\ q[r].old = {} /\ q[r].new = {}
    /\ At(r, {"install", "launch", "spawn", "load", "loaded", "error", "undo", "rollback"}) => Moved(r)
    /\ At(r, {"launch", "spawn", "load", "loaded", "error"}) => Installed(r)

(* Nothing runs while the disks are moved or removed.                        *)
NothingRuns ==
  \A r \in Requests :
    At(r, {"verify", "install", "launch", "spawn", "undo", "rollback", "disks", "snapshots", "row"}) => proc = None

(* A VM that is deleted is not restored.                                     *)
RestoresExist == \A r \in Requests : IsRestore(r) /\ Active(r) => state # "deleted"

(* A snapshot of the VM is in the library, or the save of it has the mutex.  *)
CapturedKnown ==
  \A n \in captured :
    /\ kind = "snapshots"
    /\ row[n] # None \/ \E i \in Handlers : lock = i /\ h[i] \in Put /\ h[i].name = n

(* Once the snapshots are removed, none comes back.                          *)
PurgeDone ==
  \A r \in Requests : IsRemoval(r) /\ q[r].purge =>
    /\ At(r, {"row", "given"}) => captured = {}
    /\ At(r, {"given"}) => state = "deleted"

IInv ==
  /\ TypeOK
  /\ LibraryInv
  /\ Locked
  /\ NoBackupYet
  /\ DisksInOrder
  /\ NothingRuns
  /\ RestoresExist
  /\ CapturedKnown
  /\ PurgeDone
  /\ DisksSurvive
=============================================================================
