---------------------------- MODULE DiskPreparation ----------------------------
(***************************************************************************)
(* What a managed VM boots from: its own copies of the root disk and of    *)
(* data drives, made once; kernel, initrd and seed disk, made anew by every*)
(* preparation; and the init that Firemage adds to OCI images, which runs  *)
(* the workload inside the guest.  Preparations fail, their handlers are   *)
(* dropped and the server crashes between any two steps.  A copy of a file *)
(* of the host runs on a thread of its own: it outlives a handler that is  *)
(* dropped, and goes on beside the next preparation, under whatever the    *)
(* definition has become.  Between runs the definition is edited and files *)
(* of the root disk are read.                                              *)
(*                                                                         *)
(* One VM, under whose mutex all of this happens; calls of Firecracker and *)
(* the states of its process are in VmLifecycle.                           *)
(***************************************************************************)
EXTENDS Naturals, FiniteSets

CONSTANTS
  Assets,       \* bound: what disks are made from
  OciAssets,    \* those of them that are OCI images
  Definitions,  \* VmSpecs: [rootfs, drive, initrd, workload, inputs]; None if absent
  MaxRuns,      \* bound: boots
  MaxStrays,    \* bound: copies of dropped handlers at a time
  Torn,         \* a seed disk that mkfs has not finished, an initrd that two copies write to
  None

VARIABLES
  spec,      \* the definition saved
  phase,     \* state of the row, step of a preparation, or stage of the guest
  disks,     \* "rootfs", "drive" -> [of, whole, init, used], or None
  filling,   \* the disk whose .partial file is being written, or None
  marker,    \* oci-init-version exists
  boot,      \* "kernel", "initrd", "seed" -> the definition it was made for
  run,       \* boots so far
  ended,     \* the run that last ended by itself
  code,      \* /firemage/output/exit-code: the run that wrote it
  kind,      \* what a certain inode of the root disk is
  reader,    \* a request for that inode: what it was found to be, "stat", or None
  used,      \* disks that a guest has written to (a history variable)
  strays,    \* copies that go on though their handlers were dropped: [file, from]
  beside     \* files last made, or replaced, beside such a copy (a history variable)

vars == <<spec, phase, disks, filling, marker, boot, run, ended, code, kind, reader, used, strays, beside>>

Names == {"rootfs", "drive"}
Disk  == [of : Assets, whole : BOOLEAN, init : {"none", "old", "managed"}, used : BOOLEAN]
Idle  == {"defined", "stopped", "failed"}
Steps == {"kernel", "rootfs", "marker", "initrd", "drive", "seed", "mkfs"}
Guest == {"mount", "setup", "userdata", "workload", "kept", "own"}
Copied == {"kernel", "initrd"} \cup Names
Stray  == [file : Copied, from : Definitions]

(* What the constants stand for: disks are made from assets, and None and   *)
(* Torn are the absent file and the unfinished one.                          *)
DiskConstants ==
  /\ \A d \in Definitions : {d.rootfs, d.drive} \subseteq Assets \cup {None}
  /\ OciAssets \subseteq Assets
  /\ MaxRuns \in Nat /\ MaxStrays \in Nat
  /\ None \notin Assets /\ None \notin Definitions /\ None \notin Disk
  /\ None \notin {"rootfs", "drive", "stat", "regular", "directory"}

TypeOK ==
  /\ spec \in Definitions
  /\ phase \in Idle \cup Steps \cup Guest \cup {"ready"}
  /\ disks \in [Names -> Disk \cup {None}]
  /\ filling \in Names \cup {None} /\ (filling # None => filling = phase)
  /\ marker => disks["rootfs"] # None /\ disks["rootfs"].init = "managed"
  /\ boot \in [{"kernel", "initrd", "seed"} -> Definitions \cup {None, Torn}]
  /\ run \in 0..MaxRuns /\ {ended, code} \subseteq 0..run
  /\ kind \in {"regular", "directory"}
  /\ reader \in {None, "stat", "regular", "directory"}
  /\ used \subseteq Names
  /\ strays \subseteq Stray /\ beside \subseteq Copied

(* VmSpec::validate, as far as disks go. *)
Valid(d) == d.workload # "default" => d.rootfs \in OciAssets

(* A new VM, or one that an older release has prepared. *)
Init ==
  /\ spec \in {d \in Definitions : Valid(d)}
  /\ \/ phase = "defined" /\ disks = [n \in Names |-> None]
     \/ /\ phase = "stopped"
        /\ spec.rootfs \in OciAssets /\ spec.drive = None /\ spec.workload = "default"
        /\ disks = [n \in Names |-> IF n = "drive" THEN None ELSE
                      [of |-> spec.rootfs, whole |-> TRUE, init |-> "old", used |-> TRUE]]
  /\ filling = None /\ marker = FALSE
  /\ boot = [n \in {"kernel", "initrd", "seed"} |-> None]
  /\ run = 0 /\ ended = 0 /\ code = 0
  /\ kind = "regular" /\ reader = None
  /\ used = {n \in Names : disks[n] # None}
  /\ strays = {} /\ beside = {}

-----------------------------------------------------------------------------
(* Mutant: the mutex of the VM is not taken to read its files. *)
FreeOfActions == phase \in Idle

(* The mutex of the VM: no reader, and no preparation or guest. *)
Free == phase \in Idle /\ reader = None

(* ensure_workload_init: only disks known to have the present init. *)
KnowsWorkloads(d) == d.workload # "default" /\ disks["rootfs"] # None => marker

(* Mutant: a disk that no guest has used may be exchanged. *)
KeepsUsed(d) == \A n \in used : d[n] = spec[n]

(* Runtime::update: what a disk was made from may not change. *)
KeepsDisks(d) == \A n \in Names : disks[n] # None => d[n] = spec[n]

Edit(d) ==
  /\ Free
  /\ d # spec /\ Valid(d) /\ KnowsWorkloads(d) /\ KeepsDisks(d)
  /\ spec' = d
  /\ phase' = IF phase = "stopped" THEN "stopped" ELSE "defined"
  /\ UNCHANGED <<disks, filling, marker, boot, run, ended, code, kind, reader, used, strays, beside>>

Prepare ==
  /\ Free
  /\ KnowsWorkloads(spec)
  /\ phase' = "kernel"
  /\ UNCHANGED <<spec, disks, filling, marker, boot, run, ended, code, kind, reader, used, strays, beside>>

Goes(next) == phase' = next
Renew(name) == boot' = [boot EXCEPT ![name] = spec]

Kernel ==
  /\ phase = "kernel"
  /\ Renew("kernel")
  /\ Goes("rootfs")
  /\ beside' = beside \ {"kernel"}
  /\ UNCHANGED <<spec, disks, filling, marker, run, ended, code, kind, reader, used, strays>>

(* Another copy to the same place goes on. *)
HasStray(file) == \E s \in strays : s.file = file

(* What it may write over is not known to be whole any more. *)
Making(file) == beside' = IF HasStray(file) THEN beside \cup {file} ELSE beside \ {file}

NewDisk(n, whole) ==
  [of |-> spec[n], whole |-> whole, used |-> FALSE,
   init |-> IF n = "rootfs" /\ spec[n] \in OciAssets THEN "managed" ELSE "none"]

(* Mutant: a disk is written where it stays. *)
FillInPlace(n) ==
  /\ disks' = [disks EXCEPT ![n] = NewDisk(n, FALSE)]
  /\ filling' = n

(* materialize: copies, downloads and images go to a file beside it, *)
Fill(n) ==
  /\ filling' = n
  /\ UNCHANGED disks

(* Mutant: disks are made by every preparation. *)
MissingAlways(n) == TRUE

Missing(n) == disks[n] = None

Begin(n) ==
  /\ phase = n /\ filling = None
  /\ spec[n] # None /\ Missing(n)
  /\ Fill(n)
  /\ UNCHANGED <<spec, phase, marker, boot, run, ended, code, kind, reader, used, strays, beside>>

After(n) == IF n = "drive" THEN "seed" ELSE IF spec[n] \in OciAssets THEN "marker" ELSE "initrd"

(* which is renamed once it is complete; a stray copy writes to the same   *)
(* file, before and after.                                                 *)
Finish(n) ==
  /\ filling = n
  /\ \E whole \in {TRUE, ~HasStray(n)} : disks' = [disks EXCEPT ![n] = NewDisk(n, whole)]
  /\ Making(n)
  /\ filling' = None
  /\ Goes(After(n))
  /\ UNCHANGED <<spec, marker, boot, run, ended, code, kind, reader, used, strays>>

Skip(n) ==
  /\ phase = n
  /\ spec[n] = None \/ ~Missing(n)
  /\ n = "rootfs" => spec[n] # None
  /\ Goes(IF n = "drive" THEN "seed" ELSE "initrd")
  /\ UNCHANGED <<spec, disks, filling, marker, boot, run, ended, code, kind, reader, used, strays, beside>>

Marker ==
  /\ phase = "marker"
  /\ marker' = TRUE
  /\ Goes("initrd")
  /\ UNCHANGED <<spec, disks, filling, boot, run, ended, code, kind, reader, used, strays, beside>>

Mixed(name) == boot' = [boot EXCEPT ![name] = Torn] /\ beside' = beside \cup {name}

Initrd ==
  /\ phase = "initrd"
  /\ \/ spec.initrd = None /\ UNCHANGED <<boot, beside>>
     \/ spec.initrd # None /\ Renew("initrd") /\ Making("initrd")
     \/ spec.initrd # None /\ HasStray("initrd") /\ Mixed("initrd")
  /\ Goes("drive")
  /\ UNCHANGED <<spec, disks, filling, marker, run, ended, code, kind, reader, used, strays>>

(* seed_files: a workload is told to the init by a file of its own. *)
NeedsSeed == spec.inputs # None \/ spec.workload # "default"

(* Mutant: a seed that is no longer needed stays. *)
LeaveSeed == UNCHANGED boot

RemoveSeed == boot' = [boot EXCEPT !["seed"] = None]

Seed ==
  /\ phase = "seed"
  /\ IF NeedsSeed
     THEN boot' = [boot EXCEPT !["seed"] = Torn] /\ Goes("mkfs")
     ELSE RemoveSeed /\ Goes("ready")
  /\ UNCHANGED <<spec, disks, filling, marker, run, ended, code, kind, reader, used, strays, beside>>

SeedDone ==
  /\ phase = "mkfs"
  /\ Renew("seed")
  /\ Goes("ready")
  /\ UNCHANGED <<spec, disks, filling, marker, run, ended, code, kind, reader, used, strays, beside>>

(* A step fails and removes what it has begun. *)
Fails ==
  /\ phase \in Steps
  /\ phase' = "failed"
  /\ filling' = None
  /\ IF phase = "mkfs" THEN RemoveSeed ELSE UNCHANGED boot
  /\ UNCHANGED <<spec, disks, marker, run, ended, code, kind, reader, used, strays, beside>>

(* What the blocking thread of a preparation copies: the kernel of the     *)
(* catalog, and what is not an image to unpack.                            *)
Copying ==
  {f \in Copied : /\ phase = f
                  /\ f \in Names => filling = f /\ spec[f] \notin OciAssets
                  /\ f = "initrd" => spec.initrd # None}

(* The handler is dropped; the next one begins afresh, over partial files  *)
(* as over none, but a copy under way goes on.                             *)
Dropped ==
  /\ phase \in Steps
  /\ phase' \in {"failed", "stopped"}
  /\ filling' = None
  /\ \/ UNCHANGED strays
     \/ Cardinality(strays) < MaxStrays /\ \E f \in Copying : strays' = strays \cup {[file |-> f, from |-> spec]}
  /\ UNCHANGED <<spec, disks, marker, boot, run, ended, code, kind, reader, used, beside>>

(* The server ends, and its threads with it; guests and their disks stay.  *)
Crashed ==
  /\ phase' = IF phase \in Steps THEN "stopped" ELSE phase
  /\ reader' = None /\ filling' = None
  /\ strays' = {}
  /\ UNCHANGED <<spec, disks, marker, boot, run, ended, code, kind, used, beside>>

(* A stray copy writes into the file that has become a disk, whatever a    *)
(* guest keeps there,                                                      *)
StrayWrites(n) ==
  /\ n \in beside /\ HasStray(n) /\ disks[n] # None
  /\ disks' = [disks EXCEPT ![n].whole = FALSE]
  /\ IF n = "rootfs" THEN code' \in {0, code} /\ kind' \in {"regular", "directory"} ELSE UNCHANGED <<code, kind>>
  /\ UNCHANGED <<spec, phase, filling, marker, boot, run, ended, reader, used, strays, beside>>

(* or into the initrd, and ends; that of a kernel puts it in its place.    *)
StrayEnds(s) ==
  /\ s \in strays /\ strays' = strays \ {s}
  /\ \/ UNCHANGED <<boot, beside>>
     \/ s.file = "kernel" /\ boot' = [boot EXCEPT !["kernel"] = s.from] /\ beside' = beside \cup {"kernel"}
     \/ s.file = "initrd" /\ "initrd" \in beside /\ Mixed("initrd")
  /\ UNCHANGED <<spec, phase, disks, filling, marker, run, ended, code, kind, reader, used>>

-----------------------------------------------------------------------------
Exists(n) == IF n \in Names THEN disks[n] # None ELSE boot[n] # None

(* ensure_prepared_assets: a snapshot is loaded over what is there. *)
Restore ==
  /\ Free /\ run < MaxRuns
  /\ \A n \in {"kernel", "rootfs"} \cup (IF NeedsSeed THEN {"seed"} ELSE {})
             \cup {m \in {"initrd", "drive"} : spec[m] # None} : Exists(n)
  /\ run' = run + 1
  /\ phase' = "own"
  /\ used' = {n \in Names : disks[n] # None}
  /\ disks' = [n \in Names |-> IF disks[n] = None THEN None ELSE [disks[n] EXCEPT !.used = TRUE]]
  /\ UNCHANGED <<spec, filling, marker, boot, ended, code, kind, reader, strays, beside>>

Boot ==
  /\ phase = "ready" /\ run < MaxRuns
  /\ run' = run + 1
  /\ phase' = IF disks["rootfs"].init = "none" THEN "own" ELSE "mount"
  /\ used' = {n \in Names : disks[n] # None}
  /\ disks' = [n \in Names |-> IF disks[n] = None THEN None ELSE [disks[n] EXCEPT !.used = TRUE]]
  /\ UNCHANGED <<spec, filling, marker, boot, ended, code, kind, reader, strays, beside>>

(* /firemage-init: the seed is mounted, the workload's mode is read from it, *)
(* then network, attachments, userdata and the workload itself have their   *)
(* turn; an image's own init does what it likes.                            *)
Stage ==
  /\ \/ phase = "mount" /\ boot["seed"] # Torn /\ Goes("setup")
     \/ phase = "setup" /\ Goes(IF spec.inputs # None THEN "userdata" ELSE "workload")
     \/ phase = "userdata" /\ Goes("workload")
  /\ UNCHANGED <<spec, disks, filling, marker, boot, run, ended, code, kind, reader, used, strays, beside>>

(* Mutant: the guest goes down without a word. *)
RecordNone == UNCHANGED code

Record == code' = run

(* finish(), a trap on every exit, those of failed stages too. *)
Exit ==
  /\ phase \in {"mount", "setup", "userdata", "workload"}
  /\ Record
  /\ ended' = run
  /\ Goes(IF phase # "mount" /\ spec.workload = "keep-alive" /\ disks["rootfs"].init = "managed"
          THEN "kept" ELSE "stopped")
  /\ UNCHANGED <<spec, disks, filling, marker, boot, run, kind, reader, used, strays, beside>>

(* Files come and go in a guest that runs. *)
Writes ==
  /\ phase \in Guest
  /\ kind' \in {"regular", "directory"} \ {kind}
  /\ UNCHANGED <<spec, phase, disks, filling, marker, boot, run, ended, code, reader, used, strays, beside>>

(* The VM is stopped, or its process dies. *)
Stop ==
  /\ phase \in Guest \cup {"ready"}
  /\ phase' = "stopped"
  /\ UNCHANGED <<spec, disks, filling, marker, boot, run, ended, code, kind, reader, used, strays, beside>>

-----------------------------------------------------------------------------
(* guest_directory and guest_download: of a stopped VM, one process of a     *)
(* sandboxed reader finds out what the inode is, another reads it.           *)
Browse ==
  /\ Free
  /\ phase = "stopped" /\ disks["rootfs"] # None
  /\ reader' = "stat"
  /\ UNCHANGED <<spec, phase, disks, filling, marker, boot, run, ended, code, kind, used, strays, beside>>

Stat ==
  /\ reader = "stat"
  /\ reader' = kind
  /\ UNCHANGED <<spec, phase, disks, filling, marker, boot, run, ended, code, kind, used, strays, beside>>

(* It is read, is not what was asked for, takes too long or is too large; a *)
(* reader whose handler is dropped is killed.                               *)
ReaderEnds ==
  /\ reader # None
  /\ reader' = None
  /\ UNCHANGED <<spec, phase, disks, filling, marker, boot, run, ended, code, kind, used, strays, beside>>

Next ==
  \/ Prepare \/ Kernel \/ Marker \/ Initrd \/ Seed \/ SeedDone
  \/ \E d \in Definitions : Edit(d)
  \/ \E n \in Names : Begin(n) \/ Finish(n) \/ Skip(n)
  \/ Fails \/ Dropped \/ Crashed
  \/ \E n \in Names : StrayWrites(n)
  \/ \E s \in strays : StrayEnds(s)
  \/ Restore \/ Boot \/ Stage \/ Exit \/ Writes \/ Stop
  \/ Browse \/ Stat \/ ReaderEnds

Spec == Init /\ [][Next]_vars

-----------------------------------------------------------------------------
(* Whatever fails, is dropped, crashes or is edited meanwhile: a disk is    *)
(* made from what the definition names; what guests have written is not    *)
(* made anew; a guest boots with the kernel, initrd and seed of its        *)
(* definition, and with no seed if there is nothing to tell it; a workload *)
(* other than the image's runs only where the init knows such; a disk is   *)
(* complete; and the exit code on it is as recent as the last run that     *)
(* ended by itself.  The exception is a file made while a copy to the same *)
(* place, of a handler that was dropped, still went on: the two mix in it, *)
(* and the copy may write over it later (image.rs); a stray copy of a      *)
(* kernel may replace the one that a later preparation has installed.      *)
DisksHold ==
  /\ \A n \in Names : disks[n] # None => (n \notin beside => disks[n].whole) /\ disks[n].of = spec[n]
  /\ \A n \in used : disks[n] # None /\ disks[n].used
  /\ phase \in {"ready", "mount"} =>
       /\ "kernel" \notin beside => boot["kernel"] = spec
       /\ spec.initrd # None /\ "initrd" \notin beside => boot["initrd"] = spec
       /\ boot["seed"] = IF NeedsSeed THEN spec ELSE None
  /\ phase = "workload" /\ spec.workload # "default" => disks["rootfs"].init = "managed"
  /\ "rootfs" \notin beside => ended <= code

(* What a reader has found an inode to be is what it still is, on a root    *)
(* disk that no stray copy writes to.                                       *)
ReadsFit == reader \in {"regular", "directory"} /\ "rootfs" \notin beside => reader = kind

=============================================================================
