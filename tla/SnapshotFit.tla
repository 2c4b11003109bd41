------------------------------ MODULE SnapshotFit ------------------------------
(***************************************************************************)
(* Which snapshot may be loaded into which VM.  A VM has snapshots of its  *)
(* own, two files with a record of where they come from, and may be saved  *)
(* to the library and restored from there as a bundle with its disks.      *)
(* Between a capture and a restore the definition, the networks and the    *)
(* devices of the running process change, files are written under names    *)
(* that were used before, and bundles are uploaded that claim what they    *)
(* are not.                                                                *)
(*                                                                         *)
(* One VM, under whose mutex each request is served.  What was in memory   *)
(* is told by the moment it was captured at.                               *)
(***************************************************************************)
EXTENDS Naturals, FiniteSets

CONSTANTS
  FileNames,  \* bound: names in the VM's snapshots directory
  Bundles,    \* bound: snapshots of the library
  Machines,   \* CPUs, memory, drives, initrd and terminal of definitions
  Networks,   \* bound: network id -> its name at first
  Names,      \* bound: names of networks
  Addresses,  \* bound: addresses and MACs of the VM
  Bodies,     \* subnet, gateway and policy of networks
  Policies,   \* security settings of the VM
  MaxMoment,  \* bound: changes of the guest's memory
  MaxEdits,   \* bound: changes of definitions of the VM and of networks
  Jailed,     \* the VM's mode: jailed, or trusted in a Firemage-only network
  Foreign,    \* devices of which the VM's definition knows nothing
  Torn,       \* what a capture that was cut off half-way is of: no moment
  None

VARIABLES
  spec,      \* the definition: [machine, net, address, security]; net None if there is none
  nets,      \* network id -> [name, body]
  edits,     \* changes so far
  phase,     \* "stopped", "failed", "starting", "running", "paused"
  now,       \* moments so far
  disk,      \* the moment the VM's disks are of
  guest,     \* the process: [at, machine, body], its memory and what it runs with, or None
  files,     \* name -> [at, machine], what was captured, or None
  records,   \* name of a state file -> its record, or None
  bundle,    \* the library: [claims, address, body, at, machine, disk], or None
  job,       \* the request under way, or None
  loaded     \* what the guest was restored from, or None (a history variable)

vars == <<spec, nets, edits, phase, now, disk, guest, files, records, bundle, job, loaded>>

NetIds  == DOMAIN Networks
Times   == 0..MaxMoment
Moments == Times \cup {Torn}
Devices == Machines \cup {Foreign}
Specs   == [machine : Machines, net : NetIds \cup {None}, address : Addresses, security : Policies]
Capture == [at : Moments, machine : Devices]
Record  == [state : Capture, memory : FileNames, legacy : BOOLEAN, net : NetIds \cup Names \cup {None},
            address : Addresses, body : Bodies \cup {None}, security : Policies]
Saved   == [claims : Machines, address : Addresses, body : Bodies \cup {None},
            at : Times, machine : Devices, disk : Times]

Guest   == [at : Moments, machine : Devices, body : Bodies \cup {None}]
Job     == [op : {"snapshot"}, step : {"state", "memory", "record"}, state : FileNames, memory : FileNames]
   \cup [op : {"restore"}, step : {"tap", "load"}, state : FileNames, memory : FileNames, body : Bodies \cup {None}]
   \cup [op : {"library"}, step : {"tap", "load"}, saved : Saved, disk : Times, body : Bodies \cup {None}]

Body(n) == IF n = None THEN None ELSE nets[n].body

(* What the constants stand for: bounds are numbers, networks have names,   *)
(* Torn is no moment, and None is what is absent.                           *)
FitConstants ==
  /\ MaxMoment \in Nat /\ MaxEdits \in Nat /\ Torn \notin Times
  /\ \A n \in NetIds : Networks[n] \in Names
  /\ None \notin NetIds /\ None \notin Names /\ None \notin Bodies
  /\ None \notin Capture /\ None \notin Guest /\ None \notin Record /\ None \notin Saved /\ None \notin Job

TypeOK ==
  /\ spec \in Specs
  /\ nets \in [NetIds -> [name : Names, body : Bodies]]
  /\ edits \in 0..MaxEdits
  /\ phase \in {"stopped", "failed", "starting", "running", "paused"}
  /\ now \in Times /\ disk \in Times
  /\ guest \in Guest \cup {None}
  /\ files \in [FileNames -> Capture \cup {None}]
  /\ records \in [FileNames -> Record \cup {None}]
  /\ bundle \in [Bundles -> Saved \cup {None}]
  /\ job \in Job \cup {None}
  /\ phase \in {"running", "paused"} <=> guest # None
  /\ phase = "starting" => job # None
  /\ loaded # None => guest # None

(* A VM that has never run, with a snapshot that an older release has left. *)
Init ==
  /\ \E n \in NetIds : spec \in [machine : Machines, net : {n}, address : Addresses, security : Policies]
  /\ \E body \in Bodies : nets = [n \in NetIds |-> [name |-> Networks[n], body |-> body]]
  /\ edits = 0
  /\ phase = "stopped" /\ now = 0 /\ disk = 0 /\ guest = None
  /\ \E s, m \in FileNames :
       /\ s # m
       /\ files = [f \in FileNames |-> IF f \in {s, m} THEN [at |-> 0, machine |-> spec.machine] ELSE None]
       /\ records = [f \in FileNames |-> IF f # s THEN None ELSE
            [state |-> files[s], memory |-> m, legacy |-> TRUE, net |-> nets[spec.net].name,
             address |-> spec.address, body |-> nets[spec.net].body, security |-> spec.security]]
  /\ bundle = [b \in Bundles |-> None]
  /\ job = None /\ loaded = None

-----------------------------------------------------------------------------
Free == job = None

Edit(d) ==
  /\ Free /\ phase \in {"stopped", "failed"}
  /\ d # spec
  /\ edits < MaxEdits /\ edits' = edits + 1
  /\ spec' = d
  /\ UNCHANGED <<nets, phase, now, disk, guest, files, records, bundle, job, loaded>>

(* update_network: nothing refers to it, its name is its own. *)
EditNetwork(n, name, body) ==
  /\ edits < MaxEdits /\ edits' = edits + 1
  /\ spec.net # n
  /\ \A o \in NetIds \ {n} : nets[o].name # name
  /\ nets' = [nets EXCEPT ![n] = [name |-> name, body |-> body]]
  /\ nets' # nets
  /\ UNCHANGED <<spec, phase, now, disk, guest, files, records, bundle, job, loaded>>

Start ==
  /\ Free /\ phase \in {"stopped", "failed"}
  /\ guest' = [at |-> disk, machine |-> spec.machine, body |-> Body(spec.net)]
  /\ phase' = "running"
  /\ UNCHANGED <<spec, nets, edits, now, disk, files, records, bundle, job, loaded>>

(* The guest does something, in memory and on its disks. *)
Tick ==
  /\ phase = "running" /\ now < MaxMoment
  /\ now' = now + 1 /\ disk' = now + 1
  /\ guest' = [guest EXCEPT !.at = now + 1]
  /\ UNCHANGED <<spec, nets, edits, phase, files, records, bundle, job, loaded>>

(* A raw request adds a device, a balloon for one. *)
Raw ==
  /\ Free /\ phase = "running" /\ guest.machine # Foreign
  /\ guest' = [guest EXCEPT !.machine = Foreign]
  /\ UNCHANGED <<spec, nets, edits, phase, now, disk, files, records, bundle, job, loaded>>

PauseOrResume ==
  /\ Free /\ phase \in {"running", "paused"}
  /\ phase' = IF phase = "running" THEN "paused" ELSE "running"
  /\ UNCHANGED <<spec, nets, edits, now, disk, guest, files, records, bundle, job, loaded>>

Stop ==
  /\ Free /\ phase \in {"running", "paused"}
  /\ phase' = "stopped" /\ guest' = None /\ loaded' = None
  /\ UNCHANGED <<spec, nets, edits, now, disk, files, records, bundle, job>>

-----------------------------------------------------------------------------
(* Snapshots of the VM's own *)

AskSnapshot(s, m) ==
  /\ Free /\ phase = "paused" /\ s # m
  /\ job' = [op |-> "snapshot", step |-> "state", state |-> s, memory |-> m]
  /\ UNCHANGED <<spec, nets, edits, phase, now, disk, guest, files, records, bundle, loaded>>

At(op, step) == job # None /\ job.op = op /\ job.step = step

(* Mutant: what is there is replaced. *)
MayWriteAny(f) == TRUE

(* copy_private; without a jail Firecracker writes the files itself. *)
MayWrite(f) == Jailed => files[f] = None

Copy(f, next) ==
  /\ MayWrite(f)
  /\ files' = [files EXCEPT ![f] = [at |-> guest.at, machine |-> guest.machine]]
  /\ job' = [job EXCEPT !.step = next]
  /\ UNCHANGED <<spec, nets, edits, phase, now, disk, guest, records, bundle, loaded>>

CopyState  == At("snapshot", "state") /\ Copy(job.state, "memory")
CopyMemory == At("snapshot", "memory") /\ Copy(job.memory, "record")

(* snapshot_record, of the VM as it is defined. *)
Provenance(s, m) ==
  [state |-> files[s], memory |-> m, legacy |-> FALSE, net |-> spec.net,
   address |-> spec.address, body |-> Body(spec.net), security |-> spec.security]

RecordSnapshot ==
  /\ At("snapshot", "record")
  /\ records' = [records EXCEPT ![job.state] = Provenance(job.state, job.memory)]
  /\ job' = None
  /\ UNCHANGED <<spec, nets, edits, phase, now, disk, guest, files, bundle, loaded>>

(* A step fails, the handler is dropped or the server ends: a file that was *)
(* being written is left as far as it went.                                 *)
SnapshotFails ==
  /\ job # None /\ job.op = "snapshot"
  /\ job' = None
  /\ \/ UNCHANGED files
     \/ \E f \in {job[s] : s \in {job.step} \cap {"state", "memory"}} :
          MayWrite(f) /\ files' = [files EXCEPT ![f] = [at |-> Torn, machine |-> guest.machine]]
  /\ UNCHANGED <<spec, nets, edits, phase, now, disk, guest, records, bundle, loaded>>

(* Mutant: records without a version are taken by the network's name. *)
NormalizedByName(r) ==
  IF r.legacy /\ r.net # None THEN [r EXCEPT !.legacy = FALSE, !.net = spec.net] ELSE [r EXCEPT !.legacy = FALSE]

(* normalize_snapshot_network: a network's name stands for the network that *)
(* has it now; names are no part of definitions.                            *)
Normalized(r) ==
  IF r.legacy /\ r.net # None
  THEN [r EXCEPT !.legacy = FALSE, !.net = CHOOSE n \in NetIds \cup {None} :
          IF n = None THEN \A o \in NetIds : nets[o].name # r.net ELSE nets[n].name = r.net]
  ELSE [r EXCEPT !.legacy = FALSE]

(* Mutant: the record tells only which files belong together. *)
IsOwnFiles(s, m) == records[s].state = files[s] /\ records[s].memory = m

(* ensure_snapshot *)
IsOwn(s, m) == Normalized(records[s]) = Provenance(s, m)

AskRestore(s, m) ==
  /\ Free /\ phase = "stopped" /\ s # m
  /\ files[s] # None /\ files[m] # None /\ records[s] # None
  /\ IsOwn(s, m)
  /\ phase' = "starting"
  /\ job' = [op |-> "restore", step |-> "tap", state |-> s, memory |-> m, body |-> None]
  /\ UNCHANGED <<spec, nets, edits, now, disk, guest, files, records, bundle, loaded>>

NetworkTap ==
  /\ job # None /\ job.step = "tap"
  /\ job' = [job EXCEPT !.step = "load", !.body = Body(spec.net)]
  /\ UNCHANGED <<spec, nets, edits, phase, now, disk, guest, files, records, bundle, loaded>>

Load ==
  /\ At("restore", "load")
  /\ LET s == files[job.state] IN
     /\ guest' = [at |-> files[job.memory].at, machine |-> s.machine, body |-> job.body]
     /\ loaded' = [from |-> "own", at |-> s.at, memory |-> files[job.memory].at, disk |-> disk,
                   record |-> records[job.state]]
  /\ phase' = "paused"
  /\ job' = None
  /\ UNCHANGED <<spec, nets, edits, now, disk, files, records, bundle>>

RestoreFails ==
  /\ job # None /\ job.op = "restore"
  /\ phase' = "failed" /\ job' = None
  /\ UNCHANGED <<spec, nets, edits, now, disk, guest, files, records, bundle, loaded>>

-----------------------------------------------------------------------------
(* The library *)

(* Mutant: devices are not looked at. *)
DevicesFitAny(machine) == TRUE

(* ensure_devices: those of the process are those of the definition. *)
DevicesFit(machine) == machine = spec.machine

(* save_snapshot; the bundle is complete before it is published. *)
Save(b) ==
  /\ Free /\ phase = "paused" /\ Jailed
  /\ DevicesFit(guest.machine)
  /\ bundle' = [bundle EXCEPT ![b] =
       [claims |-> spec.machine, address |-> spec.address, body |-> Body(spec.net),
        at |-> guest.at, machine |-> guest.machine, disk |-> disk]]
  /\ UNCHANGED <<spec, nets, edits, phase, now, disk, guest, files, records, job, loaded>>

(* A bundle is uploaded and trusted: its files are those of its manifest, of *)
(* which nothing else is known to be true.                                   *)
Import(b, claims, machine) ==
  /\ claims # machine /\ bundle[b] = None
  /\ bundle' = [bundle EXCEPT ![b] =
       [claims |-> claims, address |-> spec.address, body |-> Body(spec.net),
        at |-> 0, machine |-> machine, disk |-> 0]]
  /\ UNCHANGED <<spec, nets, edits, phase, now, disk, guest, files, records, job, loaded>>

(* Mutant: the network that the VM has now will do. *)
TargetFitsAnyNetwork(x) == x.claims = spec.machine /\ x.address = spec.address

(* ensure_target and ensure_snapshot_network *)
TargetFits(x) ==
  /\ x.claims = spec.machine
  /\ x.body = None <=> spec.net = None
  /\ x.body # None => x.address = spec.address /\ x.body = Body(spec.net)

AskRestoreSaved(b) ==
  /\ Free /\ phase \in {"stopped", "failed"} /\ Jailed
  /\ bundle[b] # None /\ TargetFits(bundle[b])
  /\ phase' = "starting"
  /\ disk' = bundle[b].disk
  /\ job' = [op |-> "library", step |-> "tap", saved |-> bundle[b], disk |-> disk, body |-> None]
  /\ UNCHANGED <<spec, nets, edits, now, guest, files, records, bundle, loaded>>

LoadSaved ==
  /\ At("library", "load")
  /\ LET x == job.saved IN
     /\ DevicesFit(x.machine)
     /\ guest' = [at |-> x.at, machine |-> x.machine, body |-> job.body]
     /\ loaded' = [from |-> "library", at |-> x.at, memory |-> x.at, disk |-> disk,
                   record |-> x]
  /\ phase' = "paused"
  /\ job' = None
  /\ UNCHANGED <<spec, nets, edits, now, disk, files, records, bundle>>

(* The disks there were are put back. *)
LibraryFails ==
  /\ job # None /\ job.op = "library"
  /\ phase' = "failed" /\ job' = None
  /\ disk' = job.disk
  /\ UNCHANGED <<spec, nets, edits, now, guest, files, records, bundle, loaded>>

Next ==
  \/ \E d \in Specs : Edit(d)
  \/ \E n \in NetIds, name \in Names, body \in Bodies : EditNetwork(n, name, body)
  \/ Start \/ Tick \/ Raw \/ PauseOrResume \/ Stop
  \/ \E s, m \in FileNames : AskSnapshot(s, m) \/ AskRestore(s, m)
  \/ CopyState \/ CopyMemory \/ RecordSnapshot \/ SnapshotFails
  \/ NetworkTap \/ Load \/ RestoreFails
  \/ \E b \in Bundles : \/ Save(b) \/ AskRestoreSaved(b)
                        \/ \E claims \in Machines, machine \in Devices : Import(b, claims, machine)
  \/ LoadSaved \/ LibraryFails

Spec == Init /\ [][Next]_vars

-----------------------------------------------------------------------------
(* A guest that was restored has the memory and the device state of one     *)
(* moment, and of none that was cut off; it has the address it had and its  *)
(* TAP the filter of the network as it was at the capture, under the        *)
(* security settings of then.  From the library it also has the disks it    *)
(* had then, and the machine that the VM's definition says; a snapshot of   *)
(* the VM's own goes over whatever the disks hold by now.  ("restore        *)
(* requires this VM's unchanged managed snapshot")                          *)
RestoredFits ==
  loaded # None =>
    /\ loaded.at = loaded.memory /\ loaded.at # Torn
    /\ guest.body = loaded.record.body
    /\ guest.body # None => spec.address = loaded.record.address
    /\ loaded.from = "own" =>
         /\ spec.security = loaded.record.security
         /\ loaded.record.net = IF loaded.record.legacy /\ spec.net # None THEN nets[spec.net].name ELSE spec.net
    /\ loaded.from = "library" => loaded.disk = loaded.record.disk /\ guest.machine \in {spec.machine, Foreign}

================================================================================
