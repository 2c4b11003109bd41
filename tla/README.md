# Firemage in TLA+

Firemage is a server that runs Firecracker virtual machines: it keeps their
definitions in a database, makes their disks from images, launches one
Firecracker process for each, connects them through TAP devices and nft tables,
lets them out through an egress engine that enforces policies, saves and
restores them, and gives administrators a console and a shell in the guest.
This directory holds models of the parts of it where steps interleave, fail or
are cut off, the TLC configurations that check them, and proofs.

All paths are below `src/`. `runtime/…` stands for `crates/runtime/src/…`, and
likewise for the other crates; `webui/…` for itself.

## Contents

1. Inventory of the system
2. The modules
3. What each run checks
4. Bounds and fairness
5. What is proved
6. Where code and documentation disagree
7. Limits
8. Plan

## 1. Inventory

| Component | State | Operations | What is hard | Model |
|---|---|---|---|---|
| VM lifecycle (`runtime/lifecycle.rs`, `launch.rs`, `prepare.rs`, `refresh.rs`, `stopped.rs`, `process.rs`, `edit.rs`, `manager.rs`) | the `vms` row (state, error, pid, process_start); the table of children; the API socket; the processes | launch, prepare, start, pause, resume, shutdown, stop, snapshot, restore, metadata, refresh, raw request, update, delete, output | handlers dropped at any await; API calls that time out after they took effect; processes that outlive the server; identity of a process after a restart | `VmLifecycle` |
| Live egress updates (`runtime/egress_catalog`, `network/live.rs`) | policies, proxies and bindings in the database; marker files; gates; nft rules; registrations | save a policy or a proxy, assign a policy, recover at startup | one change over many VMs and four kinds of state; failure of the rollback itself; crash between any two effects | `EgressUpdate`, `EgressAccess` |
| Named mutexes (`runtime/manager.rs`) | one mutex per VM id and one for each of `egress-catalog`, `file-assets`, `kernels`, `networks`, `snapshot-library`, `users` | every handler; the refresher of `server/app.rs` | lock order; references checked under one mutex and deleted under another | `ResourceLocks` |
| Egress engine (`egress-proxy`, `egress-policy/policy.rs`) | registrations, listeners, connections with permits | register, unregister, replace many; accept, CONNECT, forward, tunnel | connections that outlive their policy; a call dropped while it waits for them; permits shared by nested tasks | `EgressEngine` |
| Catalogs of files (`runtime/snapshot_library`, `file_assets`, `kernels.rs`, `catalog-files`) | files, rows, aliases | upload, save, import, rename, delete, adopt at startup | file and row written apart; an import that gives its mutex back during a download | `Library` |
| Restoring snapshots (`runtime/snapshot_library/restore*.rs`, `snapshot.rs`, `isolation/snapshots.rs`) | the VM's disks and their backup; the process; records of a VM's own snapshots | capture, restore, restore from the library, delete with snapshots | a rollback that fails; a process that cannot be stopped on disks that are to be moved; files and networks that changed since the capture | `SnapshotRestore`, `SnapshotFit` |
| Networks, addresses, jail identities (`server/resources/networks.rs`, `runtime/addressing.rs`, `network.rs`, `isolation/identity.rs`) | networks, addresses in definitions, TAPs, user ids | create, edit, delete, duplicate, suggest, start, delete half-way | uniqueness over definitions that are read outside the mutex; ids given out again | `HostResources` |
| Web shell and guest agent (`server/web_shell/relay.rs`, `runtime/web_shell.rs`, `guest`) | streams, a poll loop's flags, a process group | open, input, output, exit, hang up | bounded buffers; the order of output and exit; processes that outlive the shell | `GuestShell` |
| Users and credentials (`queries/management.rs`, `server/users.rs`, `login.rs`, `tokens.rs`, `browser`, `web_shell/tickets.rs`) | users, credentials, OIDC states, tickets, shells | create, change, disable, delete, log in, issue and use a ticket | the last administrator; revocation beside logins under way; use once | `Accounts` |
| OCI images (`oci/registry`, `oci/extract`) | a pull; a tree with metadata kept aside | pull by tag or digest; apply layers, finalize | moving tags, redirects and challenges; whiteouts, links and replaced entries | `OciRegistry`, `OciLayers` |
| Disks, seed and guest files (`runtime/isolation/assets.rs`, `seed.rs`, `guest_files.rs`, `assets`) | the files in a VM's directory; the init's record on the disk | prepare, boot, read files | preparations cut off at any file, whose copies go on; edits in between; what exists is not made anew | `DiskPreparation` |
| Configuration (`config`, `webui/page-config`) | a TOML file, its temporary file and lock, overrides | load, validate, save; edits on the host | two administrators and the operator on one file; placeholders and masked values | `ManagedConfig` |
| Web console (`webui/page-vms`, `view-vm-detail`, `view-vm-editor`, `view-environment`, `view-boot`) | a page, its polls, dialogs, a draft | edit a section, edit in fields or text, stop, delete | late answers; whole definitions saved without a revision | `VmConsole` |
| Firewall rules, secrets, wire types, schema, CLI, client | texts made in one go, or declarative | | | not modelled: see section 7 |

How they interact: an HTTP handler of `server` calls `Runtime`, which takes
mutexes, reads the row, talks to Firecracker over its socket, to the host with
`ip` and `nft`, to the egress engine in memory, and writes the row. The future of
a handler is dropped when its client disconnects, which releases its mutexes at
whatever await it stood. When the server ends, the children table and the
engine's registrations are lost; processes, TAP devices, nft tables, rows and
marker files are not. On start the server migrates old definitions, recovers
egress for every row and only then spawns the refresher and answers requests.
The console calls the same HTTP interface as everybody else, and the shell runs
over the VM's vsock socket to the agent in the guest.

What makes each part correct:

- lifecycle: one process per VM; a row that says inactive tells the truth; files
  are touched only without a process (all three while the server has not lost a process,
  section 6); a row never stays `starting`;
- egress: no guest has access other than the stored policy grants, at any
  moment; a guest left blocked can be found and repaired;
- mutexes: no circular wait; no definition refers to what has been deleted;
- engine: what is connected to is what the policy in force allows; connections of
  a policy that is gone are cancelled and waited for; a guest stays in its permits;
- catalogs and snapshots: rows and files agree; a failed restore loses no disk;
  a guest that is restored has memory and device state of one moment, and from the library
  the disks of that moment;
- host: no two VMs have one address or user id, and a TAP filters as its network says;
- shell: what is seen is what happened, in order; places are freed, and so is every process
  that the one scan of `/proc` can see;
- users: an administrator remains; what was revoked stays away; use once;
- images and disks: secrets go to the registry only; an image is of one manifest;
  metadata fits the tree; disks are whole and those of the definition;
- configuration: a save replaces nothing written before it began that was not shown;
  console: a save of a section replaces nothing else of what it has read.

`PROJECT.json` lists the hazards one by one with their lines and the properties
that cover them.

## 2. The modules

| Module | Stands for |
|---|---|
| `VmLifecycle` | one managed VM with its processes, and every handler on it |
| `VmLifecycleProofs` | proofs of its safety, and of what its steps may do |
| `EgressAccess` | what the catalog promises about guests, abstractly |
| `EgressUpdate` | live updates, rollback, recovery, next to the lifecycle reduced to its network effects; implements `EgressAccess` |
| `EgressUpdateProofs` | proofs of its safety, of the refinement and of what recovery can rely on |
| `ResourceLocks` | the mutexes each handler takes, in order, and the references they protect |
| `ResourceLocksProofs` | proofs that nobody waits in a circle and no reference dangles |
| `EgressEngine` | registrations, listeners, connections and what they forward |
| `EgressEngineProofs` | proofs of its safety |
| `Accounts` | users, credentials, logins, tickets and the shells opened with them |
| `AccountsProofs` | proofs of its safety and of what its steps may do |
| `Library` | a catalog of files beside rows: snapshots, assets or kernels |
| `SnapshotRestore` | a VM that is saved to a `Library` of snapshots, restored from it and deleted with its snapshots; extends `Library` |
| `SnapshotRestoreProofs` | proofs of the safety of both, and of what a step may do |
| `GuestShell` | relay, stream, session of the guest agent and shell |
| `GuestShellProofs` | proofs that the streams are in order and that no process outlives its session |
| `OciRegistry`, `OciLayers` | pulling an image; laying its layers over each other |
| `HostResources` | addresses, TAPs and user ids of all VMs |
| `DiskPreparation` | the disks, kernel, initrd and seed of one VM, through edits and boots |
| `SnapshotFit` | which snapshot may be loaded into a VM whose definition and networks change |
| `ManagedConfig` | the configuration file between consoles and the host |
| `VmConsole` | the browser's page and form of one VM, beside other administrators |
| `Components` | `OciRegistry`, `OciLayers` and the five above, which share no state, in one specification |
| `ComponentsProofs` | proofs of the safety of the seven, each by itself and in `Components` |
| `MC…` | constants and symmetry for TLC |

### VmLifecycle

`row` is the row (state, pid, process_start); `proc` the Firecracker processes,
numbered by launch, with their API state and the devices configured; `sock` the
process that bound the socket node last; `child` the entry in
`Runtime::children`; `tap` and `eng` the network; `h` the handler that holds the
VM's mutex: its step, its operation and *its own copy* of the row's state and
pid, which is what the code decides by. Since the mutex admits one handler,
there is one `h`. Each step is one await of the code: in `launch_process` the
socket is probed and removed, the process spawned, the child inserted, the
identity written, the state written, the API awaited, each an action of its own.
`Refresh` is embedded in the handlers that call it, as in the code, and goes on
to `guard`, `claim` or `recover`.

A process is named by its launch. The code's pair (pid, process_start) is unique,
pid alone is not, so the row keeps both and `IsAlive` asks that they agree. Handlers are
dropped at any await (`Abandon`), also between the insertion of a child and the write of its
identity (`setproc`). The history variable `identity` follows that case: `"dropped"` after
such a drop, and `"lost"` once the server crashes while the row names the process without
its start time. `Lost` is that, and what the properties except begins with that crash.
A command that takes a TAP down may fail, and nobody minds: the TAP is then `"stuck"`.
Firecracker itself (`Bind`, `Exit`, what calls do) is external, and modelled from
the calls the code makes.

### EgressUpdate and EgressAccess

State: the catalog's contents and bindings; for each VM its row, error text,
marker file, process, TAP, gate, rules and registration; who holds its mutex;
and the one catalog handler (`egress-catalog` admits one) or the startup recovery,
with its step `pc`, its direction `mode`, the VMs left in its present loop `todo`,
the VMs it changes `live`, and what it would restore, `before`. One action is one
external effect. `recover_egress` uses the same steps, since it repeats them in
the code. A VM can start, stop, act, refresh or exit between any two steps,
unless its mutex is held. A refresh that finds a live process failing its jail's verification
suspends the TAP (`RefreshUnverified`: the link is `"cut"`), and a later one that finds it passed
says running and leaves the link. `Unplug`, i.e. `network::remove`, may leave the link up and the
tables there, since the code ignores what of it fails.

`EgressAccess` has only contents, bindings and what each guest reaches. It lets a
guest gain what is stored or lose what it has, and lets a change be stored only
while the guests it concerns reach nothing. `EgressUpdate!Promise` instantiates it
with `access` the policy a guest really reaches: the engine's registration, if
its link is up and its gate is open.

### ResourceLocks

Each request is a script: the mutexes taken and given back, in source order, with
the points where references are read and checked; it writes at its end. A library
has one item of each kind in `Kind`. `duplicate` reads the source VM under its
mutex and continues as `define`, which is where the lock order breaks.

| Operation | Order |
|---|---|
| define | egress-catalog, file-assets, kernels, networks |
| update | egress-catalog, VM, file-assets, kernels, networks |
| delete | egress-catalog, VM, snapshot-library |
| save policy or proxy | egress-catalog, VMs by id |
| assign | egress-catalog, VM |
| start | VM, then kernels, file-assets, networks, one at a time |
| restore | VM, then snapshot-library, networks, one at a time |
| capture | VM, snapshot-library |
| export | VM, file-assets, kernels |
| duplicate | VM, then as define |
| import | the library's, given back during the download, and again |

### EgressEngine

`regs`, `tokens`, `sock` and `conn` are the engine's maps and tasks; `call` is the
holder of the mutex `mutation`, which after its change under the write lock waits
for the tasks of what it removed. Its client may leave then: the tasks go on as
`orphans`. A connection is up to three tasks that share the registration's tracker
and its permits: the accepted connection, the TLS session after a CONNECT, and
the relay to the upstream server. Each polls its cancellation token where the
code does. `FirstRule` and `Approved` are the policy's choice of a rule and
of the addresses that a name resolves to. `EgressUpdate` takes the whole
replacement for one step; what it relies on is `PolicyHolds` here.

### Accounts

The database has one connection, so a query or transaction is one step, and a
handler is a record of what it has read so far. Only update and delete of users
hold a mutex. Hashing a password, the round trip to the OIDC provider and the
upgrade of a shell's WebSocket lie between steps. A credential keeps the row it
was made from, so that `RevokedStays` can say that it fits the user still; `late` marks
those whose request was under way when the user changed.

### Library and SnapshotRestore

A behaviour is about one catalog: snapshots, assets or kernels. Handlers publish
(write a temporary file, rename, insert the row), import (check, give the mutex back,
download, check again), rename and delete; `Adoptable` says what startup takes over of
files that are there without a row. `SnapshotRestore` adds one VM: its disks (`dir`), the backup of each
restore, the process and what it has open, and each step of `DiskSwap`: `MoveOld`,
`PutNew`, and back with `RemoveNew` and `PutOld`.

### GuestShell

The agent's thread is a loop: `pc` is the part of it that comes next (message, pty,
exit, flush), and each part polls what the code polls, with the bounds of the
buffers. The relay forwards frames both ways. On its end a session goes
through `/proc` from one number to the next (`at`), while processes fork and die: `Look` kills
the member that it finds, or misses it for want of a pidfd; `/proc` may be unreadable, and a process forked
to a number already passed is missed too. Then it kills the leader's group (`Reaped`), and
only then tells the browser of an error (`Report`).

### OciRegistry and OciLayers

`OciRegistry` is the client's side of a pull: one request at a time, which may be
challenged once and redirected; the tag moves whenever it likes and any document
may be served. `OciLayers` reads a layer twice, whiteouts first, and resolves each
path inside the root, through symbolic links (`Walk`: `Step` iterated).
Ownership and modes wait in `metadata`, by path, for `Finalize`.

### HostResources, DiskPreparation, SnapshotFit

`HostResources` has all VMs and networks; suggestions are made outside the
mutex and used later, a start reads its network, makes the identity and the TAP in
separate steps, and a deletion may stop half-way. `DiskPreparation` follows one VM's
directory file by file through preparations that fail or are cut off, edits, boots
(with the guest's init as far as it decides what runs) and readers of
its disk. The copy of a local asset or of a kernel runs on a blocking thread, so that it goes on
when its handler is dropped: it is then one of `strays`, which may write into what the next
preparation makes, and renames, under the same name, or replace its kernel. `beside` has the files made,
or replaced, next to such a copy. A snapshot that fails half-way leaves a `Torn` file. `SnapshotFit` tells memory, device state and disks apart by the moment they
are of, so that mixing two captures shows.

### ManagedConfig and VmConsole

Both model browsers that keep what they have read beside a server that goes on:
`ManagedConfig` with a revision (the hash of the file), placeholders for secrets and values
masked by overrides; `VmConsole` without one. A change that comes between the GET and the PUT
of a save, and a draft typed on while it is validated, are steps of theirs. In `VmConsole` a window shows the VM's
page, which polls, or the form, whose draft moves between fields, dialogs and text.

## 3. Runs

| Run | Checks | Shows |
|---|---|---|
| `VmLifecycle_trusted` | `ChildrenReaped`, `RefreshCatchesUp` | a trusted VM through two launches and two faults, with calls that time out: no child is let go alive, and the refresher, which always comes back, repairs every row |
| `VmLifecycle_jailed` | `TypeOK`, `OneProcess`, `IdentityCoherent`, `InactiveIsQuiet`, `UntouchedWhileAlive`, `BootsPrepared` | a jailed VM with egress, whose process may fail verification, through three launches with handlers dropped at any await and crashes; `OneProcess`, `InactiveIsQuiet` and `UntouchedWhileAlive` but for what follows a crash that loses a process (`Lost`) |
| `EgressUpdate_shared` | `NoStaleAccess`, `PromiseKept` | two VMs, shared policies, failing engine and nft, and so failing rollbacks |
| `EgressUpdate_recovery` | `TypeOK`, `GateIsPending`, `RunningIsServed`, `ChangeEnds` | failed and dropped updates end, and are found again and repaired, with dropped starts and a VM that fails its jail's verification: what runs unmarked has the stored access, but perhaps no link |
| `ResourceLocks_ordered` | `NoCircularWait`, `RequestsEnd` | one operation for each order in which several mutexes are held: nobody waits in a circle, all of them end, and the refresher comes round |
| `ResourceLocks_references` | `TypeOK`, `ReferencesExist` | everything that writes definitions or deletes items, with duplicate, beside capture, restore and actions |
| `ResourceLocks_duplicate` | `DuplicateEnds` | expects a violation: section 6 |
| `EgressEngine` | `TypeOK`, `RegistrationsFit`, `PolicyHolds`, `GuestCapacity` | two VMs whose policies share, swap and contend for listeners, with two connections: nothing goes anywhere but where the policy in force allows |
| `Accounts` | `TypeOK`, `LastAdmin`, `RevokedStays`, `UsedOnce`, `AsAsked` | two users and three requests at once |
| `Library` | `TypeOK`, `CatalogHolds`, `DisksSurvive`, `PurgedStayGone`, `StepsWhole` | two handlers of a catalog and two requests on a VM, with two faults: dropped handlers, crashes or failing calls |
| `GuestShell` | `TypeOK`, `Faithful`, `NoneOutlives`, `PlacesReturn` | one session with a job, beside one that takes the other place; processes fork, change groups and die while the scan goes through their numbers |
| `Components` | `TypeOK`, `ImagesHold`, `GuestsHold`, `EditsHold` | `OciRegistry`, `OciLayers`, `HostResources`, `DiskPreparation`, `SnapshotFit`, `ManagedConfig` and `VmConsole`, each by itself: `part` chooses one at the start |

The properties of `Components` are those of its modules: `ImagesHold` is `SecretsStay`,
`OneImage`, `MetadataFits` and `NothingLost`; `GuestsHold` is `AddressesHold`, `UidsHold`,
`DisksHold`, `ReadsFit` and `RestoredFits`; `EditsHold` is `ConfigHolds` and `ConsoleHolds`.
The other properties that are conjunctions name their parts in the modules.

`PROJECT.json` gives one mutant for each property. The modules hold more, as
operators beside the definition that they change (`…Any`, `…Not`, `…Always` and the
like): for each part of a conjunction there is one that breaks it.

## 4. Bounds and fairness

- `MaxLaunch` = 3: a process that is running, one that is launched beside or after
  it, and a stale one whose identity lingers (2 in the run with liveness). `MaxFaults` = 2: a fault, and one during the
  recovery from it. The proofs have no such bound.
- `ApiFlakes` and `Flaky` say which calls may fail. In `EgressUpdate_shared` the
  engine and nft fail, which with two VMs gives updates and rollbacks that fail half-way. In
  `EgressUpdate_recovery`, of one VM, every call but marker files, row writes and secrets fails,
  and updates and starts are dropped: for why, see sections 6 and 7. The proofs cover every choice.
- Two contents are enough to tell the old from the new; one policy with two VMs
  gives sharing, and assignment to none or to it gives changes of bindings.
- Two handlers beside the refresher show every circle of two, and those through the
  refresher. `ResourceLocks_ordered` takes one operation for each order in which
  several mutexes are held at once; that the others, more handlers, more VMs and more
  catalogs add no circle is `NoCircularWaitAlways`. Two VMs give the sorted order of a
  shared update something to sort. Two kinds of item in `ResourceLocks_references` are
  one whose mutex is the first of a definition's and one whose mutex is the last.
- `EgressEngine`: one gateway with a proxy port and a tunnel port, two guest addresses
  that VMs may swap, one permit (so that the second connection finds none) and two
  connections; two names of a registration, for the one in force and one whose
  tasks are not over. Its three policies differ in rules, in the order of rules, and in the port they need.
- `Accounts`: two users are an administrator and another one who may become one; three
  handlers are two changes and a login beside them. Each kind of row is made once or twice.
- `Library`: two made-up names and one given by an administrator, two aliases to collide on,
  two contents, one disk pair and one extra file. `MaxFaults` = 2 as above.
- `GuestShell`: one session in detail, another that competes for the single place;
  buffers of one and two frames, which are full at once; two inputs and two outputs; the shell
  and a job. The shell has the second of two process numbers, so that there is one before it, which a
  wrapped counter gives to a job: the scan may have passed it by then.
- `Components`: two images of two layers with two redirects; two layers of up to three
  entries over paths of two names, from 14 entries chosen to meet (`LayerEntries`);
  two VMs in two networks on five addresses, with two user ids; two consoles; two
  assets, two boots and one stray copy at a time; two names of snapshot files, one bundle, two machines, two
  addresses and two security settings of the VM, two
  states of a network and two moments of the guest; two values of a section. A link's target
  has up to two components (`MaxParts`; 128 in the code), and three links are followed
  (`MaxLinks`; 40 in the code).
  `SnapshotFit` begins with one of the states that differ only by names.
- Symmetry is used for VMs, contents, handlers, users and files, in runs of safety
  properties only. VM ids in `ResourceLocks` are ordered and so not symmetric.
- Deadlock checking is off: a VM that has used up its launches, a catalog whose names
  are used up, or a duplicate that waits, may stop. Where everything must go on, a run
  checks it as liveness.

Fairness: a handler that is not dropped runs on (weak, on its steps); a mutex of
tokio is granted in order of arrival, hence strong fairness on acquiring one; the
refresher comes back every five seconds (`server/app.rs`), hence strong fairness
on beginning a refresh; Firecracker binds its socket in the end. In `GuestShell` the agent's
thread, the kernel's wait and the relay's task are scheduled (weak). Nothing is
assumed of clients, of guests, of faults or of exits.

One timing assumption is made in `VmLifecycle`: a process that was spawned by a
handler dropped before it could record it binds its socket, or exits, before
the next request for the VM (`OrphansBound`). The code relies on it: such a process
is known only by its socket.

## 5. What is proved

With TLAPS, for every value of the constants:

- `VmLifecycleProofs`: `IInv` of `VmLifecycle` is inductive, so `OneProcess`,
  `InactiveIsQuiet`, `UntouchedWhileAlive` (which is `FilesUnused` and
  `EditsNeedStop`) and `IdentityCoherent` always hold, wherever handlers are dropped. The first
  three make one exception, `Lost`: a request was dropped between inserting a child and writing its
  identity, the child's pid came to the row beside no, or another, start time, and the server then crashed.
  `IdentityCoherent` says what is known up to that crash: the child is held. Without the
  exception `EditsNeedStop`, and with it `UntouchedWhileAlive`, is false of the code (section 6). None of
  them is inductive: that no second process appears needs that
  everything that names a process (socket, child, pid) names the live one
  (`Named`), that a handler's copy of the row is still right (`HandlerCurrent`),
  and what each step has established so far (`StepReady`). Of these a first group
  (`Core`) speaks of processes and the row only, and is kept by most steps for
  the same few reasons, which are lemmas about elementary moves.
  `TypeOK` and `ChildrenReaped` need no assumption. They follow from `ChildInv`, which speaks of
  the server's own child only: while it lives, no row and nobody about to write one calls
  the VM inactive, so that nothing is launched that would take its place.
  `BootsPrepared` needs none either, since it
  speaks of behaviours without a fault, and a dropped request is one: while there is none,
  the server holds the live process as its child (`Held`), and what a process that
  has not booted has been given is what the handler's step says (`AsGiven`).
- `EgressUpdateProofs`: `IInv` of `EgressUpdate` is inductive, so `TypeOK` and
  `NoStaleAccess` always hold, and `PromiseKept`: every step is a step of
  `EgressAccess` or a stutter. `NoStaleAccess` is strengthened to `Fresh`, which also
  speaks of VMs whose link is down, since links come up again. That engine and
  rules may hold something else behind a gate needs `Gated` and `InPlace`; that the
  commit changes nobody else's stored policy needs `Concerned`, i.e. that whoever is
  concerned was locked, then examined, and is gated or inactive; that a rollback is
  harmless needs `OldIsStored`. There is one lemma per action.
- `ResourceLocksProofs`: `TypeOK`; `NoCircularWait`, assuming that no VM is
  duplicated; and `ReferencesExist`, with duplicates too. The first rests on
  `Ascending`: what a task has still to take comes, in one order of the mutexes
  (egress-catalog, VMs by id, snapshot-library, file-assets, kernels, networks), after
  all that it holds or will hold by then; a circle would then make the mutexes that are
  awaited in it rise for ever, and there are finitely many. The second rests on
  `Protected`: a request that is ready to write has found its references valid, and it
  holds the mutexes of all that it found (`Needs`), so that whoever could make it
  untrue is shut out. `UpdateEarly`, which checks before it holds the last mutex, is
  the mutant that breaks it.

- `EgressEngineProofs`: `TypeOK`, `RegistrationsFit`, `PolicyHolds` and `GuestCapacity`. Two
  facts tie the engine's maps together: a registration's name is its VM's (`NamedByVm`), and
  the tokens that are not cancelled are those of the registrations in force
  (`TokensInForce`). So a task whose token is not cancelled belongs to the policy in force, and one
  whose token is cancelled is among those that the call waits for, or that were left to
  go on. That no two registrations share a guest's address needs that an update
  is compared with all others, and with the registrations it leaves; permits are counted with finite
  sets, which grow by one only when the count is below `Permits`.
- `AccountsProofs`: `TypeOK`, `LastAdmin`, `RevokedStays`, `UsedOnce`, and of steps `AsAsked`.
  `LastAdmin` is inductive once the row that an update has read is known to be current
  (`RowCurrent`), which the mutex gives (`LockHeld`, part of `TypeOK`): whoever would
  take the last administrator away sees that he is the last. That a ticket is used once
  needs that the ticket of each open shell is gone (`TicketSpent`).
- `SnapshotRestoreProofs`: `TypeOK`, `CatalogHolds`, `DisksSurvive`, `PurgedStayGone`, and of
  steps `StepsWhole`. `LibraryInv` is kept by every step of `Library`, for any kind
  of catalog: a name that the server made up is used for one upload (`NamesOnce`), and what a
  handler has checked or done stays so while it holds the mutex (`PutInOrder`,
  `DeleteInOrder`). The rest follows the disks: while they are moved, there or back, each file
  is in its place or in the backup as the request's own record says (`Moved`), and nothing
  runs then (`NothingRuns`), which needs that one request is active at a time (`Locked`). That
  a purge finds everything needs that a snapshot without a row is being published by the
  handler that holds the VM's mutex (`CapturedKnown`). `StepsWhole` follows from the
  lemmas on single steps.
- `GuestShellProofs`: `TypeOK`, `Faithful` and `NoneOutlives`, for which whoever is alive and not missed has a number
  that the scan has not passed (`ProcsInOrder`). The invariant gives every frame a
  place: `Item(s, i)` is the i-th thing the guest sends, and what the browser has
  seen, what is on the stream and what is queued in the agent are, one behind the other, the first
  `Sent(s)` of them (`SeenInOrder`, `DownInOrder`, `OutInOrder`). The input goes the
  other way with the numbers it was typed in (`InputInOrder`). `Faithful` alone says nothing of
  frames that are under way.
- `EgressUpdateProofs`, besides: `GateIsPending`, assuming that marker files and rows can be
  written (`Writable`), and `RunningIsServed`, assuming that stored policies can be resolved
  too (`Resolvable`); its exception `CutOff`, a VM that lacks its link and nothing else, is in section 6. Any other call may fail, handlers may be dropped and the server may
  crash anywhere. Both hypotheses are those of `EgressUpdate_recovery`, and neither can go: section 7
  tells of the row that is not written, section 6 of the policy that cannot be
  resolved. The first rests on the order of the marker and the gate (`MarkerFirst`,
  `LiveMarked`), the second on what a start, an update and its rollback
  leave behind (`StartWires`, `UpdateWires`), and on an engine that is empty after a
  restart until recovery has registered each VM (`EngineStartsEmpty`).

- `ComponentsProofs`: `TypeOK`, `ImagesHold`, `GuestsHold` and `EditsHold` of `Components`,
  and each of their parts for its own module, under no more than what that module's constants
  stand for (`RegistryConstants`, `LayersConstants`, …). `Components` chooses one component,
  so its invariant `PartsInv` is that of the chosen one. `GuestsHold` has the hypothesis
  `Jailed`, for the reason in section 6; `LoadedAlwaysFits` is what holds without it: address,
  filter, security, network, and from the library disks and machine. Module by module:
  - `HostResources`: that an address cannot be given twice follows from what `Available` compares
    under the mutex, so that what was suggested before matters no more; that a network
    does not change under a VM from `Unused`. `UidsHold` needs `JailFirst`: while a deletion is
    under way, nothing is owned by the user id, so that the record may go or stay.
  - `DiskPreparation`: `DisksPreparedFits` says what each step may rely on of the steps before
    it: after the kernel's comes the kernel, after the root disk's a disk that is whole
    or that of a guest, and whoever reads files keeps the VM from starting. What is in `beside` is excepted
    throughout, so that a stray copy is shown to spoil nothing else.
  - `SnapshotFit`: while a snapshot is written its files are of the moment at which the guest is
    paused (`FitSnapshotJob`), so that a record is of one moment and its files are whole (`FitRecordsFit`); a restore
    that has passed its checks still has the record, files and network that it
    checked (`FitRestoreJob`), since the VM's mutex keeps definitions and snapshots from changing.
  - `ManagedConfig`: `ConfigEditingFits`: the file that a save is about to replace is the one its tab
    has seen, as long as the host has not written, and no secret of it is a placeholder.
  - `VmConsole`: `ConsoleReadsFit`: what was read of a VM and has its version still is the VM, and a GET
    under way answers with nothing older than what the page shows.
  - `OciRegistry`: `PullGotFits` counts what has been taken of the manifest at each step: at most the
    index, the manifest, its configuration, then one layer after the other.
  - `OciLayers`: the staging directory is a tree (`LayersGood`): every path lies in a directory, names
    are not `..`, only files share an inode, and there are no more of them than
    reservations. A hard link waits only at a path whose directory exists. Every change keeps
    that: removing a path with all below it, replacing a directory by a file, a walk that
    makes directories on its way. `Walk` is `Step` iterated, often enough for the path and every
    target that may be put before its rest (its length + `MaxLinks` * `MaxParts`, and one more
    to end); that the iteration is well defined is proved by the least number at which it would not be,
    since induction is out of reach, and so is that each of its states keeps the tree. The proof
    does not need that the walk has ended by then: in every state of the run it has.
    Directories that a walk makes have no metadata entry, which `MetadataFits` allows
    to directories only (`LayersLaid`).

Assumed throughout: the named assumptions on constants (`LifecycleConstants`,
`LockConstants`, `EngineConstants`, …). They say no more than what the constants stand for:
that limits are natural numbers, that sets which stand for different things are disjoint, and
that sets whose members are counted (users, logins, shells, handlers, connections, VMs whose locks are
sorted) are finite. `NotAValue`, `NoneIsNoRow` and `NoneIsNoBackup` say that the model values
for an absent row, file or backup are not rows, files or backups, as an `Option` is
not its content; TLC evaluates all of them in the runs.

Checked with TLC only:

- liveness (`RefreshCatchesUp`, `ChangeEnds`, `RequestsEnd`, `PlacesReturn`), which the
  prover does not do;
- that a walk through the guest's links ends within `Walk`'s number of steps, which is
  induction over data;
- the counterexample, `ResourceLocks_duplicate`.

Every invariant and action property of a passing run is a theorem.

## 6. Where code and documentation disagree

`ResourceLocks_duplicate` has a counterexample that is a behaviour of the code: duplicating a VM while
it is deleted, edited, assigned or reached by a shared update, each waits for the other; the
refresher too.

The models behave as the code does in the following cases as well; the properties are stated
beside them, and no run shows them:

- A launch that is dropped between the child's insertion and the write of its identity (`launch.rs:103`)
  leaves the former start time in the row; a call writes the child's pid beside it; after a crash the
  row names no live process, a call that times out makes refresh say `stopped`, and the definition is
  edited under the guest (`docs/vms.md:7`: "Stop a prepared or running VM before editing its general
  configuration"). Stop, too, believes the process gone. `OneProcess`, `InactiveIsQuiet` and
  `UntouchedWhileAlive` except what follows that crash (`Lost`).
- A rollback to a policy whose secret is gone leaves the VM without access and
  unmarked (`egress_catalog/live.rs:60`); saving the same policy again reports success
  (`operations.rs:51`), although `egress_catalog/tests.rs:290` says it must verify the blocked VM first.
  `RunningIsServed` is checked and proved for policies that can be resolved (`Resolvable`).
- A draft of the configuration that is typed on while a validation is under way is saved,
  though the review shows the earlier one as "Proposed TOML" (`webui/page-config/src/lib.rs:51`, `:225`).
  `ConfigHolds` speaks of the draft as it is saved.
- Saving a variable of the environment is a GET and a PUT without a revision, so that
  of two administrators who save at once one loses, although a test is named
  `stale_edits_and_deletes_do_not_overwrite_another_change`
  (`webui/view-environment/src/tests.rs:54`). A save of the boot settings or of the shell from the VM's
  page, and the form, compare nothing at all and overwrite what others have saved since they read the
  definition. `ConsoleHolds` says what a save keeps of the definition it has read.
- A jailed VM whose process fails its verification once is cut off (`refresh.rs:26`); the next refresh that
  finds it passed says `running`, clears the text, and leaves the TAP down until the VM is stopped.
  `RunningIsServed` excepts it (`CutOff`).
- A local asset whose preparation is dropped goes on being copied into `rootfs.partial`
  (`assets/image.rs:52`: `tokio::fs::copy` runs on a blocking thread). The next preparation truncates the
  same file and renames it; if the definition was edited between, two images mix in one
  disk, and the copy may write over it while a guest runs. `DisksHold` excepts such files
  (`beside`). The stray copy of a kernel may likewise replace the kernel of a later preparation
  (`catalog-files/directory.rs:167`).
- Start takes a VM with kernel and root drive for wholly prepared (`prepare.rs:7`), and
  boots it without its network interface or data drives if a preparation was cut off;
  `docs/vms.md:5`: "Start prepares missing resources and boots the VM". `BootsPrepared` holds
  only with `faults = 0`.
- Editing a *failed* VM whose VMM left its socket node turns it into `defined`, and the
  next refresh into `unknown` (`queries/management.rs:145`; the comment at line 153 keeps
  that from stopped VMs only).
- A *trusted* VM in a Firemage-only network: a second snapshot may overwrite the memory
  file of the first, whose record still says that it may be restored, since only
  the state file is hashed; the check's text is "restore requires this VM's unchanged
  managed snapshot" (`runtime/snapshot.rs:58`). `RestoredFits` is checked and proved with
  `Jailed` only.
- The configuration page says that placeholders keep secrets "unless explicitly
  replaced"; `config/managed.rs:164-173` refuses every changed secret.

## 7. Limits

Not modelled, and why:

- Firewall rules: texts of nft rules made from a definition in one go; secrets at rest,
  wire types and the schema: no protocol of their own; the command line, the client and
  the console's other pages: callers of the HTTP interface in any order, as the models'
  requests are. Bytes of HTTP, TLS, archives and file systems.
- VMs attached to an external socket. The budget of failed logins and the window
  of OIDC replays. Storage, limits and policy dialogs of the console, and the expiry
  of its session.

Lifecycle and egress:

- An `nft` or `ip` command whose handler is dropped is taken to finish before the
  next handler begins. A TAP that could not be taken down is `"stuck"`: `InactiveIsQuiet` does not
  speak of it, and neither does `NoStaleAccess` of what its guest, which is gone, would reach.
- `GateIsPending` does not survive a double fault: the row's write fails after the
  marker has been removed, then the server crashes and a refresh clears the text.
- A start dropped before the TAP exists leaves a VM without one; updates of its
  policy are then blocked until it is stopped. `RunningIsServed` is about VMs whose
  starts were not dropped.
- A failing row write inside `recover_egress` ends the server: it is a crash.
- In the engine, a client that leaves while its call waits gives `mutation` back; the next
  registration may find the old listener's port still bound, and is refused. A
  listener whose accept fails ends but stays in the map.

Files and snapshots:

- A deletion cut off between file and row leaves a row without its file until it is repeated.
- An installation of disks that fails and cannot be undone is answered like any failure,
  with the disks in the backup: `StepsWhole` excepts it (`"half"`).
- A stray copy is taken to reach the next file of its name in any case, even where a preparation that
  failed has removed the file that it has open: `beside` excepts more than it must. Only
  long copies go on, those of local assets and of kernels; a rename, an open or a short write that
  runs on a blocking thread when its handler is dropped is taken as done. An `mkfs` that is killed on drop is gone at
  once, and so is a download, whose writes go through its handler.
- A crash between the rename of a root disk and the write of `oci-init-version` makes later
  overrides of the workload refused. An exit code of an earlier run stays if a
  later one is killed. A VM's own snapshot restores memory over the disk as it is now.

Host, images, configuration, shell, console:

- A network that is created later may take an existing VM's address for its gateway
  or its target (`networks.rs:30`, `addressing.rs:24`): `AddressesHold` speaks of VMs.
- A crash in `write_private` leaves a `.tmp` file: saves of the configuration fail from then
  on, and an empty one in `jailer-identities` blocks every new user id. Both are modelled
  and leave the properties true.
- An edit on the host between the server's read and its rename is overwritten; a `public_url` that
  an override hides may be invalid, and shows when the override is dropped.
- A hard link that waits where an implicit directory appears fails the image. The
  root's own metadata entry is left out.
- A process that a session's one scan of `/proc` misses may survive it: one that no pidfd could be had for, or
  that was forked to a number already passed. `NoneOutlives` names them (`missed`).
  Output that something else holds up for 200 ms after the shell's end is dropped.
- A GET slower than the five seconds of the poll is always dropped by the next: the page stays on
  "Loading VM…". The form overwrites everything that changed since it was opened.

## 8. What is open

All modules of section 2 are written, checked and, but for what section 5 leaves to TLC, proved.
What would come next:

1. what the notes of the hazards in `PROJECT.json` except, each of which is a double fault or a
  case of sections 6 and 7: they need a decision in the code before there is a property to state;
2. the interface between `VmLifecycle` and `EgressUpdate`, which takes the lifecycle reduced to its
  effects on the network: that the one implements the other's starts and stops is read off
  the code, not proved;
3. the console's other dialogs, and the parts listed in section 7.
