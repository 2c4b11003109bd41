---------------------------- MODULE VmLifecycle ----------------------------
(***************************************************************************)
(* The lifecycle of one managed virtual machine: its row in the database,  *)
(* the Firecracker processes spawned for it, the API socket, the server's  *)
(* in-memory table of children, the TAP device and the egress              *)
(* registration.  Every handler holds the VM's named mutex                 *)
(* (Runtime::lock), so at most one runs; it is the record `h`, and each    *)
(* step of it is one await of the code.  Between any two steps a process   *)
(* may exit, the client may disconnect (its handler is dropped where it    *)
(* stands, releasing the mutex) or the server may crash and restart.       *)
(*                                                                         *)
(* A process is named by the number of its launch.  The pair (pid,         *)
(* process_start) of the code names a process uniquely, pid alone does     *)
(* not: the row keeps both, as the code does, because they are written     *)
(* separately.                                                             *)
(***************************************************************************)
EXTENDS Naturals, FiniteSets

CONSTANTS
  Jailed,      \* security mode: Jailed (TRUE) or Trusted (FALSE)
  Restricted,  \* the VM is on a Firemage-only network with an egress policy
  ApiFlakes,   \* whether a live process may let an API call time out
  MaxLaunch,   \* bound: Firecracker processes spawned
  MaxFaults    \* bound: abandoned handlers and server crashes together

ASSUME LifecycleConstants ==
  /\ Jailed \in BOOLEAN
  /\ Restricted \in BOOLEAN
  /\ ApiFlakes \in BOOLEAN
  /\ MaxLaunch \in Nat
  /\ MaxFaults \in Nat

VARIABLES
  row,       \* the vms row: state, pid, process_start
  proc,      \* every Firecracker process: its API state and its configuration
  sock,      \* the process that bound the socket node last; None: no node
  child,     \* Runtime.children: the process whose handle the server holds
  tap,       \* the TAP device: absent, up, down, or "stuck": in an unknown
             \* state after an attempt at removing it that has failed
  eng,       \* whether the egress engine holds a registration for the VM
  h,         \* the handler that holds the VM's mutex
  up,        \* whether the server runs
  launches,  \* processes spawned so far
  faults,    \* faults so far
  identity   \* history: whether the row can tell the process it names

vars == <<row, proc, sock, child, tap, eng, h, up, launches, faults, identity>>

None    == 0
Process == 1..MaxLaunch
Devices == {"kernel", "root", "rest"}

Inactive   == {"defined", "stopped", "failed"}
Verified   == {"ready", "running", "paused"}
RowState   == Inactive \cup Verified \cup {"starting", "unknown", "deleted"}
BoundState == {"idle", "running", "paused"}
LiveState  == BoundState \cup {"booting"}

StartOps == {"Launch", "Prepare", "Start"}
CallOps  == {"Pause", "Resume", "Shutdown", "Metadata", "Snapshot"}
DiskOps  == {"Update", "Delete", "Output"}
Ops == StartOps \cup CallOps \cup DiskOps \cup {"Refresh", "Stop", "Restore", "Raw"}

Steps == {"probe", "adopt", "clean", "write", "guard", "restore", "socket",
          "spawn", "insert", "setproc", "setstart", "wait", "tap", "register",
          "config", "boot", "load", "finish", "call", "raw", "stop",
          "stopclean", "cgroup", "errstop", "errclean", "errwrite", "claim",
          "disk", "deleterow", "recover"}

Handler == [pc    : Steps \cup {"idle"},
            op    : Ops \cup {"Recover", "none"},
            state : RowState,       \* the handler's copy of the row's state
            pid   : 0..MaxLaunch,   \* and of its pid
            next  : RowState \cup Devices, \* what it will write, or PUT, next
            new   : 0..MaxLaunch]   \* the process it spawned

Idle == [pc |-> "idle", op |-> "none", state |-> "defined", pid |-> None,
         next |-> "defined", new |-> None]

Row  == [state : RowState, pid : 0..MaxLaunch, start : 0..MaxLaunch]
Proc == [st : LiveState \cup {"unspawned", "dead"}, cfg : SUBSET Devices]

TypeOK ==
  /\ row \in Row
  /\ proc \in [Process -> Proc]
  /\ sock \in 0..MaxLaunch
  /\ child \in 0..MaxLaunch
  /\ tap \in {"none", "up", "down", "stuck"}
  /\ eng \in BOOLEAN
  /\ h \in Handler
  /\ up \in BOOLEAN
  /\ launches \in 0..MaxLaunch
  /\ faults \in 0..MaxFaults
  /\ identity \in {"kept", "dropped", "lost"}

Init ==
  /\ row = [state |-> "defined", pid |-> None, start |-> None]
  /\ proc = [n \in Process |-> [st |-> "unspawned", cfg |-> {}]]
  /\ sock = None
  /\ child = None
  /\ tap = "none"
  /\ eng = FALSE
  /\ h = Idle
  /\ up = TRUE
  /\ launches = 0
  /\ faults = 0
  /\ identity = "kept"

-----------------------------------------------------------------------------
(* Processes, the socket and process identity *)

Live(n)  == n \in Process /\ proc[n].st \in LiveState
Bound(n) == n \in Process /\ proc[n].st \in BoundState
NoLive   == \A n \in Process : ~Live(n)

(* process::is_alive(pid, process_start) *)
IsAlive(pid, start) == pid # None /\ start = pid /\ Live(pid)

(* Connecting to the socket node succeeds. *)
Connects == Bound(sock)

(* Firecracker::state() and the other calls: who answers, and who does not. *)
Answers == Connects
Silent  == ~Connects \/ ApiFlakes

(* Mutant: Firecracker's own word for a state is stored in the row. *)
ReportedRaw(n) == proc[n].st

Reported(n) == CASE proc[n].st = "idle"    -> "ready"
                 [] proc[n].st = "running" -> "running"
                 [] proc[n].st = "paused"  -> "paused"

(* Runtime::is_process_stopped: try_wait on the child, else the row's identity. *)
IsProcessStopped ==
  IF child # None THEN ~Live(child)
  ELSE h.pid # None /\ row.start # None /\ ~IsAlive(h.pid, row.start)
(* Mutant: the child's entry is removed whether or not it has exited. *)
ReapAlways == child' = None

Reap == child' = IF Live(child) THEN child ELSE None

Becomes(n, st) == proc' = [proc EXCEPT ![n].st = st]
Kill(n)        == Becomes(n, "dead")

(* network::remove sets the link down, then deletes the device; the failure *)
(* of either is ignored.  network::suspend may fail as well.               *)
Removed(t) == IF t = "none" THEN {"none"} ELSE {"none", "down", "stuck"}
RemoveTap  == tap' \in Removed(tap)
SuspendTap == tap' \in (IF tap = "none" THEN {"none"} ELSE {"down", tap})

(* Database::set_vm_state and set_process: the first leaves process_start. *)
SetVmState(state, pid) == row' = [row EXCEPT !.state = state, !.pid = pid]
SetProcess(pid)        == row' = [row EXCEPT !.pid = pid, !.start = pid]

(* The last launch recorded what it started; or its request was dropped     *)
(* between the table of children and the row (launch.rs:103); or the server *)
(* then crashed, when the row named the process without its start time.     *)
Identified == identity' = IF identity = "lost" THEN "lost" ELSE "kept"
Dropped    == identity' = IF identity # "lost" /\ h.pc = "setproc" THEN "dropped" ELSE identity
Forgotten  == identity' = IF identity = "dropped" /\ Live(row.pid) /\ row.start # row.pid
                          THEN "lost" ELSE identity
Lost       == identity = "lost"

(* Moves of the handler. *)
Enter(step, op, state, pid) ==
  h' = [pc |-> step, op |-> op, state |-> state, pid |-> pid,
        next |-> "defined", new |-> None]
Goto(step)              == h' = [h EXCEPT !.pc = step]
Plan(step, next)        == h' = [h EXCEPT !.pc = step, !.next = next]
Learn(step, state, pid) == h' = [h EXCEPT !.pc = step, !.state = state, !.pid = pid]
Release                 == h' = Idle

(* An error leaves `action` at once, unless its copy of the row says starting. *)
Fail == IF h.state = "starting" THEN Goto("errstop") ELSE Release


(* Mutant: with no pid recorded, nobody is looked for behind the socket. *)
StopWithoutPeer ==
  \/ /\ child # None
     /\ Kill(child)
     /\ child' = None
     /\ UNCHANGED sock
  \/ /\ child = None
     /\ IF h.pid # None /\ IsAlive(h.pid, row.start) THEN Kill(h.pid) ELSE UNCHANGED proc
     /\ UNCHANGED <<sock, child>>

(* Runtime::stop_process *)
StopSucceeds ==
  \/ /\ child # None
     /\ Kill(child)
     /\ child' = None
     /\ UNCHANGED sock
  \/ /\ child = None
     /\ h.pid = None
     /\ IF Connects THEN Kill(sock) /\ UNCHANGED sock
                    ELSE sock' = None /\ UNCHANGED proc
     /\ UNCHANGED child
  \/ /\ child = None
     /\ h.pid # None
     /\ row.start # None
     /\ IF IsAlive(h.pid, row.start) THEN Kill(h.pid) ELSE UNCHANGED proc
     /\ UNCHANGED <<sock, child>>

(* No verified peer, no identity to signal, or no exit within five seconds. *)
StopFails ==
  /\ child = None
  /\ IF h.pid = None THEN Connects
                     ELSE row.start = None \/ IsAlive(h.pid, row.start)
  /\ UNCHANGED <<proc, sock, child>>

procVars  == <<proc, sock, child>>
netVars   == <<tap, eng>>
meterVars == <<up, launches, faults, identity>>

-----------------------------------------------------------------------------
(* Entering a handler: the mutex is taken, then the row is read *)

FirstStep(op) == CASE op = "Raw"     -> "raw"
                   [] op \in CallOps -> "call"
                   [] op = "Stop"    -> "stop"
                   [] op = "Restore" -> "restore"
                   [] OTHER          -> "probe"

(* An abandoned handler may leave a process that nobody holds a handle of. *)
(* That it binds its socket, or exits, before the next request for the VM  *)
(* is the one timing assumption of this module.                            *)
OrphansBound == child = None => \A n \in Process : proc[n].st # "booting"

Begin(op) ==
  /\ up
  /\ h.pc = "idle"
  /\ row.state # "deleted"
  /\ OrphansBound
  /\ op \in StartOps \cup {"Restore"} => launches < MaxLaunch
  /\ Enter(FirstStep(op), op, row.state, row.pid)
  /\ UNCHANGED <<row, procVars, netVars, meterVars>>

-----------------------------------------------------------------------------
(* Runtime::refresh *)

AfterRefresh == CASE h.op \in StartOps  -> "guard"
                  [] h.op \in DiskOps   -> "claim"
                  [] h.op = "Recover"   -> "recover"
                  [] OTHER              -> "idle"

(* Where a refresh that leaves the row alone, or has written it, returns to. *)
Return(state, pid) ==
  IF AfterRefresh = "idle" THEN Release ELSE Learn(AfterRefresh, state, pid)

Untouched == \/ h.state = "failed"
             \/ h.state = "defined" /\ sock = None

RefreshSkips ==
  /\ h.pc = "probe"
  /\ Untouched
  /\ Return(h.state, h.pid)
  /\ UNCHANGED <<row, procVars, netVars, meterVars>>

RefreshAnswered ==
  /\ h.pc = "probe"
  /\ ~Untouched
  /\ Answers
  /\ Plan(IF h.pid = None THEN "adopt" ELSE "write", Reported(sock))
  /\ UNCHANGED <<row, procVars, netVars, meterVars>>

(* Mutant: a silent API leaves the last known state in the row. *)
RefreshKeepsState ==
  /\ h.pc = "probe"
  /\ ~Untouched
  /\ Silent
  /\ Plan("write", h.state)
  /\ Reap
  /\ UNCHANGED <<row, proc, sock, netVars, meterVars>>

RefreshSilent ==
  /\ h.pc = "probe"
  /\ ~Untouched
  /\ Silent
  /\ \/ h.state = "stopped" /\ Plan("write", "stopped")
     \/ h.state # "stopped" /\ IsProcessStopped /\ Plan("clean", "stopped")
     \/ h.state # "stopped" /\ ~IsProcessStopped /\ Plan("write", "unknown")
  /\ Reap
  /\ UNCHANGED <<row, proc, sock, netVars, meterVars>>

(* ensure_jail_process rejects a process that answered: cut its network.   *)
RefreshUnverified ==
  /\ h.pc = "probe"
  /\ ~Untouched
  /\ Jailed
  /\ Answers
  /\ IF IsProcessStopped
     THEN /\ Plan(IF h.state # "stopped" THEN "clean" ELSE "write", "stopped")
          /\ UNCHANGED tap
     ELSE /\ Plan("write", "unknown")
          /\ SuspendTap
  /\ Reap
  /\ UNCHANGED <<row, proc, sock, eng, meterVars>>

(* process::from_socket, then set_process. *)
RefreshAdopts ==
  /\ h.pc = "adopt"
  /\ IF Connects
     THEN /\ SetProcess(sock)
          /\ Identified
          /\ Learn("write", h.state, sock)
     ELSE /\ Goto("write")
          /\ UNCHANGED <<row, identity>>
  /\ UNCHANGED <<procVars, netVars, up, launches, faults>>

(* record_stopped, before its write *)
RefreshCleans ==
  /\ h.pc = "clean"
  /\ eng' = FALSE
  /\ RemoveTap
  /\ Goto("write")
  /\ UNCHANGED <<row, procVars, meterVars>>

RefreshWrites ==
  /\ h.pc = "write"
  /\ LET pid == IF h.next = "stopped" THEN None ELSE h.pid IN
       /\ SetVmState(h.next, pid)
       /\ Return(h.next, pid)
  /\ UNCHANGED <<procVars, netVars, meterVars>>

Refresh == \/ RefreshSkips \/ RefreshAnswered \/ RefreshSilent
           \/ RefreshUnverified \/ RefreshAdopts \/ RefreshCleans \/ RefreshWrites


-----------------------------------------------------------------------------
(* Runtime::action, Launch, Prepare and Start: the guards *)

MayStart == \/ h.state \in Inactive
            \/ h.op = "Start" /\ h.state = "ready"

(* The isolation policy and the network policy forbid a bare Launch. *)
Permitted == h.op = "Launch" => ~Jailed /\ ~Restricted

GuardRefuses ==
  /\ h.pc = "guard"
  /\ ~(MayStart /\ Permitted)
  /\ Release
  /\ UNCHANGED <<row, procVars, netVars, meterVars>>

MarkStarting(pid, step) ==
  /\ SetVmState("starting", pid)
  /\ Learn(step, "starting", pid)

GuardFresh ==
  /\ h.pc = "guard"
  /\ h.state \in Inactive /\ Permitted
  /\ MarkStarting(None, "socket")
  /\ UNCHANGED <<procVars, netVars, meterVars>>

(* is_preparation_required: only the kernel and the root drive are looked at. *)
PreparationRequired(n) == ~({"kernel", "root"} \subseteq proc[n].cfg)

GuardReady ==
  /\ h.pc = "guard"
  /\ h.op = "Start" /\ h.state = "ready"
  /\ IF Jailed THEN Goto("boot") /\ UNCHANGED row
     ELSE \/ /\ Answers
             /\ IF PreparationRequired(sock)
                THEN MarkStarting(h.pid, "tap")
                ELSE Goto("boot") /\ UNCHANGED row
          \/ /\ Silent
             /\ Release
             /\ UNCHANGED row
  /\ UNCHANGED <<procVars, netVars, meterVars>>

(* Restore of snapshot files: no refresh, and no restore of a failed VM.   *)
RestoreGuard ==
  /\ h.pc = "restore"
  /\ \/ /\ h.state \in {"defined", "stopped"}
        /\ MarkStarting(None, "socket")
     \/ /\ Release     \* wrong state, or the snapshot does not verify
        /\ UNCHANGED row
  /\ UNCHANGED <<procVars, netVars, meterVars>>

-----------------------------------------------------------------------------
(* Runtime::launch_process *)

LaunchSocket ==
  /\ h.pc = "socket"
  /\ \/ /\ Fail        \* a live API, an unusable asset or no privileges
        /\ UNCHANGED sock
     \/ /\ Silent
        /\ sock' = None
        /\ Goto("spawn")
  /\ UNCHANGED <<row, proc, child, netVars, meterVars>>

LaunchSpawns ==
  /\ h.pc = "spawn"
  /\ launches < MaxLaunch
  /\ launches' = launches + 1
  /\ proc' = [proc EXCEPT ![launches + 1] = [st |-> "booting", cfg |-> {}]]
  /\ h' = [h EXCEPT !.pc = "insert", !.new = launches + 1]
  /\ UNCHANGED <<row, sock, child, netVars, up, faults, identity>>

LaunchInserts ==
  /\ h.pc = "insert"
  /\ child' = h.new
  /\ Goto("setproc")
  /\ UNCHANGED <<row, proc, sock, netVars, meterVars>>

(* Mutant: the pid is recorded without its start time. *)
LaunchSetsPidOnly ==
  /\ h.pc = "setproc"
  /\ row' = [row EXCEPT !.pid = h.new]
  /\ Identified
  /\ Goto("setstart")
  /\ UNCHANGED <<procVars, netVars, up, launches, faults>>

LaunchSetsProcess ==
  /\ h.pc = "setproc"
  /\ SetProcess(h.new)
  /\ Identified
  /\ Goto("setstart")
  /\ UNCHANGED <<procVars, netVars, up, launches, faults>>

LaunchSetsState ==
  /\ h.pc = "setstart"
  /\ SetVmState("starting", h.new)
  /\ Goto("wait")
  /\ UNCHANGED <<procVars, netVars, meterVars>>

(* The API answers, or ten seconds pass, or the jail cannot be set up.     *)
LaunchWaits ==
  /\ h.pc = "wait"
  /\ \/ /\ Answers
        /\ IF h.op = "Launch"
           THEN Plan("finish", "ready")
           ELSE Goto("tap")
     \/ Fail
  /\ UNCHANGED <<row, procVars, netVars, meterVars>>

Launch == \/ LaunchSocket \/ LaunchSpawns \/ LaunchInserts
          \/ LaunchSetsProcess \/ LaunchSetsState \/ LaunchWaits

-----------------------------------------------------------------------------
(* Runtime::network_tap and the rest of Runtime::prepare *)

(* An existing TAP is never taken over: adding it again is an error.       *)
TapCreate ==
  /\ h.pc = "tap"
  /\ \/ /\ tap = "none"
        /\ tap' = "up"
        /\ Goto("register")
     \/ /\ Fail        \* device busy, address in use, or a dependency is missing
        /\ UNCHANGED tap
  /\ UNCHANGED <<row, procVars, eng, meterVars>>

AfterTap == IF h.op = "Restore" THEN Goto("load") ELSE Plan("config", "kernel")

TapRegister ==
  /\ h.pc = "register"
  /\ \/ /\ Restricted => ~eng
        /\ eng' = Restricted
        /\ AfterTap
        /\ UNCHANGED tap
     \/ /\ Restricted
        /\ RemoveTap
        /\ Fail
        /\ UNCHANGED eng
  /\ UNCHANGED <<row, procVars, meterVars>>

(* Mutant: Start boots before the remaining devices are attached. *)
BootAfterRoot ==
  IF h.next = "kernel" THEN Plan("config", "root")
  ELSE IF h.op = "Start" THEN Goto("boot") ELSE Plan("finish", "ready")

AfterDevice ==
  \/ h.next = "kernel" /\ Plan("config", "root")
  \/ h.next = "root" /\ Plan("config", "rest")
  \/ h.next = "rest" /\ h.op = "Start" /\ Goto("boot")
  \/ h.next = "rest" /\ h.op # "Start" /\ Plan("finish", "ready")

(* One PUT; "rest" stands for the seed and data drives, vsock, the network *)
(* interface and MMDS.  A PUT that times out may have taken effect.        *)
ConfigPut ==
  /\ h.pc = "config"
  /\ \/ /\ Answers /\ proc[sock].st = "idle"
        /\ proc' = [proc EXCEPT ![sock].cfg = @ \cup {h.next}]
        /\ AfterDevice \/ (ApiFlakes /\ Fail)
     \/ /\ Fail
        /\ UNCHANGED proc
  /\ UNCHANGED <<row, sock, child, netVars, meterVars>>

Prepare == TapCreate \/ TapRegister \/ ConfigPut

-----------------------------------------------------------------------------
(* Calls to the Firecracker API that end an action *)

CanBoot == Answers /\ proc[sock].st = "idle" /\ "kernel" \in proc[sock].cfg

InstanceStart ==
  /\ h.pc = "boot"
  /\ \/ /\ CanBoot
        /\ Becomes(sock, "running")
        /\ \/ Plan("finish", "running")
           \/ ApiFlakes /\ Fail
     \/ /\ Fail
        /\ UNCHANGED proc
  /\ UNCHANGED <<row, sock, child, netVars, meterVars>>

SnapshotLoad ==
  /\ h.pc = "load"
  /\ \/ /\ Answers /\ proc[sock].st = "idle"
        /\ proc' = [proc EXCEPT ![sock] = [st |-> "paused", cfg |-> Devices]]
        /\ \/ Plan("finish", "paused")
           \/ ApiFlakes /\ Fail
     \/ /\ Fail
        /\ UNCHANGED proc
  /\ UNCHANGED <<row, sock, child, netVars, meterVars>>

(* What the call needs the guest to be, what it makes it, and what the row *)
(* will say.  Metadata goes to any process that answers.                   *)
CallEffect(op) ==
  CASE op = "Pause"    -> [from |-> {"running"}, to |-> "paused",  next |-> "paused"]
    [] op = "Resume"   -> [from |-> {"paused"},  to |-> "running", next |-> "running"]
    [] op = "Snapshot" -> [from |-> {"paused"},  to |-> "paused",  next |-> "paused"]
    [] op = "Shutdown" -> [from |-> {"running"}, to |-> "running", next |-> "running"]
    [] op = "Metadata" -> [from |-> BoundState,  to |-> "same",    next |-> h.state]

Call ==
  /\ h.pc = "call"
  /\ LET e == CallEffect(h.op) IN
     \/ /\ Answers /\ proc[sock].st \in e.from
        /\ IF e.to = "same" THEN UNCHANGED proc ELSE Becomes(sock, e.to)
        /\ \/ Plan("finish", e.next)
           \/ ApiFlakes /\ Fail
     \/ /\ Fail
        /\ UNCHANGED proc
  /\ UNCHANGED <<row, sock, child, netVars, meterVars>>

(* A raw request: any call an administrator may send, then a refresh unless *)
(* the request itself failed.                                              *)
RawOutcomes ==
  {proc[sock].st} \cup (IF CanBoot THEN {"running"} ELSE {})
                  \cup (IF proc[sock].st \in {"running", "paused"}
                        THEN {"running", "paused"} ELSE {})

RawRequest ==
  /\ h.pc = "raw"
  /\ \/ /\ Answers
        /\ \E st \in RawOutcomes : Becomes(sock, st)
        /\ Goto("probe") \/ (ApiFlakes /\ Release)
     \/ /\ Silent
        /\ Release
        /\ UNCHANGED proc
  /\ UNCHANGED <<row, sock, child, netVars, meterVars>>

(* set_vm_state of a successful action *)
Finish ==
  /\ h.pc = "finish"
  /\ LET pid == IF h.next = "stopped" THEN None
                ELSE IF child # None THEN child ELSE h.pid IN
       SetVmState(h.next, pid)
  /\ Release
  /\ UNCHANGED <<procVars, netVars, meterVars>>


-----------------------------------------------------------------------------
(* VmAction::Stop *)

StopProcess ==
  /\ h.pc = "stop"
  /\ \/ /\ h.state = "stopped"
        /\ Goto("stopclean")
        /\ UNCHANGED procVars
     \/ /\ h.state # "stopped"
        /\ StopSucceeds
        /\ Goto("stopclean")
     \/ /\ h.state # "stopped"
        /\ StopFails
        /\ Fail
  /\ UNCHANGED <<row, netVars, meterVars>>

StopCleans ==
  /\ h.pc = "stopclean"
  /\ eng' = FALSE
  /\ RemoveTap
  /\ Goto("cgroup")
  /\ UNCHANGED <<row, procVars, meterVars>>

(* cleanup_cgroup is the one step of a stop whose failure is not ignored.  *)
StopCgroup ==
  /\ h.pc = "cgroup"
  /\ \/ Plan("finish", "stopped")
     \/ Fail
  /\ UNCHANGED <<row, procVars, netVars, meterVars>>

Stop == StopProcess \/ StopCleans \/ StopCgroup

-----------------------------------------------------------------------------
(* The error path of Runtime::action, for a row left starting *)

(* Mutant: the VM is marked failed even when its process would not stop. *)
ErrorIgnoresStop ==
  /\ h.pc = "errstop"
  /\ StopSucceeds \/ StopFails
  /\ Plan("errclean", "failed")
  /\ UNCHANGED <<row, netVars, meterVars>>

ErrorStops ==
  /\ h.pc = "errstop"
  /\ \/ /\ StopSucceeds
        /\ Plan("errclean", "failed")
     \/ /\ StopFails
        /\ Plan("errwrite", "unknown")
  /\ UNCHANGED <<row, netVars, meterVars>>

ErrorCleans ==
  /\ h.pc = "errclean"
  /\ eng' = FALSE
  /\ RemoveTap
  /\ Goto("errwrite")
  /\ UNCHANGED <<row, procVars, meterVars>>

ErrorWrites ==
  /\ h.pc = "errwrite"
  /\ SetVmState(h.next, None)
  /\ Release
  /\ UNCHANGED <<procVars, netVars, meterVars>>

OnError == ErrorStops \/ ErrorCleans \/ ErrorWrites

-----------------------------------------------------------------------------
(* Runtime::update, delete and output: the operations on a stopped VM *)

(* Mutant: only the table of children is asked, not the row. *)
ClaimableByChildren == child = None

Claimable ==
  IF h.op = "Output" THEN h.state = "stopped"
                     ELSE h.state \in Inactive /\ child = None

(* Runtime::ensure_stopped_process, which update does not call *)
EnsuredStopped == /\ ~Live(child)
                  /\ ~IsAlive(h.pid, row.start)
                  /\ ~Connects

(* Mutant: it is enough that the guest is not seen running. *)
MayUseUnlessRunning == h.state # "running"

MayUseDisks == Claimable /\ (h.op # "Update" => EnsuredStopped)

ClaimDisks ==
  /\ h.pc = "claim"
  /\ IF MayUseDisks THEN Goto("disk") ELSE Release
  /\ UNCHANGED <<row, procVars, netVars, meterVars>>

(* update_vm_spec: a stopped row stays stopped, any other becomes defined. *)
UpdateSpec ==
  /\ h.pc = "disk" /\ h.op = "Update"
  /\ row' = [row EXCEPT !.state = IF h.state = "stopped" THEN "stopped" ELSE "defined"]
  /\ Release
  /\ UNCHANGED <<procVars, netVars, meterVars>>

ReadOutput ==
  /\ h.pc = "disk" /\ h.op = "Output"
  /\ Release
  /\ UNCHANGED <<row, procVars, netVars, meterVars>>

DeleteFiles ==
  /\ h.pc = "disk" /\ h.op = "Delete"
  /\ eng' = FALSE
  /\ RemoveTap
  /\ \/ sock' = None /\ Goto("deleterow")
     \/ sock' = sock /\ Release     \* the cgroup or a directory stays behind
  /\ UNCHANGED <<row, proc, child, meterVars>>

DeleteRow ==
  /\ h.pc = "deleterow"
  /\ row' = [row EXCEPT !.state = "deleted"]
  /\ Release
  /\ UNCHANGED <<procVars, netVars, meterVars>>

Disks == ClaimDisks \/ UpdateSpec \/ ReadOutput \/ DeleteFiles \/ DeleteRow

-----------------------------------------------------------------------------
(* The environment: processes, clients that disconnect, server crashes *)

Bind(n) ==
  /\ proc[n].st = "booting"
  /\ IF sock = None
     THEN sock' = n /\ Becomes(n, "idle")
     ELSE Kill(n) /\ UNCHANGED sock      \* the address is in use
  /\ UNCHANGED <<row, child, netVars, h, meterVars>>

Exit(n) ==
  /\ Live(n)
  /\ Kill(n)
  /\ UNCHANGED <<row, sock, child, netVars, h, meterVars>>

Abandon ==
  /\ h.pc # "idle"
  /\ h.op # "Recover"
  /\ faults < MaxFaults
  /\ faults' = faults + 1
  /\ Dropped
  /\ Release
  /\ UNCHANGED <<row, procVars, netVars, up, launches>>

Crash ==
  /\ up
  /\ faults < MaxFaults
  /\ faults' = faults + 1
  /\ up' = FALSE
  /\ child' = None
  /\ eng' = FALSE
  /\ Forgotten
  /\ Release
  /\ UNCHANGED <<row, proc, sock, tap, launches>>

(* serve_managed runs recover_egress before anything takes a mutex.        *)
Restart ==
  /\ ~up
  /\ OrphansBound
  /\ up' = TRUE
  /\ IF row.state \in Inactive \cup {"deleted"} THEN Release
     ELSE Enter("probe", "Recover", row.state, row.pid)
  /\ UNCHANGED <<row, procVars, netVars, launches, faults, identity>>

RecoverEgress ==
  /\ h.pc = "recover"
  /\ \/ /\ h.state = "stopped" \/ ~Restricted
        /\ UNCHANGED netVars
     \/ /\ Restricted /\ h.state \in Verified
        /\ eng' = TRUE
        /\ UNCHANGED tap
     \/ /\ Restricted /\ h.state # "stopped"     \* unverified, or it failed
        /\ eng' = FALSE
        /\ SuspendTap
  /\ Release
  /\ UNCHANGED <<row, procVars, meterVars>>

Environment == \/ \E n \in Process : Bind(n) \/ Exit(n)
               \/ Abandon \/ Crash \/ Restart

Handle == \/ Refresh
          \/ GuardRefuses \/ GuardFresh \/ GuardReady \/ RestoreGuard
          \/ Launch \/ Prepare
          \/ InstanceStart \/ SnapshotLoad \/ Call \/ RawRequest \/ Finish
          \/ Stop \/ OnError \/ Disks \/ RecoverEgress

Next == \/ \E op \in Ops : Begin(op)
        \/ Handle
        \/ Environment

Spec == Init /\ [][Next]_vars

(* The refresher of app.rs comes back every five seconds and the mutex is  *)
(* granted in order of arrival; a handler that is not dropped runs on.     *)
Fairness == /\ SF_vars(Begin("Refresh"))
            /\ WF_vars(Handle)
            /\ WF_vars(Restart)
            /\ \A n \in Process : WF_vars(Bind(n))

FairSpec == Spec /\ Fairness

-----------------------------------------------------------------------------
(* Properties *)

(* The one case in which the code loses a process: the request is dropped   *)
(* inside launch_process, between the table of children and the row; a call *)
(* then writes the child's pid to the row with no, or an older, start time; *)
(* and the server crashes.  `Lost` stands for it, and only for it: what is  *)
(* excepted below begins with that crash.                                   *)

OneAlive == \A m, n \in Process : Live(m) /\ Live(n) => m = n

(* Two Firecracker processes on one VM would write the same disks at once:  *)
(* whatever else is abandoned, crashes or times out, launch_process never   *)
(* spawns beside a live one, unless a crash has lost that one (Lost).       *)
OneProcess == ~Lost => OneAlive

(* A row that says defined, stopped or failed (or is deleted) tells the     *)
(* truth, even while a handler is at work: no process of the VM lives,      *)
(* nothing is registered with the egress engine and no TAP of it is up that *)
(* nobody has tried to take down; unless a crash has lost the process       *)
(* (Lost).                                                                  *)
InactiveIsQuiet ==
  ~Lost /\ row.state \in Inactive \cup {"deleted"} => NoLive /\ ~eng /\ tap # "up"

(* Deleting a VM's files and reading files out of its disk happen only      *)
(* while no process can be writing to them: delete and output check the     *)
(* row, the child, the recorded process and the socket in turn.             *)
FilesUnused == h.pc \in {"disk", "deleterow"} /\ h.op # "Update" => NoLive

(* A configuration is edited only while no process runs from it: update     *)
(* relies on the row and the children alone.  As it stands, without the     *)
(* exception, the code does not keep it.                                    *)
EditsNeedStop == h.pc = "disk" /\ h.op = "Update" => NoLive

(* The row tells the process it names, so that stop_process after a restart *)
(* signals the VM's process or nothing: a recorded pid comes with the start *)
(* time of the same process; where the request was dropped before that was  *)
(* written, the server holds the process as its child, until a crash takes  *)
(* that away (Lost).                                                        *)
IdentityCoherent ==
  /\ identity = "kept" /\ row.pid # None => row.start = row.pid
  /\ identity = "dropped" /\ Live(row.pid) => row.pid \in {row.start, child}

(* What is done to a VM's files is done while it is down, by whichever      *)
(* evidence the operation goes, unless a crash has lost the process (Lost). *)
UntouchedWhileAlive == ~Lost => EditsNeedStop /\ FilesUnused

(* Without interruptions a guest booted by Start has all its devices, by    *)
(* Prepare, by the same Start, or by Start after a bare Launch.             *)
Boots == h.pc = "boot" /\ \E n \in Process : proc[n].st = "idle" /\ proc'[n].st = "running"
BootsPrepared ==
  [][Boots /\ faults = 0 => \A n \in Process : Live(n) => proc[n].cfg = Devices]_vars

(* A server that lets go of a child has seen it exit: no live process is    *)
(* replaced or dropped from Runtime::children.                              *)
ChildrenReaped ==
  [][\A n \in Process : child = n /\ child' # n /\ up' => ~Live(n)']_vars

(* The refresher gets a row out of "starting" however its handler ended.    *)
StartingEnds == row.state = "starting" ~> row.state # "starting"

(* Whether there is anything to tell from that the process has gone: the    *)
(* child's handle, or a start time to compare.                              *)
Telling == child # None \/ row.start # None

(* It also notices that the process of an active row is gone, and then the  *)
(* row becomes inactive, unless somebody starts or deletes the VM, or a     *)
(* crash takes the only handle of a process that was never identified.      *)
ExitNoticed == (row.state \in Verified /\ row.pid # None /\ NoLive /\ Telling)
                 ~> (row.state \in Inactive \cup {"deleted"} \/ ~NoLive \/ ~Telling)

(* So the row catches up with the process, whoever has left it behind.     *)
RefreshCatchesUp == StartingEnds /\ ExitNoticed

-----------------------------------------------------------------------------
(* The inductive invariant behind OneProcess, InactiveIsQuiet,              *)
(* UntouchedWhileAlive and IdentityCoherent, up to the crash that loses a   *)
(* process.                                                                 *)

Settled == NoLive /\ child = None
Quiet   == Settled /\ ~eng /\ tap # "up"

Ended == Inactive \cup {"deleted"}

(* Whatever names a process, other than the stale process_start and socket  *)
(* node, names the one that lives.                                          *)
Named ==
  \A n \in Process :
    /\ Bound(n) => sock = n
    /\ Live(n) /\ child # None => child = n
    /\ Live(n) /\ row.pid # None => row.pid = n

(* A child is recorded in the row, but between its two insertions and where *)
(* the request was dropped between them.                                    *)
ChildRecorded ==
  child # None /\ h.pc # "setproc" /\ identity = "kept" => row.start = child

(* What a handler read of the row under the mutex stays true, but for the   *)
(* pid of a process that it launched itself and so holds as a child.        *)
HandlerCurrent ==
  h.pc # "idle" =>
    /\ h.state = row.state
    /\ \/ h.pid = row.pid
       \/ /\ h.pid = None /\ child = row.pid
          /\ h.pc \in {"setstart", "wait", "tap", "register", "config", "boot",
                       "load", "finish", "errstop"}
       \/ h.pc \in {"errclean", "errwrite"}

Launching == {"socket", "spawn", "insert", "setproc", "setstart", "wait",
              "tap", "register", "load"}

(* What each step of a handler may count on. *)
StepReady ==
  /\ h.pc \in Launching => h.state = "starting"
  /\ h.pc \in {"socket", "spawn"} => Settled /\ row.pid = None
  /\ h.pc = "insert" => /\ child = None /\ row.pid = None /\ h.new # None
                        /\ \A n \in Process : Live(n) => n = h.new
  /\ h.pc = "setproc" => child = h.new /\ row.pid = None /\ h.new # None
  /\ h.pc = "setstart" => child = h.new /\ row.pid = h.new
  /\ h.pc = "clean" => h.next = "stopped" /\ Settled
  /\ h.pc = "call" => h.op \in CallOps
  /\ h.pc = "adopt" => h.next \in Verified
  /\ h.pc = "write" => /\ h.next \in Verified \cup {"stopped", "unknown"}
                       /\ h.next = "stopped" => Quiet
  /\ h.pc = "config" => h.next \in Devices
  /\ h.pc = "stopclean" => Settled
  /\ h.pc = "cgroup" => Quiet
  /\ h.pc = "finish" => h.next \in RowState /\ (h.next \in Ended => Quiet)
  /\ h.pc = "errclean" => h.next = "failed" /\ Settled
  /\ h.pc = "errwrite" => /\ h.next \in {"failed", "unknown"}
                          /\ h.next = "failed" => Quiet
  /\ h.pc \in {"disk", "deleterow"} => h.state \in Inactive

(* Inside a handler only the process it is launching can still be booting   *)
(* without a handle.                                                        *)
NoOrphanBoots ==
  child = None /\ h.pc \notin {"idle", "insert"} =>
    \A n \in Process : proc[n].st # "booting"

DownIsIdle == ~up => h.pc = "idle"

(* Every fact that the safety of the lifecycle rests on, together.          *)
Known ==
  /\ OneAlive
  /\ row.state \in Ended => Quiet
  /\ IdentityCoherent
  /\ Named
  /\ ChildRecorded
  /\ HandlerCurrent
  /\ StepReady
  /\ NoOrphanBoots
  /\ DownIsIdle

IInv == /\ TypeOK
        /\ ~Lost => Known
        /\ faults = 0 => identity = "kept"

-----------------------------------------------------------------------------
(* The inductive invariant behind TypeOK and ChildrenReaped, which hold     *)
(* wherever a client disconnects.  It speaks of the server's own child only: *)
(* as long as that lives, no row and nobody about to write one calls the VM *)
(* inactive, so that nothing is launched.                                   *)

ChildDown == ~Live(child)

ChildReady ==
  /\ h.pc \in Launching => h.state = "starting"
  /\ h.pc \in {"socket", "spawn", "insert", "stopclean", "cgroup"} => ChildDown
  /\ h.pc = "insert" => h.new \in 0..launches
  /\ h.pc \in {"clean", "write", "finish", "errclean", "errwrite"} =>
       h.next \in RowState /\ (h.next \in Ended => ChildDown)
  /\ h.pc = "adopt" => h.next \in Verified
  /\ h.pc = "config" => h.next \in Devices
  /\ h.pc = "call" => h.op \in CallOps
  /\ h.pc \in {"disk", "deleterow"} => h.state \in Inactive

ChildInv ==
  /\ TypeOK
  /\ child \in 0..launches
  /\ row.state \in Ended => ChildDown
  /\ h.pc # "idle" => h.state = row.state
  /\ ChildReady

-----------------------------------------------------------------------------
(* The inductive invariant behind BootsPrepared, besides IInv.  It speaks   *)
(* of behaviours in which no handler is dropped and the server stays up.    *)

LaunchSteps == {"socket", "spawn", "insert", "setproc", "setstart", "wait"}

(* What a process that has not booted may have been given, by the step of   *)
(* the handler: nothing before the devices, then one after the other; and   *)
(* between handlers all, or nothing after a bare Launch.                    *)
Given ==
  CASE h.pc \in LaunchSteps \cup {"tap", "register"} -> {{}}
    [] h.pc = "config" -> {CASE h.next = "kernel" -> {}
                             [] h.next = "root"   -> {"kernel"}
                             [] OTHER             -> {"kernel", "root"}}
    [] h.pc = "boot"                -> {Devices}
    [] h.pc \in {"load", "errstop"} -> SUBSET Devices
    [] OTHER                        -> IF Jailed THEN {Devices} ELSE {{}, Devices}

AsGiven ==
  \A n \in Process :
    /\ proc[n].st = "booting" => proc[n].cfg = {} /\ h.pc \in LaunchSteps \cup {"errstop"}
    /\ proc[n].st = "idle" => proc[n].cfg \in Given

(* The server has a handle of the process that lives, ...                   *)
Held == h.pc # "insert" => \A n \in Process : Live(n) => child = n

(* ... a jailed VM is not launched bare, and an error while the devices are *)
(* attached stops the process.                                              *)
BareIfTrusted  == h.pc \in LaunchSteps \cup {"restore"} /\ h.op = "Launch" => ~Jailed
ConfigStarting == h.pc = "config" => h.state = "starting"

Calm == AsGiven /\ Held /\ BareIfTrusted /\ ConfigStarting

Untroubled == faults = 0 => Calm

=============================================================================
