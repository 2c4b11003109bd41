---------------------------- MODULE EgressUpdate ----------------------------
(***************************************************************************)
(* Changing egress policy under running guests.  Saving a shared policy or *)
(* an upstream proxy, or assigning a policy to a VM, marks each running VM *)
(* it concerns as pending, gates its traffic, replaces the egress engine's *)
(* registrations and the nft rules, stores the change, and only then lets  *)
(* the guests through again; a failure takes the same way back.  Meanwhile *)
(* VMs start, stop and exit, clients disconnect, and the server crashes    *)
(* and recovers each VM from its row and its marker file.                  *)
(*                                                                         *)
(* Each step of a handler is one external effect: a marker file, one nft   *)
(* transaction, one swap of the engine's table, one write to the database. *)
(* Starting and stopping are those of VmLifecycle, reduced to what they do *)
(* to a VM's network.                                                      *)
(***************************************************************************)
EXTENDS Naturals

CONSTANTS
  VM,        \* the virtual machines of one owner, on Firemage-only networks
  Policy,    \* the policies of the catalog
  Content,   \* what a policy can resolve to: rules, tunnels and upstream
  Unbound,   \* the binding of a VM without a policy
  NoPolicy,  \* no registration, or rules that open no port
  Flaky,     \* what may fail: see Fallible
  Dropped    \* the handlers a client may drop: "catalog", "start"

(* mark: the marker file; nft and ip: the two commands; engine: binding a  *)
(* listener; commit: the catalog's transaction; row: set_vm_state at the   *)
(* end; resolve: a secret that a policy refers to; api: Firecracker's API; *)
(* verify: the check of a jailed process; stop: killing a process.         *)
Fallible == {"mark", "nft", "ip", "engine", "commit", "row", "resolve", "api", "verify",
             "stop"}

ASSUME EgressConstants ==
  /\ Unbound \notin Policy
  /\ NoPolicy \notin Content
  /\ Flaky \subseteq Fallible
  /\ Dropped \subseteq {"catalog", "start"}

VARIABLES
  content,  \* database: what each policy says
  bind,     \* database: the policy of each VM
  row,      \* database: the state of each VM
  err,      \* database: whether a VM's error text is an egress error
  marker,   \* the file egress-pending/<id>
  guest,    \* the VM's process: none, without a device made for it (bare),
            \* not wholly configured (partial), or booted (whole)
  link,     \* its TAP device: none, up, down, or cut off by a failed check
  gate,     \* whether the nft table that drops all its traffic exists
  rules,    \* the policy its nft rules were made from
  eng,      \* the policy registered for it with the egress engine
  lock,     \* who holds its mutex: nobody, the catalog, or a start at a step
  up,       \* the server: down, recovering or serving
  pc,       \* the catalog handler, or recover_egress: its step
  mode,     \* ... on its way forward or back, or why it recovers
  todo,     \* ... the VMs its loop has still to do
  live,     \* ... the VMs it changes
  before,   \* ... what rollback registers for them
  wantc,    \* ... the contents and
  wantb,    \* ... the bindings it is to store
  rest      \* recover_egress: the VMs it has not come to

dbVars   == <<content, bind>>
rowVars  == <<row, err>>
netVars  == <<link, gate, rules, eng>>
loopVars == <<pc, mode, todo, live>>
planVars == <<before, wantc, wantb, rest>>
vars     == <<dbVars, rowVars, marker, guest, netVars, lock, up, loopVars, planVars>>

Access == Content \cup {NoPolicy}

Steps == {"idle", "read", "lock", "examine", "mark", "gate", "engine", "rules",
          "commit", "resume", "clear", "block", "recover"}

CatalogTypes ==
  /\ content \in [Policy -> Content] /\ wantc \in [Policy -> Content]
  /\ bind \in [VM -> Policy \cup {Unbound}] /\ wantb \in [VM -> Policy \cup {Unbound}]

HostTypes ==
  /\ row \in [VM -> {"inactive", "starting", "active", "unknown"}]
  /\ err \in [VM -> BOOLEAN]
  /\ marker \in [VM -> BOOLEAN]
  /\ guest \in [VM -> {"none", "bare", "partial", "whole"}]
  /\ link \in [VM -> {"none", "up", "down", "cut"}]
  /\ gate \in [VM -> BOOLEAN]

TableTypes ==
  /\ rules \in [VM -> Access] /\ eng \in [VM -> Access] /\ before \in [VM -> Access]

HandlerTypes ==
  /\ lock \in [VM -> {"free", "catalog", "tap", "register", "boot"}]
  /\ up \in {"down", "recovering", "serving"}
  /\ pc \in Steps
  /\ mode \in {"apply", "undo", "pending", "plain"}
  /\ todo \subseteq VM /\ live \subseteq VM /\ rest \subseteq VM

TypeOK == CatalogTypes /\ HostTypes /\ TableTypes /\ HandlerTypes

Nobody == [v \in VM |-> NoPolicy]

Init ==
  /\ content \in [Policy -> Content] /\ wantc = content
  /\ bind \in [VM -> Policy \cup {Unbound}] /\ wantb = bind
  /\ row = [v \in VM |-> "inactive"]
  /\ err = [v \in VM |-> FALSE]
  /\ marker = [v \in VM |-> FALSE]
  /\ guest = [v \in VM |-> "none"]
  /\ link = [v \in VM |-> "none"]
  /\ gate = [v \in VM |-> FALSE]
  /\ rules = Nobody /\ eng = Nobody /\ before = Nobody
  /\ lock = [v \in VM |-> "free"]
  /\ up = "serving"
  /\ pc = "idle" /\ mode = "apply"
  /\ todo = {} /\ live = {} /\ rest = {}

-----------------------------------------------------------------------------
(* Policies, the network and the row *)

(* Runtime::effective_egress *)
Effective(c, b, v) == IF b[v] = Unbound THEN NoPolicy ELSE c[b[v]]
Stored(v)   == Effective(content, bind, v)
Proposed(v) == Effective(wantc, wantb, v)

(* Packets that a guest sends get past its TAP and its gate. *)
Open(v) == link[v] = "up" /\ ~gate[v]

(* The process may have the TAP as its network interface. *)
Attached(v) == guest[v] \in {"partial", "whole"}

(* Runtime::is_egress_recovery_pending *)
Pending(v) == marker[v] \/ err[v]

May(call) == call \in Flaky

(* network::remove: the link goes down, both tables go, then the device,    *)
(* and the tables with it.  Nobody minds what of it fails, so the device   *)
(* may stay, even up, with its rules and its gate.                         *)
Unplug(v) ==
  \/ /\ link'  = [link EXCEPT ![v] = "none"]
     /\ gate'  = [gate EXCEPT ![v] = FALSE]
     /\ rules' = [rules EXCEPT ![v] = NoPolicy]
  \/ /\ link[v] # "none"
     /\ \/ link' = [link EXCEPT ![v] = "down"]
        \/ May("ip") /\ UNCHANGED link
     /\ \/ gate' = [gate EXCEPT ![v] = FALSE]
        \/ May("nft") /\ UNCHANGED gate
     /\ \/ rules' = [rules EXCEPT ![v] = NoPolicy]
        \/ May("nft") /\ UNCHANGED rules

Unregister(v) == eng' = [eng EXCEPT ![v] = NoPolicy]

(* network::suspend, whose failure nobody acts upon *)
Suspend(v) == \/ link' = [link EXCEPT ![v] = IF @ = "up" THEN "down" ELSE @]
              \/ May("ip") /\ UNCHANGED link

(* set_vm_state, with an error text of another kind or none *)
SetState(v, state) ==
  /\ row' = [row EXCEPT ![v] = state]
  /\ err' = [err EXCEPT ![v] = FALSE]

(* record_stopped, and the end of Stop *)
RecordStopped(v) == Unregister(v) /\ Unplug(v) /\ SetState(v, "inactive")

(* Runtime::refresh finds the process gone, answering, or silent.  An      *)
(* egress error text survives as long as the state does.                   *)
RefreshStopped(v) ==
  /\ guest[v] = "none"
  /\ IF row[v] = "inactive" THEN UNCHANGED <<rowVars, netVars>> ELSE RecordStopped(v)

RefreshAnswered(v, state) ==
  /\ state = "active" \/ May("api")
  /\ IF row[v] = state THEN UNCHANGED rowVars ELSE SetState(v, state)
  /\ UNCHANGED netVars

(* A jailed process answers but fails the check: its TAP is suspended, and *)
(* the text that says so replaces an egress error text.                    *)
RefreshUnverified(v) ==
  /\ May("verify")
  /\ SetState(v, "unknown")
  /\ \/ link' = [link EXCEPT ![v] = IF @ = "up" THEN "cut" ELSE @]
     \/ May("ip") /\ UNCHANGED link
  /\ UNCHANGED <<gate, rules, eng>>

RefreshAlive(v, state) ==
  /\ guest[v] # "none"
  /\ \/ RefreshAnswered(v, state)
     \/ state = "unknown" /\ RefreshUnverified(v)

-----------------------------------------------------------------------------
(* The loops of the catalog handler and of recover_egress *)

(* The handler ends, or is dropped: its guards release what it holds.      *)
Release ==
  /\ pc' = "idle" /\ mode' = "apply"
  /\ todo' = {} /\ live' = {} /\ rest' = {}
  /\ lock' = [v \in VM |-> IF lock[v] = "catalog" THEN "free" ELSE lock[v]]
  /\ before' = Nobody /\ wantc' = content' /\ wantb' = bind'

(* recover_egress goes on to the next row. *)
NextRow ==
  /\ pc' = "recover" /\ mode' = "apply"
  /\ todo' = {} /\ live' = {}
  /\ UNCHANGED <<lock, planVars>>

Finish == IF up = "serving" THEN Release ELSE NextRow

Goto(step, vms) ==
  /\ pc' = step
  /\ todo' = vms
  /\ UNCHANGED <<mode, live, lock, planVars>>

(* v is done at this step of the loop; the last one moves on to the next.  *)
Advance(v, step) ==
  IF todo = {v} THEN Goto(step, live) ELSE Goto(pc, todo \ {v})

(* Mutant: a rollback that fails is tried again, and again. *)
FailAgain ==
  IF mode # "apply" THEN Goto("gate", live)
  ELSE /\ pc' = "gate" /\ todo' = live /\ mode' = "undo"
       /\ UNCHANGED <<live, lock, planVars>>

(* The ? of apply_egress_changes' two blocks and of recover_egress. *)
Fail ==
  IF mode # "apply" THEN Goto("block", live)
  ELSE /\ pc' = "gate" /\ todo' = live /\ mode' = "undo"
       /\ UNCHANGED <<live, lock, planVars>>

-----------------------------------------------------------------------------
(* update_egress_policy, update_upstream_proxy and assign_egress_policy *)

Idle == up = "serving" /\ pc = "idle"

(* A shared policy concerns the VMs bound to it (policy_vms, proxy_vms).   *)
Save(p, c) ==
  /\ Idle
  /\ wantc' = [content EXCEPT ![p] = c] /\ wantb' = bind
  /\ pc' = "read"
  /\ todo' = {v \in VM : bind[v] = p}
  /\ UNCHANGED <<dbVars, rowVars, marker, guest, netVars, lock, up, mode, live, before, rest>>

Assign(v, p) ==
  /\ Idle
  /\ wantc' = content /\ wantb' = [bind EXCEPT ![v] = p]
  /\ pc' = "read"
  /\ todo' = {v}
  /\ UNCHANGED <<dbVars, rowVars, marker, guest, netVars, lock, up, mode, live, before, rest>>

Unchanged == /\ wantc = content /\ wantb = bind
             /\ \A v \in todo : ~Pending(v)

(* The catalog says so already: success, without a look at the VMs. *)
SkipUnchanged ==
  /\ pc = "read"
  /\ Unchanged
  /\ UNCHANGED dbVars
  /\ Release
  /\ UNCHANGED <<rowVars, marker, guest, netVars, up>>

(* A revision conflict, or invalid or unresolvable input: here, or in      *)
(* live_change, before anything is touched.                                *)
Refuse ==
  /\ pc \in {"read", "examine"}
  /\ UNCHANGED dbVars
  /\ Release
  /\ UNCHANGED <<rowVars, marker, guest, netVars, up>>

Proceed ==
  /\ pc = "read"
  /\ ~Unchanged
  /\ IF todo = {} THEN Goto("commit", {}) ELSE Goto("lock", todo)
  /\ UNCHANGED <<dbVars, rowVars, marker, guest, netVars, up>>

(* lock_egress_vms: all mutexes, before any row is looked at again. *)
LockVm(v) ==
  /\ pc = "lock" /\ v \in todo
  /\ lock[v] = "free"
  /\ lock' = [lock EXCEPT ![v] = "catalog"]
  /\ IF todo = {v}
     THEN pc' = "examine" /\ todo' = {u \in VM : lock'[u] = "catalog"}
     ELSE pc' = pc /\ todo' = todo \ {v}
  /\ UNCHANGED <<dbVars, rowVars, marker, guest, netVars, up, mode, live, planVars>>

(* What follows the last live_change. *)
Examined(v, changes) ==
  /\ live' = changes
  /\ IF todo # {v} THEN pc' = pc /\ todo' = todo \ {v}
     ELSE IF changes = {} THEN pc' = "commit" /\ todo' = {}
     ELSE pc' = "mark" /\ todo' = changes
  /\ UNCHANGED <<mode, lock, wantc, wantb, rest>>

(* live_change: a VM that is not running needs no live change ... *)
ExamineStopped(v) ==
  /\ pc = "examine" /\ v \in todo
  /\ RefreshStopped(v)
  /\ Examined(v, live)
  /\ UNCHANGED <<dbVars, marker, guest, up, before>>

(* ... one that runs does.  What cannot be resolved cannot be restored.    *)
ExamineActive(v) ==
  /\ pc = "examine" /\ v \in todo
  /\ RefreshAlive(v, "active")
  /\ \/ before' = [before EXCEPT ![v] = Stored(v)]
     \/ May("resolve") /\ before' = [before EXCEPT ![v] = NoPolicy]
  /\ Examined(v, live \cup {v})
  /\ UNCHANGED <<dbVars, marker, guest, up>>

(* ... and one whose state is unknown refuses the whole change. *)
ExamineUnknown(v) ==
  /\ pc = "examine" /\ v \in todo
  /\ RefreshAlive(v, "unknown")
  /\ UNCHANGED dbVars
  /\ Release
  /\ UNCHANGED <<marker, guest, up>>

Examine(v) == ExamineStopped(v) \/ ExamineActive(v) \/ ExamineUnknown(v)

-----------------------------------------------------------------------------
(* apply_egress_changes, and the part of recover_egress that repeats it *)

(* Mutant: the marker is left to the error path. *)
MarkLater(v) ==
  /\ pc = "mark" /\ v \in todo
  /\ UNCHANGED dbVars
  /\ Advance(v, "gate")
  /\ UNCHANGED <<rowVars, marker, guest, netVars, up>>

(* mark_egress_pending; an error here leaves at once, with nothing gated.  *)
Mark(v) ==
  /\ pc = "mark" /\ v \in todo
  /\ \/ /\ marker' = [marker EXCEPT ![v] = TRUE]
        /\ UNCHANGED dbVars
        /\ Advance(v, "gate")
     \/ /\ May("mark")
        /\ UNCHANGED <<dbVars, marker>>
        /\ Release
  /\ UNCHANGED <<rowVars, guest, netVars, up>>

(* Mutant: the gate of one VM is taken for the gates of all. *)
QuiesceFirst(v) ==
  /\ pc = "gate" /\ v \in todo
  /\ \/ /\ link[v] # "none"
        /\ gate' = [gate EXCEPT ![v] = TRUE]
        /\ Goto("engine", live)
     \/ /\ link[v] = "none" \/ May("nft")
        /\ UNCHANGED gate
        /\ Fail
  /\ UNCHANGED <<dbVars, rowVars, marker, guest, link, rules, eng, up>>

(* network::quiesce, which needs the device to hook into *)
Quiesce(v) ==
  /\ pc = "gate" /\ v \in todo
  /\ \/ /\ link[v] # "none"
        /\ gate' = [gate EXCEPT ![v] = TRUE]
        /\ Advance(v, "engine")
     \/ /\ link[v] = "none" \/ May("nft")
        /\ UNCHANGED gate
        /\ Fail
  /\ UNCHANGED <<dbVars, rowVars, marker, guest, link, rules, eng, up>>

(* Mutant: a rollback puts the rejected policy in place. *)
TargetForward(v) == IF up = "serving" THEN Proposed(v) ELSE Stored(v)

(* What replace_egress_engine, or recovery, is to put in place. *)
Target(v) == IF mode = "apply" THEN Proposed(v)
             ELSE IF mode = "undo" THEN before[v] ELSE Stored(v)

(* EgressManager::replace_many: every listener is bound before the table   *)
(* of registrations changes, all of it at once.                            *)
ReplaceEngine ==
  /\ pc = "engine" /\ up = "serving"
  /\ \/ /\ eng' = [v \in VM |-> IF v \in live THEN Target(v) ELSE eng[v]]
        /\ Goto("rules", live)
     \/ /\ May("engine")
        /\ UNCHANGED eng
        /\ Fail
  /\ UNCHANGED <<dbVars, rowVars, marker, guest, link, gate, rules, up>>

(* register_egress_routes of recover_egress *)
RecoverEngine(v) ==
  /\ pc = "engine" /\ up = "recovering" /\ live = {v}
  /\ \/ /\ eng[v] = NoPolicy
        /\ eng' = [eng EXCEPT ![v] = Stored(v)]
        /\ IF mode = "pending" THEN Goto("rules", live) ELSE Finish
     \/ /\ May("resolve") \/ May("engine")
        /\ UNCHANGED eng
        /\ Fail
  /\ UNCHANGED <<dbVars, rowVars, marker, guest, link, gate, rules, up>>

(* network::replace_rules: one transaction for every VM *)
ReplaceRules ==
  /\ pc = "rules"
  /\ \/ /\ \A v \in live : link[v] # "none"
        /\ rules' = [v \in VM |-> IF v \in live THEN Target(v) ELSE rules[v]]
        /\ IF mode = "apply" THEN Goto("commit", live) ELSE Goto("resume", live)
     \/ /\ May("nft") \/ \E v \in live : link[v] = "none"
        /\ UNCHANGED rules
        /\ Fail
  /\ UNCHANGED <<dbVars, rowVars, marker, guest, link, gate, eng, up>>

Commit ==
  /\ pc = "commit"
  /\ \/ /\ content' = wantc /\ bind' = wantb
        /\ IF live = {} THEN Release ELSE Goto("resume", live)
     \/ /\ May("commit")
        /\ UNCHANGED dbVars
        /\ IF live = {} THEN Release ELSE Fail
  /\ UNCHANGED <<rowVars, marker, guest, netVars, up>>

(* Mutant: only the gate goes; a link suspended by an earlier failure stays. *)
ResumeGateOnly(v) ==
  /\ pc = "resume" /\ v \in todo
  /\ gate' = [gate EXCEPT ![v] = FALSE]
  /\ Advance(v, "clear")
  /\ UNCHANGED <<dbVars, rowVars, marker, guest, link, rules, eng, up>>

(* network::resume: the link, its address and route, and last the gate.    *)
Resume(v) ==
  /\ pc = "resume" /\ v \in todo
  /\ \/ /\ link[v] # "none" /\ gate[v]
        /\ link' = [link EXCEPT ![v] = "up"]
        /\ gate' = [gate EXCEPT ![v] = FALSE]
        /\ Advance(v, "clear")
     \/ /\ May("ip") \/ May("nft") \/ link[v] = "none" \/ ~gate[v]
        /\ \/ UNCHANGED link
           \/ link[v] # "none" /\ link' = [link EXCEPT ![v] = "up"]
        /\ UNCHANGED gate
        /\ Goto("block", live)
  /\ UNCHANGED <<dbVars, rowVars, marker, guest, rules, eng, up>>

(* The marker goes, then the error text; recovery, unlike an update, minds *)
(* a marker that will not go.                                              *)
Clear(v) ==
  /\ pc = "clear" /\ v \in todo
  /\ UNCHANGED dbVars
  /\ \/ /\ marker' = [marker EXCEPT ![v] = FALSE]
        /\ err' = [err EXCEPT ![v] = FALSE]
        /\ IF todo = {v} THEN Finish ELSE Goto(pc, todo \ {v})
     \/ /\ May("mark") /\ up = "serving"
        /\ err' = [err EXCEPT ![v] = FALSE]
        /\ IF todo = {v} THEN Finish ELSE Goto(pc, todo \ {v})
        /\ UNCHANGED marker
     \/ /\ May("mark") /\ up = "recovering"
        /\ Goto("block", live)
        /\ UNCHANGED <<marker, err>>
     \/ /\ May("row") /\ err[v]
        /\ marker' = [marker EXCEPT ![v] = FALSE]
        /\ Goto("block", live)
        /\ UNCHANGED err
  /\ UNCHANGED <<row, guest, netVars, up>>

(* block_failed_egress and the error path of recover_egress: whatever of   *)
(* it fails, the rest is done.                                             *)
Block(v) ==
  /\ pc = "block" /\ v \in todo
  /\ UNCHANGED dbVars
  /\ \/ marker' = [marker EXCEPT ![v] = TRUE]
     \/ May("mark") /\ UNCHANGED marker
  /\ Suspend(v)
  /\ Unregister(v)
  /\ \/ err' = [err EXCEPT ![v] = TRUE]
     \/ May("row") /\ up = "serving" /\ UNCHANGED err
  /\ IF todo = {v} THEN Finish ELSE Goto(pc, todo \ {v})
  /\ UNCHANGED <<row, guest, gate, rules, up>>

Apply == \/ \E v \in VM : Mark(v) \/ Quiesce(v) \/ RecoverEngine(v)
                          \/ Resume(v) \/ Clear(v) \/ Block(v)
         \/ ReplaceEngine \/ ReplaceRules \/ Commit

-----------------------------------------------------------------------------
(* recover_egress, before the server answers anybody *)

(* An inactive row has nothing to recover; its marker goes, if it will.    *)
RecoverInactive(v) ==
  /\ row[v] = "inactive"
  /\ \/ marker' = [marker EXCEPT ![v] = FALSE]
     \/ May("mark") /\ UNCHANGED marker
  /\ UNCHANGED <<rowVars, netVars, loopVars>>

(* The process is gone: refresh has cleaned up, and the marker stays.      *)
RecoverStopped(v) ==
  /\ row[v] # "inactive"
  /\ RefreshStopped(v)
  /\ UNCHANGED <<marker, loopVars>>

Recovery(v, why, step) ==
  pc' = step /\ mode' = why /\ live' = {v} /\ todo' = {v}

(* Whether recovery is pending is asked before refresh can clear the text. *)
RecoverAlive(v, state) ==
  /\ row[v] # "inactive"
  /\ RefreshAlive(v, state)
  /\ \/ /\ ~Pending(v) /\ bind[v] = Unbound
        /\ UNCHANGED loopVars
     \/ /\ ~Pending(v) /\ bind[v] # Unbound
        /\ Recovery(v, "plain", IF state = "active" THEN "engine" ELSE "block")
     \/ /\ Pending(v)
        /\ Recovery(v, "pending", IF state = "active" THEN "gate" ELSE "block")
  /\ UNCHANGED marker

RecoverRow(v) ==
  /\ pc = "recover" /\ v \in rest
  /\ rest' = rest \ {v}
  /\ \/ RecoverInactive(v)
     \/ RecoverStopped(v)
     \/ \E state \in {"active", "unknown"} : RecoverAlive(v, state)
  /\ UNCHANGED <<dbVars, guest, lock, up, before, wantc, wantb>>

Serve ==
  /\ pc = "recover" /\ rest = {}
  /\ up' = "serving" /\ pc' = "idle"
  /\ UNCHANGED <<dbVars, rowVars, marker, guest, netVars, lock, mode, todo, live, planVars>>

-----------------------------------------------------------------------------
(* Starting, stopping and refreshing a VM, under its mutex *)

catVars == <<loopVars, planVars>>

Acquire(v) == up = "serving" /\ lock[v] = "free"
Hold(v, step) == lock' = [lock EXCEPT ![v] = step]

(* A stopped VM is launched; a ready one that was not wholly configured is *)
(* prepared again.                                                         *)
StartBegins(v) ==
  /\ Acquire(v)
  /\ \/ /\ row[v] = "inactive" /\ guest[v] = "none"
        /\ guest' = [guest EXCEPT ![v] = "bare"]
     \/ /\ row[v] = "active" /\ guest[v] \in {"bare", "partial"}
        /\ UNCHANGED guest
  /\ SetState(v, "starting")
  /\ Hold(v, "tap")
  /\ UNCHANGED <<dbVars, marker, netVars, up, catVars>>

(* Mutant: the rules are made from the policy's name. *)
StartTapByName(v) ==
  /\ lock[v] = "tap"
  /\ link[v] = "none"
  /\ link' = [link EXCEPT ![v] = "up"]
  /\ rules' = [rules EXCEPT ![v] = bind[v]]
  /\ guest' = [guest EXCEPT ![v] = IF @ = "bare" THEN "partial" ELSE @]
  /\ Hold(v, "register")
  /\ UNCHANGED <<dbVars, rowVars, marker, gate, eng, up, catVars>>

(* network_tap: create_with_owner takes no existing device; where it fails *)
(* half-way and cannot remove its own, that is this and StartFails ...     *)
StartTap(v) ==
  /\ lock[v] = "tap"
  /\ link[v] = "none"
  /\ link' = [link EXCEPT ![v] = "up"]
  /\ rules' = [rules EXCEPT ![v] = Stored(v)]
  /\ guest' = [guest EXCEPT ![v] = IF @ = "bare" THEN "partial" ELSE @]
  /\ Hold(v, "register")
  /\ UNCHANGED <<dbVars, rowVars, marker, gate, eng, up, catVars>>

(* ... then register_egress *)
StartRegister(v) ==
  /\ lock[v] = "register"
  /\ Stored(v) # NoPolicy => eng[v] = NoPolicy
  /\ eng' = [eng EXCEPT ![v] = IF Stored(v) = NoPolicy THEN @ ELSE Stored(v)]
  /\ Hold(v, "boot")
  /\ UNCHANGED <<dbVars, rowVars, marker, guest, link, gate, rules, up, catVars>>

StartEnds(v) ==
  /\ lock[v] = "boot"
  /\ guest[v] # "none"
  /\ guest' = [guest EXCEPT ![v] = "whole"]
  /\ SetState(v, "active")
  /\ Hold(v, "free")
  /\ UNCHANGED <<dbVars, marker, netVars, up, catVars>>

(* Any of it fails: the process is stopped and the network taken down.  A  *)
(* failed registration takes the TAP down even if the process stays.       *)
StartFails(v) ==
  /\ lock[v] \in {"tap", "register", "boot"}
  /\ Hold(v, "free")
  /\ \/ /\ guest' = [guest EXCEPT ![v] = "none"]
        /\ RecordStopped(v)
     \/ /\ May("stop") /\ guest[v] # "none"
        /\ SetState(v, "unknown")
        /\ IF lock[v] = "register" THEN Unplug(v) /\ UNCHANGED eng ELSE UNCHANGED netVars
        /\ UNCHANGED guest
  /\ UNCHANGED <<dbVars, marker, up, catVars>>

Stop(v) ==
  /\ Acquire(v)
  /\ guest' = [guest EXCEPT ![v] = "none"]
  /\ RecordStopped(v)
  /\ UNCHANGED <<dbVars, marker, lock, up, catVars>>

(* Pause, Resume and the other calls that end in set_vm_state.             *)
Act(v) ==
  /\ Acquire(v)
  /\ guest[v] = "whole"
  /\ SetState(v, "active")
  /\ UNCHANGED <<dbVars, marker, guest, netVars, lock, up, catVars>>

Refresh(v) ==
  /\ Acquire(v)
  /\ RefreshStopped(v) \/ \E state \in {"active", "unknown"} : RefreshAlive(v, state)
  /\ UNCHANGED <<dbVars, marker, guest, lock, up, catVars>>

Start(v) == StartTap(v) \/ StartRegister(v) \/ StartEnds(v) \/ StartFails(v)

-----------------------------------------------------------------------------
(* Exits, dropped handlers, crashes *)

Exit(v) ==
  /\ guest[v] # "none"
  /\ guest' = [guest EXCEPT ![v] = "none"]
  /\ UNCHANGED <<dbVars, rowVars, marker, netVars, lock, up, catVars>>

DropCatalog ==
  /\ "catalog" \in Dropped
  /\ up = "serving" /\ pc # "idle"
  /\ UNCHANGED dbVars
  /\ Release
  /\ UNCHANGED <<rowVars, marker, guest, netVars, up>>

DropStart(v) ==
  /\ "start" \in Dropped
  /\ lock[v] \in {"tap", "register", "boot"}
  /\ Hold(v, "free")
  /\ UNCHANGED <<dbVars, rowVars, marker, guest, netVars, up, catVars>>

(* Processes, TAP devices, nft tables, rows and markers survive. *)
Crash ==
  /\ up # "down"
  /\ up' = "down"
  /\ eng' = Nobody
  /\ pc' = "idle" /\ mode' = "apply"
  /\ todo' = {} /\ live' = {} /\ rest' = {}
  /\ lock' = [v \in VM |-> "free"]
  /\ before' = Nobody /\ wantc' = content /\ wantb' = bind
  /\ UNCHANGED <<dbVars, rowVars, marker, guest, link, gate, rules>>

Restart ==
  /\ up = "down"
  /\ up' = "recovering" /\ pc' = "recover" /\ rest' = VM
  /\ UNCHANGED <<dbVars, rowVars, marker, guest, netVars, lock, mode, todo, live,
                 before, wantc, wantb>>

Request == \/ \E p \in Policy, c \in Content : Save(p, c)
           \/ \E v \in VM, p \in Policy \cup {Unbound} : Assign(v, p)

Handle == \/ SkipUnchanged \/ Refuse \/ Proceed
          \/ \E v \in VM : Examine(v) \/ RecoverRow(v)
          \/ Apply
          \/ Serve

Next == \/ Request
        \/ Handle
        \/ \E v \in VM : \/ LockVm(v)
                         \/ StartBegins(v) \/ Start(v)
                         \/ Stop(v) \/ Act(v) \/ Refresh(v)
                         \/ Exit(v) \/ DropStart(v)
        \/ DropCatalog \/ Crash \/ Restart

Spec == Init /\ [][Next]_vars

(* A handler that is not dropped runs on, and mutexes are granted in order *)
(* of arrival.                                                             *)
Fairness == /\ WF_vars(Handle)
            /\ \A v \in VM : WF_vars(Start(v)) /\ SF_vars(LockVm(v))

FairSpec == Spec /\ Fairness

-----------------------------------------------------------------------------
(* Properties *)

(* No guest can use a policy that is not the stored one of its VM: while    *)
(* its packets pass, the engine and the rules hold that policy or none,     *)
(* wherever updates fail, are dropped, or cross starts and crashes.  What   *)
(* is left of a device that would not go is of no use to anybody: a start   *)
(* does not take it.                                                        *)
NoStaleAccess ==
  \A v \in VM : Attached(v) /\ Open(v) => /\ eng[v] \in {NoPolicy, Stored(v)}
                                         /\ rules[v] \in {NoPolicy, Stored(v)}

(* A guest reaches what the engine holds for it, once its packets pass.     *)
Reach(v) == IF Attached(v) /\ Open(v) THEN eng[v] ELSE NoPolicy

(* The catalog and the engine keep the promise of EgressAccess: besides     *)
(* what NoStaleAccess says, a change reaches the database only while no     *)
(* guest that it concerns can pass a packet.                                *)
Promise == INSTANCE EgressAccess WITH access <- [v \in VM |-> Reach(v)]
PromiseKept == Promise!AccessSpec

(* A gate left before a guest is always found again: by a retry, or after   *)
(* a crash.                                                                 *)
GateIsPending == \A v \in VM : Attached(v) /\ gate[v] => Pending(v)

(* A VM that nobody is working on and that runs has what its stored policy  *)
(* grants, or is known to need recovery.  There is one exception: a jailed  *)
(* VM that failed its check is cut off, and the next refresh that finds the *)
(* check passed says "running" and leaves the link as it is.  All that the  *)
(* VM lacks then is the link.  It is said of policies that can be resolved: *)
(* after a rollback to one that cannot, a VM has nothing, and is not known  *)
(* to need recovery.                                                        *)
Granted(v) == ~gate[v] /\ eng[v] = Stored(v) /\ rules[v] = Stored(v)
Served(v) == Granted(v) /\ link[v] = "up"
CutOff(v) == Granted(v) /\ link[v] = "cut"
Settled(v) == up = "serving" /\ lock[v] = "free" /\ row[v] = "active" /\ guest[v] = "whole"
RunningIsServed == \A v \in VM : Settled(v) => Served(v) \/ CutOff(v) \/ Pending(v)

(* Every request of the catalog ends, whatever fails and whoever else       *)
(* holds a mutex; so does recovery.                                         *)
ChangeEnds  == pc # "idle" ~> pc = "idle"

-----------------------------------------------------------------------------
(* The inductive invariant behind NoStaleAccess and PromiseKept.            *)

(* What either table holds for a VM, if its gate does not make up for it.   *)
Fresh ==
  \A v \in VM : ~gate[v] =>
    /\ eng[v] \in {NoPolicy, Stored(v)}
    /\ Attached(v) => rules[v] \in {NoPolicy, Stored(v)}

InactiveHasNone == \A v \in VM : row[v] = "inactive" => eng[v] = NoPolicy /\ guest[v] = "none"

GateNeedsLink == \A v \in VM : gate[v] => link[v] # "none"

Starting(v) == lock[v] \in {"tap", "register", "boot"}
StartsAlone ==
  \A v \in VM : /\ Starting(v) => row[v] = "starting"
                /\ Starting(v) /\ lock[v] # "tap" => ~gate[v] /\ guest[v] # "bare"

Loops == {"gate", "resume", "clear", "block"}

(* Which steps each phase of the server, and each direction, can be at.     *)
Phases ==
  /\ up # "serving" => \A v \in VM : lock[v] = "free"
  /\ up = "down" => pc = "idle"
  /\ up = "serving" => pc # "recover" /\ mode \in {"apply", "undo"}
  /\ up = "recovering" =>
       /\ pc \in Loops \cup {"recover", "engine", "rules"}
       /\ IF pc = "recover" THEN mode = "apply" ELSE mode \in {"pending", "plain"}
       /\ pc # "recover" /\ mode = "plain" => pc \in {"engine", "block"}
  /\ mode = "undo" => pc \in Loops \cup {"engine", "rules"}
  /\ mode \in {"pending", "plain"} => up = "recovering"

(* The mutexes that the catalog handler's VMs are held by.                  *)
Holding ==
  /\ up = "serving" => \A v \in live : lock[v] = "catalog"
  /\ pc \in {"idle", "read", "lock", "recover"} => live = {}
  /\ pc = "examine" => \A v \in todo : lock[v] = "catalog" /\ v \notin live
  /\ pc \in Loops \cup {"mark"} => todo \subseteq live
  /\ \A v \in live : row[v] # "inactive"

(* Whom the change concerns is found, locked and examined before commit.    *)
Concerned ==
  up = "serving" => \A v \in VM : Proposed(v) # Stored(v) =>
    /\ pc = "read" => v \in todo
    /\ pc = "lock" => v \in todo \/ lock[v] = "catalog"
    /\ pc \in {"examine", "mark", "gate", "engine", "rules", "commit"} => lock[v] = "catalog"
    /\ pc = "examine" => v \in todo \cup live \/ row[v] = "inactive"
    /\ pc \in {"mark", "gate", "engine", "rules", "commit"} => v \in live \/ row[v] = "inactive"

Gated ==
  /\ pc = "gate" => \A v \in live \ todo : gate[v]
  /\ pc \in {"engine", "rules", "commit"} /\ mode # "plain" => \A v \in live : gate[v]

(* What has been put in place so far. *)
InPlace ==
  /\ pc = "rules"  => \A v \in live : eng[v] = Target(v)
  /\ pc = "commit" => \A v \in live : eng[v] = Proposed(v) /\ rules[v] = Proposed(v)
  /\ pc = "resume" => \A v \in live : /\ eng[v] \in {NoPolicy, Stored(v)}
                                      /\ rules[v] \in {NoPolicy, Stored(v)}

(* A rollback restores the stored policy or nothing.                        *)
OldIsStored ==
  up # "serving" \/ pc \notin {"resume", "clear", "block"} =>
    \A v \in VM : before[v] \in {NoPolicy, Stored(v)}

(* Every fact that the safety of an update rests on, together.              *)
IInv ==
  /\ TypeOK
  /\ Fresh
  /\ InactiveHasNone
  /\ GateNeedsLink
  /\ StartsAlone
  /\ Phases
  /\ Holding
  /\ Concerned
  /\ Gated
  /\ InPlace
  /\ OldIsStored

-----------------------------------------------------------------------------
(* What GateIsPending and RunningIsServed rest on, besides IInv.            *)

(* While marker files and rows can be written, the marker says all.         *)
MarkerFirst == \A v \in VM : err[v] \/ (Attached(v) /\ gate[v]) => marker[v]

InactiveIsClear == \A v \in VM : row[v] = "inactive" => ~err[v]

(* A VM is marked before it is gated, and until its gate is gone.           *)
LiveMarked ==
  /\ pc = "mark" => \A v \in live \ todo : marker[v]
  /\ pc \in {"gate", "engine", "rules", "commit", "resume"} /\ mode # "plain" =>
       \A v \in live : marker[v]
  /\ pc = "resume" => \A v \in live \ todo : ~gate[v]
  /\ pc = "clear"  => \A v \in live : ~gate[v]

MarksHold == MarkerFirst /\ InactiveIsClear /\ LiveMarked

Wired(v) == link[v] \in {"up", "cut"} /\ rules[v] = Stored(v)

(* A start leaves its VM with what is stored.                               *)
StartWires ==
  \A v \in VM : /\ Starting(v) => guest[v] # "whole"
                /\ lock[v] \in {"register", "boot"} => Wired(v)
                /\ lock[v] = "boot" => eng[v] = Stored(v)

(* What runs and is not marked has what is stored; the engine, once the     *)
(* server has recovered the VM.                                             *)
RunningIsWired ==
  \A v \in VM : guest[v] = "whole" /\ ~marker[v] =>
    /\ Wired(v)
    /\ up = "serving" \/ (up = "recovering" /\ v \notin rest \cup live) => eng[v] = Stored(v)

(* An update, or its rollback, ends with what is stored.                    *)
UpdateWires ==
  /\ pc \in {"resume", "clear"} => \A v \in live : eng[v] = Stored(v) /\ rules[v] = Stored(v)
  /\ pc = "resume" => \A v \in live \ todo : link[v] = "up"
  /\ pc = "clear"  => \A v \in live : link[v] = "up"
  /\ up = "serving" /\ pc \in {"examine", "mark", "gate", "engine", "rules", "commit"} =>
       \A v \in live : before[v] = Stored(v)

(* A server that has just started has nothing registered, and recovers one  *)
(* VM at a time.                                                            *)
EngineStartsEmpty ==
  /\ up = "down" => \A v \in VM : eng[v] = NoPolicy
  /\ up = "recovering" => /\ \A v \in rest : eng[v] = NoPolicy /\ v \notin live
                          /\ \A v, w \in live : v = w

WiresHold == StartWires /\ RunningIsWired /\ UpdateWires /\ EngineStartsEmpty
=============================================================================
