--------------------------- MODULE ResourceLocks ---------------------------
(***************************************************************************)
(* The named mutexes of Runtime::lock.  Each handler takes some of them,   *)
(* one after the other, checks what its request refers to, and writes; the *)
(* refresher takes the mutex of every VM in turn, for ever.  The mutexes   *)
(* are what keeps the definition of a VM from referring to an item of a    *)
(* catalog that another handler has just found unused and deletes.         *)
(*                                                                         *)
(* A handler runs a script: the mutexes it takes and gives back, in the    *)
(* order of the code, and the points where it reads and checks.  What it   *)
(* writes, it writes at the end of the script; whatever makes it fail      *)
(* before then, or its client's disconnecting, leaves the database as it   *)
(* was.                                                                    *)
(***************************************************************************)
EXTENDS Naturals, Sequences, FiniteSets

CONSTANTS
  Kind,      \* the catalogs whose items VMs refer to
  VM,        \* ids of virtual machines, stored or not; ids are ordered
  Handler,   \* the requests handled at a time
  Monitor,   \* the task that refreshes all VMs
  NoOne,     \* holds a mutex that is free
  Operation  \* the operations that clients ask for

OnVm == {"duplicate", "update", "delete", "assign", "start", "restore", "capture", "export", "act"}
AllOperations == OnVm \cup {"define", "save", "add", "remove"}

ASSUME LockConstants ==
  /\ "policy" \in Kind /\ Kind \subseteq {"policy", "asset", "kernel", "network"}
  /\ VM \subseteq Nat \ {0} /\ IsFiniteSet(VM)
  /\ Monitor \notin Handler
  /\ NoOne \notin Handler \cup {Monitor}
  /\ Operation \subseteq AllOperations

Task == Handler \cup {Monitor}

(* A mutex has the name of a library, or the id of a VM.                   *)
Catalog   == <<"egress-catalog", 0>>
Assets    == <<"file-assets", 0>>
Kernels   == <<"kernels", 0>>
Networks  == <<"networks", 0>>
Snapshots == <<"snapshot-library", 0>>
Own(v)    == <<"vm", v>>

Guard == [policy |-> Catalog, asset |-> Assets, kernel |-> Kernels, network |-> Networks]
Mutex == {Catalog, Assets, Kernels, Networks, Snapshots} \cup {Own(v) : v \in VM}

VARIABLES
  exists,   \* database: the catalogs' items, one of each kind
  defined,  \* database: the VMs
  refs,     \* database: the kinds of item that each VM's definition names
  req,      \* what each task is doing, and for whom
  script,   \* what it has still to do before it writes
  holder    \* who holds each mutex

dbVars == <<exists, defined, refs>>
vars   == <<dbVars, req, script, holder>>

Request == [op : Operation \cup {"none", "refresh"}, vm : VM \cup {0}, kind : Kind, want : SUBSET Kind]
Step    == [do : {"take", "drop", "read", "check"}, on : Mutex] \cup [do : {"all"}, on : SUBSET VM]
Nothing == [op |-> "none", vm |-> 0, kind |-> "policy", want |-> {}]

TypeOK ==
  /\ exists \subseteq Kind /\ defined \subseteq VM
  /\ refs \in [VM -> SUBSET Kind]
  /\ req \in [Task -> Request]
  /\ script \in [Task -> Seq(Step)]
  /\ holder \in [Mutex -> Task \cup {NoOne}]

Init ==
  /\ exists = Kind
  /\ defined = {} /\ refs = [v \in VM |-> {}]
  /\ req = [t \in Task |-> Nothing]
  /\ script = [t \in Task |-> <<>>]
  /\ holder = [m \in Mutex |-> NoOne]

-----------------------------------------------------------------------------
(* The scripts *)

Take(m)      == [do |-> "take", on |-> m]
Drop(m)      == [do |-> "drop", on |-> m]
TakeAll(vms) == [do |-> "all", on |-> vms]
Read         == [do |-> "read", on |-> Catalog]
Check        == [do |-> "check", on |-> Catalog]

(* The references are checked once all that may be referred to is held.    *)
Define == <<Take(Catalog), Take(Assets), Take(Kernels), Take(Networks), Check>>

(* Mutant: the references are checked before the networks' mutex is taken. *)
UpdateEarly(v) == <<Take(Catalog), Take(Own(v)), Take(Assets), Take(Kernels), Check, Take(Networks)>>

Update(v) == <<Take(Catalog), Take(Own(v)), Take(Assets), Take(Kernels), Take(Networks), Check>>

(* Mutant: the VM first, as most operations on a VM begin. *)
DeleteVmFirst(v) == <<Take(Own(v)), Take(Catalog), Take(Snapshots)>>

Delete(v) == <<Take(Catalog), Take(Own(v)), Take(Snapshots)>>

Duplicate(v) == <<Take(Own(v)), Read>> \o Define

Start(v) == <<Take(Own(v)), Take(Kernels), Drop(Kernels), Take(Assets), Drop(Assets),
              Take(Networks), Drop(Networks)>>

Restore(v) == <<Take(Own(v)), Take(Snapshots), Drop(Snapshots), Take(Networks), Drop(Networks)>>

(* An import holds the library's mutex to begin with, and at the end.       *)
Add(m) == <<Take(m), Drop(m), Take(m)>>

-----------------------------------------------------------------------------
(* One step of a task *)

Idle(t) == req[t].op = "none"
Doing(t, step) == script[t] # <<>> /\ Head(script[t]).do = step
On(t) == Head(script[t]).on
GoOn(t) == script' = [script EXCEPT ![t] = Tail(@)]

(* A handler's guards are dropped when it returns, or is itself dropped.   *)
Leave(t) ==
  /\ req' = [req EXCEPT ![t] = Nothing]
  /\ script' = [script EXCEPT ![t] = <<>>]
  /\ holder' = [m \in Mutex |-> IF holder[m] = t THEN NoOne ELSE holder[m]]

Begin(t, op, v, kind, want, steps) ==
  /\ Idle(t)
  /\ req' = [req EXCEPT ![t] = [op |-> op, vm |-> v, kind |-> kind, want |-> want]]
  /\ script' = [script EXCEPT ![t] = steps]
  /\ UNCHANGED <<dbVars, holder>>

(* A request about one VM ... *)
AskVm(t, op, v) ==
  \/ op = "duplicate" /\ Begin(t, op, v, "policy", {}, Duplicate(v))
  \/ op = "update" /\ \E want \in SUBSET Kind : Begin(t, op, v, "policy", want, Update(v))
  \/ op = "delete" /\ Begin(t, op, v, "policy", {}, Delete(v))
  \/ /\ op = "assign"
     /\ \E want \in SUBSET {"policy"} :
          Begin(t, op, v, "policy", want, <<Take(Catalog), Take(Own(v)), Check>>)
  \/ op = "start" /\ Begin(t, op, v, "policy", {}, Start(v))
  \/ op = "restore" /\ Begin(t, op, v, "policy", {}, Restore(v))
  \/ op = "capture" /\ Begin(t, op, v, "policy", {}, <<Take(Own(v)), Take(Snapshots)>>)
  \/ op = "export" /\ Begin(t, op, v, "policy", {}, <<Take(Own(v)), Take(Assets), Take(Kernels)>>)
  \/ op = "act" /\ Begin(t, op, v, "policy", {}, <<Take(Own(v))>>)

(* ... and one that is about none.                                         *)
AskLibrary(t, op) ==
  \/ op = "define" /\ \E want \in SUBSET Kind : Begin(t, op, 0, "policy", want, Define)
  \/ op = "save" /\ Begin(t, op, 0, "policy", {}, <<Take(Catalog), Read>>)
  \/ op = "add" /\ \E kind \in Kind : Begin(t, op, 0, kind, {}, Add(Guard[kind]))
  \/ op = "remove" /\ \E kind \in Kind : Begin(t, op, 0, kind, {}, <<Take(Guard[kind]), Check>>)

Ask(t) == \E op \in Operation : AskLibrary(t, op) \/ \E v \in VM : AskVm(t, op, v)

(* The mutex of tokio is granted in order of arrival: see Fairness.        *)
Acquire(t) ==
  /\ Doing(t, "take")
  /\ holder[On(t)] = NoOne
  /\ holder' = [holder EXCEPT ![On(t)] = t]
  /\ GoOn(t)
  /\ UNCHANGED <<dbVars, req>>

(* lock_egress_vms takes them in the order of their ids.                   *)
AcquireNext(t) ==
  /\ Doing(t, "all")
  /\ \E v \in On(t) :
       /\ \A u \in On(t) : v <= u
       /\ holder[Own(v)] = NoOne
       /\ holder' = [holder EXCEPT ![Own(v)] = t]
       /\ script' = [script EXCEPT ![t] = <<TakeAll(On(t) \ {v})>>]
  /\ UNCHANGED <<dbVars, req>>

AllAcquired(t) ==
  /\ Doing(t, "all") /\ On(t) = {}
  /\ GoOn(t)
  /\ UNCHANGED <<dbVars, req, holder>>

GiveBack(t) ==
  /\ Doing(t, "drop")
  /\ holder[On(t)] = t
  /\ holder' = [holder EXCEPT ![On(t)] = NoOne]
  /\ GoOn(t)
  /\ UNCHANGED <<dbVars, req>>

Copying(r) == [op |-> r.op, vm |-> r.vm, kind |-> r.kind, want |-> refs[r.vm]]

(* duplicate_vm copies the definition; update_egress_policy lists the VMs. *)
ReadRows(t) ==
  /\ Doing(t, "read")
  /\ \/ /\ req[t].op = "duplicate" /\ req[t].vm \in defined
        /\ req' = [req EXCEPT ![t] = Copying(req[t])]
        /\ GoOn(t)
        /\ UNCHANGED holder
     \/ /\ req[t].op = "duplicate" /\ req[t].vm \notin defined
        /\ Leave(t)
     \/ /\ req[t].op = "save"
        /\ script' = [script EXCEPT ![t] = <<TakeAll({v \in defined : "policy" \in refs[v]})>>]
        /\ UNCHANGED <<req, holder>>
  /\ UNCHANGED dbVars

(* An item that is referred to exists; one that is removed is not referred *)
(* to.                                                                     *)
Valid(r) == IF r.op = "remove" THEN \A v \in defined : r.kind \notin refs[v]
            ELSE r.want \subseteq exists

CheckRows(t) ==
  /\ Doing(t, "check")
  /\ IF Valid(req[t]) THEN GoOn(t) /\ UNCHANGED <<req, holder>> ELSE Leave(t)
  /\ UNCHANGED dbVars

Exists(r) == r.op \in OnVm \ {"duplicate"} => r.vm \in defined

(* Mutant: an assignment that is taken back is stored as a name.           *)
AssignedNone(r) == (refs[r.vm] \ {"policy"}) \cup (IF r.want = {} THEN {"none"} ELSE r.want)

Assigned(r) == (refs[r.vm] \ {"policy"}) \cup r.want

(* normalize_egress gives an inline policy a place in the catalog.         *)
StoreSpec(r, v) ==
  \/ refs' = [refs EXCEPT ![v] = r.want] /\ UNCHANGED exists
  \/ /\ r.op # "duplicate"
     /\ refs' = [refs EXCEPT ![v] = r.want \cup {"policy"}]
     /\ exists' = exists \cup {"policy"}

(* What each operation writes when it is done; a VM's name may be taken.   *)
Write(r) ==
  \/ /\ r.op \in {"define", "duplicate"}
     /\ \/ \E v \in VM \ defined : defined' = defined \cup {v} /\ StoreSpec(r, v)
        \/ UNCHANGED dbVars
  \/ r.op = "update" /\ StoreSpec(r, r.vm) /\ UNCHANGED defined
  \/ /\ r.op = "assign"
     /\ refs' = [refs EXCEPT ![r.vm] = Assigned(r)]
     /\ UNCHANGED <<exists, defined>>
  \/ /\ r.op = "delete"
     /\ defined' = defined \ {r.vm}
     /\ refs' = [refs EXCEPT ![r.vm] = {}]
     /\ UNCHANGED exists
  \/ /\ r.op = "add"
     /\ exists' = exists \cup {r.kind}
     /\ UNCHANGED <<defined, refs>>
  \/ /\ r.op = "remove"
     /\ exists' = exists \ {r.kind}
     /\ UNCHANGED <<defined, refs>>
  \/ /\ r.op \in {"save", "start", "restore", "capture", "export", "act", "refresh"}
     /\ UNCHANGED dbVars

Finish(t) ==
  /\ ~Idle(t) /\ script[t] = <<>>
  /\ IF Exists(req[t]) THEN Write(req[t]) ELSE UNCHANGED dbVars
  /\ Leave(t)

(* An error, or a client that goes away: at any time.                      *)
Abandon(t) ==
  /\ t # Monitor /\ ~Idle(t)
  /\ Leave(t)
  /\ UNCHANGED dbVars

(* The loop of serve_managed: each VM's mutex for the time of one refresh. *)
Visit(v) == Begin(Monitor, "refresh", v, "policy", {}, <<Take(Own(v))>>)

Run(t) == Acquire(t) \/ AcquireNext(t) \/ AllAcquired(t) \/ GiveBack(t) \/ ReadRows(t)
            \/ CheckRows(t) \/ Finish(t)

Next == \/ \E t \in Handler : Ask(t) \/ Abandon(t)
        \/ \E t \in Task : Run(t)
        \/ \E v \in defined : Visit(v)

Spec == Init /\ [][Next]_vars

(* Handlers run on; a mutex is granted in order of arrival.                *)
Fairness == \A t \in Task : WF_vars(Run(t)) /\ SF_vars(Acquire(t) \/ AcquireNext(t))

FairSpec == Spec /\ Fairness

-----------------------------------------------------------------------------
(* Properties *)

(* Whatever is deleted, and whoever defines, edits, assigns and imports at  *)
(* the same time, no VM's definition names an item that is gone.            *)
ReferencesExist == \A v \in defined : refs[v] \subseteq exists

(* The mutex that a task waits for. *)
Awaited(t) ==
  IF Doing(t, "take") THEN {On(t)}
  ELSE IF Doing(t, "all") THEN {Own(v) : v \in {v \in On(t) : \A u \in On(t) : v <= u}}
  ELSE {}

(* No tasks wait for each other in a circle, or a task for itself.          *)
NoCircularWait ==
  \A S \in (SUBSET Task) \ {{}} : \E t \in S : \A m \in Awaited(t) : holder[m] \notin S

(* Every request ends, and the refresher gets past every VM.                *)
RequestsEnd == \A t \in Task : ~Idle(t) ~> Idle(t)

(* docs/vms.md of duplicating: it copies the VM's definition.               *)
DuplicateEnds == \A t \in Handler : req[t].op = "duplicate" ~> req[t].op # "duplicate"
-----------------------------------------------------------------------------
(* The inductive invariants behind NoCircularWait and ReferencesExist.      *)

(* The order of the mutexes; those of VMs are ordered among themselves.     *)
Level(m) == IF m = Catalog        THEN 0
            ELSE IF m = Snapshots THEN 2
            ELSE IF m = Assets    THEN 3
            ELSE IF m = Kernels   THEN 4
            ELSE IF m = Networks  THEN 5
            ELSE 1

Before(m, n) == Level(m) < Level(n) \/ (Level(m) = 1 /\ Level(n) = 1 /\ m[2] < n[2])

Held(t) == {m \in Mutex : holder[m] = t}

(* What a task has still to take comes after all that it will hold then.    *)
TakesAscend(t) ==
  \A i \in DOMAIN script[t] : script[t][i].do = "take" =>
    /\ \A m \in Held(t) : Before(m, script[t][i].on) \/ (i > 1 /\ script[t][1] = Drop(m))
    /\ \A j \in DOMAIN script[t] : j < i /\ script[t][j].do = "take" =>
         Before(script[t][j].on, script[t][i].on) \/ script[t][j + 1] = Drop(script[t][j].on)

(* So do the VMs of a shared update: the catalog is all that is held first. *)
VmsAscend(t) ==
  /\ req[t].op = "save" =>
       \A i \in DOMAIN script[t] : script[t][i].do = "read" =>
         /\ i = Len(script[t]) /\ Held(t) \subseteq {Catalog}
         /\ \A j \in DOMAIN script[t] : j < i => script[t][j] = Take(Catalog)
  /\ \A i \in DOMAIN script[t] : script[t][i].do = "all" =>
       /\ Len(script[t]) = 1
       /\ \A m \in Held(t), v \in script[t][i].on : Before(m, Own(v))

Ascending == \A t \in Task : /\ Idle(t) => Held(t) = {} /\ script[t] = <<>>
                             /\ TakesAscend(t)
                             /\ VmsAscend(t)

(* What must not change between the check of a request and its writes.      *)
Needs(r) == IF r.op = "assign" THEN {Catalog}
            ELSE IF r.op = "remove" THEN {Guard[r.kind]}
            ELSE {Guard[k] : k \in Kind}

Checked(t) ==
  req[t].op \in {"define", "duplicate", "update", "assign", "remove"} =>
    /\ \A i \in DOMAIN script[t] : script[t][i].do \in {"take", "read", "check"}
    /\ \A i \in DOMAIN script[t] : script[t][i].do = "check" <=> i = Len(script[t])
    /\ \A m \in Needs(req[t]) : holder[m] = t \/ \E i \in DOMAIN script[t] : script[t][i] = Take(m)
    /\ script[t] = <<>> => Valid(req[t])
    /\ req[t].op = "assign" => req[t].want \subseteq {"policy"}

Protected == ReferencesExist /\ \A t \in Task : Checked(t)
=============================================================================
