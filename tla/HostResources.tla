---------------------------- MODULE HostResources ----------------------------
(***************************************************************************)
(* What VMs share of the host: addresses in managed networks, TAP devices  *)
(* with their filters, and the user ids of jailed VMs.  Definitions and    *)
(* edits of VMs and networks, and the creation of TAPs, are done under the *)
(* mutex "networks"; suggestions are not.  A start leaves its reads, its   *)
(* identity and its TAP in separate steps.                                 *)
(*                                                                         *)
(* Addresses are numbers, a subnet is the interval [low, high].            *)
(***************************************************************************)
EXTENDS Naturals, FiniteSets, FiniteSetsExt

CONSTANTS
  Vms,        \* bound: ids of VMs, each used once
  NetIds,     \* bound: ids of networks
  Definitions,   \* NetworkSpecs: [low, high, gateway, policy, target]
  HostAddresses, \* addresses of the host's own interfaces
  Uids,       \* the reserved range of user ids
  None

VARIABLES
  defined,   \* rows of networks: id -> definition or None
  attached,  \* rows of VMs: id -> [net, address], or None
  use,       \* id -> "none", "off", "starting", "on", "deleting", "gone"
  offers,    \* id -> an attachment suggested to whoever defines that VM
  taps,      \* id -> the TAP with its rules: [net, address, by], or None
  records,   \* jailer-identities/<id>: user id or None
  torn,      \* ids whose temporary record a crash left behind, empty
  jails      \* id -> the user id that owns the jail root, or None

vars == <<defined, attached, use, offers, taps, records, torn, jails>>

Addresses  == UNION {d.low..d.high : d \in Definitions}
Attachment == [net : NetIds, address : Addresses]
Tap        == [net : NetIds, address : Addresses, by : Definitions]

(* What the constants stand for: addresses and user ids are numbers, and    *)
(* None is the absent row, file or link.                                    *)
HostConstants ==
  /\ Uids \subseteq Nat
  /\ \A d \in Definitions : d.low \in Nat /\ d.high \in Nat
  /\ None \notin Uids /\ None \notin Definitions
  /\ None \notin Attachment /\ None \notin Tap

Live  == {n \in NetIds : defined[n] # None}
Rows  == {v \in Vms : attached[v] # None}

TypeOK ==
  /\ defined \in [NetIds -> Definitions \cup {None}]
  /\ attached \in [Vms -> Attachment \cup {None}]
  /\ use \in [Vms -> {"none", "off", "starting", "on", "deleting", "gone"}]
  /\ offers \in [Vms -> Attachment \cup {None}]
  /\ taps \in [Vms -> Tap \cup {None}]
  /\ records \in [Vms -> Uids \cup {None}]
  /\ torn \subseteq Vms
  /\ jails \in [Vms -> Uids \cup {None}]
  /\ \A v \in Vms : attached[v] = None <=> use[v] \in {"none", "gone"}

Init ==
  /\ defined = [n \in NetIds |-> None]
  /\ attached = [v \in Vms |-> None]
  /\ use = [v \in Vms |-> "none"]
  /\ offers = [v \in Vms |-> None]
  /\ taps = [v \in Vms |-> None]
  /\ records = [v \in Vms |-> None]
  /\ torn = {}
  /\ jails = [v \in Vms |-> None]

-----------------------------------------------------------------------------
(* NetworkSpec::validate *)
Valid(d) == d.high - d.low >= 3 /\ d.gateway > d.low /\ d.gateway < d.high

(* Mutant: only VMs that run keep a network as it is. *)
UnusedNow(n) == \A v \in Rows : attached[v].net = n => use[v] = "off"

(* ensure_unused: no VM of the network's owner refers to it. *)
Unused(n) == \A v \in Rows : attached[v].net # n

CreateNetwork(n, d) ==
  /\ n \notin Live
  /\ Valid(d)
  /\ defined' = [defined EXCEPT ![n] = d]
  /\ UNCHANGED <<attached, use, offers, taps, records, torn, jails>>

UpdateNetwork(n, d) ==
  /\ n \in Live
  /\ Valid(d) /\ defined[n] # d
  /\ Unused(n)
  /\ defined' = [defined EXCEPT ![n] = d]
  /\ UNCHANGED <<attached, use, offers, taps, records, torn, jails>>

DeleteNetwork(n) ==
  /\ n \in Live
  /\ Unused(n)
  /\ defined' = [defined EXCEPT ![n] = None]
  /\ UNCHANGED <<attached, use, offers, taps, records, torn, jails>>

(* Mutant: VMs that do not run give up their addresses. *)
ReservedNow(except) ==
  {attached[v].address : v \in {w \in Rows \ {except} : use[w] # "off"}}

(* address_reservations: of every other VM, whatever its state, and of every *)
(* network, whoever owns it.                                                 *)
Reserved(except) ==
  {attached[v].address : v \in Rows \ {except}}
    \cup UNION {{defined[n].low, defined[n].high, defined[n].gateway} : n \in Live}
    \cup {defined[n].target : n \in {m \in Live : defined[m].policy = "host-only"}}

(* suggest_address: from the gateway upwards, then from the first address. *)
Suggested(d, reserved) ==
  LET free      == ((d.low + 1)..(d.high - 1)) \ (reserved \cup {d.gateway})
      preferred == IF d.gateway + 1 < d.high THEN d.gateway + 1 ELSE d.high - 1
      after     == {a \in free : a >= preferred}
  IN IF after # {} THEN Min(after) ELSE IF free # {} THEN Min(free) ELSE None

(* suggest_network_address: rows are read and what is free now is handed out; *)
(* the caller defines the VM some time later.                                 *)
Offer(v, n) ==
  LET a == Suggested(defined[n], Reserved(v)) IN
  /\ a # None
  /\ offers' = [offers EXCEPT ![v] = [net |-> n, address |-> a]]

(* A client, or resolve_vm_config for a document without a VM of its own. *)
Suggest(v, n) ==
  /\ use[v] = "none" /\ n \in Live
  /\ Offer(v, n)
  /\ UNCHANGED <<defined, attached, use, taps, records, torn, jails>>

(* duplicate_vm: the network is that of another VM. *)
Duplicate(v, w) ==
  /\ use[v] = "none" /\ w \in Rows
  /\ Offer(v, attached[w].net)
  /\ UNCHANGED <<defined, attached, use, taps, records, torn, jails>>

Available(v, at) ==
  /\ at.net \in Live
  /\ at.address \in defined[at.net].low..defined[at.net].high
  /\ at.address \notin Reserved(v)

(* Runtime::define: what was suggested, or what the user asks for, is checked *)
(* once more under the mutex.                                                 *)
Define(v, at) ==
  /\ use[v] = "none"
  /\ offers[v] \in {None, at}
  /\ Available(v, at)
  /\ attached' = [attached EXCEPT ![v] = at]
  /\ use' = [use EXCEPT ![v] = "off"]
  /\ offers' = [offers EXCEPT ![v] = None]
  /\ UNCHANGED <<defined, taps, records, torn, jails>>

(* Runtime::update *)
Edit(v, at) ==
  /\ use[v] = "off"
  /\ Available(v, at) /\ attached[v] # at
  /\ attached' = [attached EXCEPT ![v] = at]
  /\ UNCHANGED <<defined, use, offers, taps, records, torn, jails>>

-----------------------------------------------------------------------------
(* Mutant: records alone tell which ids are in use. *)
FreeOfRunning(v) == Uids \ {jails[w] : w \in {x \in Vms : use[x] = "on"}}

Free(v) == Uids \ {records[w] : w \in Vms}

(* jail_uid, under the lock of the directory: the recorded id or the lowest *)
(* one that is free.  An empty record, which write_private left when it was *)
(* cut off, cannot be read: no other id is given out any more.              *)
Identify(v) ==
  /\ use[v] = "off"
  /\ use' = [use EXCEPT ![v] = "starting"]
  /\ IF records[v] # None THEN
       /\ jails' = [jails EXCEPT ![v] = records[v]]
       /\ UNCHANGED <<records, torn>>
     ELSE \/ /\ torn = {} /\ Free(v) # {}
             /\ records' = [records EXCEPT ![v] = Min(Free(v))]
             /\ jails' = [jails EXCEPT ![v] = Min(Free(v))]
             /\ UNCHANGED torn
          \/ /\ torn = {} /\ Free(v) # {}      \* the server ends between create and rename
             /\ torn' = {v}
             /\ UNCHANGED <<records, jails>>
  /\ UNCHANGED <<defined, attached, offers, taps>>

(* Local to the host, as a host-only target must be. *)
Local == HostAddresses \cup {taps[v].by.gateway : v \in {w \in Vms : taps[w] # None}}

(* create_with_owner: nothing else is routed to the address. *)
Creates(v, at, d) ==
  /\ d.policy = "host-only" /\ d.target # d.gateway => d.target \in Local
  /\ at.address \notin {taps[w].address : w \in {x \in Vms : taps[x] # None}}
  /\ taps' = [taps EXCEPT ![v] = [net |-> at.net, address |-> at.address, by |-> d]]

(* network_tap, under the mutex: the address is compared with VMs in use. *)
NetworkTap(v) ==
  /\ use[v] = "starting" /\ jails[v] # None /\ taps[v] = None
  /\ LET at == attached[v] IN
     /\ at.net \in Live
     /\ at.address \notin {attached[w].address : w \in {x \in Rows \ {v} : use[x] # "off"}}
     /\ Creates(v, at, defined[at.net])
  /\ use' = [use EXCEPT ![v] = "on"]
  /\ UNCHANGED <<defined, attached, offers, records, torn, jails>>

(* remove(), whose failures are ignored. *)
RemoveTap(v) == taps' \in {[taps EXCEPT ![v] = None], taps}

(* A failed start, a stop or an exit. *)
Stop(v) ==
  /\ use[v] \in {"starting", "on"}
  /\ use' = [use EXCEPT ![v] = "off"]
  /\ RemoveTap(v)
  /\ UNCHANGED <<defined, attached, offers, records, torn, jails>>

(* Mutant: the identity is given back first. *)
IdentityGoes(v) ==
  /\ records' = [records EXCEPT ![v] = None]
  /\ UNCHANGED jails

(* delete_with_snapshots: TAP and jail root, *)
JailGoes(v) ==
  /\ jails' = [jails EXCEPT ![v] = None]
  /\ UNCHANGED records

Delete(v) ==
  /\ use[v] = "off"
  /\ use' = [use EXCEPT ![v] = "deleting"]
  /\ RemoveTap(v)
  /\ JailGoes(v)
  /\ UNCHANGED <<defined, attached, offers, torn>>

(* then the identity, whether that fails or not, the directory and the row. *)
DeleteRest(v) ==
  /\ use[v] = "deleting"
  /\ records' \in {[records EXCEPT ![v] = None], records}
  /\ \/ /\ use' = [use EXCEPT ![v] = "gone"]
        /\ attached' = [attached EXCEPT ![v] = None]
     \/ use' = [use EXCEPT ![v] = "off"] /\ UNCHANGED attached
  /\ UNCHANGED <<defined, offers, taps, torn, jails>>

DeleteFails(v) ==
  /\ use[v] = "deleting"
  /\ use' = [use EXCEPT ![v] = "off"]
  /\ UNCHANGED <<defined, attached, offers, taps, records, torn, jails>>

Next ==
  \/ \E n \in NetIds : \/ \E d \in Definitions : CreateNetwork(n, d) \/ UpdateNetwork(n, d)
                       \/ DeleteNetwork(n)
  \/ \E v \in Vms : \/ \E n \in NetIds : Suggest(v, n)
                    \/ \E w \in Vms : Duplicate(v, w)
                    \/ \E at \in Attachment : Define(v, at) \/ Edit(v, at)
                    \/ Identify(v) \/ NetworkTap(v) \/ Stop(v)
                    \/ Delete(v) \/ DeleteRest(v) \/ DeleteFails(v)

Spec == Init /\ [][Next]_vars

-----------------------------------------------------------------------------
(* No two VMs have one address, in whatever networks they are and however   *)
(* old the suggestions were; every address is a usable one of a network that *)
(* still is as it was when the VM was checked against it, and what the TAP   *)
(* of a VM in use enforces is that network's definition.                     *)
AddressesHold ==
  /\ \A v, w \in Rows : v # w => attached[v].address # attached[w].address
  /\ \A v \in Rows : LET n == attached[v].net IN
       /\ n \in Live
       /\ attached[v].address \in ((defined[n].low + 1)..(defined[n].high - 1)) \ {defined[n].gateway}
       /\ use[v] = "on" => taps[v] = [net |-> n, address |-> attached[v].address, by |-> defined[n]]

(* A user id belongs to one VM at a time, through starts, deletions that   *)
(* stop half-way and repeats of them: while a jail root is owned by it, it *)
(* is recorded for that VM and cannot be given to another.                 *)
UidsHold ==
  /\ \A v, w \in Vms : v # w /\ records[v] # None => records[v] # records[w]
  /\ \A v \in Vms : jails[v] # None => records[v] = jails[v]

(* UidsHold rests on this: a deletion takes the jail root before the record. *)
JailFirst == \A v \in Vms : use[v] = "deleting" => jails[v] = None

=============================================================================
