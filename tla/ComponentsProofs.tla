--------------------------- MODULE ComponentsProofs ---------------------------
(***************************************************************************)
(* Proofs about the components that share no state, and about the          *)
(* specification that chooses one of them: for each an inductive invariant,*)
(* kept by each of its actions, that has the component's type invariant    *)
(* and its safety properties as parts.                                     *)
(***************************************************************************)
EXTENDS Components, Sequences, SequenceTheorems, FiniteSetTheorems, WellFoundedInduction, TLAPS

-----------------------------------------------------------------------------
(* Addresses and user ids of the host: HostResources *)

HostInv == Host!TypeOK /\ Host!AddressesHold /\ Host!UidsHold /\ Host!JailFirst

(* The two parts of AddressesHold: no two VMs have one address, *)
HostDistinct == \A v, w \in Host!Rows : v # w => attached[v].address # attached[w].address

(* and each VM is placed in its network as that is. *)
HostPlaced(v) ==
  LET n == attached[v].net IN
    /\ n \in Host!Live
    /\ attached[v].address \in ((defined[n].low + 1)..(defined[n].high - 1)) \ {defined[n].gateway}
    /\ use[v] = "on" => taps[v] = [net |-> n, address |-> attached[v].address, by |-> defined[n]]

-----------------------------------------------------------------------------
(* The least of some numbers is one of them. *)
LEMMA LeastIn == ASSUME NEW S \in SUBSET Nat, S # {} PROVE Host!Min(S) \in S
<1>1. PICK x \in S : \A y \in S : ~(<<y, x>> \in OpToRel(<, Nat))
  BY NatLessThanWellFounded, WFMin, Zenon
<1>2. \A y \in S : ~(y < x)
  BY <1>1, Zenon DEF OpToRel
<1>3. \A y \in S : x <= y
  BY <1>2
<1> QED BY <1>3 DEF Host!Min

(* An address that is suggested lies inside the subnet. *)
LEMMA HostSuggestedInside ==
  ASSUME NEW d, d.low \in Nat, d.high \in Nat, NEW reserved, Host!Suggested(d, reserved) # None
  PROVE  Host!Suggested(d, reserved) \in d.low..d.high
<1> DEFINE free      == ((d.low + 1)..(d.high - 1)) \ (reserved \cup {d.gateway})
           preferred == IF d.gateway + 1 < d.high THEN d.gateway + 1 ELSE d.high - 1
           after     == {a \in free : a >= preferred}
<1>1. free \in SUBSET Nat /\ free \subseteq d.low..d.high
  OBVIOUS
<1>2. after \in SUBSET Nat /\ after \subseteq free
  BY <1>1
<1>3. Host!Suggested(d, reserved) = IF after # {} THEN Host!Min(after) ELSE IF free # {} THEN Host!Min(free)
        ELSE None
  BY DEF Host!Suggested
<1> HIDE DEF free, preferred, after
<1>4. CASE after # {}
  BY <1>1, <1>2, <1>3, <1>4, LeastIn
<1>5. CASE after = {} /\ free # {}
  BY <1>1, <1>3, <1>5, LeastIn
<1>6. CASE after = {} /\ free = {}
  BY <1>3, <1>6
<1> QED BY <1>4, <1>5, <1>6

-----------------------------------------------------------------------------
(* A network that no VM refers to may change in any way. *)
LEMMA HostNetworkChanges ==
  ASSUME HostInv, NEW n \in HostNetworks, Host!Unused(n), NEW d \in Subnets \cup {None},
         defined' = [defined EXCEPT ![n] = d],
         UNCHANGED <<attached, use, offers, taps, identities, torn, jails>>
  PROVE  HostInv'
<1>1. Host!TypeOK'
  BY DEF HostInv, Host!TypeOK
<1>2. \A v \in Host!Rows : attached[v].net \in HostNetworks \ {n}
  BY DEF HostInv, Host!TypeOK, Host!Unused, Host!Rows, Host!AddressesHold, Host!Live
<1>3. \A v \in Host!Rows : defined'[attached[v].net] = defined[attached[v].net]
  BY <1>2 DEF HostInv, Host!TypeOK
<1>4. Host!AddressesHold'
  BY <1>2, <1>3 DEF HostInv, Host!AddressesHold, Host!Live, Host!Rows
<1>5. Host!UidsHold' /\ Host!JailFirst'
  BY DEF HostInv, Host!UidsHold, Host!JailFirst
<1> QED BY <1>1, <1>4, <1>5 DEF HostInv

(* An attachment that has been checked puts the VM in its place. *)
LEMMA HostAttached ==
  ASSUME Host!HostConstants, HostInv, NEW v \in HostVms, NEW at \in Host!Attachment, Host!Available(v, at),
         attached' = [attached EXCEPT ![v] = at],
         use' \in [HostVms -> {"none", "off", "starting", "on", "deleting", "gone"}],
         use'[v] = "off", \A w \in HostVms \ {v} : use'[w] = use[w],
         UNCHANGED <<defined, taps>>
  PROVE  Host!AddressesHold'
<1>1. Host!Rows' = Host!Rows \cup {v}
  BY DEF HostInv, Host!TypeOK, Host!Rows, Host!HostConstants
<1>2. attached'[v] = at /\ \A w \in Host!Rows \ {v} : attached'[w] = attached[w]
  BY DEF HostInv, Host!TypeOK, Host!Rows
<1>3. \A w \in Host!Rows \ {v} : attached[w].address # at.address
  BY DEF Host!Available, Host!Reserved
<1>4. HostDistinct'
  BY <1>1, <1>2, <1>3 DEF HostInv, Host!AddressesHold, HostDistinct
<1>5. HostPlaced(v)'
  <2> DEFINE d == defined[at.net]
  <2>1. at.net \in Host!Live /\ d.low \in Nat /\ d.high \in Nat
    BY DEF Host!Available, Host!Live, HostInv, Host!TypeOK, Host!HostConstants
  <2>2. at.address \in d.low..d.high
    BY DEF Host!Available
  <2>3. at.address \notin {d.low, d.high, d.gateway}
    BY <2>1 DEF Host!Available, Host!Reserved
  <2>4. at.address \in ((d.low + 1)..(d.high - 1)) \ {d.gateway}
    BY <2>1, <2>2, <2>3
  <2> QED BY <1>2, <2>1, <2>4 DEF HostPlaced, Host!Live
<1>6. \A w \in Host!Rows \ {v} : HostPlaced(w)'
  BY <1>2 DEF HostInv, Host!AddressesHold, HostPlaced, Host!Live, Host!Rows
<1> QED BY <1>1, <1>4, <1>5, <1>6 DEF Host!AddressesHold, HostDistinct, HostPlaced

-----------------------------------------------------------------------------
(* One lemma per action. *)

LEMMA HostCreateNetwork ==
  ASSUME HostInv, NEW n \in HostNetworks, NEW d \in Subnets, Host!CreateNetwork(n, d)
  PROVE  HostInv'
<1>1. Host!Unused(n)
  BY DEF Host!CreateNetwork, HostInv, Host!AddressesHold, Host!Unused, Host!Live
<1> QED BY <1>1, HostNetworkChanges DEF Host!CreateNetwork

LEMMA HostUpdateNetwork ==
  ASSUME HostInv, NEW n \in HostNetworks, NEW d \in Subnets, Host!UpdateNetwork(n, d)
  PROVE  HostInv'
BY HostNetworkChanges DEF Host!UpdateNetwork

LEMMA HostDeleteNetwork ==
  ASSUME HostInv, NEW n \in HostNetworks, Host!DeleteNetwork(n)
  PROVE  HostInv'
BY HostNetworkChanges DEF Host!DeleteNetwork

(* An offer is an attachment, and nothing else changes. *)
LEMMA HostOffer ==
  ASSUME Host!HostConstants, HostInv, NEW v \in HostVms, NEW n \in HostNetworks, n \in Host!Live, Host!Offer(v, n),
         UNCHANGED <<defined, attached, use, taps, identities, torn, jails>>
  PROVE  HostInv'
<1> DEFINE d == defined[n]
           a == Host!Suggested(d, Host!Reserved(v))
<1>1. d \in Subnets /\ d.low \in Nat /\ d.high \in Nat
  BY DEF Host!Live, HostInv, Host!TypeOK, Host!HostConstants
<1>2. a \in d.low..d.high
  BY <1>1, HostSuggestedInside DEF Host!Offer
<1>3. [net |-> n, address |-> a] \in Host!Attachment
  BY <1>1, <1>2 DEF Host!Attachment, Host!Addresses
<1>4. offers' \in [HostVms -> Host!Attachment \cup {None}]
  BY <1>3 DEF Host!Offer, HostInv, Host!TypeOK
<1>5. Host!TypeOK'
  BY <1>4 DEF HostInv, Host!TypeOK
<1>6. Host!AddressesHold'
  BY DEF HostInv, Host!AddressesHold, Host!Live, Host!Rows
<1>7. Host!UidsHold' /\ Host!JailFirst'
  BY DEF HostInv, Host!UidsHold, Host!JailFirst
<1> QED BY <1>5, <1>6, <1>7 DEF HostInv

LEMMA HostSuggest ==
  ASSUME Host!HostConstants, HostInv, NEW v \in HostVms, NEW n \in HostNetworks, Host!Suggest(v, n)
  PROVE  HostInv'
BY HostOffer DEF Host!Suggest

LEMMA HostDuplicate ==
  ASSUME Host!HostConstants, HostInv, NEW v \in HostVms, NEW w \in HostVms, Host!Duplicate(v, w)
  PROVE  HostInv'
<1>1. attached[w].net \in HostNetworks /\ attached[w].net \in Host!Live
  BY DEF Host!Duplicate, HostInv, Host!AddressesHold, Host!Live
<1> QED BY <1>1, HostOffer DEF Host!Duplicate

LEMMA HostDefine ==
  ASSUME Host!HostConstants, HostInv, NEW v \in HostVms, NEW at \in Host!Attachment, Host!Define(v, at)
  PROVE  HostInv'
<1>1. Host!TypeOK'
  BY DEF Host!Define, HostInv, Host!TypeOK, Host!HostConstants
<1>2. Host!AddressesHold'
  BY <1>1, HostAttached DEF Host!Define, HostInv, Host!TypeOK
<1>3. Host!UidsHold' /\ Host!JailFirst'
  BY DEF Host!Define, HostInv, Host!TypeOK, Host!UidsHold, Host!JailFirst
<1> QED BY <1>1, <1>2, <1>3 DEF HostInv

LEMMA HostEdit ==
  ASSUME Host!HostConstants, HostInv, NEW v \in HostVms, NEW at \in Host!Attachment, Host!Edit(v, at)
  PROVE  HostInv'
<1>1. Host!TypeOK'
  BY DEF Host!Edit, HostInv, Host!TypeOK, Host!HostConstants
<1>2. Host!AddressesHold'
  BY <1>1, HostAttached DEF Host!Edit, HostInv, Host!TypeOK
<1>3. Host!UidsHold' /\ Host!JailFirst'
  BY DEF Host!Edit, HostInv, Host!UidsHold, Host!JailFirst
<1> QED BY <1>1, <1>2, <1>3 DEF HostInv

(* A use that is not "on", of a VM that keeps its row, moves nobody. *)
LEMMA HostQuiet ==
  ASSUME HostInv, NEW v \in HostVms, NEW u \in {"off", "starting", "deleting"},
         use' = [use EXCEPT ![v] = u], attached' = attached, defined' = defined,
         \A w \in HostVms \ {v} : taps'[w] = taps[w]
  PROVE  Host!AddressesHold'
<1>1. \A w \in HostVms : use'[w] = "on" => w # v /\ use[w] = "on" /\ taps'[w] = taps[w]
  BY DEF HostInv, Host!TypeOK
<1> QED BY <1>1 DEF HostInv, Host!AddressesHold, Host!Live, Host!Rows

(* The lowest free user id is recorded for nobody. *)
LEMMA HostLowestFree ==
  ASSUME Host!HostConstants, NEW v \in HostVms, Host!Free(v) # {}
  PROVE  Host!Min(Host!Free(v)) \in Uids /\ \A w \in HostVms : identities[w] # Host!Min(Host!Free(v))
<1>1. Host!Free(v) \in SUBSET Nat
  BY DEF Host!Free, Host!HostConstants
<1>2. Host!Min(Host!Free(v)) \in Host!Free(v)
  BY <1>1, LeastIn
<1> QED BY <1>2 DEF Host!Free

LEMMA HostIdentify ==
  ASSUME Host!HostConstants, HostInv, NEW v \in HostVms, Host!Identify(v)
  PROVE  HostInv'
<1>1. Host!AddressesHold'
  BY HostQuiet DEF Host!Identify
<1>2. Host!JailFirst'
  BY DEF Host!Identify, HostInv, Host!TypeOK, Host!JailFirst
<1>3. use' \in [HostVms -> {"none", "off", "starting", "on", "deleting", "gone"}]
      /\ \A w \in HostVms : attached'[w] = None <=> use'[w] \in {"none", "gone"}
  BY DEF Host!Identify, HostInv, Host!TypeOK
<1>4. /\ identities' \in [HostVms -> Uids \cup {None}] /\ torn' \subseteq HostVms
      /\ jails' \in [HostVms -> Uids \cup {None}]
      /\ Host!UidsHold'
  <2>1. CASE /\ identities[v] # None
             /\ jails' = [jails EXCEPT ![v] = identities[v]] /\ UNCHANGED <<identities, torn>>
    BY <2>1 DEF HostInv, Host!TypeOK, Host!UidsHold
  <2>2. CASE /\ Host!Free(v) # {}
             /\ identities' = [identities EXCEPT ![v] = Host!Min(Host!Free(v))]
             /\ jails' = [jails EXCEPT ![v] = Host!Min(Host!Free(v))]
             /\ UNCHANGED torn
    <3> DEFINE u == Host!Min(Host!Free(v))
    <3>1. u \in Uids /\ \A w \in HostVms : identities[w] # u
      BY <2>2, HostLowestFree
    <3> HIDE DEF u
    <3>2. identities' = [identities EXCEPT ![v] = u] /\ jails' = [jails EXCEPT ![v] = u] /\ torn' = torn
      BY <2>2 DEF u
    <3> QED BY <3>1, <3>2 DEF HostInv, Host!TypeOK, Host!UidsHold
  <2>3. CASE torn' = {v} /\ UNCHANGED <<identities, jails>>
    BY <2>3 DEF HostInv, Host!TypeOK, Host!UidsHold
  <2> QED BY <2>1, <2>2, <2>3 DEF Host!Identify
<1>5. Host!TypeOK'
  BY <1>3, <1>4 DEF Host!Identify, HostInv, Host!TypeOK
<1> QED BY <1>1, <1>2, <1>4, <1>5 DEF HostInv

LEMMA HostNetworkTap ==
  ASSUME Host!HostConstants, HostInv, NEW v \in HostVms, Host!NetworkTap(v)
  PROVE  HostInv'
<1> DEFINE at == attached[v]
           tap == [net |-> at.net, address |-> at.address, by |-> defined[at.net]]
<1>1. v \in Host!Rows /\ at \in Host!Attachment /\ at.net \in HostNetworks /\ defined[at.net] \in Subnets
  BY DEF Host!NetworkTap, HostInv, Host!TypeOK, Host!Rows, Host!Live, Host!Attachment
<1>2. tap \in Host!Tap
  BY <1>1 DEF Host!Attachment, Host!Tap
<1>3. taps' = [taps EXCEPT ![v] = tap] /\ use' = [use EXCEPT ![v] = "on"]
  BY DEF Host!NetworkTap, Host!Creates
<1>4. UNCHANGED <<defined, attached, offers, identities, torn, jails>>
  BY DEF Host!NetworkTap
<1>5. use[v] = "starting"
  BY DEF Host!NetworkTap
<1>6. Host!TypeOK'
  <2> HIDE DEF tap
  <2> QED BY <1>2, <1>3, <1>4, <1>5 DEF HostInv, Host!TypeOK
<1>7. Host!AddressesHold'
  <2>1. HostDistinct'
    BY <1>4 DEF HostInv, Host!AddressesHold, HostDistinct, Host!Rows
  <2>2. HostPlaced(v)'
    BY <1>1, <1>3, <1>4 DEF HostInv, Host!TypeOK, Host!AddressesHold, HostPlaced, Host!Live, Host!Rows
  <2>3. \A w \in Host!Rows \ {v} : HostPlaced(w)'
    BY <1>3, <1>4 DEF HostInv, Host!TypeOK, Host!AddressesHold, HostPlaced, Host!Live, Host!Rows
  <2> QED BY <1>4, <2>1, <2>2, <2>3 DEF Host!AddressesHold, HostDistinct, HostPlaced, Host!Rows
<1>8. Host!UidsHold' /\ Host!JailFirst'
  BY <1>3, <1>4 DEF HostInv, Host!TypeOK, Host!UidsHold, Host!JailFirst
<1> QED BY <1>6, <1>7, <1>8 DEF HostInv

LEMMA HostStop ==
  ASSUME HostInv, NEW v \in HostVms, Host!Stop(v)
  PROVE  HostInv'
<1>1. Host!TypeOK'
  BY DEF Host!Stop, Host!RemoveTap, HostInv, Host!TypeOK
<1>2. Host!AddressesHold'
  BY HostQuiet DEF Host!Stop, Host!RemoveTap, HostInv, Host!TypeOK
<1>3. Host!UidsHold' /\ Host!JailFirst'
  BY DEF Host!Stop, HostInv, Host!TypeOK, Host!UidsHold, Host!JailFirst
<1> QED BY <1>1, <1>2, <1>3 DEF HostInv

LEMMA HostDelete ==
  ASSUME HostInv, NEW v \in HostVms, Host!Delete(v)
  PROVE  HostInv'
<1>1. Host!TypeOK'
  BY DEF Host!Delete, Host!JailGoes, Host!RemoveTap, HostInv, Host!TypeOK
<1>2. Host!AddressesHold'
  BY HostQuiet DEF Host!Delete, Host!RemoveTap, HostInv, Host!TypeOK
<1>3. Host!UidsHold' /\ Host!JailFirst'
  BY DEF Host!Delete, Host!JailGoes, HostInv, Host!TypeOK, Host!UidsHold, Host!JailFirst
<1> QED BY <1>1, <1>2, <1>3 DEF HostInv

LEMMA HostDeleteRest ==
  ASSUME Host!HostConstants, HostInv, NEW v \in HostVms, Host!DeleteRest(v)
  PROVE  HostInv'
<1>1. Host!TypeOK'
  BY DEF Host!DeleteRest, HostInv, Host!TypeOK
<1>2. Host!AddressesHold'
  <2>1. CASE use' = [use EXCEPT ![v] = "gone"] /\ attached' = [attached EXCEPT ![v] = None]
    <3>1. Host!Rows' = Host!Rows \ {v} /\ \A w \in Host!Rows' : attached'[w] = attached[w] /\ use'[w] = use[w]
      BY <2>1 DEF Host!Rows, HostInv, Host!TypeOK
    <3> QED BY <3>1 DEF Host!DeleteRest, HostInv, Host!AddressesHold, Host!Live
  <2>2. CASE use' = [use EXCEPT ![v] = "off"] /\ UNCHANGED attached
    BY <2>2, HostQuiet DEF Host!DeleteRest
  <2> QED BY <2>1, <2>2 DEF Host!DeleteRest
<1>3. jails[v] = None
  BY DEF Host!DeleteRest, HostInv, Host!JailFirst
<1>4. Host!UidsHold' /\ Host!JailFirst'
  BY <1>3 DEF Host!DeleteRest, HostInv, Host!TypeOK, Host!UidsHold, Host!JailFirst
<1> QED BY <1>1, <1>2, <1>4 DEF HostInv

LEMMA HostDeleteFails ==
  ASSUME HostInv, NEW v \in HostVms, Host!DeleteFails(v)
  PROVE  HostInv'
<1>1. Host!TypeOK'
  BY DEF Host!DeleteFails, HostInv, Host!TypeOK
<1>2. Host!AddressesHold'
  BY HostQuiet DEF Host!DeleteFails
<1>3. Host!UidsHold' /\ Host!JailFirst'
  BY DEF Host!DeleteFails, HostInv, Host!TypeOK, Host!UidsHold, Host!JailFirst
<1> QED BY <1>1, <1>2, <1>3 DEF HostInv

LEMMA HostStutter == ASSUME HostInv, UNCHANGED Host!vars PROVE HostInv'
BY DEF Host!vars, HostInv, Host!TypeOK, Host!AddressesHold, Host!UidsHold, Host!JailFirst, Host!Live,
  Host!Rows

LEMMA HostInit == ASSUME Host!HostConstants, Host!Init PROVE HostInv
BY DEF Host!Init, HostInv, Host!TypeOK, Host!AddressesHold, Host!UidsHold, Host!JailFirst, Host!Rows

(* Every step keeps it. *)
LEMMA HostNext == ASSUME Host!HostConstants, HostInv, Host!Next PROVE HostInv'
<1>1. ASSUME NEW n \in HostNetworks, NEW d \in Subnets, Host!CreateNetwork(n, d) \/ Host!UpdateNetwork(n, d)
      PROVE  HostInv'
  BY <1>1, HostCreateNetwork, HostUpdateNetwork
<1>2. ASSUME NEW n \in HostNetworks, Host!DeleteNetwork(n) PROVE HostInv'
  BY <1>2, HostDeleteNetwork
<1>3. ASSUME NEW v \in HostVms, NEW n \in HostNetworks, Host!Suggest(v, n) PROVE HostInv'
  BY <1>3, HostSuggest
<1>4. ASSUME NEW v \in HostVms, NEW w \in HostVms, Host!Duplicate(v, w) PROVE HostInv'
  BY <1>4, HostDuplicate
<1>5. ASSUME NEW v \in HostVms, NEW at \in Host!Attachment, Host!Define(v, at) \/ Host!Edit(v, at) PROVE HostInv'
  BY <1>5, HostDefine, HostEdit
<1>6. ASSUME NEW v \in HostVms, Host!Identify(v) \/ Host!NetworkTap(v) \/ Host!Stop(v) PROVE HostInv'
  BY <1>6, HostIdentify, HostNetworkTap, HostStop
<1>7. ASSUME NEW v \in HostVms, Host!Delete(v) \/ Host!DeleteRest(v) \/ Host!DeleteFails(v) PROVE HostInv'
  BY <1>7, HostDelete, HostDeleteRest, HostDeleteFails
<1> QED BY <1>1, <1>2, <1>3, <1>4, <1>5, <1>6, <1>7 DEF Host!Next

-----------------------------------------------------------------------------
(* Disks and guest files: DiskPreparation *)

(* Where a preparation, or the guest after it, has the kernel, *)
DisksHasKernel == {"rootfs", "marker", "initrd", "drive", "seed", "mkfs", "ready", "mount"}
(* the root disk *)
DisksHasRoot   == {"marker", "initrd", "drive", "seed", "mkfs", "ready", "mount", "setup", "userdata", "workload"}
(* and the initrd of the definition. *)
DisksHasInitrd == {"drive", "seed", "mkfs", "ready", "mount"}

DisksManaged == disks["rootfs"] # None /\ disks["rootfs"].init = "managed"

DisksPreparedFits ==
  /\ Preparing!Valid(definition)
  /\ filling # None => disks[filling] = None /\ definition[filling] # None
  /\ preparing \in DisksHasKernel /\ "kernel" \notin beside => boot["kernel"] = definition
  /\ preparing \in DisksHasRoot => disks["rootfs"] # None
  /\ preparing = "marker" => DisksManaged
  /\ (preparing \in {"kernel"} \cup DisksHasKernel \cup DisksHasRoot /\ definition.workload # "default"
       /\ disks["rootfs"] # None) => DisksManaged
  /\ preparing \in DisksHasInitrd /\ definition.initrd # None /\ "initrd" \notin beside =>
       boot["initrd"] = definition
  /\ preparing = "mkfs" => Preparing!NeedsSeed
  /\ reader # None => preparing = "stopped"
  /\ \A n \in Preparing!Names : disks[n] = None => n \notin beside

DisksInv == Preparing!TypeOK /\ Preparing!DisksHold /\ Preparing!ReadsFit /\ DisksPreparedFits

USE DEF Preparing!Names, Preparing!Idle, Preparing!Steps, Preparing!Guest, DisksHasKernel, DisksHasRoot,
  DisksHasInitrd, Preparing!Copied

LEMMA DisksInit == ASSUME Preparing!DiskConstants, Preparing!Init PROVE DisksInv
<1>1. Preparing!TypeOK
  <2> DEFINE old == [of |-> definition.rootfs, whole |-> TRUE, init |-> "old", used |-> TRUE]
  <2>1. definition \in DiskDefinitions /\ MaxRuns \in Nat
    BY DEF Preparing!Init, Preparing!DiskConstants
  <2>2. definition.rootfs \in OciAssets => old \in Preparing!Disk
    BY DEF Preparing!DiskConstants, Preparing!Disk
  <2>3. disks = [n \in Preparing!Names |-> None]
          \/ (definition.rootfs \in OciAssets
               /\ disks = [n \in Preparing!Names |-> IF n = "drive" THEN None ELSE old])
    BY DEF Preparing!Init
  <2> HIDE DEF old
  <2>4. disks \in [Preparing!Names -> Preparing!Disk \cup {None}]
    BY <2>2, <2>3
  <2> QED BY <2>1, <2>4 DEF Preparing!Init, Preparing!TypeOK
<1>2. Preparing!DisksHold
  BY DEF Preparing!Init, Preparing!DiskConstants, Preparing!DisksHold
<1> QED BY <1>1, <1>2 DEF Preparing!Init, Preparing!DiskConstants, DisksInv, Preparing!ReadsFit,
    DisksPreparedFits, Preparing!Valid

LEMMA DisksEdit ==
  ASSUME Preparing!DiskConstants, DisksInv, NEW d \in DiskDefinitions, Preparing!Edit(d)
  PROVE  DisksInv'
<1>1. Preparing!TypeOK'
  BY DEF DisksInv, Preparing!TypeOK, Preparing!Edit, Preparing!Free, Preparing!DiskConstants
<1>2. Preparing!DisksHold'
  BY DEF DisksInv, Preparing!TypeOK, Preparing!DisksHold, Preparing!Edit, Preparing!Free,
    Preparing!KeepsDisks, Preparing!DiskConstants
<1> QED BY <1>1, <1>2 DEF DisksInv, Preparing!TypeOK, Preparing!Edit, Preparing!Free, Preparing!ReadsFit,
    DisksPreparedFits, Preparing!DiskConstants

LEMMA DisksPrepare == ASSUME Preparing!DiskConstants, DisksInv, Preparing!Prepare PROVE DisksInv'
BY DEF DisksInv, Preparing!TypeOK, Preparing!Prepare, Preparing!Free, Preparing!KnowsWorkloads,
  Preparing!DisksHold, Preparing!ReadsFit, DisksPreparedFits, DisksManaged, Preparing!DiskConstants,
  Preparing!NeedsSeed, Preparing!Valid

LEMMA DisksKernel == ASSUME Preparing!DiskConstants, DisksInv, Preparing!Kernel PROVE DisksInv'
BY DEF DisksInv, Preparing!TypeOK, Preparing!Kernel, Preparing!Renew, Preparing!Goes, Preparing!DisksHold,
  Preparing!ReadsFit, DisksPreparedFits, DisksManaged, Preparing!DiskConstants, Preparing!NeedsSeed,
  Preparing!Valid

LEMMA DisksBegin ==
  ASSUME Preparing!DiskConstants, DisksInv, NEW n \in Preparing!Names, Preparing!Begin(n)
  PROVE  DisksInv'
BY DEF DisksInv, Preparing!TypeOK, Preparing!Begin, Preparing!Fill, Preparing!Missing, Preparing!DisksHold,
  Preparing!ReadsFit, DisksPreparedFits, DisksManaged, Preparing!DiskConstants, Preparing!NeedsSeed,
  Preparing!Valid

LEMMA DisksFinish ==
  ASSUME Preparing!DiskConstants, DisksInv, NEW n \in Preparing!Names, Preparing!Finish(n)
  PROVE  DisksInv'
<1>0. PICK whole \in {TRUE, ~Preparing!HasStray(n)} : disks' = [disks EXCEPT ![n] = Preparing!NewDisk(n, whole)]
  BY DEF Preparing!Finish
<1>w. whole \in BOOLEAN /\ (n \notin beside' => whole)
  BY DEF Preparing!Finish, Preparing!Making
<1> DEFINE d == Preparing!NewDisk(n, whole)
<1>1. preparing = n /\ disks[n] = None /\ definition[n] \in Assets /\ n \notin used
      /\ n \notin beside /\ reader = None
  BY DEF Preparing!Finish, DisksInv, Preparing!TypeOK, DisksPreparedFits, Preparing!DisksHold,
    Preparing!DiskConstants
<1>2. d \in Preparing!Disk /\ d.whole = whole /\ d.of = definition[n] /\ d # None
      /\ (n = "rootfs" /\ definition[n] \in OciAssets => d.init = "managed")
  <2>1. d.of = definition[n] /\ d.used = FALSE /\ d.whole = whole
    BY Zenon DEF Preparing!NewDisk
  <2>2. d \in Preparing!Disk
    BY <1>1, <1>w, SMTT(20) DEF Preparing!NewDisk, Preparing!Disk
  <2>3. n = "rootfs" /\ definition[n] \in OciAssets => d.init = "managed"
    BY Zenon DEF Preparing!NewDisk
  <2> QED BY <2>1, <2>2, <2>3 DEF Preparing!DiskConstants
<1>3. disks' = [disks EXCEPT ![n] = d] /\ preparing' = Preparing!After(n) /\ filling' = None
      /\ UNCHANGED <<definition, marker, boot, run, ended, code, kind, reader, used, strays>>
      /\ beside' \in {beside \cup {n}, beside \ {n}}
  BY <1>0 DEF Preparing!Finish, Preparing!Goes, Preparing!Making
<1> HIDE DEF d
<1>4. Preparing!TypeOK'
  BY <1>1, <1>2, <1>3 DEF DisksInv, Preparing!TypeOK, Preparing!After
<1>5. Preparing!DisksHold'
  BY <1>1, <1>2, <1>3, <1>w DEF DisksInv, Preparing!TypeOK, Preparing!After, Preparing!DisksHold
<1>6. DisksPreparedFits'
  BY <1>1, <1>2, <1>3 DEF DisksInv, Preparing!TypeOK, Preparing!After, DisksPreparedFits, DisksManaged,
    Preparing!Valid, Preparing!NeedsSeed
<1>7. Preparing!ReadsFit'
  BY <1>1, <1>3 DEF Preparing!ReadsFit, Preparing!DiskConstants
<1> QED BY <1>4, <1>5, <1>6, <1>7 DEF DisksInv

LEMMA DisksSkip ==
  ASSUME Preparing!DiskConstants, DisksInv, NEW n \in Preparing!Names, Preparing!Skip(n)
  PROVE  DisksInv'
BY DEF DisksInv, Preparing!TypeOK, Preparing!Skip, Preparing!Missing, Preparing!Goes, Preparing!DisksHold,
  Preparing!ReadsFit, DisksPreparedFits, DisksManaged, Preparing!DiskConstants, Preparing!NeedsSeed,
  Preparing!Valid

LEMMA DisksMarker == ASSUME Preparing!DiskConstants, DisksInv, Preparing!Marker PROVE DisksInv'
BY DEF DisksInv, Preparing!TypeOK, Preparing!Marker, Preparing!Goes, Preparing!DisksHold,
  Preparing!ReadsFit, DisksPreparedFits, DisksManaged, Preparing!DiskConstants, Preparing!NeedsSeed,
  Preparing!Valid

LEMMA DisksInitrd == ASSUME Preparing!DiskConstants, DisksInv, Preparing!Initrd PROVE DisksInv'
<1>1. /\ preparing = "initrd" /\ preparing' = "drive"
      /\ UNCHANGED <<definition, disks, filling, marker, run, ended, code, kind, reader, used, strays>>
  BY DEF Preparing!Initrd, Preparing!Goes
<1>2. \/ definition.initrd = None /\ UNCHANGED <<boot, beside>>
      \/ /\ boot' = [boot EXCEPT !["initrd"] = definition]
         /\ beside' \in {beside \cup {"initrd"}, beside \ {"initrd"}}
      \/ boot' = [boot EXCEPT !["initrd"] = Torn] /\ beside' = beside \cup {"initrd"}
  BY DEF Preparing!Initrd, Preparing!Renew, Preparing!Making, Preparing!Mixed
<1>3. filling = None /\ reader = None
  BY <1>1 DEF DisksInv, Preparing!TypeOK, DisksPreparedFits, Preparing!DiskConstants
<1>4. /\ boot' \in [{"kernel", "initrd", "seed"} -> DiskDefinitions \cup {None, Torn}]
      /\ beside' \subseteq Preparing!Copied
      /\ boot'["kernel"] = boot["kernel"] /\ \A f \in {"kernel", "rootfs", "drive"} : f \in beside' <=> f \in beside
      /\ definition.initrd # None /\ "initrd" \notin beside' => boot'["initrd"] = definition
  <2>1. CASE definition.initrd = None /\ UNCHANGED <<boot, beside>>
    BY <2>1 DEF DisksInv, Preparing!TypeOK
  <2>2. CASE /\ boot' = [boot EXCEPT !["initrd"] = definition]
             /\ beside' \in {beside \cup {"initrd"}, beside \ {"initrd"}}
    BY <2>2 DEF DisksInv, Preparing!TypeOK
  <2>3. CASE boot' = [boot EXCEPT !["initrd"] = Torn] /\ beside' = beside \cup {"initrd"}
    BY <2>3 DEF DisksInv, Preparing!TypeOK
  <2> QED BY <1>2, <2>1, <2>2, <2>3
<1>5. Preparing!TypeOK'
  BY <1>1, <1>3, <1>4 DEF DisksInv, Preparing!TypeOK
<1>6. Preparing!DisksHold' /\ Preparing!ReadsFit'
  BY <1>1, <1>3, <1>4 DEF DisksInv, Preparing!TypeOK, Preparing!DisksHold, Preparing!ReadsFit,
    Preparing!DiskConstants
<1>7. DisksPreparedFits'
  BY <1>1, <1>3, <1>4 DEF DisksInv, DisksPreparedFits, DisksManaged, Preparing!Valid, Preparing!NeedsSeed
<1> QED BY <1>5, <1>6, <1>7 DEF DisksInv

LEMMA DisksSeed == ASSUME Preparing!DiskConstants, DisksInv, Preparing!Seed PROVE DisksInv'
BY DEF DisksInv, Preparing!TypeOK, Preparing!Seed, Preparing!RemoveSeed, Preparing!Goes, Preparing!Renew,
  Preparing!DisksHold, Preparing!ReadsFit, DisksPreparedFits, DisksManaged, Preparing!DiskConstants,
  Preparing!NeedsSeed, Preparing!Valid

LEMMA DisksSeedDone == ASSUME Preparing!DiskConstants, DisksInv, Preparing!SeedDone PROVE DisksInv'
BY DEF DisksInv, Preparing!TypeOK, Preparing!SeedDone, Preparing!Goes, Preparing!Renew,
  Preparing!DisksHold, Preparing!ReadsFit, DisksPreparedFits, DisksManaged, Preparing!DiskConstants,
  Preparing!NeedsSeed, Preparing!Valid

LEMMA DisksFails == ASSUME Preparing!DiskConstants, DisksInv, Preparing!Fails PROVE DisksInv'
BY DEF DisksInv, Preparing!TypeOK, Preparing!Fails, Preparing!RemoveSeed, Preparing!DisksHold,
  Preparing!ReadsFit, DisksPreparedFits, DisksManaged, Preparing!DiskConstants, Preparing!NeedsSeed,
  Preparing!Valid

LEMMA DisksDropped == ASSUME Preparing!DiskConstants, DisksInv, Preparing!Dropped PROVE DisksInv'
<1>1. strays' \subseteq Preparing!Stray
  BY DEF Preparing!Dropped, Preparing!Copying, Preparing!Stray, DisksInv, Preparing!TypeOK
<1> QED BY <1>1 DEF DisksInv, Preparing!TypeOK, Preparing!Dropped, Preparing!DisksHold, Preparing!ReadsFit,
    DisksPreparedFits, DisksManaged, Preparing!DiskConstants, Preparing!NeedsSeed, Preparing!Valid

LEMMA DisksCrashed == ASSUME Preparing!DiskConstants, DisksInv, Preparing!Crashed PROVE DisksInv'
BY DEF DisksInv, Preparing!TypeOK, Preparing!Crashed, Preparing!DisksHold, Preparing!ReadsFit,
  DisksPreparedFits, DisksManaged, Preparing!DiskConstants, Preparing!NeedsSeed, Preparing!Valid

(* What a stray copy writes to is one of the files that it is known to reach. *)
LEMMA DisksStrayWrites ==
  ASSUME Preparing!DiskConstants, DisksInv, NEW n \in Preparing!Names, Preparing!StrayWrites(n)
  PROVE  DisksInv'
<1> DEFINE d == disks[n]
           e == [d EXCEPT !.whole = FALSE]
<1>1. d \in Preparing!Disk /\ n \in beside
  BY DEF Preparing!StrayWrites, DisksInv, Preparing!TypeOK
<1>2. e \in Preparing!Disk /\ e.of = d.of /\ e.init = d.init /\ e.used = d.used
  BY <1>1 DEF Preparing!Disk
<1>3. disks' = [disks EXCEPT ![n] = e]
  BY DEF Preparing!StrayWrites
<1>4. /\ UNCHANGED <<definition, preparing, filling, marker, boot, run, ended, reader, used, strays, beside>>
      /\ code' \in {0, code} /\ kind' \in {kind, "regular", "directory"}
      /\ n # "rootfs" => code' = code /\ kind' = kind
  BY DEF Preparing!StrayWrites
<1> HIDE DEF d, e
<1>5. disks[n] = d /\ d # None /\ e # None
  BY <1>1, <1>2 DEF d, Preparing!StrayWrites, Preparing!DiskConstants
<1>6. Preparing!TypeOK'
  BY <1>1, <1>2, <1>3, <1>4, <1>5 DEF DisksInv, Preparing!TypeOK
<1>7. Preparing!DisksHold' /\ Preparing!ReadsFit'
  BY <1>1, <1>2, <1>3, <1>4, <1>5 DEF DisksInv, Preparing!TypeOK, Preparing!DisksHold, Preparing!ReadsFit,
    Preparing!NeedsSeed
<1>8. DisksPreparedFits'
  BY <1>1, <1>2, <1>3, <1>4, <1>5 DEF DisksInv, Preparing!TypeOK, DisksPreparedFits, DisksManaged,
    Preparing!Valid, Preparing!NeedsSeed
<1> QED BY <1>6, <1>7, <1>8 DEF DisksInv

LEMMA DisksStrayEnds ==
  ASSUME Preparing!DiskConstants, DisksInv, NEW s \in strays, Preparing!StrayEnds(s)
  PROVE  DisksInv'
<1>1. s.from \in DiskDefinitions /\ strays' \subseteq Preparing!Stray
  BY DEF Preparing!StrayEnds, DisksInv, Preparing!TypeOK, Preparing!Stray
<1>2. UNCHANGED <<definition, preparing, disks, filling, marker, run, ended, code, kind, reader, used>>
  BY DEF Preparing!StrayEnds
<1>3. /\ boot' \in [{"kernel", "initrd", "seed"} -> DiskDefinitions \cup {None, Torn}]
      /\ beside' \in {beside, beside \cup {"kernel"}, beside \cup {"initrd"}}
      /\ "kernel" \notin beside' => boot'["kernel"] = boot["kernel"]
      /\ "initrd" \notin beside' => boot'["initrd"] = boot["initrd"]
      /\ boot'["seed"] = boot["seed"]
  <2>1. CASE UNCHANGED <<boot, beside>>
    BY <2>1 DEF DisksInv, Preparing!TypeOK
  <2>2. CASE boot' = [boot EXCEPT !["kernel"] = s.from] /\ beside' = beside \cup {"kernel"}
    BY <1>1, <2>2 DEF DisksInv, Preparing!TypeOK
  <2>3. CASE boot' = [boot EXCEPT !["initrd"] = Torn] /\ beside' = beside \cup {"initrd"}
    BY <2>3 DEF DisksInv, Preparing!TypeOK
  <2> QED BY <2>1, <2>2, <2>3 DEF Preparing!StrayEnds, Preparing!Mixed
<1>4. Preparing!TypeOK'
  BY <1>1, <1>2, <1>3 DEF DisksInv, Preparing!TypeOK
<1>5. Preparing!DisksHold' /\ Preparing!ReadsFit'
  BY <1>2, <1>3 DEF DisksInv, Preparing!TypeOK, Preparing!DisksHold, Preparing!ReadsFit, Preparing!NeedsSeed
<1>6. DisksPreparedFits'
  BY <1>2, <1>3 DEF DisksInv, DisksPreparedFits, DisksManaged, Preparing!Valid, Preparing!NeedsSeed
<1> QED BY <1>4, <1>5, <1>6 DEF DisksInv

(* A guest has every disk and may write to it. *)
LEMMA DisksUsed ==
  ASSUME Preparing!DiskConstants, DisksInv, run < MaxRuns, run' = run + 1,
    used' = {n \in Preparing!Names : disks[n] # None},
    disks' = [n \in Preparing!Names |-> IF disks[n] = None THEN None ELSE [disks[n] EXCEPT !.used = TRUE]],
    preparing' \in {"own", "mount"},
    preparing' = "mount" => preparing = "ready",
    reader = None, preparing \in Preparing!Idle \cup {"ready"},
    UNCHANGED <<definition, filling, marker, boot, ended, code, kind, reader, strays, beside>>
  PROVE  DisksInv'
<1>1. \A n \in Preparing!Names : disks[n] # None =>
        /\ disks'[n] \in Preparing!Disk /\ disks'[n] # None /\ disks'[n].used
        /\ disks'[n].whole = disks[n].whole /\ disks'[n].of = disks[n].of /\ disks'[n].init = disks[n].init
  <2> TAKE n \in Preparing!Names
  <2> HAVE disks[n] # None
  <2> DEFINE d == disks[n]
             e == [d EXCEPT !.used = TRUE]
  <2>1. d \in Preparing!Disk
    BY DEF DisksInv, Preparing!TypeOK
  <2>2. disks'[n] = e
    OBVIOUS
  <2>3. e \in Preparing!Disk /\ e.whole = d.whole /\ e.of = d.of /\ e.init = d.init /\ e.used = TRUE
    BY <2>1 DEF Preparing!Disk
  <2> QED BY <2>2, <2>3 DEF Preparing!DiskConstants
<1>2. \A n \in Preparing!Names : disks[n] = None => disks'[n] = None
  OBVIOUS
<1>3. filling = None
  BY DEF DisksInv, Preparing!TypeOK, Preparing!DiskConstants
<1>4. Preparing!TypeOK'
  BY <1>1, <1>2, <1>3 DEF DisksInv, Preparing!TypeOK, Preparing!DiskConstants
<1>5. Preparing!DisksHold'
  BY <1>1, <1>2 DEF DisksInv, Preparing!TypeOK, Preparing!DisksHold, Preparing!NeedsSeed
<1>6. DisksPreparedFits'
  BY <1>1, <1>2, <1>3 DEF DisksInv, Preparing!TypeOK, DisksPreparedFits, DisksManaged, Preparing!Valid,
    Preparing!NeedsSeed
<1> QED BY <1>4, <1>5, <1>6 DEF DisksInv, Preparing!ReadsFit

LEMMA DisksRestore == ASSUME Preparing!DiskConstants, DisksInv, Preparing!Restore PROVE DisksInv'
BY DisksUsed DEF Preparing!Restore, Preparing!Free

LEMMA DisksBoot == ASSUME Preparing!DiskConstants, DisksInv, Preparing!Boot PROVE DisksInv'
<1>1. reader = None
  BY DEF Preparing!Boot, DisksInv, DisksPreparedFits
<1> QED BY <1>1, DisksUsed DEF Preparing!Boot

LEMMA DisksStage == ASSUME Preparing!DiskConstants, DisksInv, Preparing!Stage PROVE DisksInv'
BY DEF DisksInv, Preparing!TypeOK, Preparing!Stage, Preparing!Goes, Preparing!DisksHold,
  Preparing!ReadsFit, DisksPreparedFits, DisksManaged, Preparing!DiskConstants, Preparing!NeedsSeed,
  Preparing!Valid

LEMMA DisksExit == ASSUME Preparing!DiskConstants, DisksInv, Preparing!Exit PROVE DisksInv'
BY DEF DisksInv, Preparing!TypeOK, Preparing!Exit, Preparing!Record, Preparing!Goes, Preparing!DisksHold,
  Preparing!ReadsFit, DisksPreparedFits, DisksManaged, Preparing!DiskConstants, Preparing!NeedsSeed,
  Preparing!Valid

LEMMA DisksWrites == ASSUME Preparing!DiskConstants, DisksInv, Preparing!Writes PROVE DisksInv'
BY DEF DisksInv, Preparing!TypeOK, Preparing!Writes, Preparing!DisksHold, Preparing!ReadsFit,
  DisksPreparedFits, DisksManaged, Preparing!DiskConstants, Preparing!NeedsSeed, Preparing!Valid

LEMMA DisksStop == ASSUME Preparing!DiskConstants, DisksInv, Preparing!Stop PROVE DisksInv'
BY DEF DisksInv, Preparing!TypeOK, Preparing!Stop, Preparing!DisksHold, Preparing!ReadsFit,
  DisksPreparedFits, DisksManaged, Preparing!DiskConstants, Preparing!NeedsSeed, Preparing!Valid

LEMMA DisksReader ==
  ASSUME Preparing!DiskConstants, DisksInv, Preparing!Browse \/ Preparing!Stat \/ Preparing!ReaderEnds
  PROVE  DisksInv'
<1>1. CASE Preparing!Browse
  BY <1>1 DEF DisksInv, Preparing!TypeOK, Preparing!Browse, Preparing!Free, Preparing!DisksHold,
    Preparing!ReadsFit, DisksPreparedFits, DisksManaged, Preparing!DiskConstants, Preparing!NeedsSeed,
    Preparing!Valid
<1>2. CASE Preparing!Stat
  BY <1>2 DEF DisksInv, Preparing!TypeOK, Preparing!Stat, Preparing!DisksHold, Preparing!ReadsFit,
    DisksPreparedFits, DisksManaged, Preparing!DiskConstants, Preparing!NeedsSeed, Preparing!Valid
<1>3. CASE Preparing!ReaderEnds
  BY <1>3 DEF DisksInv, Preparing!TypeOK, Preparing!ReaderEnds, Preparing!DisksHold, Preparing!ReadsFit,
    DisksPreparedFits, DisksManaged, Preparing!DiskConstants, Preparing!NeedsSeed, Preparing!Valid
<1> QED BY <1>1, <1>2, <1>3

LEMMA DisksStutter == ASSUME Preparing!DiskConstants, DisksInv, UNCHANGED Preparing!vars PROVE DisksInv'
BY DEF Preparing!vars, DisksInv, Preparing!TypeOK, Preparing!DisksHold, Preparing!ReadsFit,
  DisksPreparedFits, DisksManaged, Preparing!NeedsSeed, Preparing!Valid

(* Every step keeps it. *)
LEMMA DisksNext == ASSUME Preparing!DiskConstants, DisksInv, Preparing!Next PROVE DisksInv'
<1>1. CASE Preparing!Prepare \/ Preparing!Kernel \/ Preparing!Marker \/ Preparing!Initrd
  BY <1>1, DisksPrepare, DisksKernel, DisksMarker, DisksInitrd
<1>2. CASE Preparing!Seed \/ Preparing!SeedDone \/ Preparing!Fails \/ Preparing!Dropped \/ Preparing!Crashed
  BY <1>2, DisksSeed, DisksSeedDone, DisksFails, DisksDropped, DisksCrashed
<1>3. ASSUME NEW d \in DiskDefinitions, Preparing!Edit(d) PROVE DisksInv'
  BY <1>3, DisksEdit
<1>4. ASSUME NEW n \in Preparing!Names, Preparing!Begin(n) \/ Preparing!Finish(n) \/ Preparing!Skip(n)
      PROVE DisksInv'
  BY <1>4, DisksBegin, DisksFinish, DisksSkip
<1>5. CASE Preparing!Restore \/ Preparing!Boot \/ Preparing!Stage \/ Preparing!Exit
  BY <1>5, DisksRestore, DisksBoot, DisksStage, DisksExit
<1>6. CASE Preparing!Writes \/ Preparing!Stop \/ Preparing!Browse \/ Preparing!Stat \/ Preparing!ReaderEnds
  BY <1>6, DisksWrites, DisksStop, DisksReader
<1>7. ASSUME NEW n \in Preparing!Names, Preparing!StrayWrites(n) PROVE DisksInv'
  BY <1>7, DisksStrayWrites
<1>8. ASSUME NEW s \in strays, Preparing!StrayEnds(s) PROVE DisksInv'
  BY <1>8, DisksStrayEnds
<1> QED BY <1>1, <1>2, <1>3, <1>4, <1>5, <1>6, <1>7, <1>8 DEF Preparing!Next

-----------------------------------------------------------------------------
(* Snapshots that are restored: SnapshotFit *)

(* A record is of the VM as it is defined and of its network as it is. *)
FitOfVm(r) ==
  /\ r.body = Fit!Body(spec.net)
  /\ r.address = spec.address /\ r.security = spec.security
  /\ r.net = IF r.legacy /\ spec.net # None THEN nets[spec.net].name ELSE spec.net

FitRecordsFit ==
  \A s \in FileNames : records[s] # None =>
    /\ records[s].legacy => records[s].net \in NetworkNames /\ records[s].body \in Bodies
    /\ Jailed => /\ files[s] # None /\ files[records[s].memory] # None
                 /\ files[s].at = files[records[s].memory].at /\ files[s].at # Torn

FitSnapshotJob ==
  job # None /\ job.op = "snapshot" =>
    /\ phase = "paused" /\ job.state # job.memory
    /\ job.step \in {"memory", "record"} => files[job.state] = [at |-> guest.at, machine |-> guest.machine]
    /\ job.step = "record" => files[job.memory] # None /\ files[job.memory].at = guest.at

FitRestoreJob ==
  job # None /\ job.op \in {"restore", "library"} =>
    /\ phase = "starting"
    /\ job.step = "load" => job.body = Fit!Body(spec.net)
    /\ job.op = "restore" => /\ records[job.state] # None /\ records[job.state].memory = job.memory
                             /\ FitOfVm(records[job.state])
                             /\ files[job.state] # None /\ files[job.memory] # None
    /\ job.op = "library" => disk = job.saved.disk /\ Fit!TargetFits(job.saved)

FitMemoryFits == loaded # None => loaded.at = loaded.memory /\ loaded.at # Torn
FitGuestWhole == guest # None => guest.at # Torn
FitLoadedFits ==
  loaded # None =>
    /\ guest.body = loaded.record.body
    /\ guest.body # None => spec.address = loaded.record.address
    /\ loaded.from = "own" =>
         /\ spec.security = loaded.record.security
         /\ loaded.record.net = IF loaded.record.legacy /\ spec.net # None THEN nets[spec.net].name ELSE spec.net
    /\ loaded.from = "library" => loaded.disk = loaded.record.disk /\ guest.machine \in {spec.machine, Foreign}

FitInv == Fit!TypeOK /\ FitRecordsFit /\ FitSnapshotJob /\ FitRestoreJob /\ FitLoadedFits
  /\ (Jailed => FitMemoryFits /\ FitGuestWhole)

LEMMA FitRestored == Fit!RestoredFits <=> FitMemoryFits /\ FitLoadedFits
BY DEF Fit!RestoredFits, FitMemoryFits, FitLoadedFits

LEMMA FitBodyIs ==
  ASSUME Fit!FitConstants, Fit!TypeOK
  PROVE  Fit!Body(spec.net) \in Bodies \cup {None} /\ (Fit!Body(spec.net) = None <=> spec.net = None)
BY DEF Fit!FitConstants, Fit!TypeOK, Fit!Body, Fit!Specs

LEMMA FitJobs == ASSUME Fit!TypeOK, job # None
  PROVE /\ job.op \in {"snapshot", "restore", "library"}
        /\ job.op = "snapshot" => job.step \in {"state", "memory", "record"} /\ job.state \in FileNames
             /\ job.memory \in FileNames
        /\ job.op = "restore" => job.step \in {"tap", "load"} /\ job.state \in FileNames
             /\ job.memory \in FileNames
        /\ job.op = "library" => job.step \in {"tap", "load"} /\ job.saved \in Fit!Saved
             /\ job.disk \in Fit!Times
        /\ job.op \in {"restore", "library"} => job.body \in Bodies \cup {None}
BY DEF Fit!TypeOK, Fit!Job

LEMMA FitInit == ASSUME Fit!FitConstants, Fit!Init PROVE FitInv
<1>1. /\ spec \in Fit!Specs /\ spec.net \in Fit!NetIds
      /\ nets \in [Fit!NetIds -> [name : NetworkNames, body : Bodies]] /\ spec.machine \in Machines
      /\ spec.address \in VmAddresses /\ spec.security \in Policies
  BY DEF Fit!Init, Fit!FitConstants, Fit!Specs
<1>2. PICK s, m \in FileNames :
       /\ s # m
       /\ files = [f \in FileNames |-> IF f \in {s, m} THEN [at |-> 0, machine |-> spec.machine] ELSE None]
       /\ records = [f \in FileNames |-> IF f # s THEN None ELSE
            [state |-> files[s], memory |-> m, legacy |-> TRUE, net |-> nets[spec.net].name,
             address |-> spec.address, body |-> nets[spec.net].body, security |-> spec.security]]
  BY DEF Fit!Init
<1> DEFINE c == [at |-> 0, machine |-> spec.machine]
           r == [state |-> c, memory |-> m, legacy |-> TRUE, net |-> nets[spec.net].name,
             address |-> spec.address, body |-> nets[spec.net].body, security |-> spec.security]
<1>3. c \in Fit!Capture /\ c.at # Torn
  <2>1. 0 \in Fit!Times /\ 0 # Torn
    BY DEF Fit!Times, Fit!FitConstants
  <2> QED BY <1>1, <2>1 DEF Fit!Capture, Fit!Moments, Fit!Devices
<1>4. r \in Fit!Record
  BY <1>1, <1>3 DEF Fit!Record
<1>5. r.legacy = TRUE /\ r.net \in NetworkNames /\ r.body \in Bodies /\ r.memory = m
  BY <1>1
<1>6. files[s] = c /\ files[m] = c /\ \A f \in FileNames : files[f] \in {c, None}
  BY <1>2
<1>7. records = [f \in FileNames |-> IF f # s THEN None ELSE r]
  BY <1>2, <1>6
<1> HIDE DEF c, r
<1>8. files \in [FileNames -> Fit!Capture \cup {None}] /\ records \in [FileNames -> Fit!Record \cup {None}]
  BY <1>2, <1>3, <1>4, <1>7, <1>6
<1>9. FitRecordsFit
  BY <1>3, <1>5, <1>6, <1>7 DEF FitRecordsFit, Fit!FitConstants
<1>10. Fit!TypeOK
  <2>1. 0 \in Fit!Times /\ changes \in 0..MaxChanges
    BY DEF Fit!Init, Fit!Moments, Fit!Times, Fit!FitConstants
  <2> QED BY <1>1, <1>8, <2>1 DEF Fit!Init, Fit!TypeOK
<1> QED BY <1>9, <1>10 DEF Fit!Init, FitInv, FitSnapshotJob, FitRestoreJob, FitLoadedFits, FitMemoryFits, FitGuestWhole

LEMMA FitEdit == ASSUME Fit!FitConstants, FitInv, NEW d \in Fit!Specs, Fit!Edit(d) PROVE FitInv'
<1>1. loaded = None /\ job = None /\ guest = None
  BY DEF Fit!Edit, Fit!Free, FitInv, Fit!TypeOK
<1> QED BY <1>1 DEF Fit!Edit, FitInv, Fit!TypeOK, FitRecordsFit, FitSnapshotJob, FitRestoreJob,
    FitLoadedFits, FitMemoryFits, FitGuestWhole, Fit!FitConstants

LEMMA FitEditNetwork ==
  ASSUME Fit!FitConstants, FitInv, NEW n \in Fit!NetIds, NEW name \in NetworkNames, NEW body \in Bodies,
         Fit!EditNetwork(n, name, body)
  PROVE  FitInv'
<1>1. Fit!Body(spec.net)' = Fit!Body(spec.net) /\ (spec.net # None => nets'[spec.net] = nets[spec.net])
        /\ spec' = spec
  BY DEF Fit!EditNetwork, FitInv, Fit!TypeOK, Fit!Specs, Fit!Body, Fit!FitConstants
<1>2. Fit!TypeOK'
  BY DEF Fit!EditNetwork, FitInv, Fit!TypeOK, Fit!FitConstants
<1>3. \A r : FitOfVm(r)' <=> FitOfVm(r)
  BY <1>1 DEF FitOfVm
<1>4. \A x : Fit!TargetFits(x)' <=> Fit!TargetFits(x)
  BY <1>1 DEF Fit!TargetFits
<1>5. UNCHANGED <<phase, now, disk, guest, files, records, bundle, job, loaded>>
  BY DEF Fit!EditNetwork
<1>6. FitRestoreJob'
  BY <1>1, <1>3, <1>4, <1>5 DEF FitInv, FitRestoreJob
<1>7. FitLoadedFits'
  BY <1>1, <1>5 DEF FitInv, FitLoadedFits
<1> QED BY <1>2, <1>5, <1>6, <1>7 DEF FitInv, FitRecordsFit, FitSnapshotJob, FitMemoryFits, FitGuestWhole

(* Nothing is under way and the guest, if it was restored, stays so. *)
LEMMA FitOnVm ==
  ASSUME Fit!FitConstants, FitInv, Fit!TypeOK', job = None, job' = None, FitLoadedFits', Jailed => FitGuestWhole',
         loaded' \in {loaded, None},
         UNCHANGED <<spec, nets, files, records>>
  PROVE  FitInv'
BY DEF FitInv, FitRecordsFit, FitSnapshotJob, FitRestoreJob, FitMemoryFits, FitGuestWhole

LEMMA FitStart == ASSUME Fit!FitConstants, FitInv, Fit!Start PROVE FitInv'
<1> DEFINE g == [at |-> disk, machine |-> spec.machine, body |-> Fit!Body(spec.net)]
<1>1. loaded = None /\ job = None /\ guest = None
  BY DEF Fit!Start, Fit!Free, FitInv, Fit!TypeOK
<1>2. g \in Fit!Guest
  BY FitBodyIs DEF FitInv, Fit!TypeOK, Fit!Guest, Fit!Devices, Fit!Specs, Fit!Moments
<1>3. /\ guest' = g /\ phase' = "running"
      /\ UNCHANGED <<spec, nets, changes, now, disk, files, records, bundle, job, loaded>>
  BY DEF Fit!Start
<1> HIDE DEF g
<1>4. Fit!TypeOK'
  BY <1>1, <1>2, <1>3 DEF FitInv, Fit!TypeOK, Fit!FitConstants
<1>5. g.at # Torn
  BY DEF g, FitInv, Fit!TypeOK, Fit!FitConstants
<1> QED BY <1>1, <1>3, <1>4, <1>5, FitOnVm DEF FitLoadedFits, FitGuestWhole

LEMMA FitTick == ASSUME Fit!FitConstants, FitInv, Fit!Tick PROVE FitInv'
<1>1. guest \in Fit!Guest /\ now + 1 \in Fit!Times
  BY DEF Fit!Tick, FitInv, Fit!TypeOK, Fit!Moments, Fit!Times, Fit!FitConstants
<1>2. guest' \in Fit!Guest /\ guest'.body = guest.body /\ guest'.machine = guest.machine /\ guest'.at # Torn
  BY <1>1 DEF Fit!Tick, Fit!Guest, Fit!Moments, Fit!FitConstants
<1>3. job = None
  BY FitJobs DEF Fit!Tick, FitInv, FitSnapshotJob, FitRestoreJob
<1>4. Fit!TypeOK'
  BY <1>1, <1>2 DEF Fit!Tick, FitInv, Fit!TypeOK, Fit!FitConstants
<1>5. FitLoadedFits'
  BY <1>2 DEF Fit!Tick, FitInv, FitLoadedFits
<1> QED BY <1>2, <1>3, <1>4, <1>5, FitOnVm DEF Fit!Tick, FitGuestWhole

LEMMA FitRaw == ASSUME Fit!FitConstants, FitInv, Fit!Raw PROVE FitInv'
<1>1. guest \in Fit!Guest
  BY DEF Fit!Raw, FitInv, Fit!TypeOK
<1>2. guest' \in Fit!Guest /\ guest'.body = guest.body /\ guest'.machine = Foreign /\ guest'.at = guest.at
  BY <1>1 DEF Fit!Raw, Fit!Guest, Fit!Devices
<1>4. Fit!TypeOK'
  BY <1>1, <1>2 DEF Fit!Raw, FitInv, Fit!TypeOK, Fit!FitConstants
<1>5. FitLoadedFits'
  BY <1>2 DEF Fit!Raw, FitInv, FitLoadedFits
<1>6. Jailed => FitGuestWhole'
  BY <1>1, <1>2 DEF FitInv, FitGuestWhole, Fit!FitConstants
<1> QED BY <1>4, <1>5, <1>6, FitOnVm DEF Fit!Raw, Fit!Free

LEMMA FitPauseOrResume == ASSUME Fit!FitConstants, FitInv, Fit!PauseOrResume PROVE FitInv'
<1>1. Fit!TypeOK'
  BY DEF Fit!PauseOrResume, FitInv, Fit!TypeOK
<1>2. FitLoadedFits'
  BY DEF Fit!PauseOrResume, FitInv, FitLoadedFits
<1>3. Jailed => FitGuestWhole'
  BY DEF Fit!PauseOrResume, FitInv, FitGuestWhole
<1> QED BY <1>1, <1>2, <1>3, FitOnVm DEF Fit!PauseOrResume, Fit!Free

LEMMA FitStop == ASSUME Fit!FitConstants, FitInv, Fit!Stop PROVE FitInv'
<1>1. Fit!TypeOK'
  BY DEF Fit!Stop, Fit!Free, FitInv, Fit!TypeOK
<1>2. FitLoadedFits'
  BY DEF Fit!Stop, FitLoadedFits
<1> QED BY <1>1, <1>2, FitOnVm DEF Fit!Stop, Fit!Free, FitGuestWhole

LEMMA FitAskSnapshot ==
  ASSUME Fit!FitConstants, FitInv, NEW s \in FileNames, NEW m \in FileNames, Fit!AskSnapshot(s, m)
  PROVE  FitInv'
<1> DEFINE j == [op |-> "snapshot", step |-> "state", state |-> s, memory |-> m]
<1>1. j \in Fit!Job /\ j # None
  BY DEF Fit!Job, Fit!FitConstants
<1>2. j.op = "snapshot" /\ j.step = "state" /\ j.state # j.memory /\ job' = j
  BY DEF Fit!AskSnapshot
<1> HIDE DEF j
<1>3. Fit!TypeOK'
  BY <1>1, <1>2 DEF Fit!AskSnapshot, FitInv, Fit!TypeOK
<1>4. FitSnapshotJob' /\ FitRestoreJob'
  BY <1>1, <1>2 DEF Fit!AskSnapshot, FitSnapshotJob, FitRestoreJob
<1> QED BY <1>3, <1>4 DEF Fit!AskSnapshot, FitInv, FitRecordsFit, FitLoadedFits, FitMemoryFits, FitGuestWhole

(* A file is written, in a jail only where none was. *)
LEMMA FitCopied ==
  ASSUME Fit!FitConstants, FitInv, job # None, job.op = "snapshot", NEW f \in FileNames,
         NEW next \in {"memory", "record"},
         Fit!Copy(f, next)
  PROVE  LET c == [at |-> guest.at, machine |-> guest.machine] IN
         /\ files' = [files EXCEPT ![f] = c] /\ c \in Fit!Capture /\ c.at = guest.at /\ c # None
         /\ job' = [op |-> "snapshot", step |-> next, state |-> job.state, memory |-> job.memory]
         /\ Fit!TypeOK' /\ FitRecordsFit' /\ FitRestoreJob' /\ FitLoadedFits' /\ (Jailed => FitMemoryFits' /\ FitGuestWhole')
<1> DEFINE c == [at |-> guest.at, machine |-> guest.machine]
           j == [op |-> "snapshot", step |-> next, state |-> job.state, memory |-> job.memory]
<1>1. phase = "paused" /\ guest \in Fit!Guest
  BY DEF FitInv, FitSnapshotJob, Fit!TypeOK
<1>2. c \in Fit!Capture /\ c.at = guest.at
  BY <1>1 DEF Fit!Capture, Fit!Guest
<1>3. files' = [files EXCEPT ![f] = c] /\ job' = [job EXCEPT !.step = next] /\ Fit!MayWrite(f)
      /\ UNCHANGED <<spec, nets, changes, phase, now, disk, guest, records, bundle, loaded>>
  BY DEF Fit!Copy
<1>4. job \in [op : {"snapshot"}, step : {"state", "memory", "record"}, state : FileNames, memory : FileNames]
  BY DEF FitInv, Fit!TypeOK, Fit!Job
<1>5. job' = j
  BY <1>3, <1>4
<1>6. j \in Fit!Job /\ j # None /\ j.op = "snapshot"
  BY <1>4 DEF Fit!Job, Fit!FitConstants
<1> HIDE DEF c, j
<1>7. Fit!TypeOK'
  BY <1>2, <1>3, <1>5, <1>6 DEF FitInv, Fit!TypeOK
<1>8. FitRecordsFit'
  <2> SUFFICES ASSUME NEW s \in FileNames, records[s] # None
               PROVE  /\ records[s].legacy => records[s].net \in NetworkNames /\ records[s].body \in Bodies
                      /\ Jailed => /\ files'[s] # None /\ files'[records[s].memory] # None
                                   /\ files'[s].at = files'[records[s].memory].at /\ files'[s].at # Torn
    BY <1>3 DEF FitRecordsFit
  <2>1. records[s] \in Fit!Record /\ records[s].memory \in FileNames
    BY DEF FitInv, Fit!TypeOK, Fit!Record
  <2>2. Jailed => s # f /\ records[s].memory # f
    BY <1>3 DEF Fit!MayWrite, FitInv, FitRecordsFit
  <2> QED BY <1>3, <2>1, <2>2 DEF FitInv, Fit!TypeOK, FitRecordsFit
<1>9. FitRestoreJob'
  BY <1>5, <1>6 DEF FitRestoreJob
<1>10. FitLoadedFits' /\ (Jailed => FitMemoryFits' /\ FitGuestWhole')
  BY <1>3 DEF FitInv, FitLoadedFits, FitMemoryFits, FitGuestWhole
<1>11. c # None
  BY <1>2 DEF Fit!FitConstants
<1> QED BY <1>2, <1>3, <1>5, <1>7, <1>8, <1>9, <1>10, <1>11 DEF c, j

LEMMA FitCopyState == ASSUME Fit!FitConstants, FitInv, Fit!CopyState PROVE FitInv'
<1> DEFINE c == [at |-> guest.at, machine |-> guest.machine]
<1>1. job # None /\ job.op = "snapshot" /\ Fit!Copy(job.state, "memory") /\ job.state \in FileNames
  BY FitJobs DEF Fit!CopyState, Fit!At, FitInv
<1>2. /\ files' = [files EXCEPT ![job.state] = c] /\ c \in Fit!Capture /\ c.at = guest.at /\ c # None
      /\ job' = [op |-> "snapshot", step |-> "memory", state |-> job.state, memory |-> job.memory]
      /\ Fit!TypeOK' /\ FitRecordsFit' /\ FitRestoreJob' /\ FitLoadedFits' /\ (Jailed => FitMemoryFits' /\ FitGuestWhole')
  BY <1>1, FitCopied
<1>3. job'.op = "snapshot" /\ job'.step = "memory" /\ job'.state = job.state /\ job'.memory = job.memory
  BY <1>2
<1>4. FitSnapshotJob'
  BY <1>1, <1>2, <1>3 DEF FitSnapshotJob, FitInv, Fit!TypeOK, Fit!Copy
<1> QED BY <1>2, <1>4 DEF FitInv

LEMMA FitCopyMemory == ASSUME Fit!FitConstants, FitInv, Fit!CopyMemory PROVE FitInv'
<1> DEFINE c == [at |-> guest.at, machine |-> guest.machine]
<1>1. job # None /\ job.op = "snapshot" /\ Fit!Copy(job.memory, "record") /\ job.memory \in FileNames
      /\ job.state \in FileNames /\ job.step = "memory"
  BY FitJobs DEF Fit!CopyMemory, Fit!At, FitInv
<1>2. /\ files' = [files EXCEPT ![job.memory] = c] /\ c \in Fit!Capture /\ c.at = guest.at /\ c # None
      /\ job' = [op |-> "snapshot", step |-> "record", state |-> job.state, memory |-> job.memory]
      /\ Fit!TypeOK' /\ FitRecordsFit' /\ FitRestoreJob' /\ FitLoadedFits' /\ (Jailed => FitMemoryFits' /\ FitGuestWhole')
  BY <1>1, FitCopied
<1>3. job'.op = "snapshot" /\ job'.step = "record" /\ job'.state = job.state /\ job'.memory = job.memory
  BY <1>2
<1> HIDE DEF c
<1>5. files'[job.memory] = c /\ files'[job.state] = files[job.state]
  BY <1>1, <1>2 DEF FitSnapshotJob, FitInv, Fit!TypeOK
<1>6. UNCHANGED <<phase, guest>>
  BY <1>1 DEF Fit!Copy
<1>4. FitSnapshotJob'
  BY <1>1, <1>2, <1>3, <1>5, <1>6 DEF FitSnapshotJob, FitInv
<1> QED BY <1>2, <1>4 DEF FitInv

LEMMA FitRecordSnapshot == ASSUME Fit!FitConstants, FitInv, Fit!RecordSnapshot PROVE FitInv'
<1> DEFINE s == job.state
           m == job.memory
           r == Fit!Provenance(s, m)
<1>1. job # None /\ job.op = "snapshot" /\ job.step = "record" /\ s \in FileNames /\ m \in FileNames
  BY FitJobs DEF Fit!RecordSnapshot, Fit!At, FitInv
<1>2. /\ files[s] \in Fit!Capture /\ files[m] # None /\ files[s].at = files[m].at /\ files[s] # None
      /\ Jailed => files[s].at # Torn
  <2>1. /\ guest \in Fit!Guest /\ files[s] = [at |-> guest.at, machine |-> guest.machine] /\ files[m] # None
        /\ files[m].at = guest.at
    BY <1>1 DEF FitInv, FitSnapshotJob, Fit!TypeOK
  <2>2. files[s].at = guest.at /\ files[s] \in Fit!Capture
    BY <2>1 DEF Fit!Capture, Fit!Guest
  <2>3. Jailed => guest.at # Torn
    BY <2>1 DEF FitInv, FitGuestWhole, Fit!FitConstants
  <2> QED BY <2>1, <2>2, <2>3 DEF Fit!FitConstants
<1>3. spec \in Fit!Specs /\ Fit!Body(spec.net) \in Bodies \cup {None}
  BY FitBodyIs DEF FitInv, Fit!TypeOK
<1>4. r \in Fit!Record
  BY <1>1, <1>2, <1>3 DEF Fit!Provenance, Fit!Record, Fit!Specs
<1>5. r.legacy = FALSE /\ r.memory = m
  BY DEF Fit!Provenance
<1>6. records' = [records EXCEPT ![s] = r] /\ job' = None
      /\ UNCHANGED <<spec, nets, changes, phase, now, disk, guest, files, bundle, loaded>>
  BY DEF Fit!RecordSnapshot
<1>7. phase = "paused"
  BY <1>1 DEF FitInv, FitSnapshotJob
<1> HIDE DEF r
<1>8. Fit!TypeOK'
  BY <1>1, <1>4, <1>6, <1>7 DEF FitInv, Fit!TypeOK
<1>9. FitRecordsFit'
  BY <1>1, <1>2, <1>5, <1>6 DEF FitInv, Fit!TypeOK, FitRecordsFit
<1> QED BY <1>6, <1>8, <1>9 DEF FitInv, FitSnapshotJob, FitRestoreJob, FitLoadedFits, FitMemoryFits, FitGuestWhole

LEMMA FitSnapshotFails == ASSUME Fit!FitConstants, FitInv, Fit!SnapshotFails PROVE FitInv'
<1>1. /\ job # None /\ job.op = "snapshot" /\ job' = None /\ phase = "paused"
      /\ UNCHANGED <<spec, nets, changes, phase, now, disk, guest, records, bundle, loaded>>
  BY DEF Fit!SnapshotFails, FitInv, FitSnapshotJob
<1>2. CASE files' = files
  <2>1. Fit!TypeOK'
    BY <1>1, <1>2 DEF FitInv, Fit!TypeOK
  <2> QED BY <1>1, <1>2, <2>1 DEF FitInv, FitRecordsFit, FitSnapshotJob, FitRestoreJob, FitLoadedFits,
        FitMemoryFits, FitGuestWhole
<1>3. ASSUME NEW f, f \in {job[s] : s \in {job.step} \cap {"state", "memory"}}, Fit!MayWrite(f),
             files' = [files EXCEPT ![f] = [at |-> Torn, machine |-> guest.machine]]
      PROVE  FitInv'
  <2> DEFINE c == [at |-> Torn, machine |-> guest.machine]
  <2>1. f \in FileNames
    BY <1>1, <1>3, FitJobs DEF FitInv
  <2>2. guest \in Fit!Guest
    BY <1>1 DEF FitInv, Fit!TypeOK
  <2>3. c \in Fit!Capture
    BY <2>2 DEF Fit!Capture, Fit!Guest, Fit!Moments
  <2>4. files' = [files EXCEPT ![f] = c]
    BY <1>3
  <2> HIDE DEF c
  <2>5. Fit!TypeOK'
    BY <1>1, <2>1, <2>3, <2>4 DEF FitInv, Fit!TypeOK
  <2>6. FitRecordsFit'
    <3> SUFFICES ASSUME NEW s \in FileNames, records[s] # None
                 PROVE  /\ records[s].legacy => records[s].net \in NetworkNames /\ records[s].body \in Bodies
                        /\ Jailed => /\ files'[s] # None /\ files'[records[s].memory] # None
                                     /\ files'[s].at = files'[records[s].memory].at /\ files'[s].at # Torn
      BY <1>1 DEF FitRecordsFit
    <3>1. records[s] \in Fit!Record /\ records[s].memory \in FileNames
      BY DEF FitInv, Fit!TypeOK, Fit!Record
    <3>2. Jailed => s # f /\ records[s].memory # f
      BY <1>3 DEF Fit!MayWrite, FitInv, FitRecordsFit
    <3> QED BY <2>4, <3>1, <3>2 DEF FitInv, Fit!TypeOK, FitRecordsFit
  <2> QED BY <1>1, <2>5, <2>6 DEF FitInv, FitSnapshotJob, FitRestoreJob, FitLoadedFits, FitMemoryFits,
        FitGuestWhole
<1> QED BY <1>2, <1>3 DEF Fit!SnapshotFails

(* A snapshot that passes for the VM's own is of the VM and the network as they are. *)
LEMMA FitOwnFits ==
  ASSUME Fit!FitConstants, FitInv, NEW s \in FileNames, NEW m \in FileNames, records[s] # None, Fit!IsOwn(s, m)
  PROVE  FitOfVm(records[s]) /\ records[s].memory = m
<1> DEFINE r == records[s]
           p == Fit!Provenance(s, m)
           named == CHOOSE n \in Fit!NetIds \cup {None} :
                      IF n = None THEN \A o \in Fit!NetIds : nets[o].name # r.net ELSE nets[n].name = r.net
<1>1. r \in Fit!Record
  BY DEF FitInv, Fit!TypeOK
<1>2. /\ p.memory = m /\ p.net = spec.net /\ p.address = spec.address /\ p.body = Fit!Body(spec.net)
      /\ p.security = spec.security
  BY DEF Fit!Provenance
<1>3. CASE ~(r.legacy /\ r.net # None)
  <2>1. [r EXCEPT !.legacy = FALSE] = p
    BY <1>3 DEF Fit!IsOwn, Fit!Normalized
  <2>2. r.memory = p.memory /\ r.net = p.net /\ r.address = p.address /\ r.body = p.body /\ r.security = p.security
    BY <1>1, <2>1 DEF Fit!Record
  <2>3. r.legacy => r.net # None
    BY DEF FitInv, FitRecordsFit, Fit!FitConstants
  <2> QED BY <1>2, <1>3, <2>2, <2>3 DEF FitOfVm
<1>4. CASE r.legacy /\ r.net # None
  <2>1. [r EXCEPT !.legacy = FALSE, !.net = named] = p
    BY <1>4 DEF Fit!IsOwn, Fit!Normalized
  <2>2. r.memory = p.memory /\ named = p.net /\ r.address = p.address /\ r.body = p.body /\ r.security = p.security
    BY <1>1, <2>1 DEF Fit!Record
  <2>3. \E n \in Fit!NetIds \cup {None} :
           IF n = None THEN \A o \in Fit!NetIds : nets[o].name # r.net ELSE nets[n].name = r.net
    BY DEF Fit!FitConstants
  <2>4. IF named = None THEN \A o \in Fit!NetIds : nets[o].name # r.net ELSE nets[named].name = r.net
    BY <2>3
  <2> HIDE DEF named
  <2>5. r.body \in Bodies
    BY <1>4 DEF FitInv, FitRecordsFit
  <2>6. spec.net # None
    BY <1>2, <2>2, <2>5, FitBodyIs DEF FitInv, Fit!FitConstants
  <2> QED BY <1>2, <1>4, <2>2, <2>4, <2>6 DEF FitOfVm
<1> QED BY <1>3, <1>4

LEMMA FitAskRestore ==
  ASSUME Fit!FitConstants, FitInv, NEW s \in FileNames, NEW m \in FileNames, Fit!AskRestore(s, m)
  PROVE  FitInv'
<1> DEFINE j == [op |-> "restore", step |-> "tap", state |-> s, memory |-> m, body |-> None]
<1>1. j \in Fit!Job /\ j # None
  BY DEF Fit!Job, Fit!FitConstants
<1>2. job' = j /\ phase' = "starting" /\ phase = "stopped"
      /\ UNCHANGED <<spec, nets, changes, now, disk, guest, files, records, bundle, loaded>>
  BY DEF Fit!AskRestore
<1>3. j.op = "restore" /\ j.step = "tap" /\ j.state = s /\ j.memory = m
  OBVIOUS
<1> HIDE DEF j
<1>4. guest = None /\ loaded = None
  BY <1>2 DEF FitInv, Fit!TypeOK
<1>5. FitOfVm(records[s])' /\ records[s].memory = m /\ records[s] # None
  BY <1>2, FitOwnFits DEF Fit!AskRestore, FitOfVm, Fit!Body
<1>8. files[s] # None /\ files[m] # None
  BY DEF Fit!AskRestore
<1>6. Fit!TypeOK'
  BY <1>1, <1>2, <1>4 DEF FitInv, Fit!TypeOK
<1>7. FitRestoreJob' /\ FitSnapshotJob'
  BY <1>1, <1>2, <1>3, <1>5, <1>8 DEF FitRestoreJob, FitSnapshotJob, FitOfVm, Fit!Body
<1> QED BY <1>2, <1>4, <1>6, <1>7 DEF FitInv, FitRecordsFit, FitLoadedFits, FitMemoryFits, FitGuestWhole

LEMMA FitNetworkTap == ASSUME Fit!FitConstants, FitInv, Fit!NetworkTap PROVE FitInv'
<1> DEFINE b == Fit!Body(spec.net)
           j == [job EXCEPT !.step = "load", !.body = b]
<1>1. job # None /\ job.op \in {"restore", "library"} /\ job \in Fit!Job
  BY FitJobs DEF Fit!NetworkTap, FitInv, Fit!TypeOK
<1>2. b \in Bodies \cup {None}
  BY FitBodyIs DEF FitInv
<1>3. job' = j /\ UNCHANGED <<spec, nets, changes, phase, now, disk, guest, files, records, bundle, loaded>>
  BY DEF Fit!NetworkTap
<1> HIDE DEF b
<1>4. CASE job.op = "restore"
  <2>1. job \in [op : {"restore"}, step : {"tap", "load"}, state : FileNames, memory : FileNames,
          body : Bodies \cup {None}]
    BY <1>1, <1>4 DEF Fit!Job
  <2>2. j = [[job EXCEPT !.step = "load"] EXCEPT !.body = b]
    BY Zenon
  <2>3. [job EXCEPT !.step = "load"]
          = [op |-> "restore", step |-> "load", state |-> job.state, memory |-> job.memory, body |-> job.body]
    BY <2>1
  <2>4. [[op |-> "restore", step |-> "load", state |-> job.state, memory |-> job.memory,
          body |-> job.body] EXCEPT !.body = b]
            = [op |-> "restore", step |-> "load", state |-> job.state, memory |-> job.memory, body |-> b]
    OBVIOUS
  <2>5. job.state \in FileNames /\ job.memory \in FileNames
    BY <2>1
  <2>6. j = [op |-> "restore", step |-> "load", state |-> job.state, memory |-> job.memory, body |-> b]
        /\ job.state \in FileNames /\ job.memory \in FileNames
    BY <2>2, <2>3, <2>4, <2>5, Zenon
  <2>7. /\ j \in Fit!Job /\ j # None /\ j.op = "restore" /\ j.step = "load" /\ j.state = job.state
        /\ j.memory = job.memory /\ j.body = b
    BY <1>2, <2>6 DEF Fit!Job, Fit!FitConstants
  <2> HIDE DEF j
  <2>8. Fit!TypeOK'
    BY <1>3, <2>7 DEF FitInv, Fit!TypeOK
  <2>9. FitRestoreJob' /\ FitSnapshotJob'
    BY <1>1, <1>3, <1>4, <2>7 DEF FitInv, FitRestoreJob, FitSnapshotJob, FitOfVm, Fit!Body, b
  <2> QED BY <1>3, <2>8, <2>9 DEF FitInv, FitRecordsFit, FitLoadedFits, FitMemoryFits, FitGuestWhole
<1>5. CASE job.op = "library"
  <2>1. job \in [op : {"library"}, step : {"tap", "load"}, saved : Fit!Saved, disk : Fit!Times,
          body : Bodies \cup {None}]
    BY <1>1, <1>5 DEF Fit!Job
  <2>2. j = [[job EXCEPT !.step = "load"] EXCEPT !.body = b]
    BY Zenon
  <2>3. [job EXCEPT !.step = "load"]
          = [op |-> "library", step |-> "load", saved |-> job.saved, disk |-> job.disk, body |-> job.body]
    BY <2>1
  <2>4. [[op |-> "library", step |-> "load", saved |-> job.saved, disk |-> job.disk,
          body |-> job.body] EXCEPT !.body = b]
            = [op |-> "library", step |-> "load", saved |-> job.saved, disk |-> job.disk, body |-> b]
    OBVIOUS
  <2>5. job.saved \in Fit!Saved /\ job.disk \in Fit!Times
    BY <2>1
  <2>6. j = [op |-> "library", step |-> "load", saved |-> job.saved, disk |-> job.disk, body |-> b]
        /\ job.saved \in Fit!Saved /\ job.disk \in Fit!Times
    BY <2>2, <2>3, <2>4, <2>5, Zenon
  <2>7. j \in Fit!Job /\ j # None /\ j.op = "library" /\ j.step = "load" /\ j.saved = job.saved /\ j.body = b
    BY <1>2, <2>6 DEF Fit!Job, Fit!FitConstants
  <2> HIDE DEF j
  <2>8. Fit!TypeOK'
    BY <1>3, <2>7 DEF FitInv, Fit!TypeOK
  <2>9. FitRestoreJob' /\ FitSnapshotJob'
    BY <1>1, <1>3, <1>5, <2>7 DEF FitInv, FitRestoreJob, FitSnapshotJob, Fit!TargetFits, Fit!Body, b
  <2> QED BY <1>3, <2>8, <2>9 DEF FitInv, FitRecordsFit, FitLoadedFits, FitMemoryFits, FitGuestWhole
<1> QED BY <1>1, <1>4, <1>5

LEMMA FitLoad == ASSUME Fit!FitConstants, FitInv, Fit!Load PROVE FitInv'
<1> DEFINE s == files[job.state]
           m == files[job.memory]
           r == records[job.state]
           g == [at |-> m.at, machine |-> s.machine, body |-> job.body]
           l == [from |-> "own", at |-> s.at, memory |-> m.at, disk |-> disk, record |-> r]
<1>1. job # None /\ job.op = "restore" /\ job.step = "load" /\ job.state \in FileNames /\ job.memory \in FileNames
      /\ job.body \in Bodies \cup {None}
  BY FitJobs DEF Fit!Load, Fit!At, FitInv
<1>2. guest' = g /\ loaded' = l /\ phase' = "paused" /\ job' = None
      /\ UNCHANGED <<spec, nets, changes, now, disk, files, records, bundle>>
  BY DEF Fit!Load
<1>3. job.body = Fit!Body(spec.net) /\ r # None /\ r.memory = job.memory /\ FitOfVm(r)
  BY <1>1 DEF FitInv, FitRestoreJob
<1>4. l.from = "own" /\ l.at = s.at /\ l.memory = m.at /\ l.record = r /\ g.body = job.body /\ g.at = m.at
  OBVIOUS
<1>5. s # None /\ m # None
  BY <1>1 DEF FitInv, FitRestoreJob
<1>6. s \in Fit!Capture /\ m \in Fit!Capture
  BY <1>1, <1>5 DEF FitInv, Fit!TypeOK
<1>7. g \in Fit!Guest
  BY <1>1, <1>6 DEF Fit!Guest, Fit!Capture
<1> HIDE DEF g, l
<1>8. Fit!TypeOK'
  BY <1>2, <1>7 DEF FitInv, Fit!TypeOK, Fit!FitConstants
<1>9. FitLoadedFits'
  BY <1>2, <1>3, <1>4 DEF FitLoadedFits, FitOfVm
<1>10. Jailed => FitMemoryFits' /\ FitGuestWhole'
  BY <1>1, <1>2, <1>3, <1>4 DEF FitInv, FitRecordsFit, FitMemoryFits, FitGuestWhole
<1> QED BY <1>2, <1>8, <1>9, <1>10 DEF FitInv, FitRecordsFit, FitSnapshotJob, FitRestoreJob

LEMMA FitFails == ASSUME Fit!FitConstants, FitInv, Fit!RestoreFails \/ Fit!LibraryFails PROVE FitInv'
<1>1. /\ job # None /\ phase = "starting" /\ guest = None /\ loaded = None /\ phase' = "failed" /\ job' = None
      /\ disk' \in Fit!Times
      /\ UNCHANGED <<spec, nets, changes, now, guest, files, records, bundle, loaded>>
  BY FitJobs DEF Fit!RestoreFails, Fit!LibraryFails, FitInv, Fit!TypeOK, FitRestoreJob
<1>2. Fit!TypeOK'
  BY <1>1 DEF FitInv, Fit!TypeOK
<1> QED BY <1>1, <1>2 DEF FitInv, FitRecordsFit, FitSnapshotJob, FitRestoreJob, FitLoadedFits, FitMemoryFits, FitGuestWhole

(* A bundle may be saved or uploaded at any time. *)
LEMMA FitBundled ==
  ASSUME Fit!FitConstants, FitInv, NEW b \in Bundles, NEW x \in Fit!Saved, bundle' = [bundle EXCEPT ![b] = x],
         UNCHANGED <<spec, nets, changes, phase, now, disk, guest, files, records, job, loaded>>
  PROVE  FitInv'
<1>1. Fit!TypeOK'
  BY DEF FitInv, Fit!TypeOK
<1>2. \A r : FitOfVm(r)' <=> FitOfVm(r)
  BY DEF FitOfVm, Fit!Body
<1>3. \A y : Fit!TargetFits(y)' <=> Fit!TargetFits(y)
  BY DEF Fit!TargetFits, Fit!Body
<1>4. FitRestoreJob'
  BY <1>2, <1>3 DEF FitInv, FitRestoreJob, Fit!Body
<1> QED BY <1>1, <1>4 DEF FitInv, FitRecordsFit, FitSnapshotJob, FitLoadedFits, FitMemoryFits, FitGuestWhole

LEMMA FitSave == ASSUME Fit!FitConstants, FitInv, NEW b \in Bundles, Fit!Save(b) PROVE FitInv'
<1> DEFINE x == [claims |-> spec.machine, address |-> spec.address, body |-> Fit!Body(spec.net),
                 at |-> guest.at, machine |-> guest.machine, disk |-> disk]
<1>1. /\ spec \in Fit!Specs /\ guest \in Fit!Guest /\ disk \in Fit!Times
      /\ Fit!Body(spec.net) \in Bodies \cup {None}
  BY FitBodyIs DEF Fit!Save, FitInv, Fit!TypeOK
<1>4. guest.at \in Fit!Times
  BY <1>1 DEF Fit!Save, FitInv, FitGuestWhole, Fit!Guest, Fit!Moments, Fit!FitConstants
<1>2. x \in Fit!Saved
  BY <1>1, <1>4 DEF Fit!Saved, Fit!Specs, Fit!Guest
<1>3. bundle' = [bundle EXCEPT ![b] = x]
        /\ UNCHANGED <<spec, nets, changes, phase, now, disk, guest, files, records, job, loaded>>
  BY DEF Fit!Save
<1> HIDE DEF x
<1> QED BY <1>2, <1>3, FitBundled

LEMMA FitImport ==
  ASSUME Fit!FitConstants, FitInv, NEW b \in Bundles, NEW claims \in Machines, NEW machine \in Fit!Devices,
         Fit!Import(b, claims, machine)
  PROVE  FitInv'
<1> DEFINE x == [claims |-> claims, address |-> spec.address, body |-> Fit!Body(spec.net),
                 at |-> 0, machine |-> machine, disk |-> 0]
<1>1. spec \in Fit!Specs /\ Fit!Body(spec.net) \in Bodies \cup {None} /\ 0 \in Fit!Times
  BY FitBodyIs DEF FitInv, Fit!TypeOK, Fit!Moments, Fit!Times, Fit!FitConstants
<1>2. x \in Fit!Saved
  BY <1>1 DEF Fit!Saved, Fit!Specs
<1>3. bundle' = [bundle EXCEPT ![b] = x]
        /\ UNCHANGED <<spec, nets, changes, phase, now, disk, guest, files, records, job, loaded>>
  BY DEF Fit!Import
<1> HIDE DEF x
<1> QED BY <1>2, <1>3, FitBundled

LEMMA FitAskRestoreSaved ==
  ASSUME Fit!FitConstants, FitInv, NEW b \in Bundles, Fit!AskRestoreSaved(b)
  PROVE  FitInv'
<1> DEFINE x == bundle[b]
           j == [op |-> "library", step |-> "tap", saved |-> x, disk |-> disk, body |-> None]
<1>1. x \in Fit!Saved /\ Fit!TargetFits(x) /\ disk \in Fit!Times
  BY DEF Fit!AskRestoreSaved, FitInv, Fit!TypeOK
<1>2. j \in Fit!Job /\ j # None
  BY <1>1 DEF Fit!Job, Fit!FitConstants
<1>3. job' = j /\ phase' = "starting" /\ phase \in {"stopped", "failed"} /\ disk' = x.disk
      /\ UNCHANGED <<spec, nets, changes, now, guest, files, records, bundle, loaded>>
  BY DEF Fit!AskRestoreSaved
<1>4. j.op = "library" /\ j.step = "tap" /\ j.saved = x
  OBVIOUS
<1> HIDE DEF j
<1>5. guest = None /\ loaded = None
  BY <1>3 DEF FitInv, Fit!TypeOK
<1>6. x.disk \in Fit!Times
  BY <1>1 DEF Fit!Saved
<1> HIDE DEF x
<1>7. Fit!TypeOK'
  BY <1>2, <1>3, <1>5, <1>6 DEF FitInv, Fit!TypeOK
<1>8. FitRestoreJob' /\ FitSnapshotJob'
  BY <1>1, <1>2, <1>3, <1>4 DEF FitRestoreJob, FitSnapshotJob, Fit!TargetFits, Fit!Body
<1> QED BY <1>3, <1>5, <1>7, <1>8 DEF FitInv, FitRecordsFit, FitLoadedFits, FitMemoryFits, FitGuestWhole

LEMMA FitLoadSaved == ASSUME Fit!FitConstants, FitInv, Fit!LoadSaved PROVE FitInv'
<1> DEFINE x == job.saved
           g == [at |-> x.at, machine |-> x.machine, body |-> job.body]
           l == [from |-> "library", at |-> x.at, memory |-> x.at, disk |-> disk, record |-> x]
<1>1. job # None /\ job.op = "library" /\ job.step = "load" /\ x \in Fit!Saved /\ job.body \in Bodies \cup {None}
  BY FitJobs DEF Fit!LoadSaved, Fit!At, FitInv
<1>2. guest' = g /\ loaded' = l /\ phase' = "paused" /\ job' = None /\ x.machine = spec.machine
      /\ UNCHANGED <<spec, nets, changes, now, disk, files, records, bundle>>
  BY DEF Fit!LoadSaved, Fit!DevicesFit
<1>3. job.body = Fit!Body(spec.net) /\ disk = x.disk /\ Fit!TargetFits(x)
  BY <1>1 DEF FitInv, FitRestoreJob
<1>4. /\ l.from = "library" /\ l.at = l.memory /\ l.disk = disk /\ l.record = x /\ g.body = job.body
      /\ g.machine = x.machine
  OBVIOUS
<1>5. g \in Fit!Guest
  BY <1>1 DEF Fit!Guest, Fit!Saved, Fit!Moments
<1>9. x.at # Torn /\ g.at = x.at /\ l.at = x.at
  BY <1>1 DEF Fit!Saved, Fit!FitConstants
<1>6. x.body = Fit!Body(spec.net) /\ (x.body # None => x.address = spec.address)
  BY <1>3 DEF Fit!TargetFits, Fit!Body
<1> HIDE DEF g, l, x
<1>7. Fit!TypeOK'
  BY <1>2, <1>5 DEF FitInv, Fit!TypeOK, Fit!FitConstants
<1>8. FitLoadedFits' /\ FitMemoryFits' /\ FitGuestWhole'
  BY <1>2, <1>3, <1>4, <1>6, <1>9 DEF FitLoadedFits, FitMemoryFits, FitGuestWhole
<1> QED BY <1>2, <1>7, <1>8 DEF FitInv, FitRecordsFit, FitSnapshotJob, FitRestoreJob

LEMMA FitStutter == ASSUME FitInv, UNCHANGED Fit!vars PROVE FitInv'
<1>2. \A r : FitOfVm(r)' <=> FitOfVm(r)
  BY DEF Fit!vars, FitOfVm, Fit!Body
<1>3. \A y : Fit!TargetFits(y)' <=> Fit!TargetFits(y)
  BY DEF Fit!vars, Fit!TargetFits, Fit!Body
<1>4. FitRestoreJob'
  BY <1>2, <1>3 DEF Fit!vars, FitInv, FitRestoreJob, Fit!Body
<1> QED BY <1>4 DEF Fit!vars, FitInv, Fit!TypeOK, FitRecordsFit, FitSnapshotJob, FitLoadedFits,
    FitMemoryFits, FitGuestWhole

(* Every step keeps it. *)
LEMMA FitNext == ASSUME Fit!FitConstants, FitInv, Fit!Next PROVE FitInv'
<1>1. ASSUME NEW d \in Fit!Specs, Fit!Edit(d) PROVE FitInv'
  BY <1>1, FitEdit
<1>2. ASSUME NEW n \in Fit!NetIds, NEW name \in NetworkNames, NEW body \in Bodies, Fit!EditNetwork(n, name, body)
      PROVE FitInv'
  BY <1>2, FitEditNetwork
<1>3. CASE Fit!Start \/ Fit!Tick \/ Fit!Raw \/ Fit!PauseOrResume \/ Fit!Stop
  BY <1>3, FitStart, FitTick, FitRaw, FitPauseOrResume, FitStop
<1>4. ASSUME NEW s \in FileNames, NEW m \in FileNames, Fit!AskSnapshot(s, m) \/ Fit!AskRestore(s, m) PROVE FitInv'
  BY <1>4, FitAskSnapshot, FitAskRestore
<1>5. CASE Fit!CopyState \/ Fit!CopyMemory \/ Fit!RecordSnapshot \/ Fit!SnapshotFails
  BY <1>5, FitCopyState, FitCopyMemory, FitRecordSnapshot, FitSnapshotFails
<1>6. CASE Fit!NetworkTap \/ Fit!Load \/ Fit!RestoreFails \/ Fit!LoadSaved \/ Fit!LibraryFails
  BY <1>6, FitNetworkTap, FitLoad, FitFails, FitLoadSaved
<1>7. ASSUME NEW b \in Bundles, Fit!Save(b) \/ Fit!AskRestoreSaved(b) PROVE FitInv'
  BY <1>7, FitSave, FitAskRestoreSaved
<1>8. ASSUME NEW b \in Bundles, NEW claims \in Machines, NEW machine \in Fit!Devices,
             Fit!Import(b, claims, machine)
      PROVE FitInv'
  BY <1>8, FitImport
<1> QED BY <1>1, <1>2, <1>3, <1>4, <1>5, <1>6, <1>7, <1>8 DEF Fit!Next

-----------------------------------------------------------------------------
(* The configuration: ManagedConfig *)

ConfigEditingFits ==
  /\ \A t \in Tabs : tabs[t].revision # None => tabs[t].draft # None
  /\ editing # None =>
       /\ editing.base.secret # Redacted
       /\ Saving!Valid(editing.next)
       /\ writer # "beside" => tabs[editing.tab].revision = saved

ConfigInv == Saving!TypeOK /\ Saving!ConfigHolds /\ ConfigEditingFits

(* The fields of a document, and the documents there are with other fields. *)
LEMMA ConfigFields ==
  ASSUME Saving!ConfigConstants, NEW f \in Saving!Documents
  PROVE  /\ f = [ttl |-> f.ttl, url |-> f.url, host |-> f.host, secret |-> f.secret]
         /\ f.secret \in Saving!Secrets
         /\ \A s \in Saving!Secrets :
              /\ [f EXCEPT !.secret = s] \in Saving!Documents
              /\ [f EXCEPT !.secret = s] = [ttl |-> f.ttl, url |-> f.url, host |-> f.host, secret |-> s]
<1>1. PICK g \in Saving!Written, r \in Saving!Secrets : f = [g EXCEPT !.secret = r]
  BY DEF Saving!Documents
<1>2. g = [ttl |-> g.ttl, url |-> g.url, host |-> g.host, secret |-> g.secret]
  BY DEF Saving!ConfigConstants
<1>3. f = [ttl |-> g.ttl, url |-> g.url, host |-> g.host, secret |-> r]
  BY <1>1, <1>2
<1>4. \A s \in Saving!Secrets :
        /\ [f EXCEPT !.secret = s] = [ttl |-> g.ttl, url |-> g.url, host |-> g.host, secret |-> s]
        /\ [f EXCEPT !.secret = s] = [g EXCEPT !.secret = s]
  BY <1>2, <1>3
<1>5. \A s \in Saving!Secrets : [g EXCEPT !.secret = s] \in Saving!Documents
  BY <1>1 DEF Saving!Documents
<1>6. f = [ttl |-> f.ttl, url |-> f.url, host |-> f.host, secret |-> f.secret] /\ f.secret = r
      /\ f.ttl = g.ttl /\ f.url = g.url /\ f.host = g.host
  BY <1>3
<1>7. \A s \in Saving!Secrets :
         [f EXCEPT !.secret = s] = [ttl |-> f.ttl, url |-> f.url, host |-> f.host, secret |-> s]
  BY <1>4, <1>6
<1>8. \A s \in Saving!Secrets : [f EXCEPT !.secret = s] \in Saving!Documents
  BY <1>4, <1>5
<1> QED BY <1>1, <1>6, <1>7, <1>8

LEMMA ConfigHostFileIs == ASSUME Saving!ConfigConstants, NEW f \in HostFiles PROVE f \in Saving!Documents
<1>1. f \in Saving!Written /\ f = [ttl |-> f.ttl, url |-> f.url, host |-> f.host, secret |-> f.secret]
  BY DEF Saving!ConfigConstants, Saving!Written
<1>2. f = [f EXCEPT !.secret = f.secret] /\ f.secret \in Saving!Secrets
  BY <1>1 DEF Saving!Secrets
<1> QED BY <1>1, <1>2 DEF Saving!Documents

LEMMA ConfigDraftIs == ASSUME Saving!ConfigConstants, NEW f \in Drafts PROVE f \in Saving!Documents
<1>1. f \in Saving!Written /\ f = [ttl |-> f.ttl, url |-> f.url, host |-> f.host, secret |-> f.secret]
  BY DEF Saving!ConfigConstants, Saving!Written
<1>2. f = [f EXCEPT !.secret = f.secret] /\ f.secret \in Saving!Secrets
  BY <1>1 DEF Saving!Secrets
<1> QED BY <1>1, <1>2 DEF Saving!Documents

LEMMA ConfigRedacts == ASSUME Saving!ConfigConstants, NEW f \in Saving!Documents
  PROVE  Saving!Redact(f) \in Saving!Documents /\ Saving!Redact(f).secret \in {Redacted, None}
<1> Redacted \in Saving!Secrets
  BY DEF Saving!Secrets
<1>1. [f EXCEPT !.secret = Redacted] \in Saving!Documents /\ [f EXCEPT !.secret = Redacted].secret = Redacted
  BY ConfigFields
<1> QED BY <1>1 DEF Saving!Redact

LEMMA ConfigPreserves == ASSUME Saving!ConfigConstants, NEW f \in Saving!Documents, NEW g \in Saving!Documents
  PROVE  Saving!Preserve(f, g) \in Saving!Documents
BY ConfigFields DEF Saving!Preserve

LEMMA ConfigInit == ASSUME Saving!ConfigConstants, Saving!Init PROVE ConfigInv
BY ConfigHostFileIs DEF Saving!Init, ConfigInv, Saving!TypeOK, Saving!ConfigHolds, ConfigEditingFits,
  Saving!Tab, Saving!ConfigConstants

LEMMA ConfigLoad == ASSUME Saving!ConfigConstants, ConfigInv, NEW t \in Tabs, Saving!Load(t) PROVE ConfigInv'
BY ConfigRedacts DEF Saving!Load, ConfigInv, Saving!TypeOK, Saving!ConfigHolds, ConfigEditingFits,
  Saving!Tab, Saving!Shown, Saving!ConfigConstants

LEMMA ConfigType ==
  ASSUME Saving!ConfigConstants, ConfigInv, NEW t \in Tabs, NEW d \in Drafts, Saving!Type(t, d)
  PROVE  ConfigInv'
BY ConfigDraftIs DEF Saving!Type, ConfigInv, Saving!TypeOK, Saving!ConfigHolds, ConfigEditingFits,
  Saving!Tab, Saving!Shown, Saving!ConfigConstants

LEMMA ConfigAsk ==
  ASSUME Saving!ConfigConstants, ConfigInv, NEW t \in Tabs, NEW save \in BOOLEAN, Saving!Ask(t, save)
  PROVE  ConfigInv'
<1> DEFINE a == [save |-> save, draft |-> tabs[t].draft]
<1>1. a \in Saving!Asked
  BY DEF Saving!Ask, ConfigInv, ConfigEditingFits, Saving!TypeOK, Saving!Tab, Saving!Asked
<1>2. tabs' = [tabs EXCEPT ![t].asked = a]
  BY DEF Saving!Ask
<1> HIDE DEF a
<1> QED BY <1>1, <1>2 DEF Saving!Ask, ConfigInv, Saving!TypeOK, Saving!ConfigHolds, ConfigEditingFits,
    Saving!Tab, Saving!Shown, Saving!ConfigConstants

LEMMA ConfigKeep == ASSUME Saving!ConfigConstants, ConfigInv, NEW t \in Tabs, Saving!Keep(t) PROVE ConfigInv'
BY DEF Saving!Keep, ConfigInv, Saving!TypeOK, Saving!ConfigHolds, ConfigEditingFits, Saving!Tab,
  Saving!ConfigConstants

LEMMA ConfigRefuse == ASSUME Saving!ConfigConstants, ConfigInv, NEW t \in Tabs, Saving!Refuse(t) PROVE ConfigInv'
BY DEF Saving!Refuse, ConfigInv, Saving!TypeOK, Saving!ConfigHolds, ConfigEditingFits, Saving!Tab,
  Saving!ConfigConstants

LEMMA ConfigValidate ==
  ASSUME Saving!ConfigConstants, ConfigInv, NEW t \in Tabs, Saving!Validate(t)
  PROVE  ConfigInv'
<1> DEFINE r == Saving!Redact(Saving!Preserve(tabs[t].asked.draft, saved))
<1>1. tabs[t].asked.draft \in Saving!Documents
  BY DEF Saving!Validate, Saving!Idle, ConfigInv, Saving!TypeOK, Saving!Tab, Saving!Asked
<1>2. r \in Saving!Documents /\ r.secret \in {Redacted, None}
  BY <1>1, ConfigRedacts, ConfigPreserves DEF ConfigInv, Saving!TypeOK
<1>3. tabs' = [tabs EXCEPT ![t].asked = None, ![t].review = r]
  BY DEF Saving!Validate
<1> HIDE DEF r
<1>4. tabs' \in [Tabs -> Saving!Tab]
  BY <1>2, <1>3 DEF ConfigInv, Saving!TypeOK, Saving!Tab
<1>5. \A u \in Tabs : /\ tabs'[u].revision = tabs[u].revision /\ tabs'[u].draft = tabs[u].draft
                     /\ tabs'[u].review \in {r, tabs[u].review}
  BY <1>2, <1>3 DEF ConfigInv, Saving!TypeOK, Saving!Tab
<1> QED BY <1>2, <1>4, <1>5 DEF Saving!Validate, ConfigInv, Saving!TypeOK, Saving!ConfigHolds,
    ConfigEditingFits, Saving!EffectiveTtl, Saving!Valid

LEMMA ConfigBeginSave ==
  ASSUME Saving!ConfigConstants, ConfigInv, NEW t \in Tabs, Saving!BeginSave(t)
  PROVE  ConfigInv'
<1> DEFINE n == Saving!Preserve(tabs[t].asked.draft, saved)
<1>1. tabs[t].asked.draft \in Saving!Documents
  BY DEF Saving!BeginSave, Saving!Idle, ConfigInv, Saving!TypeOK, Saving!Tab, Saving!Asked
<1>2. n \in Saving!Documents
  BY <1>1, ConfigPreserves DEF ConfigInv, Saving!TypeOK
<1>3. Saving!Valid(n) /\ n.host = saved.host /\ n.secret = saved.secret /\ tabs[t].revision = saved
  BY DEF Saving!BeginSave, Saving!Accepts, Saving!Startable, Saving!Editable, Saving!IsCurrent
<1>4. editing' = [tab |-> t, base |-> saved, next |-> n]
  BY DEF Saving!BeginSave
<1> HIDE DEF n
<1>5. saved \in Saving!Documents /\ saved.secret # Redacted
  BY DEF ConfigInv, Saving!TypeOK, Saving!ConfigHolds
<1>6. n = [saved EXCEPT !.ttl = n.ttl, !.url = n.url]
  <2>1. n = [ttl |-> n.ttl, url |-> n.url, host |-> n.host, secret |-> n.secret]
    BY <1>2, ConfigFields
  <2>2. saved = [ttl |-> saved.ttl, url |-> saved.url, host |-> saved.host, secret |-> saved.secret]
    BY <1>5, ConfigFields
  <2> QED BY <1>3, <2>1, <2>2
<1>7. /\ UNCHANGED <<saved, live, leftover, lost, tabs>>
      /\ writer' \in {writer, "host"}
  BY DEF Saving!BeginSave
<1>8. Saving!TypeOK'
  BY <1>2, <1>4, <1>5, <1>7 DEF ConfigInv, Saving!TypeOK
<1>9. Saving!ConfigHolds'
  BY <1>4, <1>6, <1>7 DEF ConfigInv, Saving!ConfigHolds, Saving!EffectiveTtl, Saving!Valid
<1>10. ConfigEditingFits'
  BY <1>3, <1>4, <1>5, <1>7 DEF ConfigInv, ConfigEditingFits, Saving!Valid
<1> QED BY <1>8, <1>9, <1>10 DEF ConfigInv

LEMMA ConfigCommit == ASSUME Saving!ConfigConstants, ConfigInv, Saving!Commit PROVE ConfigInv'
<1> DEFINE n == editing.next
<1>1. n \in Saving!Documents /\ Saving!Valid(n) /\ editing.tab \in Tabs
  BY DEF Saving!Commit, ConfigInv, Saving!TypeOK, ConfigEditingFits
<1>2. n.secret # Redacted
  BY ConfigFields DEF Saving!Commit, ConfigInv, Saving!TypeOK, Saving!ConfigHolds, ConfigEditingFits
<1>3. /\ tabs' \in [Tabs -> Saving!Tab]
      /\ \A t \in Tabs : tabs'[t].revision # None => tabs'[t].draft # None
      /\ \A t \in Tabs : tabs'[t].review # None => tabs'[t].review.secret \in {Redacted, None}
  <2>1. CASE tabs' = [tabs EXCEPT ![editing.tab].asked = None]
    BY <1>1, <2>1 DEF ConfigInv, Saving!TypeOK, ConfigEditingFits, Saving!ConfigHolds, Saving!Tab
  <2>2. CASE tabs' = [tabs EXCEPT ![editing.tab] = Saving!Shown(n)]
    BY <1>1, <2>2, ConfigRedacts DEF ConfigInv, Saving!TypeOK, ConfigEditingFits, Saving!ConfigHolds,
      Saving!Tab, Saving!Shown, Saving!ConfigConstants
  <2> QED BY <2>1, <2>2 DEF Saving!Commit
<1>4. saved' = n /\ live' = Saving!EffectiveTtl(n) /\ editing' = None /\ writer' = "api" /\ leftover' = leftover
      /\ lost' = (lost \/ (writer # "beside" /\ tabs[editing.tab].revision # saved))
  BY DEF Saving!Commit
<1>5. ~lost'
  BY <1>4 DEF Saving!Commit, ConfigInv, ConfigEditingFits, Saving!ConfigHolds
<1>6. Saving!TypeOK'
  BY <1>1, <1>3, <1>4, <1>5 DEF ConfigInv, Saving!TypeOK
<1>7. Saving!ConfigHolds'
  <2>1. saved'.secret # Redacted
    BY <1>2, <1>4
  <2>2. live' = Saving!EffectiveTtl(saved)' /\ Saving!Valid(saved)'
    BY <1>1, <1>4 DEF Saving!EffectiveTtl, Saving!Valid
  <2>3. editing' = None
    BY <1>4
  <2> QED BY <1>3, <1>5, <2>1, <2>2, <2>3 DEF Saving!ConfigHolds
<1>8. ConfigEditingFits'
  <2>1. editing' = None
    BY <1>4
  <2> QED BY <1>3, <2>1 DEF ConfigEditingFits
<1> QED BY <1>6, <1>7, <1>8 DEF ConfigInv

LEMMA ConfigRestart == ASSUME Saving!ConfigConstants, ConfigInv, Saving!Restart PROVE ConfigInv'
BY DEF Saving!Restart, ConfigInv, Saving!TypeOK, Saving!ConfigHolds, ConfigEditingFits, Saving!Tab,
  Saving!ConfigConstants

LEMMA ConfigHostEdit ==
  ASSUME Saving!ConfigConstants, ConfigInv, NEW f \in HostFiles, Saving!HostEdit(f)
  PROVE  ConfigInv'
BY ConfigHostFileIs DEF Saving!HostEdit, ConfigInv, Saving!TypeOK, Saving!ConfigHolds, ConfigEditingFits,
  Saving!Valid, Saving!ConfigConstants

LEMMA ConfigStutter == ASSUME Saving!ConfigConstants, ConfigInv, UNCHANGED Saving!vars PROVE ConfigInv'
BY DEF Saving!vars, ConfigInv, Saving!TypeOK, Saving!ConfigHolds, ConfigEditingFits, Saving!Valid,
  Saving!EffectiveTtl

(* Every step keeps it. *)
LEMMA ConfigNext == ASSUME Saving!ConfigConstants, ConfigInv, Saving!Next PROVE ConfigInv'
<1>1. CASE Saving!Commit \/ Saving!Restart
  BY <1>1, ConfigCommit, ConfigRestart
<1>2. ASSUME NEW f \in HostFiles, Saving!HostEdit(f) PROVE ConfigInv'
  BY <1>2, ConfigHostEdit
<1>3. ASSUME NEW t \in Tabs, Saving!Load(t) \/ Saving!Keep(t) \/ Saving!Refuse(t) \/ Saving!Validate(t)
               \/ Saving!BeginSave(t)
      PROVE ConfigInv'
  BY <1>3, ConfigLoad, ConfigKeep, ConfigRefuse, ConfigValidate, ConfigBeginSave
<1>4. ASSUME NEW t \in Tabs, NEW d \in Drafts, Saving!Type(t, d) PROVE ConfigInv'
  BY <1>4, ConfigType
<1>5. ASSUME NEW t \in Tabs, NEW save \in BOOLEAN, Saving!Ask(t, save) PROVE ConfigInv'
  BY <1>5, ConfigAsk
<1> QED BY <1>1, <1>2, <1>3, <1>4, <1>5 DEF Saving!Next

-----------------------------------------------------------------------------
(* The web console: VmConsole *)

(* Whatever was read of the VM is no newer than its row, and as it is unless  *)
(* the row has changed since.                                                 *)
ConsoleRead1(vm) == row # None => vm.version <= row.version /\ (vm.version = row.version => vm.spec = row.spec)

ConsoleReadsFit ==
  /\ \A g, h \in gets : g = h
  /\ row # None => newest <= row.version
  /\ \A get \in gets : get[1] = "answer" /\ get[2] # None => newest <= get[2].version /\ ConsoleRead1(get[2])
  /\ view # None => ConsoleRead1(view)
  /\ call # None /\ call.op = "apply" => ConsoleRead1(call.vm)
  /\ call # None /\ call.op = "put" /\ row # None => call.seen \in Nat /\ call.seen <= row.version

ConsolePageHolds == view # None => view.version = newest
ConsoleFormHolds ==
  form # None => /\ wish = IF form.advanced THEN form.toml ELSE Console!Merged(form.base, form.fields)
                 /\ form.sent \in {None, wish}
ConsolePutHolds ==
  (call # None /\ call.op = "put" /\ row # None /\ row.version = call.seen) =>
       /\ \A s \in Console!Sections \ {call.kind} : row.spec[s] = call.spec[s]
       /\ call.kind = "environment" => row.spec.environment = call.previous

ConsoleInv == Console!TypeOK /\ ConsoleReadsFit /\ ConsolePageHolds /\ ConsoleFormHolds /\ ConsolePutHolds
USE DEF Console!Sections, Console!InFields, Console!InDialog

LEMMA ConsoleConsole == Console!ConsoleHolds <=> ConsolePageHolds /\ ConsoleFormHolds /\ ConsolePutHolds
BY DEF Console!ConsoleHolds, ConsolePageHolds, ConsoleFormHolds, ConsolePutHolds

LEMMA ConsoleInit == ASSUME Console!ConsoleConstants, Console!Init PROVE ConsoleInv
BY DEF Console!ConsoleConstants, Console!Init, ConsoleInv, Console!TypeOK, ConsoleReadsFit,
  ConsolePageHolds, ConsoleFormHolds, ConsolePutHolds, ConsoleRead1, Console!Specs, Console!Vms

(* The row changes or is deleted: what was read of it is older. *)
LEMMA ConsoleRowChanges ==
  ASSUME Console!ConsoleConstants, ConsoleInv, row' \in Console!Vms \cup {None},
         row' # None => row # None /\ row'.version = row.version + 1,
         UNCHANGED <<gets, view, newest, dialog, edits>>,
         call' = call \/ (form = None /\ call'.op \in {"done", "error"}),
         form' = None \/ (form # None /\ form' \in Console!Form), wish' \in {wish, None},
         form' = None <=> wish' = None,
         ConsoleFormHolds'
  PROVE  ConsoleInv'
<1>1. row # None => row.version \in Nat
  BY DEF ConsoleInv, Console!TypeOK, Console!Vms, Console!ConsoleConstants
<1>2. newest \in Nat /\ (view # None => view.version \in Nat)
  BY DEF ConsoleInv, Console!TypeOK, Console!Vms, Console!ConsoleConstants
<1>3. Console!TypeOK'
  BY DEF ConsoleInv, Console!TypeOK
<1>4. \A vm \in Console!Vms : ConsoleRead1(vm) => ConsoleRead1(vm)'
  BY <1>1 DEF ConsoleRead1, Console!Vms, Console!ConsoleConstants
<1>5. ConsoleReadsFit'
  BY <1>1, <1>2, <1>4 DEF ConsoleInv, Console!TypeOK, ConsoleReadsFit
<1>6. ConsolePageHolds'
  BY DEF ConsoleInv, ConsolePageHolds
<1>7. ConsolePutHolds'
  BY <1>1 DEF ConsoleInv, ConsoleReadsFit, ConsolePutHolds
<1> QED BY <1>3, <1>5, <1>6, <1>7 DEF ConsoleInv

LEMMA ConsolePutIs ==
  ASSUME Console!ConsoleConstants, ConsoleInv, NEW s \in Console!Specs, Console!Put(s)
  PROVE  row' \in Console!Vms /\ row # None /\ row'.version = row.version + 1
<1>1. row \in Console!Vms /\ row # None /\ row.version + 1 \in 0..MaxWrites
  BY DEF Console!Put, Console!Writable, ConsoleInv, Console!TypeOK, Console!Vms, Console!ConsoleConstants
<1>2. row' = [active |-> row.active, spec |-> s, version |-> row.version + 1]
  BY <1>1 DEF Console!Put, Console!Vms
<1> QED BY <1>1, <1>2 DEF Console!Vms

LEMMA ConsoleRowIs ==
  ASSUME Console!ConsoleConstants, ConsoleInv, Console!Writable, NEW a \in BOOLEAN,
         row' = [row EXCEPT !.active = a, !.version = @ + 1]
  PROVE  row' \in Console!Vms /\ row # None /\ row'.version = row.version + 1
<1>1. row \in Console!Vms /\ row # None /\ row.version + 1 \in 0..MaxWrites
  BY DEF Console!Writable, ConsoleInv, Console!TypeOK, Console!Vms, Console!ConsoleConstants
<1>2. row' = [active |-> a, spec |-> row.spec, version |-> row.version + 1]
  BY <1>1 DEF Console!Vms
<1> QED BY <1>1, <1>2 DEF Console!Vms

LEMMA ConsoleElsewhere == ASSUME Console!ConsoleConstants, ConsoleInv, Console!Elsewhere PROVE ConsoleInv'
<1>3. ConsoleFormHolds'
  BY DEF Console!Elsewhere, ConsoleInv, ConsoleFormHolds, Console!Merged
<1>1. CASE \E s \in Console!Sections, v \in Values : row # None /\ Console!Put([row.spec EXCEPT ![s] = v])
  <2>1. PICK s \in Console!Sections, v \in Values : row # None /\ Console!Put([row.spec EXCEPT ![s] = v])
    BY <1>1
  <2>2. [row.spec EXCEPT ![s] = v] \in Console!Specs
    BY <2>1 DEF ConsoleInv, Console!TypeOK, Console!Vms, Console!Specs
  <2>3. row' \in Console!Vms /\ row # None /\ row'.version = row.version + 1
    BY <2>1, <2>2, ConsolePutIs
  <2> QED BY <1>3, <2>3, ConsoleRowChanges DEF Console!Elsewhere, ConsoleInv, Console!TypeOK,
      Console!ConsoleConstants
<1>2. CASE Console!Writable /\ row' = [row EXCEPT !.active = ~@, !.version = @ + 1]
  <2>1. row' \in Console!Vms /\ row'.version = row.version + 1 /\ row # None
    BY <1>2, ConsoleRowIs DEF Console!Writable
  <2> QED BY <1>3, <2>1, ConsoleRowChanges DEF Console!Elsewhere, ConsoleInv, Console!TypeOK,
      Console!ConsoleConstants
<1> QED BY <1>1, <1>2 DEF Console!Elsewhere

LEMMA ConsolePoll == ASSUME Console!ConsoleConstants, ConsoleInv, Console!Poll PROVE ConsoleInv'
BY DEF Console!Poll, Console!Restart, ConsoleInv, Console!TypeOK, ConsoleReadsFit, ConsolePageHolds,
  ConsoleFormHolds, ConsolePutHolds, ConsoleRead1, Console!Merged

LEMMA ConsoleRead == ASSUME Console!ConsoleConstants, ConsoleInv, Console!Read PROVE ConsoleInv'
<1>1. gets' = {<<"answer", row>>}
  BY DEF Console!Read, ConsoleInv, ConsoleReadsFit
<1>2. form = None
  BY DEF Console!Read, ConsoleInv, Console!TypeOK
<1>3. row # None => row.version \in Nat
  BY DEF ConsoleInv, Console!TypeOK, Console!Vms, Console!ConsoleConstants
<1>4. Console!TypeOK'
  BY <1>1, <1>2 DEF Console!Read, ConsoleInv, Console!TypeOK
<1>5. ConsoleReadsFit'
  BY <1>1, <1>3 DEF Console!Read, ConsoleInv, ConsoleReadsFit, ConsoleRead1
<1> QED BY <1>2, <1>4, <1>5 DEF Console!Read, ConsoleInv, ConsolePageHolds, ConsoleFormHolds,
    ConsolePutHolds, Console!Merged

LEMMA ConsoleShow == ASSUME Console!ConsoleConstants, ConsoleInv, Console!Show PROVE ConsoleInv'
<1>1. PICK get \in gets \ {<<"asked">>} :
       /\ gets' = gets \ {get}
       /\ view' = get[2]
       /\ IF get[2] = None
          THEN dialog' = None /\ call' = None /\ UNCHANGED newest
          ELSE /\ newest' = IF get[2].version > newest THEN get[2].version ELSE newest
               /\ UNCHANGED <<dialog, call>>
  BY DEF Console!Show
<1>2. gets' = {} /\ get[1] = "answer" /\ get[2] \in Console!Vms \cup {None}
  BY <1>1 DEF ConsoleInv, Console!TypeOK, ConsoleReadsFit
<1>3. UNCHANGED <<row, form, wish, edits>> /\ form = None
  BY <1>1 DEF Console!Show, ConsoleInv, Console!TypeOK
<1>4. CASE get[2] = None
  BY <1>1, <1>2, <1>3, <1>4 DEF ConsoleInv, Console!TypeOK, ConsoleReadsFit, ConsolePageHolds,
    ConsoleFormHolds, ConsolePutHolds
<1>5. CASE get[2] # None
  <2>1. newest <= get[2].version /\ get[2].version \in 0..MaxWrites /\ ConsoleRead1(get[2]) /\ newest \in Nat
    BY <1>2, <1>5 DEF ConsoleInv, ConsoleReadsFit, Console!TypeOK, Console!Vms, Console!ConsoleConstants
  <2>2. newest' = get[2].version
    BY <1>1, <1>5, <2>1 DEF Console!ConsoleConstants
  <2>3. UNCHANGED <<dialog, call>>
    BY <1>1, <1>5
  <2>4. Console!TypeOK'
    BY <1>1, <1>2, <1>3, <2>1, <2>2, <2>3 DEF ConsoleInv, Console!TypeOK
  <2>5. ConsoleReadsFit'
    BY <1>1, <1>2, <1>3, <2>1, <2>2, <2>3 DEF ConsoleInv, ConsoleReadsFit, ConsoleRead1
  <2> QED BY <1>1, <1>3, <2>2, <2>3, <2>4, <2>5 DEF ConsoleInv, ConsolePageHolds, ConsoleFormHolds,
      ConsolePutHolds
<1> QED BY <1>4, <1>5

(* Dialogs and requests come and go on the page. *)
LEMMA ConsoleOnPage ==
  ASSUME Console!ConsoleConstants, ConsoleInv, view # None \/ dialog # None \/ call # None,
         UNCHANGED <<row, view, newest, form, wish, edits>>, gets' \in {gets, Console!Restart},
         dialog' = None \/ dialog' = dialog \/ (dialog'.kind \in Console!InDialog /\ dialog'.value \in Values)
                        \/ dialog'.kind \in {"stop", "delete"},
         call' = None \/ call' = call \/ call'.op \in {"start", "stop", "delete", "done", "error"}
           \/ (call'.op = "read" /\ call'.kind \in Console!Sections /\ call'.value \in Values)
           \/ (call'.op = "apply" /\ call'.kind \in Console!Sections /\ call'.value \in Values
                /\ call'.vm \in Console!Vms /\ ConsoleRead1(call'.vm))
           \/ (call'.op = "put" /\ call'.spec \in Console!Specs /\ ConsolePutHolds'
               /\ (row # None => call'.seen \in Nat /\ call'.seen <= row.version))
  PROVE  ConsoleInv'
<1>1. form = None
  BY DEF ConsoleInv, Console!TypeOK
<1>2. Console!TypeOK'
  BY <1>1 DEF ConsoleInv, Console!TypeOK, Console!Restart
<1>3. ConsoleReadsFit'
  BY DEF ConsoleInv, ConsoleReadsFit, Console!Restart, ConsoleRead1
<1>4. ConsolePutHolds'
  BY DEF ConsoleInv, ConsolePutHolds
<1> QED BY <1>1, <1>2, <1>3, <1>4 DEF ConsoleInv, ConsolePageHolds, ConsoleFormHolds

LEMMA ConsoleOpen ==
  ASSUME Console!ConsoleConstants, ConsoleInv, NEW k \in Console!InDialog, Console!Open(k)
  PROVE  ConsoleInv'
BY ConsoleOnPage DEF Console!Open, Console!Editable, Console!Idle, ConsoleInv, Console!TypeOK, Console!Vms,
  Console!Specs

LEMMA ConsoleType ==
  ASSUME Console!ConsoleConstants, ConsoleInv, NEW v \in Values, Console!Type(v)
  PROVE  ConsoleInv'
<1>1. dialog'.kind = dialog.kind \/ dialog'.kind \in Console!InDialog
  BY DEF Console!Type
<1> QED BY ConsoleOnPage DEF Console!Type, Console!Idle

LEMMA ConsoleSaveBoot == ASSUME Console!ConsoleConstants, ConsoleInv, Console!SaveBoot PROVE ConsoleInv'
<1> DEFINE c == [op |-> "put", kind |-> "boot", previous |-> None,
                 spec |-> [view.spec EXCEPT !.boot = dialog.value], seen |-> view.version]
<1>1. /\ view \in Console!Vms /\ dialog.value \in Values /\ call' = c /\ ConsoleRead1(view) /\ view.version \in Nat
      /\ row' = row
  BY DEF Console!SaveBoot, Console!Idle, ConsoleInv, Console!TypeOK, ConsoleReadsFit, Console!Vms,
    Console!ConsoleConstants
<1>2. c.op = "put" /\ c.kind = "boot" /\ c.spec = [view.spec EXCEPT !.boot = dialog.value] /\ c.seen = view.version
  OBVIOUS
<1>3. c.spec \in Console!Specs /\ \A s \in Console!Sections \ {"boot"} : c.spec[s] = view.spec[s]
  BY <1>1, <1>2 DEF Console!Vms, Console!Specs
<1> HIDE DEF c
<1>4. ConsolePutHolds'
  BY <1>1, <1>2, <1>3 DEF ConsolePutHolds, ConsoleRead1
<1>5. row # None => c.seen \in Nat /\ c.seen <= row.version
  BY <1>1, <1>2 DEF ConsoleRead1
<1> QED BY <1>1, <1>2, <1>3, <1>4, <1>5, ConsoleOnPage DEF Console!SaveBoot, Console!Idle

LEMMA ConsoleSaveVariable == ASSUME Console!ConsoleConstants, ConsoleInv, Console!SaveVariable PROVE ConsoleInv'
BY ConsoleOnPage DEF Console!SaveVariable, Console!Idle, ConsoleInv, Console!TypeOK

LEMMA ConsoleEnableShell ==
  ASSUME Console!ConsoleConstants, ConsoleInv, NEW v \in Values, Console!EnableShell(v)
  PROVE  ConsoleInv'
BY ConsoleOnPage DEF Console!EnableShell, Console!Editable, Console!Idle

LEMMA ConsoleReadFirst == ASSUME Console!ConsoleConstants, ConsoleInv, Console!ReadFirst PROVE ConsoleInv'
<1>1. row # None => ConsoleRead1(row) /\ row \in Console!Vms
  BY DEF ConsoleInv, Console!TypeOK, ConsoleRead1, Console!Vms, Console!ConsoleConstants
<1> QED BY <1>1, ConsoleOnPage DEF Console!ReadFirst, ConsoleInv, Console!TypeOK

LEMMA ConsoleApply == ASSUME Console!ConsoleConstants, ConsoleInv, Console!Apply PROVE ConsoleInv'
<1>1. /\ call.kind \in Console!Sections /\ call.value \in Values /\ call.vm \in Console!Vms /\ ConsoleRead1(call.vm)
      /\ row' = row
  BY DEF Console!Apply, ConsoleInv, Console!TypeOK, ConsoleReadsFit
<1>2. CASE call' = [op |-> "error"]
  BY <1>2, ConsoleOnPage DEF Console!Apply
<1>3. CASE /\ call.kind = "environment" => Console!Unchanged
           /\ call' = [op |-> "put", kind |-> call.kind, previous |-> call.previous,
                       spec |-> [call.vm.spec EXCEPT ![call.kind] = call.value], seen |-> call.vm.version]
  <2> DEFINE s == [call.vm.spec EXCEPT ![call.kind] = call.value]
  <2>1. call'.op = "put" /\ call'.kind = call.kind /\ call'.previous = call.previous /\ call'.spec = s
        /\ call'.seen = call.vm.version
    BY <1>3
  <2>2. s \in Console!Specs /\ \A t \in Console!Sections \ {call.kind} : s[t] = call.vm.spec[t]
    BY <1>1 DEF Console!Vms, Console!Specs
  <2> HIDE DEF s
  <2>3. ConsolePutHolds'
    BY <1>1, <1>3, <2>1, <2>2 DEF ConsolePutHolds, ConsoleRead1, Console!Unchanged
  <2>4. row # None => call'.seen \in Nat /\ call'.seen <= row.version
    BY <1>1, <2>1 DEF ConsoleRead1, Console!Vms, Console!ConsoleConstants
  <2> QED BY <2>1, <2>2, <2>3, <2>4, ConsoleOnPage DEF Console!Apply
<1> QED BY <1>2, <1>3 DEF Console!Apply

LEMMA ConsolePress == ASSUME Console!ConsoleConstants, ConsoleInv, Console!Press PROVE ConsoleInv'
BY ConsoleOnPage DEF Console!Press, Console!Idle

LEMMA ConsoleConfirm == ASSUME Console!ConsoleConstants, ConsoleInv, Console!Confirm PROVE ConsoleInv'
BY ConsoleOnPage DEF Console!Confirm

LEMMA ConsoleClose == ASSUME Console!ConsoleConstants, ConsoleInv, Console!Close PROVE ConsoleInv'
BY ConsoleOnPage DEF Console!Close

LEMMA ConsoleRefuse == ASSUME Console!ConsoleConstants, ConsoleInv, Console!Refuse PROVE ConsoleInv'
BY ConsoleOnPage DEF Console!Refuse

LEMMA ConsoleAnswered == ASSUME Console!ConsoleConstants, ConsoleInv, Console!Answered PROVE ConsoleInv'
BY ConsoleOnPage DEF Console!Answered

LEMMA ConsoleServe == ASSUME Console!ConsoleConstants, ConsoleInv, Console!Serve PROVE ConsoleInv'
<1>1. call # None /\ form = None /\ call'.op \in {"done", "error"}
      /\ UNCHANGED <<gets, view, newest, dialog, form, wish, edits>>
  BY DEF Console!Serve, ConsoleInv, Console!TypeOK
<1>2. row' \in Console!Vms \cup {None} /\ (row' # None => row # None /\ row'.version = row.version + 1)
  <2>1. CASE call.op = "put" /\ Console!Put(call.spec)
    BY <1>1, <2>1, ConsolePutIs DEF ConsoleInv, Console!TypeOK
  <2>2. CASE Console!Writable /\ row' = [row EXCEPT !.active = (call.op = "start"), !.version = @ + 1]
    BY <2>2, ConsoleRowIs
  <2>3. CASE row' = None
    BY <2>3
  <2> QED BY <2>1, <2>2, <2>3 DEF Console!Serve
<1> QED BY <1>1, <1>2, ConsoleRowChanges DEF ConsoleInv, Console!TypeOK, ConsoleFormHolds, Console!Merged

(* The form *)
LEMMA ConsoleMixed ==
  ASSUME NEW b \in Console!Specs, NEW f \in [Console!InFields -> Values]
  PROVE  Console!Merged(b, f) \in Console!Specs
BY DEF Console!Merged, Console!Specs

(* With the form there is no page. *)
LEMMA ConsoleOnForm ==
  ASSUME Console!ConsoleConstants, ConsoleInv, form # None, UNCHANGED <<row, gets, view, newest, dialog, call>>,
         form' \in Console!Form, wish' \in Console!Specs \cup {Broken}, ConsoleFormHolds', edits' \in 0..MaxEdits
  PROVE  ConsoleInv'
<1>1. view = None /\ gets = {} /\ dialog = None /\ call = None
  BY DEF ConsoleInv, Console!TypeOK
<1> QED BY <1>1 DEF ConsoleInv, Console!TypeOK, ConsoleReadsFit, ConsolePageHolds, ConsolePutHolds,
    Console!ConsoleConstants, ConsoleRead1

LEMMA ConsoleOpenForm == ASSUME Console!ConsoleConstants, ConsoleInv, Console!OpenForm PROVE ConsoleInv'
<1> DEFINE f == [fields |-> [s \in Console!InFields |-> row.spec[s]], base |-> row.spec, toml |-> row.spec,
                 advanced |-> FALSE, sent |-> None]
<1>1. row \in Console!Vms /\ row.spec \in Console!Specs
  BY DEF Console!OpenForm, ConsoleInv, Console!TypeOK, Console!Vms
<1>2. f \in Console!Form
  BY <1>1 DEF Console!Form, Console!Specs
<1>3. /\ f.advanced = FALSE /\ f.sent = None /\ f.base = row.spec
      /\ f.fields = [s \in Console!InFields |-> row.spec[s]]
  OBVIOUS
<1>4. Console!Merged(f.base, f.fields) = row.spec
  BY <1>1, <1>3 DEF Console!Merged, Console!Specs
<1>5. form' = f /\ wish' = row.spec /\ gets' = {} /\ view' = None /\ UNCHANGED <<row, newest, dialog, call, edits>>
      /\ dialog = None /\ call = None
  BY DEF Console!OpenForm, Console!Editable, Console!Idle
<1> HIDE DEF f
<1>6. ConsoleFormHolds'
  BY <1>3, <1>4, <1>5 DEF ConsoleFormHolds, Console!Merged
<1> QED BY <1>1, <1>2, <1>5, <1>6 DEF ConsoleInv, Console!TypeOK, ConsoleReadsFit, ConsolePageHolds,
    ConsolePutHolds, Console!ConsoleConstants

LEMMA ConsoleEditField ==
  ASSUME Console!ConsoleConstants, ConsoleInv, NEW s \in Console!InFields, NEW v \in Values,
         Console!EditField(s, v)
  PROVE  ConsoleInv'
<1>1. /\ form \in Console!Form /\ form.base \in Console!Specs /\ form.fields \in [Console!InFields -> Values]
      /\ form.sent = None /\ form.advanced = FALSE
  BY DEF Console!EditField, Console!Editing, ConsoleInv, Console!TypeOK, Console!Form
<1>2. form' \in Console!Form /\ form'.fields = [form.fields EXCEPT ![s] = v] /\ form'.base = form.base
      /\ form'.sent = None /\ form'.advanced = FALSE
  BY <1>1 DEF Console!EditField, Console!Form
<1>3. wish = Console!Merged(form.base, form.fields)
  BY <1>1 DEF Console!EditField, Console!Editing, ConsoleInv, ConsoleFormHolds
<1>4. wish' = Console!Merged(form'.base, form'.fields)
  BY <1>1, <1>2, <1>3, ZenonT(30) DEF Console!EditField, Console!Merged
<1>5. wish' \in Console!Specs
  BY <1>1, <1>2, <1>4, ConsoleMixed
<1>6. ConsoleFormHolds'
  BY <1>2, <1>4 DEF ConsoleFormHolds, Console!Merged
<1> QED BY <1>2, <1>5, <1>6, ConsoleOnForm DEF Console!EditField, Console!Editing,
    Console!ConsoleConstants, ConsoleInv, Console!TypeOK

LEMMA ConsoleEditSection ==
  ASSUME Console!ConsoleConstants, ConsoleInv, NEW k \in Console!InDialog, NEW v \in Values,
         Console!EditSection(k, v)
  PROVE  ConsoleInv'
<1> DEFINE b == [Console!Merged(form.base, form.fields) EXCEPT ![k] = v]
           a == Console!Applied(k, v)
<1>1. /\ form \in Console!Form /\ form.base \in Console!Specs /\ form.fields \in [Console!InFields -> Values]
      /\ form.sent = None /\ form.advanced = FALSE
  BY DEF Console!EditSection, Console!Editing, ConsoleInv, Console!TypeOK, Console!Form
<1>2. Console!Merged(form.base, form.fields) \in Console!Specs
  BY <1>1, ConsoleMixed
<1>3. b \in Console!Specs /\ a \in [Console!InFields -> Values]
  BY <1>1, <1>2 DEF Console!Specs, Console!Applied
<1>4. wish = Console!Merged(form.base, form.fields)
  BY <1>1 DEF Console!EditSection, Console!Editing, ConsoleInv, ConsoleFormHolds
<1>5. wish' = b
  BY <1>4 DEF Console!EditSection
<1>6. Console!Merged(b, a) = b
  <2>1. \A s \in Console!Sections : Console!Merged(b, a)[s] = b[s]
    BY <1>1, <1>2 DEF Console!Merged, Console!Applied, Console!Specs
  <2>2. Console!Merged(b, a) \in Console!Specs
    BY <1>3, ConsoleMixed
  <2> QED BY <1>3, <2>1, <2>2 DEF Console!Specs
<1> HIDE DEF a, b
<1>7. form' = [form EXCEPT !.base = b, !.fields = a]
  BY DEF Console!EditSection, a, b
<1>8. form' = [fields |-> a, base |-> b, toml |-> form.toml, advanced |-> FALSE, sent |-> None]
  BY <1>1, <1>7 DEF Console!Form
<1>9. form' \in Console!Form /\ ConsoleFormHolds'
  BY <1>1, <1>3, <1>5, <1>6, <1>8 DEF Console!Form, ConsoleFormHolds, Console!Merged
<1>10. UNCHANGED <<row, gets, view, newest, dialog, call>> /\ form # None /\ edits' \in 0..MaxEdits
  BY DEF Console!EditSection, Console!Editing, Console!ConsoleConstants, ConsoleInv, Console!TypeOK
<1> QED BY <1>3, <1>5, <1>9, <1>10, ConsoleOnForm

LEMMA ConsoleEditToml ==
  ASSUME Console!ConsoleConstants, ConsoleInv, NEW text \in Console!Specs \cup {Broken}, Console!EditToml(text)
  PROVE  ConsoleInv'
<1>1. form \in Console!Form /\ form.sent = None /\ form.advanced = TRUE
  BY DEF Console!EditToml, Console!Editing, ConsoleInv, Console!TypeOK, Console!Form
<1>2. form' \in Console!Form /\ form'.toml = text /\ form'.sent = None /\ form'.advanced = TRUE
  BY <1>1 DEF Console!EditToml, Console!Form
<1>3. ConsoleFormHolds'
  BY <1>2 DEF Console!EditToml, ConsoleFormHolds
<1> QED BY <1>2, <1>3, ConsoleOnForm DEF Console!EditToml, Console!Editing, Console!ConsoleConstants,
    ConsoleInv, Console!TypeOK

LEMMA ConsoleToToml == ASSUME Console!ConsoleConstants, ConsoleInv, Console!ToToml PROVE ConsoleInv'
<1> DEFINE m == Console!Merged(form.base, form.fields)
<1>1. /\ form \in Console!Form /\ form.base \in Console!Specs /\ form.fields \in [Console!InFields -> Values]
      /\ form.sent = None /\ form.advanced = FALSE
  BY DEF Console!ToToml, Console!Switching, ConsoleInv, Console!TypeOK, Console!Form
<1>2. m \in Console!Specs /\ wish = m
  BY <1>1, ConsoleMixed DEF Console!ToToml, Console!Switching, ConsoleInv, ConsoleFormHolds
<1>3. form' = [form EXCEPT !.toml = m, !.advanced = TRUE]
  BY DEF Console!ToToml, Console!Toml
<1> HIDE DEF m
<1>4. form' = [fields |-> form.fields, base |-> form.base, toml |-> m, advanced |-> TRUE, sent |-> None]
  BY <1>1, <1>3 DEF Console!Form
<1>5. form' \in Console!Form /\ form'.toml = m /\ form'.advanced = TRUE /\ form'.sent = None
  BY <1>1, <1>2, <1>4 DEF Console!Form
<1>6. ConsoleFormHolds'
  BY <1>2, <1>5 DEF ConsoleFormHolds, Console!ToToml, Console!Switching
<1> QED BY <1>2, <1>5, <1>6, ConsoleOnForm DEF Console!ToToml, Console!Switching, Console!ConsoleConstants,
    ConsoleInv, Console!TypeOK

LEMMA ConsoleToGuided == ASSUME Console!ConsoleConstants, ConsoleInv, Console!ToGuided PROVE ConsoleInv'
<1> DEFINE f == Console!Loaded(form.toml)
<1>1. form \in Console!Form /\ form.toml \in Console!Specs /\ form.sent = None /\ form.advanced = TRUE
  BY DEF Console!ToGuided, Console!Switching, ConsoleInv, Console!TypeOK, Console!Form
<1>2. f \in [Console!InFields -> Values] /\ Console!Merged(form.toml, f) = form.toml
  BY <1>1 DEF Console!Loaded, Console!Merged, Console!Specs
<1>3. wish = form.toml
  BY <1>1 DEF Console!ToGuided, Console!Switching, ConsoleInv, ConsoleFormHolds
<1>4. form' = [form EXCEPT !.fields = f, !.base = form.toml, !.advanced = FALSE]
  BY DEF Console!ToGuided
<1> HIDE DEF f
<1>5. form' = [fields |-> f, base |-> form.toml, toml |-> form.toml, advanced |-> FALSE, sent |-> None]
  BY <1>1, <1>4 DEF Console!Form
<1>6. /\ form' \in Console!Form /\ form'.fields = f /\ form'.base = form.toml /\ form'.advanced = FALSE
      /\ form'.sent = None
  BY <1>1, <1>2, <1>5 DEF Console!Form
<1>7. Console!Merged(form'.base, form'.fields) = wish'
  BY <1>2, <1>3, <1>6 DEF Console!ToGuided, Console!Switching
<1>8. ConsoleFormHolds'
  BY <1>6, <1>7 DEF ConsoleFormHolds, Console!Merged
<1> QED BY <1>1, <1>3, <1>6, <1>8, ConsoleOnForm DEF Console!ToGuided, Console!Switching,
    Console!ConsoleConstants, ConsoleInv, Console!TypeOK

LEMMA ConsoleSubmitForm == ASSUME Console!ConsoleConstants, ConsoleInv, Console!SubmitForm PROVE ConsoleInv'
<1>1. /\ form \in Console!Form /\ form.base \in Console!Specs /\ form.fields \in [Console!InFields -> Values]
      /\ form.advanced \in BOOLEAN
  BY DEF Console!SubmitForm, ConsoleInv, Console!TypeOK, Console!Form
<1>2. wish = IF form.advanced THEN form.toml ELSE Console!Merged(form.base, form.fields)
  BY DEF Console!SubmitForm, ConsoleInv, ConsoleFormHolds
<1>3. wish \in Console!Specs /\ form' = [form EXCEPT !.sent = wish]
  <2>1. CASE form.advanced
    BY <1>1, <1>2, <2>1 DEF Console!SubmitForm, Console!Form
  <2>2. CASE ~form.advanced
    BY <1>1, <1>2, <2>2, ConsoleMixed DEF Console!SubmitForm
  <2> QED BY <2>1, <2>2
<1>4. form' \in Console!Form /\ form'.sent = wish /\ form'.advanced = form.advanced /\ form'.toml = form.toml
      /\ form'.base = form.base /\ form'.fields = form.fields
  BY <1>1, <1>3 DEF Console!Form
<1>5. ConsoleFormHolds'
  BY <1>2, <1>4 DEF ConsoleFormHolds, Console!SubmitForm, Console!Merged
<1> QED BY <1>3, <1>4, <1>5, ConsoleOnForm DEF Console!SubmitForm, Console!ConsoleConstants, ConsoleInv,
    Console!TypeOK

LEMMA ConsoleServeForm == ASSUME Console!ConsoleConstants, ConsoleInv, Console!ServeForm PROVE ConsoleInv'
<1> DEFINE f == [form EXCEPT !.sent = None]
<1>1. form \in Console!Form /\ form.sent \in Console!Specs /\ form # None
  BY DEF Console!ServeForm, ConsoleInv, Console!TypeOK, Console!Form
<1>2. f \in Console!Form /\ f.sent = None /\ f.advanced = form.advanced /\ f.toml = form.toml
      /\ f.base = form.base /\ f.fields = form.fields
  BY <1>1 DEF Console!Form
<1> HIDE DEF f
<1>3. form' = f /\ wish' = wish => ConsoleFormHolds'
  BY <1>1, <1>2 DEF ConsoleInv, ConsoleFormHolds, Console!Merged
<1>4. form' = None /\ wish' = None => ConsoleFormHolds'
  BY DEF ConsoleFormHolds
<1>5. (form' = None /\ wish' = None) \/ (form' = f /\ wish' = wish)
  BY DEF Console!ServeForm, f
<1>6. CASE Console!Put(form.sent)
  <2>1. row' \in Console!Vms /\ row # None /\ row'.version = row.version + 1
    BY <1>1, <1>6, ConsolePutIs
  <2>2. wish # None
    BY <1>1 DEF ConsoleInv, Console!TypeOK
  <2> QED BY <1>1, <1>2, <1>3, <1>4, <1>5, <2>1, <2>2, ConsoleRowChanges DEF Console!ServeForm,
      Console!ConsoleConstants
<1>7. CASE form' = f /\ UNCHANGED <<row, wish>>
  BY <1>1, <1>2, <1>3, <1>7, ConsoleOnForm DEF Console!ServeForm, ConsoleInv, Console!TypeOK
<1> QED BY <1>6, <1>7 DEF Console!ServeForm, f

LEMMA ConsoleCancelForm == ASSUME Console!ConsoleConstants, ConsoleInv, Console!CancelForm PROVE ConsoleInv'
BY DEF Console!CancelForm, ConsoleInv, Console!TypeOK, ConsoleReadsFit, ConsolePageHolds, ConsoleFormHolds,
  ConsolePutHolds, ConsoleRead1

LEMMA ConsoleStutter == ASSUME ConsoleInv, UNCHANGED Console!vars PROVE ConsoleInv'
BY DEF Console!vars, ConsoleInv, Console!TypeOK, ConsoleReadsFit, ConsolePageHolds, ConsoleFormHolds,
  ConsolePutHolds, ConsoleRead1, Console!Merged

(* Every step keeps it. *)
LEMMA ConsoleNext == ASSUME Console!ConsoleConstants, ConsoleInv, Console!Next PROVE ConsoleInv'
<1>1. CASE Console!Elsewhere \/ Console!Poll \/ Console!Read \/ Console!Show
  BY <1>1, ConsoleElsewhere, ConsolePoll, ConsoleRead, ConsoleShow
<1>2. ASSUME NEW k \in Console!InDialog, Console!Open(k) PROVE ConsoleInv'
  BY <1>2, ConsoleOpen
<1>3. ASSUME NEW v \in Values, Console!Type(v) \/ Console!EnableShell(v) PROVE ConsoleInv'
  BY <1>3, ConsoleType, ConsoleEnableShell
<1>4. CASE Console!SaveBoot \/ Console!SaveVariable \/ Console!ReadFirst \/ Console!Apply
  BY <1>4, ConsoleSaveBoot, ConsoleSaveVariable, ConsoleReadFirst, ConsoleApply
<1>5. CASE Console!Press \/ Console!Confirm \/ Console!Close \/ Console!Serve \/ Console!Refuse \/ Console!Answered
  BY <1>5, ConsolePress, ConsoleConfirm, ConsoleClose, ConsoleServe, ConsoleRefuse, ConsoleAnswered
<1>6. CASE Console!OpenForm \/ Console!ToToml \/ Console!ToGuided \/ Console!SubmitForm \/ Console!ServeForm
             \/ Console!CancelForm
  BY <1>6, ConsoleOpenForm, ConsoleToToml, ConsoleToGuided, ConsoleSubmitForm, ConsoleServeForm,
    ConsoleCancelForm
<1>7. ASSUME NEW s \in Console!InFields, NEW v \in Values, Console!EditField(s, v) PROVE ConsoleInv'
  BY <1>7, ConsoleEditField
<1>8. ASSUME NEW k \in Console!InDialog, NEW v \in Values, Console!EditSection(k, v) PROVE ConsoleInv'
  BY <1>8, ConsoleEditSection
<1>9. ASSUME NEW text \in Console!Specs \cup {Broken}, Console!EditToml(text) PROVE ConsoleInv'
  BY <1>9, ConsoleEditToml
<1> QED BY <1>1, <1>2, <1>3, <1>4, <1>5, <1>6, <1>7, <1>8, <1>9 DEF Console!Next

-----------------------------------------------------------------------------
(* Images from registries: OciRegistry *)

(* What has been got by the time that step is waited for. *)
PullGotFits ==
  /\ step = Pulling!Index => got = <<>>
  /\ step = Pulling!Pinned => got = <<>> \/ got = <<<<image, Pulling!Index>>>>
  /\ step >= Pulling!Config =>
       \E m \in {1, 2} :
         /\ Len(got) = m + (step - Pulling!Config)
         /\ \A k \in DOMAIN got : got[k] = <<image, IF k < m THEN Pulling!Index ELSE Pulling!Pinned + k - m>>
  /\ req # None => Pulling!Active /\ step <= Pulling!Config + Budget
  /\ step > Pulling!Index => image # None

PullInv == Pulling!TypeOK /\ Pulling!SecretsStay /\ Pulling!OneImage /\ PullGotFits
USE DEF Pulling!Index, Pulling!Pinned, Pulling!Config, Pulling!Ready, Pulling!Failed, Pulling!Secrets

LEMMA PullInit == ASSUME Pulling!RegistryConstants, Pulling!Init PROVE PullInv
BY DEF Pulling!Init, PullInv, Pulling!TypeOK, Pulling!SecretsStay, Pulling!OneImage, PullGotFits,
  Pulling!RegistryConstants, Pulling!Options

(* A failure takes no part and gives nothing away. *)
LEMMA PullFails ==
  ASSUME Pulling!RegistryConstants, PullInv, Pulling!Fails, tag' = tag, sent' \subseteq Pulling!Secrets \X Hosts,
         Pulling!SecretsStay'
  PROVE  PullInv'
BY DEF Pulling!Fails, PullInv, Pulling!TypeOK, Pulling!OneImage, PullGotFits, Pulling!RegistryConstants

(* A request or an answer to it gives away what SecretsStay allows. *)
LEMMA PullRequests ==
  ASSUME Pulling!RegistryConstants, PullInv, NEW r \in Pulling!Request, req' = r,
         auth' \in Pulling!Secrets \cup {None},
         sent' \subseteq Pulling!Secrets \X Hosts, Pulling!SecretsStay', Pulling!Active,
         step <= Pulling!Config + Budget,
         UNCHANGED <<options, tag, image, step, got>>
  PROVE  PullInv'
BY DEF Pulling!Active, PullInv, Pulling!TypeOK, Pulling!OneImage, PullGotFits, Pulling!RegistryConstants

LEMMA PullSending ==
  ASSUME Pulling!RegistryConstants, PullInv, NEW r \in Pulling!Request, Pulling!Sends(r), UNCHANGED options
  PROVE  sent' \subseteq Pulling!Secrets \X Hosts /\ Pulling!SecretsStay'
BY DEF Pulling!Sends, Pulling!IsAuthenticated, PullInv, Pulling!TypeOK, Pulling!SecretsStay,
  Pulling!RegistryConstants, Pulling!Request

LEMMA PullGet == ASSUME Pulling!RegistryConstants, PullInv, Pulling!Get PROVE PullInv'
<1> DEFINE r == [host |-> Registry, hops |-> 0, retried |-> FALSE]
<1>1. r \in Pulling!Request
  BY DEF Pulling!Request, Pulling!RegistryConstants
<1>2. CASE step > Pulling!Config + Budget
  BY <1>2, PullFails DEF Pulling!Get, Pulling!Fails, PullInv, Pulling!TypeOK, Pulling!SecretsStay
<1>3. CASE ~(step > Pulling!Config + Budget)
  <2>1. Pulling!Sends(r) /\ Pulling!Active /\ UNCHANGED <<options, tag, auth, image, step, got>>
    BY <1>3 DEF Pulling!Get
  <2>2. step <= Pulling!Config + Budget
    BY <1>3 DEF PullInv, Pulling!TypeOK, Pulling!RegistryConstants
  <2> HIDE DEF r
  <2>3. sent' \subseteq Pulling!Secrets \X Hosts /\ Pulling!SecretsStay'
    BY <1>1, <2>1, PullSending
  <2>4. req' = r /\ auth' \in Pulling!Secrets \cup {None}
    BY <2>1 DEF Pulling!Sends, PullInv, Pulling!TypeOK
  <2> QED BY <1>1, <2>1, <2>2, <2>3, <2>4, PullRequests
<1> QED BY <1>2, <1>3

LEMMA PullBearer ==
  ASSUME Pulling!RegistryConstants, PullInv, NEW realm \in Hosts, Pulling!BearerChallenge(realm)
  PROVE  PullInv'
<1> DEFINE login == IF options.cred = "basic" THEN {<<"basic", realm>>} ELSE {}
           r == [req EXCEPT !.retried = TRUE]
<1>1. r \in Pulling!Request
  BY DEF Pulling!BearerChallenge, Pulling!Challengeable, PullInv, Pulling!TypeOK, Pulling!Request
<1>2. Pulling!IsTrusted(realm) => /\ sent \cup login \subseteq Pulling!Secrets \X Hosts
                          /\ \A s \in sent \cup login : s[2] = Registry \/ (s[1] = "basic" /\ s[2] = options.realm)
  BY DEF Pulling!IsTrusted, PullInv, Pulling!TypeOK, Pulling!SecretsStay
<1>3. CASE Pulling!Fails /\ UNCHANGED sent
  BY <1>3, PullFails DEF Pulling!Fails, PullInv, Pulling!TypeOK, Pulling!SecretsStay
<1>4. CASE Pulling!Fails /\ Pulling!IsTrusted(realm) /\ sent' = sent \cup login
  BY <1>2, <1>4, PullFails DEF Pulling!Fails, Pulling!SecretsStay
<1>5. CASE /\ Pulling!IsTrusted(realm) /\ auth' = "token" /\ req' = r
           /\ sent' = sent \cup login \cup {<<"token", Registry>>}
           /\ UNCHANGED <<options, tag, image, step, got>>
  <2>1. sent' \subseteq Pulling!Secrets \X Hosts
    BY <1>2, <1>5 DEF Pulling!RegistryConstants
  <2>2. Pulling!SecretsStay'
    BY <1>2, <1>5 DEF Pulling!SecretsStay
  <2>3. Pulling!Active /\ step <= Pulling!Config + Budget
    BY DEF Pulling!BearerChallenge, Pulling!Challengeable, PullInv, PullGotFits
  <2> QED BY <1>1, <1>5, <2>1, <2>2, <2>3, PullRequests
<1> QED BY <1>3, <1>4, <1>5 DEF Pulling!BearerChallenge

LEMMA PullBasic == ASSUME Pulling!RegistryConstants, PullInv, Pulling!BasicChallenge PROVE PullInv'
<1> DEFINE r == [req EXCEPT !.retried = TRUE]
<1>1. r \in Pulling!Request
  BY DEF Pulling!BasicChallenge, Pulling!Challengeable, PullInv, Pulling!TypeOK, Pulling!Request
<1>2. CASE Pulling!Fails /\ UNCHANGED sent
  BY <1>2, PullFails DEF Pulling!Fails, PullInv, Pulling!TypeOK, Pulling!SecretsStay
<1>3. CASE /\ auth' = "basic" /\ req' = r
           /\ sent' = sent \cup {<<"basic", Registry>>}
           /\ UNCHANGED <<options, tag, image, step, got>>
  <2>1. sent' \subseteq Pulling!Secrets \X Hosts
    BY <1>3 DEF Pulling!RegistryConstants, PullInv, Pulling!TypeOK
  <2>2. Pulling!SecretsStay'
    BY <1>3 DEF Pulling!SecretsStay, PullInv
  <2>3. Pulling!Active /\ step <= Pulling!Config + Budget
    BY DEF Pulling!BasicChallenge, Pulling!Challengeable, PullInv, PullGotFits
  <2> QED BY <1>1, <1>3, <2>1, <2>2, <2>3, PullRequests
<1> QED BY <1>2, <1>3 DEF Pulling!BasicChallenge

LEMMA PullRedirect ==
  ASSUME Pulling!RegistryConstants, PullInv, NEW host \in Hosts, Pulling!Redirect(host)
  PROVE  PullInv'
<1> DEFINE r == [req EXCEPT !.host = host, !.hops = @ + 1]
<1>2. CASE Pulling!Fails /\ UNCHANGED sent
  BY <1>2, PullFails DEF Pulling!Fails, PullInv, Pulling!TypeOK, Pulling!SecretsStay
<1>3. CASE /\ Pulling!Sends(r) /\ req.hops # MaxHops
           /\ UNCHANGED <<options, tag, auth, image, step, got>>
  <2>1. req \in Pulling!Request
    BY DEF Pulling!Redirect, PullInv, Pulling!TypeOK
  <2>2. req.hops + 1 \in 0..MaxHops
    BY <2>1, <1>3 DEF Pulling!Request, Pulling!RegistryConstants
  <2>3. r \in Pulling!Request
    BY <2>1, <2>2 DEF Pulling!Request
  <2> HIDE DEF r
  <2>4. sent' \subseteq Pulling!Secrets \X Hosts /\ Pulling!SecretsStay'
    BY <1>3, <2>3, PullSending
  <2>5. req' = r /\ auth' \in Pulling!Secrets \cup {None} /\ Pulling!Active /\ step <= Pulling!Config + Budget
    BY <1>3 DEF Pulling!Redirect, Pulling!Sends, PullInv, Pulling!TypeOK, PullGotFits
  <2> QED BY <1>3, <2>3, <2>4, <2>5, PullRequests
<1> QED BY <1>2, <1>3 DEF Pulling!Redirect

LEMMA PullRefused == ASSUME Pulling!RegistryConstants, PullInv, Pulling!Refused PROVE PullInv'
BY PullFails DEF Pulling!Refused, Pulling!Fails, PullInv, Pulling!TypeOK, Pulling!SecretsStay

(* A document that is got. *)
LEMMA PullAppended ==
  ASSUME Pulling!RegistryConstants, PullInv, NEW d \in Pulling!Document, NEW s \in Pulling!Pinned..Pulling!Ready,
         got' = Append(got, d), step' = s,
         req' = None, image' \in Images, UNCHANGED <<options, tag, auth, sent>>,
         Pulling!OneImage', PullGotFits', s = Pulling!Ready => Layers <= Budget
  PROVE  PullInv'
BY DEF PullInv, Pulling!TypeOK, Pulling!SecretsStay, Pulling!RegistryConstants, Pulling!Document

LEMMA PullResolved ==
  ASSUME Pulling!RegistryConstants, PullInv, NEW d \in Pulling!Document, NEW a \in Pulling!Document \cup {None},
         Pulling!Resolved(d, a)
  PROVE  PullInv'
<1>1. CASE Pulling!Fails /\ UNCHANGED sent
  BY <1>1, PullFails DEF Pulling!Resolved, Pulling!Fails, PullInv, Pulling!TypeOK, Pulling!SecretsStay
<1>2. CASE /\ image' = d[1] /\ step' = d[2] + 1 /\ got' = Append(got, d) /\ req' = None
           /\ UNCHANGED <<options, tag, auth, sent>>
  <2>1. /\ got = <<>> /\ d[1] = tag /\ d[2] \in {Pulling!Index, Pulling!Pinned} /\ d = <<d[1], d[2]>>
        /\ tag \in Images
    BY DEF Pulling!Resolved, PullInv, PullGotFits, Pulling!TypeOK
  <2>2. got' = <<d>> /\ Len(got') = 1 /\ DOMAIN got' = {1} /\ got'[1] = d
    BY <1>2, <2>1
  <2>3. Pulling!OneImage' /\ PullGotFits'
    BY <1>2, <2>1, <2>2 DEF Pulling!OneImage, PullGotFits, Pulling!Active, Pulling!RegistryConstants
  <2> QED BY <1>2, <2>1, <2>3, PullAppended DEF Pulling!RegistryConstants
<1> QED BY <1>1, <1>2 DEF Pulling!Resolved, Pulling!Gives

LEMMA PullManifest ==
  ASSUME Pulling!RegistryConstants, PullInv, NEW d \in Pulling!Document, Pulling!Manifest(d)
  PROVE  PullInv'
<1> USE DEF Pulling!Manifest
<1>1. CASE Pulling!Fails /\ UNCHANGED sent
  BY <1>1, PullFails DEF Pulling!Fails, PullInv, Pulling!TypeOK, Pulling!SecretsStay
<1>2. CASE /\ got = <<>> /\ d = <<image, Pulling!Index>> /\ step' = Pulling!Pinned /\ got' = Append(got, d)
           /\ req' = None
           /\ UNCHANGED <<options, tag, auth, sent, image>>
  <2>2. got' = <<d>> /\ Len(got') = 1 /\ DOMAIN got' = {1} /\ got'[1] = d
    BY <1>2
  <2>3. Pulling!OneImage' /\ PullGotFits'
    BY <1>2, <2>2 DEF Pulling!OneImage, PullGotFits, Pulling!RegistryConstants, PullInv
  <2>4. image \in Images
    BY DEF PullInv, Pulling!TypeOK, PullGotFits
  <2> QED BY <1>2, <2>3, <2>4, PullAppended DEF Pulling!RegistryConstants
<1>3. CASE d = <<image, Pulling!Pinned>> /\ step' = Pulling!Config /\ got' = Append(got, d) /\ req' = None
           /\ UNCHANGED <<options, tag, auth, sent, image>>
  <2>1. PICK m \in {1, 2} : Len(got) = m - 1 /\ (m = 2 => got[1] = <<image, Pulling!Index>>)
    BY SMTT(30) DEF PullInv, PullGotFits
  <2>2. got \in Seq(Pulling!Document) /\ image \in Images
    BY DEF PullInv, Pulling!TypeOK, PullGotFits
  <2>3. /\ Len(got') = m
        /\ DOMAIN got' = 1..m
        /\ got'[m] = d
        /\ m = 2 => got'[1] = <<image, Pulling!Index>>
    BY <1>3, <2>1, <2>2
  <2>4. \A k \in DOMAIN got' : got'[k] = <<image, IF k < m THEN Pulling!Index ELSE Pulling!Pinned + k - m>>
    BY <1>3, <2>3
  <2>5. Pulling!OneImage' /\ PullGotFits'
    BY <1>3, <2>3, <2>4 DEF Pulling!OneImage, PullGotFits, Pulling!RegistryConstants, PullInv
  <2>6. Pulling!Config \in Pulling!Pinned..Pulling!Ready /\ Pulling!Config # Pulling!Ready
    BY DEF Pulling!RegistryConstants
  <2> HIDE DEF Pulling!Ready, Pulling!Pinned, Pulling!Config
  <2> QED BY <1>3, <2>2, <2>5, <2>6, PullAppended
<1> QED BY <1>1, <1>2, <1>3 DEF Pulling!Answer, Pulling!Verifies, Pulling!Gives

LEMMA PullBlob ==
  ASSUME Pulling!RegistryConstants, PullInv, NEW d \in Pulling!Document, Pulling!Blob(d)
  PROVE  PullInv'
<1>1. CASE Pulling!Fails /\ UNCHANGED sent
  BY <1>1, PullFails DEF Pulling!Blob, Pulling!Fails, PullInv, Pulling!TypeOK, Pulling!SecretsStay
<1>2. CASE d = <<image, step>> /\ step' = step + 1 /\ got' = Append(got, d) /\ req' = None
           /\ UNCHANGED <<options, tag, auth, sent, image>>
  <2>1. step \in Pulling!Config..(Pulling!Ready - 1) /\ step \in Nat /\ Layers \in Nat
    BY DEF Pulling!Blob, PullInv, Pulling!TypeOK, Pulling!RegistryConstants
  <2>2. PICK m \in {1, 2} :
         /\ Len(got) = m + (step - Pulling!Config)
         /\ \A k \in DOMAIN got : got[k] = <<image, IF k < m THEN Pulling!Index ELSE Pulling!Pinned + k - m>>
    BY <2>1 DEF PullInv, PullGotFits
  <2>3. got \in Seq(Pulling!Document)
    BY DEF PullInv, Pulling!TypeOK
  <2>4. /\ Len(got') = Len(got) + 1
        /\ DOMAIN got' = 1..(Len(got) + 1)
        /\ \A k \in 1..Len(got) : got'[k] = got[k]
        /\ got'[Len(got) + 1] = d
    BY <1>2, <2>3
  <2>5. \A k \in DOMAIN got' : got'[k] = <<image, IF k < m THEN Pulling!Index ELSE Pulling!Pinned + k - m>>
    BY <1>2, <2>1, <2>2, <2>3, <2>4
  <2>6. Len(got') = m + (step' - Pulling!Config)
    BY <1>2, <2>1, <2>2, <2>4
  <2>7. Pulling!OneImage'
    BY <1>2, <2>1, <2>5, <2>6 DEF Pulling!OneImage
  <2>8. PullGotFits'
    BY <1>2, <2>1, <2>5, <2>6 DEF PullGotFits, PullInv
  <2>9. image \in Images /\ step' \in Pulling!Pinned..Pulling!Ready
    BY <1>2, <2>1 DEF PullInv, Pulling!TypeOK, PullGotFits
  <2>10. step' = Pulling!Ready => Layers <= Budget
    BY <1>2, <2>1 DEF Pulling!Blob, PullInv, PullGotFits, Pulling!RegistryConstants
  <2> QED BY <1>2, <2>7, <2>8, <2>9, <2>10, PullAppended DEF Pulling!RegistryConstants
<1> QED BY <1>1, <1>2 DEF Pulling!Blob, Pulling!Answer, Pulling!Verifies, Pulling!Gives

LEMMA PullTagMoves ==
  ASSUME Pulling!RegistryConstants, PullInv, NEW i \in Images, Pulling!TagMoves(i)
  PROVE  PullInv'
BY DEF Pulling!TagMoves, PullInv, Pulling!TypeOK, Pulling!SecretsStay, Pulling!OneImage, PullGotFits,
  Pulling!Active

LEMMA PullStutter == ASSUME PullInv, UNCHANGED Pulling!vars PROVE PullInv'
BY DEF Pulling!vars, PullInv, Pulling!TypeOK, Pulling!SecretsStay, Pulling!OneImage, PullGotFits,
  Pulling!Active

(* Every step keeps it. *)
LEMMA PullNext == ASSUME Pulling!RegistryConstants, PullInv, Pulling!Next PROVE PullInv'
<1>1. CASE Pulling!Get \/ Pulling!BasicChallenge \/ Pulling!Refused
  BY <1>1, PullGet, PullBasic, PullRefused
<1>2. ASSUME NEW host \in Hosts, Pulling!BearerChallenge(host) \/ Pulling!Redirect(host) PROVE PullInv'
  BY <1>2, PullBearer, PullRedirect
<1>3. ASSUME NEW d \in Pulling!Document, Pulling!Manifest(d) \/ Pulling!Blob(d) PROVE PullInv'
  BY <1>3, PullManifest, PullBlob
<1>4. ASSUME NEW d \in Pulling!Document, NEW a \in Pulling!Document \cup {None}, Pulling!Resolved(d, a)
      PROVE PullInv'
  BY <1>4, PullResolved
<1>5. ASSUME NEW i \in Images, Pulling!TagMoves(i) PROVE PullInv'
  BY <1>5, PullTagMoves
<1> QED BY <1>1, <1>2, <1>3, <1>4, <1>5 DEF Pulling!Next

-----------------------------------------------------------------------------
(* Layers of images: OciLayers *)

(* What a tree is: every path lies in a directory, and only files have     *)
(* several names.                                                          *)
LayersNamed(p) == p \in Seq(Unpacking!Parts) /\ p # <<>> /\ Up \notin Unpacking!Range(p)
LayersIsDir(t, p) == p = <<>> \/ (p \in DOMAIN t /\ t[p].kind = "dir")
LayersIsNode(x, n) ==
  /\ x.kind \in {"dir", "file", "link"} /\ x.inode \in 1..n
  /\ x.kind = "link" => x.target.parts \in Seq(Unpacking!Parts)
LayersGood(t, n) ==
  /\ n \in Nat /\ n <= MaxNodes
  /\ IsFiniteSet(DOMAIN t) /\ Unpacking!Cardinality(DOMAIN t) <= n
  /\ \A p \in DOMAIN t : LayersNamed(p) /\ LayersIsNode(t[p], n) /\ LayersIsDir(t, Unpacking!Front(p))
  /\ \A p, q \in DOMAIN t : t[p].inode = t[q].inode /\ p # q => t[p].kind = "file" /\ t[q].kind = "file"

(* Finite sets and their sizes. *)
LEMMA LayersCountsAgree ==
  ASSUME NEW S
  PROVE  Unpacking!Cardinality(S) = Cardinality(S)
  BY Zenon DEF Unpacking!Cardinality, Cardinality

LEMMA LayersCounts ==
  /\ IsFiniteSet({}) /\ Unpacking!Cardinality({}) = 0
  /\ \A S : IsFiniteSet(S) => Unpacking!Cardinality(S) \in Nat
  /\ \A S, x : IsFiniteSet(S) =>
       /\ IsFiniteSet(S \cup {x})
       /\ Unpacking!Cardinality(S \cup {x}) = IF x \in S THEN Unpacking!Cardinality(S)
            ELSE Unpacking!Cardinality(S) + 1
  /\ \A S : \A T \in SUBSET S : IsFiniteSet(S) => IsFiniteSet(T)
       /\ Unpacking!Cardinality(T) <= Unpacking!Cardinality(S)
<1>1. IsFiniteSet({}) /\ Unpacking!Cardinality({}) = 0
  BY FS_EmptySet, LayersCountsAgree
<1>2. ASSUME NEW S, IsFiniteSet(S) PROVE Unpacking!Cardinality(S) \in Nat
  BY <1>2, FS_CardinalityType, LayersCountsAgree
<1>3. ASSUME NEW S, NEW x, IsFiniteSet(S)
      PROVE  /\ IsFiniteSet(S \cup {x})
             /\ Unpacking!Cardinality(S \cup {x}) = IF x \in S THEN Unpacking!Cardinality(S)
                  ELSE Unpacking!Cardinality(S) + 1
  BY <1>3, FS_AddElement, LayersCountsAgree
<1>4. ASSUME NEW S, NEW T \in SUBSET S, IsFiniteSet(S)
      PROVE IsFiniteSet(T) /\ Unpacking!Cardinality(T) <= Unpacking!Cardinality(S)
  BY <1>4, FS_Subset, LayersCountsAgree
<1> QED
  BY <1>1, <1>2, <1>3, <1>4

(* A path and the directory it lies in. *)
LEMMA LayersAppended ==
  ASSUME NEW p \in Seq(Unpacking!Parts), NEW x \in Unpacking!Parts
  PROVE  /\ Append(p, x) \in Seq(Unpacking!Parts) /\ Append(p, x) # <<>>
         /\ Unpacking!Front(Append(p, x)) = p /\ Unpacking!Last(Append(p, x)) = x
         /\ Unpacking!Range(Append(p, x)) = Unpacking!Range(p) \cup {x}
<1> DEFINE a == Append(p, x)
<1>1. /\ a \in Seq(Unpacking!Parts) /\ Len(a) = Len(p) + 1 /\ a # <<>> /\ a[Len(p) + 1] = x
      /\ \A i \in 1..Len(p) : a[i] = p[i]
  BY AppendProperties
<1>2. Unpacking!Front(a) = p
  <2>1. /\ Unpacking!Front(a) \in Seq(Unpacking!Parts) /\ Len(Unpacking!Front(a)) = Len(p)
        /\ \A i \in 1..Len(p) : Unpacking!Front(a)[i] = a[i]
    BY <1>1 DEF Unpacking!Front
  <2> QED BY <1>1, <2>1, SeqEqual
<1>3. Unpacking!Range(a) = Unpacking!Range(p) \cup {x}
  <2>1. DOMAIN a = 1..(Len(p) + 1) /\ DOMAIN p = 1..Len(p) /\ Len(p) \in Nat
    BY <1>1
  <2>2. Unpacking!Range(a) \subseteq Unpacking!Range(p) \cup {x}
    BY <1>1, <2>1 DEF Unpacking!Range
  <2>3. Unpacking!Range(p) \cup {x} \subseteq Unpacking!Range(a)
    BY <1>1, <2>1 DEF Unpacking!Range
  <2> QED BY <2>2, <2>3
<1>4. Unpacking!Last(a) = x
  BY <1>1 DEF Unpacking!Last
<1> QED
  BY <1>1, <1>2, <1>3, <1>4

LEMMA LayersParent ==
  ASSUME NEW p \in Seq(Unpacking!Parts), p # <<>>
  PROVE  /\ Unpacking!Front(p) \in Seq(Unpacking!Parts) /\ Unpacking!Last(p) \in Unpacking!Parts
         /\ Unpacking!Last(p) \in Unpacking!Range(p)
         /\ Append(Unpacking!Front(p), Unpacking!Last(p)) = p /\ Len(Unpacking!Front(p)) = Len(p) - 1
         /\ Unpacking!Range(Unpacking!Front(p)) \subseteq Unpacking!Range(p)
         /\ \A i \in 1..(Len(p) - 1) : Unpacking!Front(p)[i] = p[i]
<1>1. Len(p) \in Nat \ {0} /\ DOMAIN p = 1..Len(p)
  OBVIOUS
<1>2. /\ Unpacking!Front(p) \in Seq(Unpacking!Parts) /\ Len(Unpacking!Front(p)) = Len(p) - 1
      /\ \A i \in 1..(Len(p) - 1) : Unpacking!Front(p)[i] = p[i]
  BY <1>1 DEF Unpacking!Front
<1>3. Unpacking!Last(p) \in Unpacking!Parts /\ Unpacking!Last(p) \in Unpacking!Range(p)
  BY <1>1 DEF Unpacking!Last, Unpacking!Range
<1>4. Append(Unpacking!Front(p), Unpacking!Last(p)) = p
  <2> DEFINE a == Append(Unpacking!Front(p), Unpacking!Last(p))
  <2>1. /\ a \in Seq(Unpacking!Parts) /\ Len(a) = Len(p) /\ a[Len(p)] = p[Len(p)]
        /\ \A i \in 1..(Len(p) - 1) : a[i] = p[i]
    <3>1. Unpacking!Last(p) = p[Len(p)]
      BY DEF Unpacking!Last
    <3>2. /\ a \in Seq(Unpacking!Parts) /\ Len(a) = Len(Unpacking!Front(p)) + 1
          /\ a[Len(Unpacking!Front(p)) + 1] = Unpacking!Last(p)
          /\ \A i \in 1..Len(Unpacking!Front(p)) : a[i] = Unpacking!Front(p)[i]
      BY <1>2, <1>3, AppendProperties
    <3> HIDE DEF a
    <3> QED BY <1>1, <1>2, <3>1, <3>2, SMTT(30)
  <2> HIDE DEF a
  <2>2. \A i \in 1..Len(p) : a[i] = p[i]
    BY <1>1, <2>1
  <2> QED BY <2>1, <2>2, SeqEqual DEF a
<1>5. Unpacking!Range(Unpacking!Front(p)) \subseteq Unpacking!Range(p)
  BY <1>1, <1>2 DEF Unpacking!Range
<1> QED BY <1>2, <1>3, <1>4, <1>5

(* What lies under a path. *)
LEMMA LayersLying ==
  ASSUME NEW a \in Seq(Unpacking!Parts), NEW p \in Seq(Unpacking!Parts)
  PROVE  /\ Unpacking!IsPrefix(a, a)
         /\ Unpacking!IsPrefix(a, p) => Len(a) <= Len(p)
         /\ p # <<>> => (Unpacking!IsPrefix(a, p) <=> a = p \/ Unpacking!IsPrefix(a, Unpacking!Front(p)))
<1>1. Unpacking!IsPrefix(a, a) /\ (Unpacking!IsPrefix(a, p) => Len(a) <= Len(p))
  <2>1. Len(a) \in Nat
    BY LenProperties
  <2> QED BY <2>1 DEF Unpacking!IsPrefix
<1>2. \A q \in Seq(Unpacking!Parts) : Unpacking!IsPrefix(a, q) <=> Len(a) <= Len(q)
        /\ \A i \in 1..Len(a) : a[i] = q[i]
  <2> TAKE q \in Seq(Unpacking!Parts)
  <2>1. /\ SubSeq(a, 1, Len(a)) \in Seq(Unpacking!Parts) /\ Len(SubSeq(a, 1, Len(a))) = Len(a)
        /\ \A i \in 1..Len(a) : SubSeq(a, 1, Len(a))[i] = a[i]
    OBVIOUS
  <2>2. CASE Len(a) <= Len(q)
    <3>1. SubSeq(q, 1, Len(a)) \in Seq(Unpacking!Parts) /\ Len(SubSeq(q, 1, Len(a))) = Len(a)
          /\ \A i \in 1..Len(a) : SubSeq(q, 1, Len(a))[i] = q[i]
      BY <2>2
    <3>2. SubSeq(a, 1, Len(a)) = SubSeq(q, 1, Len(a)) <=> \A i \in 1..Len(a) : a[i] = q[i]
      BY <2>1, <3>1, SeqEqual
    <3> QED BY <2>2, <3>2 DEF Unpacking!IsPrefix
  <2>3. CASE ~(Len(a) <= Len(q))
    BY <2>3 DEF Unpacking!IsPrefix
  <2> QED BY <2>2, <2>3
<1>3. ASSUME p # <<>> PROVE Unpacking!IsPrefix(a, p) <=> a = p \/ Unpacking!IsPrefix(a, Unpacking!Front(p))
  <2>1. /\ Unpacking!Front(p) \in Seq(Unpacking!Parts) /\ Len(Unpacking!Front(p)) = Len(p) - 1 /\ Len(p) \in Nat \ {0}
        /\ Len(a) \in Nat
        /\ \A i \in 1..(Len(p) - 1) : Unpacking!Front(p)[i] = p[i]
    <3>1. Len(p) \in Nat \ {0} /\ Len(a) \in Nat
      BY <1>3
    <3>2. /\ Unpacking!Front(p) \in Seq(Unpacking!Parts) /\ Len(Unpacking!Front(p)) = Len(p) - 1
          /\ \A i \in 1..(Len(p) - 1) : Unpacking!Front(p)[i] = p[i]
      BY <1>3, LayersParent
    <3> QED BY <3>1, <3>2
  <2>2. CASE Len(a) < Len(p)
    <3>1. (\A i \in 1..Len(a) : a[i] = p[i]) <=> (\A i \in 1..Len(a) : a[i] = Unpacking!Front(p)[i])
      <4>1. \A i \in 1..Len(a) : i \in 1..(Len(p) - 1)
        BY <2>1, <2>2
      <4> QED BY <2>1, <4>1
    <3>2. Len(a) <= Len(p) /\ Len(a) <= Len(Unpacking!Front(p)) /\ a # p
      BY <2>1, <2>2
    <3>3. Unpacking!IsPrefix(a, p) <=> Unpacking!IsPrefix(a, Unpacking!Front(p))
      BY <1>2, <2>1, <3>1, <3>2, Zenon
    <3> QED BY <3>2, <3>3
  <2>3. CASE Len(a) = Len(p)
    <3>1. Unpacking!IsPrefix(a, p) <=> a = p
      BY <1>2, <2>3, SeqEqual
    <3>2. ~Unpacking!IsPrefix(a, Unpacking!Front(p))
      BY <1>2, <2>1, <2>3
    <3> QED BY <3>1, <3>2
  <2>4. CASE Len(a) > Len(p)
    BY <1>2, <2>1, <2>4
  <2> QED BY <2>1, <2>2, <2>3, <2>4
<1> QED
  BY <1>1, <1>3

(* What is below a path is no directory of it. *)
LEMMA LayersNotBelow ==
  ASSUME NEW p \in Seq(Unpacking!Parts), p # <<>>
  PROVE  ~Unpacking!IsPrefix(p, Unpacking!Front(p))
<1>1. Unpacking!Front(p) \in Seq(Unpacking!Parts) /\ Len(Unpacking!Front(p)) = Len(p) - 1 /\ Len(p) \in Nat
  BY LayersParent
<1>2. Unpacking!IsPrefix(p, Unpacking!Front(p)) => Len(p) <= Len(Unpacking!Front(p))
  BY <1>1, LayersLying
<1> QED BY <1>1, <1>2

(* A tree stays good if whole subtrees are taken out of it. *)
LEMMA LayersPruned ==
  ASSUME NEW t, NEW n, LayersGood(t, n), NEW S, \A p \in DOMAIN t : p # <<>> /\ Unpacking!Front(p) \in S => p \in S
  PROVE  LayersGood(Unpacking!Drop(t, S), n)
<1> DEFINE d == Unpacking!Drop(t, S)
<1>1. DOMAIN d = DOMAIN t \ S /\ \A p \in DOMAIN d : d[p] = t[p]
  BY DEF Unpacking!Drop
<1> HIDE DEF d
<1>2. IsFiniteSet(DOMAIN d) /\ Unpacking!Cardinality(DOMAIN d) <= Unpacking!Cardinality(DOMAIN t)
  BY <1>1, LayersCounts DEF LayersGood
<1>3. Unpacking!Cardinality(DOMAIN d) <= n
  BY <1>1, <1>2, LayersCounts DEF LayersGood
<1>4. ASSUME NEW p \in DOMAIN d PROVE LayersNamed(p) /\ LayersIsNode(d[p], n) /\ LayersIsDir(d, Unpacking!Front(p))
  <2>1. p \in DOMAIN t /\ p \notin S /\ d[p] = t[p]
    BY <1>1
  <2>2. LayersNamed(p) /\ LayersIsNode(t[p], n) /\ LayersIsDir(t, Unpacking!Front(p))
    BY <2>1 DEF LayersGood
  <2>3. p # <<>>
    BY <2>2 DEF LayersNamed
  <2> QED BY <1>1, <2>1, <2>2, <2>3 DEF LayersIsDir
<1>5. \A p, q \in DOMAIN d : d[p].inode = d[q].inode /\ p # q => d[p].kind = "file" /\ d[q].kind = "file"
  BY <1>1, Zenon DEF LayersGood
<1> QED BY <1>2, <1>3, <1>4, <1>5 DEF LayersGood, d

(* It stays good with one node more: a new one, or one more name of a file. *)
LayersFits(t, n, p, x) ==
  /\ LayersGood(t, n) /\ n < MaxNodes /\ MaxNodes \in Nat
  /\ p \notin DOMAIN t /\ LayersNamed(p) /\ LayersIsDir(t, Unpacking!Front(p))
  /\ LayersIsNode(x, n + 1)
  /\ \/ x.inode = n + 1
     \/ x.kind = "file" /\ \E q \in DOMAIN t : x = t[q]

LayersGrows(t, n, p, x) ==
  /\ LayersGood(Unpacking!With(t, p, x), n + 1)
  /\ DOMAIN Unpacking!With(t, p, x) = DOMAIN t \cup {p}
  /\ Unpacking!With(t, p, x)[p] = x /\ \A q \in DOMAIN t : Unpacking!With(t, p, x)[q] = t[q]

LEMMA LayersPlanted ==
  ASSUME NEW t, NEW n, NEW p, NEW x, LayersFits(t, n, p, x)
  PROVE  LayersGrows(t, n, p, x)
<1>0. /\ LayersGood(t, n) /\ n < MaxNodes /\ MaxNodes \in Nat
      /\ p \notin DOMAIN t /\ LayersNamed(p) /\ LayersIsDir(t, Unpacking!Front(p)) /\ LayersIsNode(x, n + 1)
      /\ (x.inode = n + 1 \/ (x.kind = "file" /\ \E q \in DOMAIN t : x = t[q]))
  BY Zenon DEF LayersFits
<1> DEFINE w == Unpacking!With(t, p, x)
<1>1. DOMAIN w = DOMAIN t \cup {p} /\ w[p] = x /\ \A q \in DOMAIN t : w[q] = t[q]
  BY <1>0 DEF Unpacking!With
<1> HIDE DEF w
<1>2. IsFiniteSet(DOMAIN w) /\ Unpacking!Cardinality(DOMAIN w) = Unpacking!Cardinality(DOMAIN t) + 1
  BY <1>0, <1>1, LayersCounts DEF LayersGood
<1>3. Unpacking!Cardinality(DOMAIN w) <= n + 1 /\ n + 1 \in Nat /\ n + 1 <= MaxNodes
  BY <1>0, <1>2, LayersCounts DEF LayersGood
<1>4. ASSUME NEW q \in DOMAIN w
      PROVE LayersNamed(q) /\ LayersIsNode(w[q], n + 1) /\ LayersIsDir(w, Unpacking!Front(q))
  <2>1. CASE q = p
    BY <1>0, <1>1, <2>1 DEF LayersIsDir
  <2>2. CASE q \in DOMAIN t
    <3>1. LayersNamed(q) /\ LayersIsNode(t[q], n) /\ LayersIsDir(t, Unpacking!Front(q)) /\ n \in Nat
      BY <1>0, <2>2 DEF LayersGood
    <3>2. LayersIsNode(t[q], n + 1)
      BY <3>1 DEF LayersIsNode
    <3> QED BY <1>1, <2>2, <3>1, <3>2 DEF LayersIsDir
  <2> QED BY <1>1, <2>1, <2>2
<1>5. ASSUME NEW q \in DOMAIN w, NEW r \in DOMAIN w, w[q].inode = w[r].inode, q # r
      PROVE  w[q].kind = "file" /\ w[r].kind = "file"
  <2>1. \A s \in DOMAIN t : t[s].inode \in 1..n
    BY <1>0 DEF LayersGood, LayersIsNode
  <2>2. \A s \in DOMAIN t : t[s].inode # n + 1
    BY <1>0, <2>1 DEF LayersGood
  <2>3. \A s, u \in DOMAIN t : t[s].inode = t[u].inode /\ s # u => t[s].kind = "file" /\ t[u].kind = "file"
    BY <1>0 DEF LayersGood
  <2>4. CASE q \in DOMAIN t /\ r \in DOMAIN t
    BY <1>1, <1>5, <2>3, <2>4, Zenon
  <2>5. ASSUME NEW s \in DOMAIN t, t[s].inode = x.inode PROVE t[s].kind = "file" /\ x.kind = "file"
    <3>1. PICK u \in DOMAIN t : x = t[u] /\ x.kind = "file"
      BY <1>0, <2>2, <2>5
    <3>2. CASE s = u
      BY <3>1, <3>2
    <3>3. CASE s # u
      BY <2>3, <2>5, <3>1, <3>3, Zenon
    <3> QED BY <3>2, <3>3
  <2>6. CASE q = p
    <3>1. r \in DOMAIN t
      BY <1>1, <1>5, <2>6
    <3> QED BY <1>1, <1>5, <2>5, <2>6, <3>1, Zenon
  <2>7. CASE r = p
    <3>1. q \in DOMAIN t
      BY <1>1, <1>5, <2>7
    <3> QED BY <1>1, <1>5, <2>5, <2>7, <3>1, Zenon
  <2> QED BY <1>1, <2>4, <2>6, <2>7
<1>6. LayersGood(w, n + 1)
  BY <1>2, <1>3, <1>4, <1>5, Zenon DEF LayersGood
<1> QED BY <1>1, <1>6, Zenon DEF w, LayersGrows


-----------------------------------------------------------------------------
(* A set of numbers that is not empty has a least element. *)
LEMMA LayersLeast ==
  ASSUME NEW S \in SUBSET Nat, S # {}
  PROVE  \E x \in S : \A y \in S : x <= y
<1>1. PICK x \in S : \A y \in S : ~(<<y, x>> \in OpToRel(<, Nat))
  BY NatLessThanWellFounded, WFMin, Zenon
<1>2. \A y \in S : ~(y < x)
  BY <1>1, Zenon DEF OpToRel
<1>3. \A y \in S : x <= y
  BY <1>2
<1> QED BY <1>3

(* The states of a walk are well defined: a prefix of them of any length    *)
(* exists and is unique.                                                    *)
LayersFirstSteps(w, n, g) == g = [k \in 0..n |-> IF k = 0 THEN w ELSE Unpacking!Step(g[k - 1])]

LEMMA LayersStepsAre ==
  ASSUME NEW w, NEW n \in Nat, NEW g, LayersFirstSteps(w, n, g)
  PROVE  /\ g[0] = w
         /\ \A k \in 0..n : k # 0 => k - 1 \in 0..n /\ g[k] = Unpacking!Step(g[k - 1])
<1>1. 0 \in 0..n /\ \A k \in 0..n : k # 0 => k - 1 \in 0..n
  OBVIOUS
<1>2. \A k \in 0..n : g[k] = IF k = 0 THEN w ELSE Unpacking!Step(g[k - 1])
  BY Zenon DEF LayersFirstSteps
<1> QED BY <1>1, <1>2, Zenon

LEMMA LayersStepsUnique ==
  ASSUME NEW w, NEW n \in Nat, NEW m \in Nat, NEW g, NEW h, LayersFirstSteps(w, n, g), LayersFirstSteps(w, m, h),
         NEW k \in Nat, k <= n, k <= m
  PROVE  g[k] = h[k]
<1> DEFINE Bad == {i \in Nat : i <= n /\ i <= m /\ g[i] # h[i]}
<1>1. SUFFICES Bad = {}
  OBVIOUS
<1>2. SUFFICES ASSUME Bad # {} PROVE FALSE
  OBVIOUS
<1>3. PICK i \in Bad : \A j \in Bad : i <= j
  BY <1>2, LayersLeast
<1>4. i \in Nat /\ i <= n /\ i <= m /\ g[i] # h[i] /\ i \in 0..n /\ i \in 0..m
  OBVIOUS
<1>5. i # 0
  BY <1>4, LayersStepsAre
<1>6. i - 1 \in Nat /\ i - 1 \notin Bad /\ i - 1 <= n /\ i - 1 <= m
  <2>1. i - 1 \in Nat /\ ~(i <= i - 1) /\ i - 1 <= n /\ i - 1 <= m
    BY <1>4, <1>5
  <2> QED BY <1>3, <2>1
<1>7. g[i - 1] = h[i - 1]
  BY <1>6
<1>8. g[i] = Unpacking!Step(g[i - 1]) /\ h[i] = Unpacking!Step(h[i - 1])
  BY <1>4, <1>5, LayersStepsAre
<1> QED BY <1>4, <1>7, <1>8, Zenon

LEMMA LayersStepsExist ==
  ASSUME NEW w, NEW n \in Nat
  PROVE  \E g : LayersFirstSteps(w, n, g)
<1> DEFINE Bad == {i \in Nat : ~\E g : LayersFirstSteps(w, i, g)}
<1>1. SUFFICES Bad = {}
  OBVIOUS
<1>2. SUFFICES ASSUME Bad # {} PROVE FALSE
  OBVIOUS
<1>3. PICK i \in Bad : \A j \in Bad : i <= j
  BY <1>2, LayersLeast
<1>4. i \in Nat /\ ~\E g : LayersFirstSteps(w, i, g)
  OBVIOUS
<1>5. CASE i = 0
  <2> DEFINE g == [k \in 0..0 |-> w]
  <2>1. \A k \in 0..0 : k = 0
    OBVIOUS
  <2>2. g = [k \in 0..0 |-> IF k = 0 THEN w ELSE Unpacking!Step(g[k - 1])]
    BY <2>1, Zenon
  <2>3. LayersFirstSteps(w, 0, g)
    BY <2>2, Zenon DEF LayersFirstSteps
  <2> QED BY <1>4, <1>5, <2>3, Zenon
<1>6. CASE i # 0
  <2>1. i - 1 \in Nat /\ ~(i <= i - 1)
    BY <1>4, <1>6
  <2>2. i - 1 \notin Bad
    BY <1>3, <2>1
  <2>3. PICK h : LayersFirstSteps(w, i - 1, h)
    BY <2>1, <2>2
  <2> DEFINE g == [k \in 0..i |-> IF k = 0 THEN w ELSE Unpacking!Step(h[k - 1])]
  <2>4. \A k \in 0..i : k # 0 => k - 1 \in 0..(i - 1) /\ k - 1 \in 0..i
    BY <1>4
  <2>5. \A k \in 0..(i - 1) : g[k] = h[k]
    <3>1. \A k \in 0..(i - 1) : k \in 0..i
      BY <1>4
    <3>2. \A k \in 0..(i - 1) : h[k] = IF k = 0 THEN w ELSE Unpacking!Step(h[k - 1])
      BY <2>3, Zenon DEF LayersFirstSteps
    <3> QED BY <3>1, <3>2, Zenon
  <2>6. \A k \in 0..i : k # 0 => Unpacking!Step(h[k - 1]) = Unpacking!Step(g[k - 1])
    <3> HIDE DEF g
    <3> QED BY <2>4, <2>5, Zenon
  <2>7. \A k \in 0..i : (IF k = 0 THEN w ELSE Unpacking!Step(h[k - 1])) = IF k = 0 THEN w
          ELSE Unpacking!Step(g[k - 1])
    <3> HIDE DEF g
    <3> QED BY <2>6, Zenon
  <2>8. g = [k \in 0..i |-> IF k = 0 THEN w ELSE Unpacking!Step(g[k - 1])]
    <3>1. g = [k \in 0..i |-> IF k = 0 THEN w ELSE Unpacking!Step(h[k - 1])]
      BY Zenon
    <3> HIDE DEF g
    <3> QED BY <2>7, <3>1, Zenon
  <2> HIDE DEF g
  <2>9. LayersFirstSteps(w, i, g)
    BY <2>8, Zenon DEF LayersFirstSteps
  <2> QED BY <1>4, <2>9, Zenon
<1> QED BY <1>5, <1>6

LEMMA LayersWalkedIs ==
  ASSUME NEW w
  PROVE  /\ Unpacking!Walked(w)[0] = w
         /\ \A k \in Nat : Unpacking!Walked(w)[k + 1] = Unpacking!Step(Unpacking!Walked(w)[k])
<1> DEFINE G(n) == CHOOSE g : LayersFirstSteps(w, n, g)
           f    == [k \in Nat |-> G(k)[k]]
           P(g) == g = [k \in Nat |-> IF k = 0 THEN w ELSE Unpacking!Step(g[k - 1])]
<1>1. \A n \in Nat : LayersFirstSteps(w, n, G(n))
  BY LayersStepsExist, Zenon
<1>2. ASSUME NEW k \in Nat PROVE f[k] = IF k = 0 THEN w ELSE Unpacking!Step(f[k - 1])
  <2>1. LayersFirstSteps(w, k, G(k)) /\ k \in 0..k
    BY <1>1
  <2>2. CASE k = 0
    <3>1. G(k)[0] = w
      <4> HIDE DEF G
      <4> QED BY <2>1, LayersStepsAre
    <3> QED BY <2>2, <3>1, Zenon
  <2>3. CASE k # 0
    <3>1. k - 1 \in Nat /\ k - 1 <= k /\ k - 1 <= k - 1
      BY <2>3
    <3>2. LayersFirstSteps(w, k - 1, G(k - 1))
      BY <1>1, <3>1, Zenon
    <3> HIDE DEF G
    <3>3. G(k)[k] = Unpacking!Step(G(k)[k - 1])
      BY <2>1, <2>3, LayersStepsAre
    <3>4. G(k)[k - 1] = G(k - 1)[k - 1]
      BY <2>1, <3>1, <3>2, LayersStepsUnique
    <3>5. f[k] = G(k)[k] /\ f[k - 1] = G(k - 1)[k - 1]
      BY <3>1, Zenon
    <3> QED BY <2>3, <3>3, <3>4, <3>5, Zenon
  <2> QED BY <2>2, <2>3
<1>3. P(f)
  <2>1. f = [k \in Nat |-> G(k)[k]]
    OBVIOUS
  <2> HIDE DEF f, G
  <2>2. \A k \in Nat : G(k)[k] = f[k]
    BY <2>1, Zenon
  <2>3. \A k \in Nat : G(k)[k] = IF k = 0 THEN w ELSE Unpacking!Step(f[k - 1])
    BY <1>2, <2>2, Zenon
  <2> QED BY <2>1, <2>3, Zenon
<1>4. Unpacking!Walked(w) = CHOOSE g : P(g)
  BY Zenon DEF Unpacking!Walked
<1>5. P(CHOOSE g : P(g))
  <2> HIDE DEF f
  <2> QED BY <1>3, Zenon
<1>6. Unpacking!Walked(w) = [k \in Nat |-> IF k = 0 THEN w ELSE Unpacking!Step(Unpacking!Walked(w)[k - 1])]
  BY <1>4, <1>5, Zenon
<1>7. \A k \in Nat : Unpacking!Walked(w)[k] = IF k = 0 THEN w ELSE Unpacking!Step(Unpacking!Walked(w)[k - 1])
  BY <1>6, Zenon
<1>8. 0 \in Nat /\ \A k \in Nat : k + 1 \in Nat /\ k + 1 # 0 /\ (k + 1) - 1 = k
  OBVIOUS
<1> QED BY <1>7, <1>8, Zenon


-----------------------------------------------------------------------------
(* What a walk keeps: it stands at a directory of a good tree, which it has *)
(* extended by directories, and only if it was asked to.                    *)
LayersShape(w) ==
  w = [todo |-> w.todo, at |-> w.at, followed |-> w.followed, create |-> w.create,
       tree |-> w.tree, nodes |-> w.nodes, is |-> w.is]
LayersGrown(t, u) ==
  /\ DOMAIN t \subseteq DOMAIN u
  /\ \A p \in DOMAIN t : u[p] = t[p]
  /\ \A p \in DOMAIN u \ DOMAIN t : u[p].kind = "dir"
LayersStanding(a, t) == a \in Seq(Unpacking!Parts) /\ Up \notin Unpacking!Range(a) /\ LayersIsDir(t, a)
LayersWalking(w, t, n, c) ==
  /\ LayersShape(w) /\ w.create = c
  /\ w.todo \in Seq(Unpacking!Parts)
  /\ LayersStanding(w.at, w.tree)
  /\ LayersGood(w.tree, w.nodes) /\ LayersGrown(t, w.tree)
  /\ ~c => w.tree = t /\ w.nodes = n

LEMMA LayersStepCases ==
  ASSUME NEW w, \A p \in DOMAIN w.tree : w.tree[p].kind # "none"
  PROVE  \/ Unpacking!Step(w) = w
         \/ \E how : Unpacking!Step(w) = [w EXCEPT !.is = how]
         \/ /\ w.todo # <<>> /\ w.at # <<>>
            /\ Unpacking!Step(w) = [w EXCEPT !.todo = Tail(w.todo), !.at = Unpacking!Front(w.at)]
         \/ /\ w.todo # <<>> /\ Head(w.todo) # Up /\ Append(w.at, Head(w.todo)) \in DOMAIN w.tree
            /\ w.tree[Append(w.at, Head(w.todo))].kind = "dir"
            /\ Unpacking!Step(w) = [w EXCEPT !.todo = Tail(w.todo), !.at = Append(w.at, Head(w.todo))]
         \/ /\ w.todo # <<>> /\ Append(w.at, Head(w.todo)) \in DOMAIN w.tree
            /\ w.tree[Append(w.at, Head(w.todo))].kind = "link"
            /\ \E f : \E a \in {<<>>, w.at} : Unpacking!Step(w) =
                 [w EXCEPT !.todo = w.tree[Append(w.at, Head(w.todo))].target.parts \o Tail(w.todo),
                           !.followed = f, !.at = a]
         \/ /\ w.todo # <<>> /\ Head(w.todo) # Up /\ Append(w.at, Head(w.todo)) \notin DOMAIN w.tree
            /\ w.create /\ w.nodes < MaxNodes
            /\ Unpacking!Step(w) = [w EXCEPT !.todo = Tail(w.todo), !.at = Append(w.at, Head(w.todo)),
                 !.nodes = w.nodes + 1,
                                   !.tree = Unpacking!With(w.tree, Append(w.at, Head(w.todo)),
                                     Unpacking!Node("dir", w.nodes + 1, <<>>))]
<1> DEFINE to       == Append(w.at, Head(w.todo))
           what     == IF to \in DOMAIN w.tree THEN w.tree[to].kind ELSE "none"
           target   == w.tree[to].target
           atEnd(h) == [w EXCEPT !.is = h]
           risen    == [w EXCEPT !.todo = Tail(w.todo), !.at = Unpacking!Front(w.at)]
           entered  == [w EXCEPT !.todo = Tail(w.todo), !.at = to]
           followed == [w EXCEPT !.todo = target.parts \o Tail(w.todo), !.followed = w.followed + 1,
                                 !.at = IF target.absolute THEN <<>> ELSE w.at]
           made     == [w EXCEPT !.todo = Tail(w.todo), !.at = to, !.nodes = w.nodes + 1,
                                 !.tree = Unpacking!With(w.tree, to, Unpacking!Node("dir", w.nodes + 1, <<>>))]
<1>1. Unpacking!Step(w) = IF w.is # "walking" THEN w
                ELSE IF w.todo = <<>> THEN atEnd("found")
                ELSE IF Head(w.todo) = Up THEN IF w.at = <<>> THEN atEnd("failed") ELSE risen
                ELSE IF what = "dir" THEN entered
                ELSE IF what = "link" /\ w.followed < MaxLinks THEN followed
                ELSE IF what = "none" /\ ~w.create THEN atEnd("missing")
                ELSE IF what = "none" /\ w.nodes < MaxNodes THEN made
                ELSE atEnd("failed")
  BY Zenon DEF Unpacking!Step
<1>2. what \in {"dir", "link"} => to \in DOMAIN w.tree /\ what = w.tree[to].kind
  BY Zenon
<1>3. what = "none" => to \notin DOMAIN w.tree
  BY Zenon
<1>4. \E f : \E a \in {<<>>, w.at} :
        followed = [w EXCEPT !.todo = target.parts \o Tail(w.todo), !.followed = f, !.at = a]
  <2>1. CASE target.absolute
    <3>1. followed = [w EXCEPT !.todo = target.parts \o Tail(w.todo), !.followed = w.followed + 1, !.at = <<>>]
      BY <2>1, Zenon
    <3> HIDE DEF followed, target
    <3> QED BY <3>1, Zenon
  <2>2. CASE ~target.absolute
    <3>1. followed = [w EXCEPT !.todo = target.parts \o Tail(w.todo), !.followed = w.followed + 1, !.at = w.at]
      BY <2>2, Zenon
    <3> HIDE DEF followed, target
    <3> QED BY <3>1, Zenon
  <2> QED BY <2>1, <2>2, Zenon
<1> HIDE DEF what, atEnd, risen, entered, followed, made
<1>5. \/ Unpacking!Step(w) = w
      \/ \E h : Unpacking!Step(w) = atEnd(h)
      \/ w.todo # <<>> /\ w.at # <<>> /\ Unpacking!Step(w) = risen
      \/ w.todo # <<>> /\ Head(w.todo) # Up /\ what = "dir" /\ Unpacking!Step(w) = entered
      \/ w.todo # <<>> /\ what = "link" /\ Unpacking!Step(w) = followed
      \/ w.todo # <<>> /\ Head(w.todo) # Up /\ what = "none" /\ w.create /\ w.nodes < MaxNodes
           /\ Unpacking!Step(w) = made
  BY <1>1, Zenon
<1>6. CASE Unpacking!Step(w) = w
  BY <1>6, Zenon
<1>7. CASE \E h : Unpacking!Step(w) = atEnd(h)
  BY <1>7, Zenon DEF atEnd
<1>8. CASE w.todo # <<>> /\ w.at # <<>> /\ Unpacking!Step(w) = risen
  BY <1>8, Zenon DEF risen
<1>9. CASE w.todo # <<>> /\ Head(w.todo) # Up /\ what = "dir" /\ Unpacking!Step(w) = entered
  BY <1>2, <1>9, Zenon DEF entered
<1>10. CASE w.todo # <<>> /\ what = "link" /\ Unpacking!Step(w) = followed
  BY <1>2, <1>4, <1>10, Zenon
<1>11. CASE /\ w.todo # <<>> /\ Head(w.todo) # Up /\ what = "none" /\ w.create /\ w.nodes < MaxNodes
            /\ Unpacking!Step(w) = made
  BY <1>3, <1>11, Zenon DEF made
<1> QED
  BY <1>5, <1>6, <1>7, <1>8, <1>9, <1>10, <1>11, Zenon

(* Updates of a walk, field by field. *)
LEMMA LayersUpdatedOnce ==
  ASSUME NEW w, LayersShape(w), NEW x
  PROVE  /\ [w EXCEPT !.is = x] =
              [todo |-> w.todo, at |-> w.at, followed |-> w.followed, create |-> w.create,
               tree |-> w.tree, nodes |-> w.nodes, is |-> x]
         /\ [w EXCEPT !.todo = x] =
              [todo |-> x, at |-> w.at, followed |-> w.followed, create |-> w.create,
               tree |-> w.tree, nodes |-> w.nodes, is |-> w.is]
         /\ [w EXCEPT !.at = x] =
              [todo |-> w.todo, at |-> x, followed |-> w.followed, create |-> w.create,
               tree |-> w.tree, nodes |-> w.nodes, is |-> w.is]
         /\ [w EXCEPT !.followed = x] =
              [todo |-> w.todo, at |-> w.at, followed |-> x, create |-> w.create,
               tree |-> w.tree, nodes |-> w.nodes, is |-> w.is]
         /\ [w EXCEPT !.nodes = x] =
              [todo |-> w.todo, at |-> w.at, followed |-> w.followed, create |-> w.create,
               tree |-> w.tree, nodes |-> x, is |-> w.is]
         /\ [w EXCEPT !.tree = x] =
              [todo |-> w.todo, at |-> w.at, followed |-> w.followed, create |-> w.create,
               tree |-> x, nodes |-> w.nodes, is |-> w.is]
<1>1. PICK d, a, f, c, t, n, i :
         w = [todo |-> d, at |-> a, followed |-> f, create |-> c, tree |-> t, nodes |-> n, is |-> i]
  BY Zenon DEF LayersShape
<1>2. [w EXCEPT !.is = x] =
              [todo |-> w.todo, at |-> w.at, followed |-> w.followed, create |-> w.create,
               tree |-> w.tree, nodes |-> w.nodes, is |-> x]
  BY <1>1
<1>3. [w EXCEPT !.todo = x] =
              [todo |-> x, at |-> w.at, followed |-> w.followed, create |-> w.create,
               tree |-> w.tree, nodes |-> w.nodes, is |-> w.is]
  BY <1>1
<1>4. [w EXCEPT !.at = x] =
              [todo |-> w.todo, at |-> x, followed |-> w.followed, create |-> w.create,
               tree |-> w.tree, nodes |-> w.nodes, is |-> w.is]
  BY <1>1
<1>5. [w EXCEPT !.followed = x] =
              [todo |-> w.todo, at |-> w.at, followed |-> x, create |-> w.create,
               tree |-> w.tree, nodes |-> w.nodes, is |-> w.is]
  BY <1>1
<1>6. [w EXCEPT !.nodes = x] =
              [todo |-> w.todo, at |-> w.at, followed |-> w.followed, create |-> w.create,
               tree |-> w.tree, nodes |-> x, is |-> w.is]
  BY <1>1
<1>7. [w EXCEPT !.tree = x] =
              [todo |-> w.todo, at |-> w.at, followed |-> w.followed, create |-> w.create,
               tree |-> x, nodes |-> w.nodes, is |-> w.is]
  BY <1>1
<1> QED
  BY <1>2, <1>3, <1>4, <1>5, <1>6, <1>7, Zenon

LEMMA LayersUpdatedTwice ==
  ASSUME NEW w, LayersShape(w), NEW x, NEW y
  PROVE  [w EXCEPT !.todo = x, !.at = y] =
              [todo |-> x, at |-> y, followed |-> w.followed, create |-> w.create,
               tree |-> w.tree, nodes |-> w.nodes, is |-> w.is]
<1> DEFINE w1 == [w EXCEPT !.todo = x]
           w2 == [w1 EXCEPT !.at = y]
<1>1. [w EXCEPT !.todo = x, !.at = y] = w2
  BY Zenon
<1>2. w1 = [todo |-> x, at |-> w.at, followed |-> w.followed, create |-> w.create,
               tree |-> w.tree, nodes |-> w.nodes, is |-> w.is]
  BY LayersUpdatedOnce
<1> HIDE DEF w1
<1>3. LayersShape(w1)
  BY <1>2 DEF LayersShape
<1>4. w2 = [todo |-> x, at |-> y, followed |-> w.followed, create |-> w.create,
               tree |-> w.tree, nodes |-> w.nodes, is |-> w.is]
  BY <1>2
<1> HIDE DEF w2
<1> QED
  BY <1>1, <1>4, Zenon

LEMMA LayersUpdatedThrice ==
  ASSUME NEW w, LayersShape(w), NEW x, NEW z, NEW y
  PROVE  [w EXCEPT !.todo = x, !.followed = z, !.at = y] =
              [todo |-> x, at |-> y, followed |-> z, create |-> w.create,
               tree |-> w.tree, nodes |-> w.nodes, is |-> w.is]
<1> DEFINE w1 == [w EXCEPT !.todo = x]
           w2 == [w1 EXCEPT !.followed = z]
           w3 == [w2 EXCEPT !.at = y]
<1>1. [w EXCEPT !.todo = x, !.followed = z, !.at = y] = w3
  BY Zenon
<1>2. w1 = [todo |-> x, at |-> w.at, followed |-> w.followed, create |-> w.create,
               tree |-> w.tree, nodes |-> w.nodes, is |-> w.is]
  BY LayersUpdatedOnce
<1> HIDE DEF w1
<1>3. LayersShape(w1)
  BY <1>2 DEF LayersShape
<1>4. w2 = [todo |-> x, at |-> w.at, followed |-> z, create |-> w.create,
               tree |-> w.tree, nodes |-> w.nodes, is |-> w.is]
  BY <1>2
<1> HIDE DEF w2
<1>5. LayersShape(w2)
  BY <1>4 DEF LayersShape
<1>6. w3 = [todo |-> x, at |-> y, followed |-> z, create |-> w.create,
               tree |-> w.tree, nodes |-> w.nodes, is |-> w.is]
  BY <1>4
<1> HIDE DEF w3
<1> QED
  BY <1>1, <1>6, Zenon

LayersCreated(w, x, y, z, u) == [w EXCEPT !.todo = x, !.at = y, !.nodes = z, !.tree = u]
LayersCreatedIs(w, x, y, z, u) ==
  LayersCreated(w, x, y, z, u) = [todo |-> x, at |-> y, followed |-> w.followed, create |-> w.create,
                            tree |-> u, nodes |-> z, is |-> w.is]

LEMMA LayersUpdatedAll ==
  ASSUME NEW w, LayersShape(w), NEW x, NEW y, NEW z, NEW u
  PROVE  LayersCreatedIs(w, x, y, z, u)
<1> DEFINE w1 == [w EXCEPT !.todo = x]
           w2 == [w1 EXCEPT !.at = y]
           w3 == [w2 EXCEPT !.nodes = z]
           w4 == [w3 EXCEPT !.tree = u]
<1>1. [w EXCEPT !.todo = x, !.at = y, !.nodes = z, !.tree = u] = w4
  BY Zenon
<1>2. w1 = [todo |-> x, at |-> w.at, followed |-> w.followed, create |-> w.create,
               tree |-> w.tree, nodes |-> w.nodes, is |-> w.is]
  BY LayersUpdatedOnce
<1> HIDE DEF w1
<1>3. LayersShape(w1)
  BY <1>2 DEF LayersShape
<1>4. w2 = [todo |-> x, at |-> y, followed |-> w.followed, create |-> w.create,
               tree |-> w.tree, nodes |-> w.nodes, is |-> w.is]
  BY <1>2
<1> HIDE DEF w2
<1>5. LayersShape(w2)
  BY <1>4 DEF LayersShape
<1>6. w3 = [todo |-> x, at |-> y, followed |-> w.followed, create |-> w.create,
               tree |-> w.tree, nodes |-> z, is |-> w.is]
  BY <1>4
<1> HIDE DEF w3
<1>7. LayersShape(w3)
  BY <1>6 DEF LayersShape
<1>8. w4 = [todo |-> x, at |-> y, followed |-> w.followed, create |-> w.create,
               tree |-> u, nodes |-> z, is |-> w.is]
  BY <1>6
<1> HIDE DEF w4
<1> QED
  BY <1>1, <1>8, Zenon DEF LayersCreated, LayersCreatedIs

LEMMA LayersStepKeeps ==
  ASSUME Unpacking!LayersConstants, NEW w, NEW t, NEW n, NEW c, LayersWalking(w, t, n, c)
  PROVE  LayersWalking(Unpacking!Step(w), t, n, c)
<1> DEFINE s    == Unpacking!Step(w)
           next == Append(w.at, Head(w.todo))
<1>1. /\ LayersShape(w) /\ w.create = c /\ w.todo \in Seq(Unpacking!Parts) /\ LayersStanding(w.at, w.tree)
      /\ LayersGood(w.tree, w.nodes) /\ LayersGrown(t, w.tree) /\ (~c => w.tree = t /\ w.nodes = n)
  BY Zenon DEF LayersWalking
<1>2. \A p \in DOMAIN w.tree : w.tree[p].kind # "none"
  BY <1>1 DEF LayersGood, LayersIsNode
<1>3. w.todo # <<>> => Head(w.todo) \in Unpacking!Parts /\ Tail(w.todo) \in Seq(Unpacking!Parts)
  BY <1>1, HeadTailProperties, Zenon
<1>4. CASE s = w
  BY <1>4, Zenon
<1>5. CASE \E how : s = [w EXCEPT !.is = how]
  <2>1. PICK how : s = [w EXCEPT !.is = how]
    BY <1>5
  <2>2. s = [todo |-> w.todo, at |-> w.at, followed |-> w.followed, create |-> w.create,
             tree |-> w.tree, nodes |-> w.nodes, is |-> how]
    BY <1>1, <2>1, LayersUpdatedOnce, Zenon
  <2> HIDE DEF s
  <2>3. /\ LayersShape(s) /\ s.create = w.create /\ s.todo = w.todo /\ s.at = w.at /\ s.tree = w.tree
        /\ s.nodes = w.nodes
    BY <2>2 DEF LayersShape
  <2> QED BY <1>1, <2>3, Zenon DEF LayersWalking, s
<1>6. ASSUME NEW d \in Seq(Unpacking!Parts), NEW a, s = [w EXCEPT !.todo = d, !.at = a], LayersStanding(a, w.tree)
      PROVE  LayersWalking(s, t, n, c)
  <2>1. s = [todo |-> d, at |-> a, followed |-> w.followed, create |-> w.create,
             tree |-> w.tree, nodes |-> w.nodes, is |-> w.is]
    BY <1>1, <1>6, LayersUpdatedTwice, Zenon
  <2> HIDE DEF s
  <2>2. LayersShape(s) /\ s.create = w.create /\ s.todo = d /\ s.at = a /\ s.tree = w.tree /\ s.nodes = w.nodes
    BY <2>1 DEF LayersShape
  <2> QED BY <1>1, <1>6, <2>2, Zenon DEF LayersWalking
<1>7. ASSUME w.todo # <<>>, w.at # <<>>, s = [w EXCEPT !.todo = Tail(w.todo), !.at = Unpacking!Front(w.at)]
      PROVE  LayersWalking(s, t, n, c)
  <2>1. w.at \in Seq(Unpacking!Parts) /\ Up \notin Unpacking!Range(w.at) /\ w.at \in DOMAIN w.tree
    BY <1>1, <1>7, Zenon DEF LayersStanding, LayersIsDir
  <2>2. /\ Unpacking!Front(w.at) \in Seq(Unpacking!Parts)
        /\ Unpacking!Range(Unpacking!Front(w.at)) \subseteq Unpacking!Range(w.at)
        /\ LayersIsDir(w.tree, Unpacking!Front(w.at))
    BY <1>1, <1>7, <2>1, LayersParent DEF LayersGood
  <2>3. LayersStanding(Unpacking!Front(w.at), w.tree)
    BY <2>1, <2>2 DEF LayersStanding
  <2> QED BY <1>3, <1>6, <1>7, <2>3, Zenon
<1>8. ASSUME w.todo # <<>>
      PROVE  /\ next \in Seq(Unpacking!Parts) /\ next # <<>> /\ Unpacking!Front(next) = w.at
             /\ Head(w.todo) # Up => Up \notin Unpacking!Range(next)
  <2>1. Head(w.todo) \in Unpacking!Parts /\ w.at \in Seq(Unpacking!Parts) /\ Up \notin Unpacking!Range(w.at)
    BY <1>1, <1>3, <1>8, Zenon DEF LayersStanding
  <2> QED BY <2>1, LayersAppended
<1>9. ASSUME w.todo # <<>>, Head(w.todo) # Up, next \in DOMAIN w.tree, w.tree[next].kind = "dir",
             s = [w EXCEPT !.todo = Tail(w.todo), !.at = next]
      PROVE  LayersWalking(s, t, n, c)
  <2>1. LayersStanding(next, w.tree)
    BY <1>8, <1>9, Zenon DEF LayersStanding, LayersIsDir
  <2> QED BY <1>3, <1>6, <1>9, <2>1, Zenon
<1>10. ASSUME w.todo # <<>>, next \in DOMAIN w.tree, w.tree[next].kind = "link",
              NEW f, NEW a \in {<<>>, w.at},
              s = [w EXCEPT !.todo = w.tree[next].target.parts \o Tail(w.todo), !.followed = f, !.at = a]
       PROVE  LayersWalking(s, t, n, c)
  <2> DEFINE d == w.tree[next].target.parts \o Tail(w.todo)
  <2>1. d \in Seq(Unpacking!Parts)
    <3>1. w.tree[next].target.parts \in Seq(Unpacking!Parts)
      BY <1>1, <1>10 DEF LayersGood, LayersIsNode
    <3> QED BY <1>3, <1>10, <3>1, ConcatProperties
  <2>2. LayersStanding(a, w.tree)
    <3>1. CASE a = w.at
      BY <1>1, <3>1, Zenon
    <3>2. CASE a = <<>>
      <4>1. <<>> \in Seq(Unpacking!Parts) /\ Unpacking!Range(<<>>) = {}
        BY DEF Unpacking!Range
      <4> QED BY <3>2, <4>1 DEF LayersStanding, LayersIsDir
    <3> QED BY <3>1, <3>2
  <2>3. s = [todo |-> d, at |-> a, followed |-> f, create |-> w.create,
             tree |-> w.tree, nodes |-> w.nodes, is |-> w.is]
    BY <1>1, <1>10, LayersUpdatedThrice, ZenonT(30)
  <2> HIDE DEF s, d
  <2>4. LayersShape(s) /\ s.create = w.create /\ s.todo = d /\ s.at = a /\ s.tree = w.tree /\ s.nodes = w.nodes
    BY <2>3 DEF LayersShape
  <2> QED BY <1>1, <2>1, <2>2, <2>4, Zenon DEF LayersWalking
<1>11. ASSUME w.todo # <<>>, Head(w.todo) # Up, next \notin DOMAIN w.tree, w.create, w.nodes < MaxNodes,
              s = [w EXCEPT !.todo = Tail(w.todo), !.at = next, !.nodes = w.nodes + 1,
                            !.tree = Unpacking!With(w.tree, next, Unpacking!Node("dir", w.nodes + 1, <<>>))]
       PROVE  LayersWalking(s, t, n, c)
  <2> DEFINE made == Unpacking!Node("dir", w.nodes + 1, <<>>)
             grown == Unpacking!With(w.tree, next, made)
  <2>1. LayersNamed(next) /\ LayersIsDir(w.tree, Unpacking!Front(next))
    <3>1. LayersIsDir(w.tree, w.at)
      BY <1>1, Zenon DEF LayersStanding
    <3> QED BY <1>8, <1>11, <3>1, Zenon DEF LayersNamed
  <2>2. made.inode = w.nodes + 1 /\ made.kind = "dir"
    BY DEF Unpacking!Node
  <2>3. LayersIsNode(made, w.nodes + 1)
    <3>1. w.nodes \in Nat
      BY <1>1 DEF LayersGood
    <3> HIDE DEF made
    <3> QED BY <2>2, <3>1 DEF LayersIsNode
  <2>4. MaxNodes \in Nat
    BY DEF Unpacking!LayersConstants
  <2>5. /\ LayersGood(grown, w.nodes + 1) /\ DOMAIN grown = DOMAIN w.tree \cup {next}
        /\ grown[next] = made /\ \A q \in DOMAIN w.tree : grown[q] = w.tree[q]
    <3> HIDE DEF made, next
    <3>1. made.inode = w.nodes + 1 \/ (made.kind = "file" /\ \E q \in DOMAIN w.tree : made = w.tree[q])
      BY <2>2
    <3>2. LayersFits(w.tree, w.nodes, next, made)
      BY <1>1, <1>11, <2>1, <2>3, <2>4, <3>1, Zenon DEF LayersFits, next
    <3>3. LayersGrows(w.tree, w.nodes, next, made)
      BY <3>2, LayersPlanted, Zenon
    <3> QED BY <3>3, Zenon DEF LayersGrows
  <2>10. s = [w EXCEPT !.todo = Tail(w.todo), !.at = next, !.nodes = w.nodes + 1, !.tree = grown]
    BY <1>11, Zenon
  <2> HIDE DEF grown, made, next
  <2>6. s = [todo |-> Tail(w.todo), at |-> next, followed |-> w.followed, create |-> w.create,
             tree |-> grown, nodes |-> w.nodes + 1, is |-> w.is]
    <3> HIDE DEF s
    <3>1. [w EXCEPT !.todo = Tail(w.todo), !.at = next, !.nodes = w.nodes + 1, !.tree = grown] =
            [todo |-> Tail(w.todo), at |-> next, followed |-> w.followed, create |-> w.create,
             tree |-> grown, nodes |-> w.nodes + 1, is |-> w.is]
      <4>1. LayersCreatedIs(w, Tail(w.todo), next, w.nodes + 1, grown)
        BY <1>1, LayersUpdatedAll, Zenon
      <4> QED BY <4>1, Zenon DEF LayersCreated, LayersCreatedIs
    <3> QED BY <2>10, <3>1, Zenon
  <2> HIDE DEF s
  <2>7. /\ LayersShape(s) /\ s.create = w.create /\ s.todo = Tail(w.todo) /\ s.at = next
        /\ s.tree = grown /\ s.nodes = w.nodes + 1
    BY <2>6 DEF LayersShape
  <2>8. LayersGrown(t, grown)
    BY <1>1, <2>2, <2>5 DEF LayersGrown
  <2>9. LayersStanding(next, grown)
    BY <1>8, <1>11, <2>2, <2>5 DEF LayersStanding, LayersIsDir
  <2> QED BY <1>1, <1>3, <1>11, <2>5, <2>7, <2>8, <2>9, Zenon DEF LayersWalking
<1>12. /\ w.todo # <<>> => Tail(w.todo) \in Seq(Unpacking!Parts)
  BY <1>3, Zenon
<1> QED
  BY <1>2, <1>4, <1>5, <1>7, <1>9, <1>10, <1>11, LayersStepCases, Zenon


LayersStart(path, c, t, n) ==
  [todo |-> path, at |-> <<>>, followed |-> 0, create |-> c, tree |-> t, nodes |-> n, is |-> "walking"]

(* A walk ends where a walk may stand, whatever links it followed. *)
LEMMA LayersWalks ==
  ASSUME Unpacking!LayersConstants, NEW t, NEW n, LayersGood(t, n), NEW path \in Seq(Unpacking!Parts), NEW c
  PROVE  LayersWalking(Unpacking!Walk(LayersStart(path, c, t, n)), t, n, c)
<1> DEFINE w    == LayersStart(path, c, t, n)
           W(k) == LayersWalking(Unpacking!Walked(w)[k], t, n, c)
           Bad  == {k \in Nat : ~W(k)}
<1>1. W(0)
  <2>1. LayersWalking(w, t, n, c)
    <3>1. /\ LayersShape(w) /\ w.create = c /\ w.todo = path /\ w.at = <<>> /\ w.tree = t /\ w.nodes = n
      BY DEF LayersShape, LayersStart
    <3>2. LayersStanding(<<>>, t)
      <4>1. <<>> \in Seq(Unpacking!Parts) /\ Unpacking!Range(<<>>) = {}
        BY DEF Unpacking!Range
      <4> QED BY <4>1 DEF LayersStanding, LayersIsDir
    <3>3. LayersGrown(t, t)
      BY DEF LayersGrown
    <3> HIDE DEF w
    <3> QED BY <3>1, <3>2, <3>3, Zenon DEF LayersWalking
  <2> HIDE DEF w
  <2> QED BY <2>1, LayersWalkedIs, Zenon
<1>2. \A k \in Nat : W(k) => W(k + 1)
  <2> HIDE DEF w
  <2> QED BY LayersWalkedIs, LayersStepKeeps, Zenon
<1> HIDE DEF W
<1>3. Bad = {}
  <2>1. SUFFICES ASSUME Bad # {} PROVE FALSE
    OBVIOUS
  <2>2. PICK k \in Bad : \A j \in Bad : k <= j
    BY <2>1, LayersLeast
  <2>3. k \in Nat /\ ~W(k)
    OBVIOUS
  <2>4. k # 0
    BY <1>1, <2>3
  <2>5. k - 1 \in Nat /\ k = (k - 1) + 1 /\ ~(k <= k - 1)
    BY <2>3, <2>4
  <2>6. W(k - 1)
    BY <2>2, <2>5
  <2> QED BY <1>2, <2>3, <2>5, <2>6, Zenon
<1>4. Len(w.todo) + MaxLinks * MaxParts + 1 \in Nat
  <2>1. w.todo = path
    BY DEF LayersStart
  <2>2. MaxLinks \in Nat /\ MaxParts \in Nat /\ Len(path) \in Nat
    BY LenProperties DEF Unpacking!LayersConstants
  <2>3. MaxLinks * MaxParts \in Nat
    BY <2>2
  <2> QED BY <2>1, <2>2, <2>3
<1> DEFINE last == Len(w.todo) + MaxLinks * MaxParts + 1
<1>5. W(last)
  <2> HIDE DEF last
  <2> QED BY <1>3, <1>4 DEF last
<1> QED BY <1>5, Zenon DEF Unpacking!Walk, W

(* Every prefix of a path to a directory is one. *)
LEMMA LayersAncestors ==
  ASSUME NEW t, NEW n, LayersGood(t, n), NEW q \in Seq(Unpacking!Parts), LayersIsDir(t, q), NEW k \in 0..Len(q)
  PROVE  LayersIsDir(t, SubSeq(q, 1, k))
<1> DEFINE L   == Len(q)
           U(j) == SubSeq(q, 1, L - j)
           Bad == {j \in Nat : j <= L /\ ~LayersIsDir(t, U(j))}
<1>1. L \in Nat
  BY LenProperties
<1> HIDE DEF L
<1>2. ASSUME NEW j \in Nat, j <= L
      PROVE  U(j) \in Seq(Unpacking!Parts) /\ Len(U(j)) = L - j /\ \A i \in 1..(L - j) : U(j)[i] = q[i]
  <2>1. \A i \in 1..(L - j) : q[i] \in Unpacking!Parts
    BY <1>1, <1>2 DEF L
  <2> QED BY <1>1, <1>2, <2>1, SubSeqProperties
<1>3. LayersIsDir(t, U(0))
  <2>1. L - 0 = L
    BY <1>1
  <2> QED BY <2>1, SubSeqFull DEF L
<1>4. ASSUME NEW j \in Nat, j + 1 <= L, LayersIsDir(t, U(j)) PROVE LayersIsDir(t, U(j + 1))
  <2>1. /\ j <= L /\ U(j) \in Seq(Unpacking!Parts) /\ Len(U(j)) = L - j /\ L - j # 0
        /\ \A i \in 1..(L - j) : U(j)[i] = q[i]
    BY <1>1, <1>2, <1>4
  <2>2. /\ U(j + 1) \in Seq(Unpacking!Parts) /\ Len(U(j + 1)) = (L - j) - 1
        /\ \A i \in 1..((L - j) - 1) : U(j + 1)[i] = q[i]
    <3>1. j + 1 \in Nat /\ L - (j + 1) = (L - j) - 1
      BY <1>1, <1>4
    <3> QED BY <1>2, <1>4, <3>1
  <2> HIDE DEF U
  <2>3. U(j) # <<>>
    BY <2>1
  <2>4. /\ Unpacking!Front(U(j)) \in Seq(Unpacking!Parts) /\ Len(Unpacking!Front(U(j))) = (L - j) - 1
        /\ \A i \in 1..((L - j) - 1) : Unpacking!Front(U(j))[i] = U(j)[i]
    BY <2>1, <2>3, LayersParent
  <2>5. Unpacking!Front(U(j)) = U(j + 1)
    <3>1. \A i \in 1..((L - j) - 1) : Unpacking!Front(U(j))[i] = U(j + 1)[i]
      <4>1. \A i \in 1..((L - j) - 1) : i \in 1..(L - j)
        BY <1>1, <1>4
      <4> QED BY <2>1, <2>2, <2>4, <4>1
    <3> QED BY <2>2, <2>4, <3>1, SeqEqual
  <2>6. U(j) \in DOMAIN t
    BY <1>4, <2>3 DEF LayersIsDir
  <2> QED BY <2>5, <2>6 DEF LayersGood
<1> HIDE DEF U
<1>5. Bad = {}
  <2>1. SUFFICES ASSUME Bad # {} PROVE FALSE
    OBVIOUS
  <2>2. PICK j \in Bad : \A i \in Bad : j <= i
    BY <2>1, LayersLeast
  <2>3. j \in Nat /\ j <= L /\ ~LayersIsDir(t, U(j))
    OBVIOUS
  <2>4. j # 0
    BY <1>3, <2>3
  <2>5. j - 1 \in Nat /\ (j - 1) + 1 = j /\ ~(j <= j - 1) /\ j - 1 <= L
    BY <1>1, <2>3, <2>4
  <2>6. LayersIsDir(t, U(j - 1))
    BY <2>2, <2>5
  <2> QED BY <1>4, <2>3, <2>5, <2>6
<1>6. L - k \in Nat /\ L - k <= L /\ L - (L - k) = k
  BY <1>1 DEF L
<1>7. LayersIsDir(t, U(L - k))
  BY <1>5, <1>6
<1> QED BY <1>6, <1>7, Zenon DEF U


(* A walk along directories, with nothing to follow or to make, takes one   *)
(* step for each of them.                                                   *)
LayersOn(d, a, c, t, n) ==
  [todo |-> d, at |-> a, followed |-> 0, create |-> c, tree |-> t, nodes |-> n, is |-> "walking"]
LayersThere(a, c, t, n) ==
  [todo |-> <<>>, at |-> a, followed |-> 0, create |-> c, tree |-> t, nodes |-> n, is |-> "found"]

LEMMA LayersStrides ==
  ASSUME NEW d, NEW a, NEW c, NEW t, NEW n, d # <<>>, Head(d) # Up,
         Append(a, Head(d)) \in DOMAIN t, t[Append(a, Head(d))].kind = "dir"
  PROVE  Unpacking!Step(LayersOn(d, a, c, t, n)) = LayersOn(Tail(d), Append(a, Head(d)), c, t, n)
<1> DEFINE w == LayersOn(d, a, c, t, n)
<1>1. w.todo = d /\ w.at = a /\ w.tree = t /\ w.is = "walking"
  BY DEF LayersOn
<1>2. Unpacking!Step(w) = [w EXCEPT !.todo = Tail(d), !.at = Append(a, Head(d))]
  <2> HIDE DEF w
  <2> QED BY <1>1 DEF Unpacking!Step
<1>3. [w EXCEPT !.todo = Tail(d), !.at = Append(a, Head(d))] = LayersOn(Tail(d), Append(a, Head(d)), c, t, n)
  <2>1. LayersShape(w) /\ w.followed = 0 /\ w.create = c /\ w.nodes = n
    BY DEF LayersOn, LayersShape
  <2> HIDE DEF w
  <2>2. [w EXCEPT !.todo = Tail(d), !.at = Append(a, Head(d))] =
          [todo |-> Tail(d), at |-> Append(a, Head(d)), followed |-> w.followed, create |-> w.create,
           tree |-> w.tree, nodes |-> w.nodes, is |-> w.is]
    BY <2>1, LayersUpdatedTwice, Zenon
  <2> QED BY <1>1, <2>1, <2>2, Zenon DEF LayersOn
<1> QED BY <1>2, <1>3, Zenon

LEMMA LayersArrives ==
  ASSUME NEW a, NEW c, NEW t, NEW n
  PROVE  /\ Unpacking!Step(LayersOn(<<>>, a, c, t, n)) = LayersThere(a, c, t, n)
         /\ Unpacking!Step(LayersThere(a, c, t, n)) = LayersThere(a, c, t, n)
<1> DEFINE w == LayersOn(<<>>, a, c, t, n)
<1>1. w.todo = <<>> /\ w.is = "walking"
  BY DEF LayersOn
<1>2. Unpacking!Step(w) = [w EXCEPT !.is = "found"]
  <2> HIDE DEF w
  <2> QED BY <1>1 DEF Unpacking!Step
<1>3. [w EXCEPT !.is = "found"] = LayersThere(a, c, t, n)
  BY DEF LayersOn, LayersThere
<1>4. LayersThere(a, c, t, n).is = "found"
  BY DEF LayersThere
<1>5. Unpacking!Step(LayersThere(a, c, t, n)) = LayersThere(a, c, t, n)
  BY <1>4 DEF Unpacking!Step
<1> QED BY <1>2, <1>3, <1>5, Zenon

LEMMA LayersStraight ==
  ASSUME Unpacking!LayersConstants, NEW t, NEW n, LayersGood(t, n), NEW q \in Seq(Unpacking!Parts),
         Up \notin Unpacking!Range(q), LayersIsDir(t, q), NEW c
  PROVE  Unpacking!Walk(LayersStart(q, c, t, n)) = LayersThere(q, c, t, n)
<1> DEFINE L    == Len(q)
           w    == LayersStart(q, c, t, n)
           X(k) == LayersOn(SubSeq(q, k + 1, L), SubSeq(q, 1, k), c, t, n)
           Bad  == {k \in Nat : k <= L /\ Unpacking!Walked(w)[k] # X(k)}
           Late == {k \in Nat : k > L /\ Unpacking!Walked(w)[k] # LayersThere(q, c, t, n)}
<1>1. L \in Nat
  BY LenProperties
<1>2. w = X(0)
  <2>1. SubSeq(q, 1, L) = q /\ SubSeq(q, 1, 0) = <<>>
    BY SubSeqFull, SubSeqEmpty
  <2>2. 0 + 1 = 1
    OBVIOUS
  <2> HIDE DEF L
  <2> QED BY <2>1, <2>2, Zenon DEF LayersStart, LayersOn
<1>3. ASSUME NEW k \in Nat, k + 1 <= L PROVE Unpacking!Step(X(k)) = X(k + 1)
  <2> DEFINE d == SubSeq(q, k + 1, L)
             a == SubSeq(q, 1, k)
  <2>1. k + 1 \in 1..L /\ k + 1 \in Nat /\ L \in (k + 1)..L /\ k + 1 \in 0..L /\ k \in 0..L
    BY <1>1, <1>3
  <2>2. Head(d) = q[k + 1] /\ Tail(d) = SubSeq(q, (k + 1) + 1, L)
    BY <2>1, HeadTailOfSubSeq
  <2>3. d # <<>>
    <3>1. \A i \in (k + 1)..L : q[i] \in Unpacking!Parts
      BY <1>1, <2>1
    <3>2. Len(d) = (L - (k + 1)) + 1 /\ d \in Seq(Unpacking!Parts)
      BY <1>1, <2>1, <3>1, SubSeqProperties
    <3> HIDE DEF d
    <3>3. Len(d) > 0
      BY <1>1, <2>1, <3>2
    <3> QED BY <3>2, <3>3
  <2>4. Append(a, q[k + 1]) = SubSeq(q, 1, k + 1)
    <3> DEFINE b == SubSeq(q, 1, k + 1)
    <3>1. \A i \in 1..(k + 1) : q[i] \in Unpacking!Parts
      BY <1>1, <2>1
    <3>2. /\ a \in Seq(Unpacking!Parts) /\ Len(a) = k /\ \A i \in 1..k : a[i] = q[i]
      <4>1. \A i \in 1..k : q[i] \in Unpacking!Parts
        BY <1>3, <3>1
      <4> QED BY <1>3, <4>1, SubSeqProperties
    <3>3. /\ b \in Seq(Unpacking!Parts) /\ Len(b) = k + 1 /\ \A i \in 1..(k + 1) : b[i] = q[i]
      BY <1>3, <3>1, SubSeqProperties
    <3>4. q[k + 1] \in Unpacking!Parts
      BY <2>1
    <3> HIDE DEF a, b
    <3>5. /\ Append(a, q[k + 1]) \in Seq(Unpacking!Parts) /\ Len(Append(a, q[k + 1])) = k + 1
          /\ \A i \in 1..k : Append(a, q[k + 1])[i] = a[i]
          /\ Append(a, q[k + 1])[k + 1] = q[k + 1]
      BY <3>2, <3>4, AppendProperties
    <3>6. \A i \in 1..(k + 1) : Append(a, q[k + 1])[i] = b[i]
      <4>1. \A i \in 1..(k + 1) : i = k + 1 \/ i \in 1..k
        BY <1>3
      <4> QED BY <3>2, <3>3, <3>5, <4>1
    <3>7. Append(a, q[k + 1]) = b
      BY <3>3, <3>5, <3>6, SeqEqual
    <3> QED BY <3>7 DEF b
  <2>5. LayersIsDir(t, SubSeq(q, 1, k + 1))
    BY <2>1, LayersAncestors
  <2>6. Append(a, Head(d)) \in DOMAIN t /\ t[Append(a, Head(d))].kind = "dir"
    <3>1. Append(a, q[k + 1]) # <<>>
      <4>1. a \in Seq(Unpacking!Parts) /\ q[k + 1] \in Unpacking!Parts
        <5>1. \A i \in 1..k : q[i] \in Unpacking!Parts
          BY <1>1, <1>3
        <5> QED BY <1>3, <2>1, <5>1, SubSeqProperties
      <4> HIDE DEF a
      <4> QED BY <4>1, AppendProperties
    <3> HIDE DEF a, d
    <3> QED BY <2>2, <2>4, <2>5, <3>1, Zenon DEF LayersIsDir
  <2>7. Head(d) # Up
    <3>1. q[k + 1] \in Unpacking!Range(q)
      BY <2>1 DEF Unpacking!Range
    <3> HIDE DEF d
    <3> QED BY <2>2, <3>1, Zenon
  <2>8. Unpacking!Step(LayersOn(d, a, c, t, n)) = LayersOn(Tail(d), Append(a, Head(d)), c, t, n)
    <3> HIDE DEF a, d
    <3> QED BY <2>3, <2>6, <2>7, LayersStrides, Zenon
  <2>9. LayersOn(Tail(d), Append(a, Head(d)), c, t, n) = X(k + 1)
    <3> HIDE DEF L
    <3>1. Append(a, Head(d)) = SubSeq(q, 1, k + 1)
      BY <2>2, <2>4, Zenon
    <3> QED BY <2>2, <3>1, Zenon
  <2> HIDE DEF L
  <2> QED BY <2>8, <2>9, Zenon
<1>4. /\ Unpacking!Walked(w)[0] = w
      /\ \A k \in Nat : Unpacking!Walked(w)[k + 1] = Unpacking!Step(Unpacking!Walked(w)[k])
  BY LayersWalkedIs, Zenon
<1>5. X(L) = LayersOn(<<>>, q, c, t, n)
  <2>1. SubSeq(q, L + 1, L) = <<>> /\ SubSeq(q, 1, L) = q
    BY <1>1, SubSeqFull, SubSeqEmpty
  <2> HIDE DEF L
  <2> QED BY <2>1, Zenon
<1> HIDE DEF L, w, X
<1>6. Bad = {}
  <2>1. SUFFICES ASSUME Bad # {} PROVE FALSE
    OBVIOUS
  <2>2. PICK k \in Bad : \A j \in Bad : k <= j
    BY <2>1, LayersLeast
  <2>3. k \in Nat /\ k <= L /\ Unpacking!Walked(w)[k] # X(k)
    OBVIOUS
  <2>4. k # 0
    BY <1>2, <1>4, <2>3
  <2>5. k - 1 \in Nat /\ (k - 1) + 1 = k /\ ~(k <= k - 1) /\ k - 1 <= L
    BY <1>1, <2>3, <2>4
  <2>6. Unpacking!Walked(w)[k - 1] = X(k - 1)
    BY <2>2, <2>5
  <2>7. Unpacking!Walked(w)[(k - 1) + 1] = Unpacking!Step(X(k - 1))
    BY <1>4, <2>5, <2>6, Zenon
  <2>8. Unpacking!Step(X(k - 1)) = X((k - 1) + 1)
    BY <1>3, <2>3, <2>5
  <2> QED BY <2>3, <2>5, <2>7, <2>8, Zenon
<1>7. Unpacking!Walked(w)[L + 1] = LayersThere(q, c, t, n)
  <2>1. Unpacking!Walked(w)[L] = X(L)
    BY <1>1, <1>6
  <2> QED BY <1>1, <1>4, <1>5, <2>1, LayersArrives, Zenon
<1>8. Late = {}
  <2>1. SUFFICES ASSUME Late # {} PROVE FALSE
    OBVIOUS
  <2>2. PICK k \in Late : \A j \in Late : k <= j
    BY <2>1, LayersLeast
  <2>3. k \in Nat /\ k > L /\ Unpacking!Walked(w)[k] # LayersThere(q, c, t, n)
    OBVIOUS
  <2>4. k # L + 1
    BY <1>7, <2>3
  <2>5. k - 1 \in Nat /\ (k - 1) + 1 = k /\ ~(k <= k - 1) /\ k - 1 > L
    BY <1>1, <2>3, <2>4
  <2>6. Unpacking!Walked(w)[k - 1] = LayersThere(q, c, t, n)
    BY <2>2, <2>5
  <2>7. Unpacking!Walked(w)[(k - 1) + 1] = LayersThere(q, c, t, n)
    <3>1. Unpacking!Step(LayersThere(q, c, t, n)) = LayersThere(q, c, t, n)
      BY LayersArrives, Zenon
    <3>2. Unpacking!Walked(w)[(k - 1) + 1] = Unpacking!Step(Unpacking!Walked(w)[k - 1])
      BY <1>4, <2>5, Zenon
    <3> QED BY <2>6, <3>1, <3>2, Zenon
  <2> QED BY <2>3, <2>5, <2>7, Zenon
<1> DEFINE last == Len(w.todo) + MaxLinks * MaxParts + 1
<1>9. last \in Nat /\ last > L
  <2>1. w.todo = q
    BY DEF LayersStart, w
  <2>2. MaxLinks \in Nat /\ MaxParts \in Nat
    BY DEF Unpacking!LayersConstants
  <2>3. MaxLinks * MaxParts \in Nat
    BY <2>2
  <2> QED BY <1>1, <2>1, <2>3 DEF L
<1> HIDE DEF last
<1>10. Unpacking!Walked(w)[last] = LayersThere(q, c, t, n)
  BY <1>8, <1>9
<1>11. Unpacking!Walk(w) = Unpacking!Walked(w)[last]
  BY Zenon DEF Unpacking!Walk, last
<1> QED BY <1>10, <1>11, Zenon DEF w


(* A hard link that is made is one more name of a file, where it was asked  *)
(* for; otherwise nothing changes.                                          *)
LEMMA LayersLinked ==
  ASSUME Unpacking!LayersConstants, NEW t, NEW n, LayersGood(t, n), NEW at, LayersNamed(at),
         LayersIsDir(t, Unpacking!Front(at)), NEW target
  PROVE  LET r == Unpacking!Link(at, target, t, n) IN
         /\ r.is \in {"linked", "missing", "failed"}
         /\ r.is # "linked" => r.tree = t /\ r.nodes = n
         /\ r.is = "linked" =>
              /\ r.at = at /\ at \notin DOMAIN t
              /\ r.source \in DOMAIN t /\ t[r.source].kind = "file"
              /\ r.tree = Unpacking!With(t, at, t[r.source]) /\ r.nodes = n + 1 /\ n < MaxNodes
<1> DEFINE from      == Unpacking!Walk(LayersStart(Unpacking!Front(target), FALSE, t, n))
           to        == Unpacking!Walk(LayersStart(Unpacking!Front(at), TRUE, t, n))
           source    == Append(from.at, Unpacking!Last(target))
           there     == Append(to.at, Unpacking!Last(at))
           Res(is)   == [is |-> is, source |-> source, at |-> there, tree |-> t, nodes |-> n]
           done      == [Res("linked") EXCEPT !.tree = Unpacking!With(to.tree, Res("linked").at, t[source]),
             !.nodes = to.nodes + 1]
           r         == Unpacking!Link(at, target, t, n)
<1>1. to = LayersThere(Unpacking!Front(at), TRUE, t, n)
  <2>1. at \in Seq(Unpacking!Parts) /\ at # <<>> /\ Up \notin Unpacking!Range(at)
    BY DEF LayersNamed
  <2>2. Unpacking!Front(at) \in Seq(Unpacking!Parts) /\ Up \notin Unpacking!Range(Unpacking!Front(at))
    BY <2>1, LayersParent
  <2> QED BY <2>2, LayersStraight, Zenon
<1>2. to.at = Unpacking!Front(at) /\ to.tree = t /\ to.nodes = n /\ to.is = "found"
  <2> HIDE DEF to
  <2> QED BY <1>1 DEF LayersThere
<1>3. there = at
  <2>1. Append(Unpacking!Front(at), Unpacking!Last(at)) = at
    BY LayersParent DEF LayersNamed
  <2> HIDE DEF to
  <2> QED BY <1>2, <2>1, Zenon
<1>4. r = IF from.is = "failed" THEN Res("failed")
          ELSE IF from.is = "missing" \/ source \notin DOMAIN t THEN Res("missing")
          ELSE IF t[source].kind # "file" \/ to.is = "failed" \/ to.nodes = MaxNodes \/ there \in DOMAIN to.tree
               THEN Res("failed")
          ELSE done
  BY Zenon DEF Unpacking!Link, LayersStart
<1> HIDE DEF from, to, source, there, r
<1>5. \A is \in {"failed", "missing"} : Res(is).is = is /\ Res(is).tree = t /\ Res(is).nodes = n
  OBVIOUS
<1>6. done = [is |-> "linked", source |-> source, at |-> there, tree |-> Unpacking!With(to.tree, there, t[source]),
        nodes |-> to.nodes + 1]
  <2> DEFINE u  == Unpacking!With(to.tree, there, t[source])
             r0 == Res("linked")
             r1 == [r0 EXCEPT !.tree = u]
  <2>1. r0.at = there
    OBVIOUS
  <2>2. done = [r1 EXCEPT !.nodes = to.nodes + 1]
    <3> HIDE DEF u
    <3>1. Unpacking!With(to.tree, r0.at, t[source]) = u
      BY <2>1, Zenon DEF u
    <3> HIDE DEF r0
    <3> QED BY <3>1, Zenon DEF r0
  <2> HIDE DEF u
  <2>3. r1 = [is |-> "linked", source |-> source, at |-> there, tree |-> u, nodes |-> n]
    OBVIOUS
  <2> HIDE DEF r1
  <2>4. [r1 EXCEPT !.nodes = to.nodes + 1] =
          [is |-> "linked", source |-> source, at |-> there, tree |-> u, nodes |-> to.nodes + 1]
    BY <2>3
  <2> QED BY <2>2, <2>4, Zenon DEF u
<1>7. /\ done.is = "linked" /\ done.source = source /\ done.at = there
      /\ done.tree = Unpacking!With(to.tree, there, t[source]) /\ done.nodes = to.nodes + 1
  <2> HIDE DEF done
  <2> QED BY <1>6
<1> HIDE DEF Res, done
<1>8. CASE r = Res("failed") \/ r = Res("missing")
  <2>1. r.is \in {"missing", "failed"} /\ r.tree = t /\ r.nodes = n
    BY <1>5, <1>8
  <2> QED BY <2>1 DEF r
<1>9. CASE ~(r = Res("failed") \/ r = Res("missing"))
  <2>1. /\ r = done /\ source \in DOMAIN t /\ t[source].kind = "file"
        /\ to.nodes # MaxNodes /\ there \notin DOMAIN to.tree
    BY <1>4, <1>9
  <2>2. n < MaxNodes
    <3>1. n # MaxNodes /\ n \in Nat /\ n <= MaxNodes /\ MaxNodes \in Nat
      BY <1>2, <2>1 DEF LayersGood, Unpacking!LayersConstants
    <3> QED BY <3>1
  <2>3. /\ r.is = "linked" /\ r.at = at /\ r.source = source /\ at \notin DOMAIN t
        /\ r.tree = Unpacking!With(t, at, t[source]) /\ r.nodes = n + 1
    BY <1>2, <1>3, <1>7, <2>1, Zenon
  <2> QED BY <2>1, <2>2, <2>3 DEF r
<1> QED BY <1>8, <1>9

-----------------------------------------------------------------------------
(* The inductive invariant.  Links wait at paths whose directories exist,   *)
(* and only while their layer is read; an inode has several names only if   *)
(* it is a file.                                                            *)
LayersInv ==
  /\ Unpacking!TypeOK /\ Unpacking!MetadataFits /\ Unpacking!NothingLost
  /\ LayersGood(tree, nodes)
  /\ IsFiniteSet(paths)
  /\ layering # "final" => applied = {}
  /\ layering = "whiteouts" => owned = {}
  /\ layering \notin {"entries", "links", "failed"} => pending = <<>>
  /\ layering \in {"entries", "links"} => layer < MaxLayers
  /\ \A p \in DOMAIN pending : LayersNamed(p) /\ LayersIsDir(tree, Unpacking!Front(p))

LEMMA LayersGoodTypes ==
  ASSUME NEW t, NEW n, LayersGood(t, n)
  PROVE  /\ \A p \in DOMAIN t :
              /\ p # <<>> /\ Up \notin Unpacking!Range(p)
              /\ t[p].kind \in {"dir", "file", "link"}
              /\ Unpacking!Front(p) # <<>> => Unpacking!Front(p) \in DOMAIN t /\ t[Unpacking!Front(p)].kind = "dir"
         /\ Unpacking!Cardinality(DOMAIN t) <= n /\ n <= MaxNodes
  BY DEF LayersGood, LayersNamed, LayersIsNode, LayersIsDir

LEMMA LayersInit ==
  ASSUME Unpacking!LayersConstants, Unpacking!Init
  PROVE  LayersInv
<1>1. DOMAIN <<>> = {} /\ IsFiniteSet({}) /\ Unpacking!Cardinality({}) = 0
  BY LayersCounts
<1>2. LayersGood(tree, nodes)
  BY <1>1 DEF Unpacking!Init, LayersGood, Unpacking!LayersConstants
<1>3. Unpacking!TypeOK
  <2>1. /\ layering \in {"whiteouts", "entries", "links", "ready", "final", "failed"}
        /\ layer \in 0..MaxLayers /\ Unpacking!Cardinality(paths) <= MaxLength
        /\ applied \subseteq Unpacking!Inodes
    BY <1>1 DEF Unpacking!Init, Unpacking!LayersConstants
  <2> QED BY <1>2, <2>1, LayersGoodTypes DEF Unpacking!TypeOK
<1>4. Unpacking!MetadataFits
  BY <1>1 DEF Unpacking!Init, Unpacking!MetadataFits
<1>5. Unpacking!NothingLost
  BY DEF Unpacking!Init, Unpacking!NothingLost
<1>6. \A p \in DOMAIN pending : LayersNamed(p) /\ LayersIsDir(tree, Unpacking!Front(p))
  BY <1>1 DEF Unpacking!Init
<1> QED BY <1>1, <1>2, <1>3, <1>4, <1>5, <1>6 DEF LayersInv, Unpacking!Init

(* Whatever leaves the tree and its records alone. *)
LEMMA LayersQuiet ==
  ASSUME LayersInv, UNCHANGED <<tree, metadata, nodes, pending, applied>>,
         layering' \in {"whiteouts", "entries", "links", "ready", "failed"}, layering # "final",
         layer' \in 0..MaxLayers, IsFiniteSet(paths'), Unpacking!Cardinality(paths') <= MaxLength,
         layering' = "whiteouts" => owned' = {},
         layering' \in {"entries", "links"} => owned' \subseteq owned
           /\ (layering \in {"entries", "links"} \/ owned = {}),
         layering' \in {"entries", "links"} => layer' < MaxLayers,
         layering' \notin {"entries", "links", "failed"} => pending = <<>>
  PROVE  LayersInv'
<1>1. LayersGood(tree', nodes')
  BY DEF LayersInv
<1>2. Unpacking!Inodes' = Unpacking!Inodes /\ applied = {}
  BY DEF LayersInv, Unpacking!Inodes
<1>3. Unpacking!TypeOK'
  <2>1. /\ layering' \in {"whiteouts", "entries", "links", "ready", "final", "failed"}
        /\ applied' \subseteq Unpacking!Inodes'
    BY <1>2
  <2> QED BY <1>1, <2>1, LayersGoodTypes DEF Unpacking!TypeOK
<1>4. Unpacking!MetadataFits'
  BY DEF Unpacking!MetadataFits, LayersInv
<1>5. Unpacking!NothingLost'
  BY DEF Unpacking!NothingLost, LayersInv
<1>6. (\A p \in DOMAIN pending : LayersNamed(p) /\ LayersIsDir(tree, Unpacking!Front(p)))'
  BY DEF LayersInv
<1> QED BY <1>1, <1>2, <1>3, <1>4, <1>5, <1>6 DEF LayersInv

LEMMA LayersRewind ==
  ASSUME LayersInv, Unpacking!Rewind
  PROVE  LayersInv'
  BY LayersQuiet DEF Unpacking!Rewind, LayersInv, Unpacking!TypeOK

LEMMA LayersSpoiled ==
  ASSUME LayersInv, Unpacking!Spoiled
  PROVE  LayersInv'
  BY LayersQuiet DEF Unpacking!Spoiled, Unpacking!Fail, LayersInv, Unpacking!TypeOK

LEMMA LayersScanned ==
  ASSUME LayersInv, Unpacking!Scanned
  PROVE  LayersInv'
  BY LayersQuiet DEF Unpacking!Scanned, LayersInv, Unpacking!TypeOK

LEMMA LayersUnlinked ==
  ASSUME LayersInv, Unpacking!Unlinked
  PROVE  LayersInv'
  BY LayersQuiet DEF Unpacking!Unlinked, Unpacking!Fail, LayersInv, Unpacking!TypeOK

LEMMA LayersApplied ==
  ASSUME Unpacking!LayersConstants, LayersInv, Unpacking!Applied
  PROVE  LayersInv'
<1>1. IsFiniteSet({}) /\ Unpacking!Cardinality({}) = 0
  BY LayersCounts
<1>2. layer + 1 \in 0..MaxLayers /\ (layer' # MaxLayers => layer' < MaxLayers) /\ MaxLength \in Nat
  BY DEF LayersInv, Unpacking!TypeOK, Unpacking!Applied, Unpacking!LayersConstants
<1> QED BY <1>1, <1>2, LayersQuiet DEF Unpacking!Applied


LEMMA LayersTaken ==
  ASSUME Unpacking!LayersConstants, IsFiniteSet(paths), NEW key, Unpacking!Takes(key)
  PROVE  IsFiniteSet(paths') /\ Unpacking!Cardinality(paths') <= MaxLength
<1>1. IsFiniteSet(paths \cup {key}) /\ Unpacking!Cardinality(paths \cup {key}) = Unpacking!Cardinality(paths) + 1
  BY LayersCounts DEF Unpacking!Takes
<1>2. Unpacking!Cardinality(paths) \in Nat /\ MaxLength \in Nat
  BY LayersCounts DEF Unpacking!LayersConstants
<1> QED BY <1>1, <1>2 DEF Unpacking!Takes

(* What lies at or below a path is closed: it has all that lies in it. *)
LEMMA LayersClosed ==
  ASSUME NEW a \in Seq(Unpacking!Parts), NEW p \in Seq(Unpacking!Parts), p # <<>>,
         Unpacking!IsPrefix(a, Unpacking!Front(p))
  PROVE  Unpacking!IsPrefix(a, p) /\ p # a
<1>1. Unpacking!IsPrefix(a, p)
  BY LayersLying, Zenon
<1>2. p # a
  BY LayersNotBelow
<1> QED BY <1>1, <1>2

LEMMA LayersLocated ==
  ASSUME Unpacking!LayersConstants, LayersGood(tree, nodes), NEW path \in Seq(Unpacking!Parts), path # <<>>, NEW c
  PROVE  LET w == Unpacking!Location(path, c) IN
         /\ w.at \in Seq(Unpacking!Parts) /\ w.at # <<>>
         /\ Up \notin Unpacking!Range(path) => LayersNamed(w.at)
         /\ LayersIsDir(w.tree, Unpacking!Front(w.at))
         /\ LayersGood(w.tree, w.nodes) /\ LayersGrown(tree, w.tree)
<1> DEFINE d == Unpacking!Walk(LayersStart(Unpacking!Front(path), c, tree, nodes))
           w == Unpacking!Location(path, c)
<1>1. /\ Unpacking!Front(path) \in Seq(Unpacking!Parts) /\ Unpacking!Last(path) \in Unpacking!Parts
      /\ Unpacking!Last(path) \in Unpacking!Range(path)
  BY LayersParent
<1>2. LayersWalking(d, tree, nodes, c)
  BY <1>1, LayersWalks, Zenon
<1>3. w = [d EXCEPT !.at = Append(d.at, Unpacking!Last(path))]
  BY Zenon DEF Unpacking!Location, Unpacking!Directory, LayersStart
<1> HIDE DEF d, w
<1>4. LayersShape(d) /\ LayersStanding(d.at, d.tree) /\ LayersGood(d.tree, d.nodes) /\ LayersGrown(tree, d.tree)
  BY <1>2, Zenon DEF LayersWalking
<1>5. w = [todo |-> d.todo, at |-> Append(d.at, Unpacking!Last(path)), followed |-> d.followed,
        create |-> d.create,
           tree |-> d.tree, nodes |-> d.nodes, is |-> d.is]
  BY <1>3, <1>4, LayersUpdatedOnce, Zenon
<1>6. w.at = Append(d.at, Unpacking!Last(path)) /\ w.tree = d.tree /\ w.nodes = d.nodes
  BY <1>5
<1>7. d.at \in Seq(Unpacking!Parts) /\ Up \notin Unpacking!Range(d.at) /\ LayersIsDir(d.tree, d.at)
  BY <1>4, Zenon DEF LayersStanding
<1>8. /\ w.at \in Seq(Unpacking!Parts) /\ w.at # <<>> /\ Unpacking!Front(w.at) = d.at
      /\ Unpacking!Range(w.at) = Unpacking!Range(d.at) \cup {Unpacking!Last(path)}
  BY <1>1, <1>6, <1>7, LayersAppended
<1>9. Up \notin Unpacking!Range(path) => LayersNamed(w.at)
  BY <1>1, <1>7, <1>8 DEF LayersNamed
<1> QED BY <1>4, <1>6, <1>7, <1>8, <1>9, Zenon DEF w

(* A whiteout takes whole subtrees, and what was recorded for them. *)
LEMMA LayersRemovesKeeps ==
  ASSUME LayersInv, layering = "whiteouts", NEW S, Unpacking!Removes(S), IsFiniteSet(paths'),
         Unpacking!Cardinality(paths') <= MaxLength,
         \A p \in DOMAIN tree : p # <<>> /\ Unpacking!Front(p) \in S => p \in S
  PROVE  LayersInv'
<1>1. /\ tree' = Unpacking!Drop(tree, S) /\ metadata' = Unpacking!Drop(metadata, S)
      /\ UNCHANGED <<nodes, pending, layering, layer, owned, applied>>
  BY DEF Unpacking!Removes, Unpacking!Forgets
<1>2. /\ LayersGood(tree, nodes) /\ applied = {} /\ owned = {} /\ pending = <<>> /\ layer \in 0..MaxLayers
      /\ Unpacking!MetadataFits
  BY DEF LayersInv, Unpacking!TypeOK
<1>3. LayersGood(tree', nodes')
  BY <1>1, <1>2, LayersPruned, Zenon
<1>4. Unpacking!TypeOK'
  <2>1. layering' \in {"whiteouts", "entries", "links", "ready", "final", "failed"} /\ layer' \in 0..MaxLayers
        /\ applied' \subseteq Unpacking!Inodes'
    BY <1>1, <1>2
  <2> QED BY <1>3, <2>1, LayersGoodTypes DEF Unpacking!TypeOK
<1>5. Unpacking!MetadataFits'
  BY <1>1, <1>2 DEF Unpacking!MetadataFits, Unpacking!Drop
<1>6. /\ Unpacking!NothingLost'
      /\ (\A p \in DOMAIN pending : LayersNamed(p) /\ LayersIsDir(tree, Unpacking!Front(p)))'
  BY <1>1, <1>2 DEF Unpacking!NothingLost
<1> QED BY <1>1, <1>2, <1>3, <1>4, <1>5, <1>6 DEF LayersInv

LEMMA LayersWhiteoutFails ==
  ASSUME LayersInv, layering = "whiteouts", layering' = "failed",
         UNCHANGED <<tree, metadata, nodes, pending, layer, owned, applied>>,
         IsFiniteSet(paths'), Unpacking!Cardinality(paths') <= MaxLength
  PROVE  LayersInv'
<1>1. layer' \in 0..MaxLayers
  BY DEF LayersInv, Unpacking!TypeOK
<1> QED BY <1>1, LayersQuiet

LEMMA LayersWhiteout ==
  ASSUME Unpacking!LayersConstants, LayersInv, NEW path \in Removed, Unpacking!Whiteout(path)
  PROVE  LayersInv'
<1> DEFINE w == Unpacking!Location(path, FALSE)
<1>1. layering = "whiteouts" /\ IsFiniteSet(paths') /\ Unpacking!Cardinality(paths') <= MaxLength
  BY LayersTaken DEF Unpacking!Whiteout, Unpacking!MayRemove, LayersInv
<1>2. path \in Seq(Unpacking!Parts) /\ path # <<>>
  BY DEF Unpacking!LayersConstants
<1>3. LayersGood(tree, nodes)
  BY DEF LayersInv
<1>4. w.at \in Seq(Unpacking!Parts)
  BY <1>2, <1>3, LayersLocated
<1>5. CASE w.is = "failed"
  <2>1. layering' = "failed" /\ UNCHANGED <<tree, metadata, nodes, pending, layer, owned, applied>>
    BY <1>5 DEF Unpacking!Whiteout
  <2> QED BY <1>1, <2>1, LayersWhiteoutFails
<1>6. CASE w.is = "missing"
  <2>1. Unpacking!Removes({})
    BY <1>6 DEF Unpacking!Whiteout
  <2> QED BY <1>1, <2>1, LayersRemovesKeeps
<1>7. CASE w.is \notin {"failed", "missing"}
  <2>1. Unpacking!Removes(Unpacking!Under(w.at))
    BY <1>7 DEF Unpacking!Whiteout
  <2> HIDE DEF w
  <2>2. ASSUME NEW p \in DOMAIN tree, p # <<>>, Unpacking!Front(p) \in Unpacking!Under(w.at)
        PROVE p \in Unpacking!Under(w.at)
    <3>1. p \in Seq(Unpacking!Parts)
      BY <1>3 DEF LayersGood, LayersNamed
    <3>2. Unpacking!IsPrefix(w.at, Unpacking!Front(p))
      BY <2>2 DEF Unpacking!Under
    <3>3. Unpacking!IsPrefix(w.at, p)
      BY <1>4, <2>2, <3>1, <3>2, LayersClosed
    <3> QED BY <3>3 DEF Unpacking!Under
  <2> QED BY <1>1, <2>1, <2>2, LayersRemovesKeeps
<1> QED BY <1>5, <1>6, <1>7

LEMMA LayersWhiteoutAll ==
  ASSUME Unpacking!LayersConstants, LayersInv, NEW path \in Opaque, Unpacking!WhiteoutAll(path)
  PROVE  LayersInv'
<1> DEFINE w == Unpacking!Directory(path, FALSE)
<1>1. layering = "whiteouts" /\ IsFiniteSet(paths') /\ Unpacking!Cardinality(paths') <= MaxLength
  BY LayersTaken DEF Unpacking!WhiteoutAll, Unpacking!MayRemove, LayersInv
<1>2. path \in Seq(Unpacking!Parts)
  BY DEF Unpacking!LayersConstants
<1>3. LayersGood(tree, nodes)
  BY DEF LayersInv
<1>4. w.at \in Seq(Unpacking!Parts)
  <2>1. w = Unpacking!Walk(LayersStart(path, FALSE, tree, nodes))
    BY Zenon DEF Unpacking!Directory, LayersStart
  <2>2. LayersWalking(w, tree, nodes, FALSE)
    BY <1>2, <1>3, <2>1, LayersWalks, Zenon
  <2> QED BY <2>2, Zenon DEF LayersWalking, LayersStanding
<1>5. CASE w.is = "failed"
  <2>1. layering' = "failed" /\ UNCHANGED <<tree, metadata, nodes, pending, layer, owned, applied>>
    BY <1>5 DEF Unpacking!WhiteoutAll
  <2> QED BY <1>1, <2>1, LayersWhiteoutFails
<1>6. CASE w.is = "missing"
  <2>1. Unpacking!Removes({})
    BY <1>6 DEF Unpacking!WhiteoutAll
  <2> QED BY <1>1, <2>1, LayersRemovesKeeps
<1>7. CASE w.is \notin {"failed", "missing"}
  <2> DEFINE S == Unpacking!Under(w.at) \ {w.at}
  <2>1. Unpacking!Removes(S)
    BY <1>7 DEF Unpacking!WhiteoutAll
  <2> HIDE DEF w
  <2>2. ASSUME NEW p \in DOMAIN tree, p # <<>>, Unpacking!Front(p) \in S PROVE p \in S
    <3>1. p \in Seq(Unpacking!Parts)
      BY <1>3 DEF LayersGood, LayersNamed
    <3>2. Unpacking!IsPrefix(w.at, Unpacking!Front(p))
      BY <2>2 DEF Unpacking!Under
    <3>3. Unpacking!IsPrefix(w.at, p) /\ p # w.at
      BY <1>4, <2>2, <3>1, <3>2, LayersClosed
    <3> QED BY <3>3 DEF Unpacking!Under
  <2> HIDE DEF S
  <2> QED BY <1>1, <2>1, <2>2, LayersRemovesKeeps
<1> QED BY <1>5, <1>6, <1>7


(* What holds of the tree, the records, the waiting links and what the      *)
(* layer has put, while its entries are installed.                          *)
LayersLaid(t, m, q, o, n) ==
  /\ LayersGood(t, n)
  /\ \A p \in DOMAIN m : p \in DOMAIN t /\ m[p] = t[p].inode
  /\ \A p \in DOMAIN t : t[p].kind # "dir" => p \in DOMAIN m
  /\ \A p \in DOMAIN q : LayersNamed(p) /\ LayersIsDir(t, Unpacking!Front(p))
  /\ o \subseteq DOMAIN t \cup DOMAIN q

LEMMA LayersLaidNow ==
  ASSUME LayersInv, layering \in {"entries", "links"}
  PROVE  LayersLaid(tree, metadata, pending, owned, nodes)
<1>1. layering # "final"
  OBVIOUS
<1> QED BY <1>1 DEF LayersInv, LayersLaid, Unpacking!MetadataFits, Unpacking!NothingLost

LEMMA LayersLaidNext ==
  ASSUME LayersInv, layering \in {"entries", "links"}, UNCHANGED <<layering, layer, applied>>,
         IsFiniteSet(paths'), Unpacking!Cardinality(paths') <= MaxLength,
         NEW o, owned' \subseteq o, LayersLaid(tree', metadata', pending', o, nodes')
  PROVE  LayersInv'
<1>1. LayersGood(tree', nodes') /\ applied' = {}
  BY DEF LayersLaid, LayersInv
<1>2. Unpacking!TypeOK'
  <2>1. layering' \in {"whiteouts", "entries", "links", "ready", "final", "failed"} /\ layer' \in 0..MaxLayers
        /\ applied' \subseteq Unpacking!Inodes'
    BY <1>1 DEF LayersInv, Unpacking!TypeOK
  <2> QED BY <1>1, <2>1, LayersGoodTypes DEF Unpacking!TypeOK
<1>3. Unpacking!MetadataFits'
  BY DEF LayersLaid, Unpacking!MetadataFits
<1>4. /\ Unpacking!NothingLost'
      /\ (\A p \in DOMAIN pending : LayersNamed(p) /\ LayersIsDir(tree, Unpacking!Front(p)))'
  BY DEF LayersLaid, Unpacking!NothingLost
<1> QED BY <1>1, <1>2, <1>3, <1>4 DEF LayersInv

LEMMA LayersLaidGrown ==
  ASSUME NEW t, NEW m, NEW q, NEW o, NEW n, LayersLaid(t, m, q, o, n), NEW u, NEW k, LayersGood(u, k),
         LayersGrown(t, u)
  PROVE  LayersLaid(u, m, q, o, k)
<1>1. \A p \in DOMAIN m : p \in DOMAIN u /\ m[p] = u[p].inode
  BY DEF LayersLaid, LayersGrown
<1>2. \A p \in DOMAIN u : u[p].kind # "dir" => p \in DOMAIN m
  BY DEF LayersLaid, LayersGrown
<1>3. \A p \in DOMAIN q : LayersNamed(p) /\ LayersIsDir(u, Unpacking!Front(p))
  BY DEF LayersLaid, LayersGrown, LayersIsDir
<1>4. o \subseteq DOMAIN u \cup DOMAIN q
  BY DEF LayersLaid, LayersGrown
<1> QED BY <1>1, <1>2, <1>3, <1>4 DEF LayersLaid

(* A path is cleared: with what lies below it go its records and the links  *)
(* that wait there.                                                         *)
LEMMA LayersLaidCleared ==
  ASSUME NEW t, NEW m, NEW q, NEW o, NEW n, LayersLaid(t, m, q, o, n), NEW at, LayersNamed(at),
         LayersIsDir(t, Unpacking!Front(at))
  PROVE  LET gone == Unpacking!Below(t, at) IN
         /\ LayersLaid(Unpacking!Drop(t, gone), Unpacking!Drop(m, gone), Unpacking!Drop(q, Unpacking!Below(q, at)),
              o \ {p \in o : Unpacking!IsPrefix(at, p)}, n)
         /\ at \notin DOMAIN Unpacking!Drop(t, gone) /\ LayersIsDir(Unpacking!Drop(t, gone), Unpacking!Front(at))
<1> DEFINE gone == Unpacking!Below(t, at)
           d    == Unpacking!Drop(t, gone)
           k    == Unpacking!Drop(m, gone)
           w    == Unpacking!Drop(q, Unpacking!Below(q, at))
           e    == o \ {p \in o : Unpacking!IsPrefix(at, p)}
<1>1. at \in Seq(Unpacking!Parts) /\ at # <<>>
  BY DEF LayersNamed
<1>2. /\ LayersGood(t, n) /\ (\A p \in DOMAIN m : p \in DOMAIN t /\ m[p] = t[p].inode)
      /\ (\A p \in DOMAIN t : t[p].kind # "dir" => p \in DOMAIN m)
      /\ (\A p \in DOMAIN q : LayersNamed(p) /\ LayersIsDir(t, Unpacking!Front(p)))
      /\ o \subseteq DOMAIN t \cup DOMAIN q
  BY DEF LayersLaid
<1>3. \A p \in DOMAIN t : p \in Seq(Unpacking!Parts) /\ p # <<>>
  BY <1>2 DEF LayersGood, LayersNamed
<1>4. /\ DOMAIN d = {p \in DOMAIN t : ~Unpacking!IsPrefix(at, p)} /\ \A p \in DOMAIN d : d[p] = t[p]
  BY DEF Unpacking!Drop, Unpacking!Below
<1>5. /\ DOMAIN k = {p \in DOMAIN m : p \notin DOMAIN t \/ ~Unpacking!IsPrefix(at, p)}
           /\ \A p \in DOMAIN k : k[p] = m[p]
  BY DEF Unpacking!Drop, Unpacking!Below
<1>6. /\ DOMAIN w = {p \in DOMAIN q : ~Unpacking!IsPrefix(at, p)}
  BY DEF Unpacking!Drop, Unpacking!Below
<1>7. LayersGood(d, n)
  <2>1. \A p \in DOMAIN t : p # <<>> /\ Unpacking!Front(p) \in gone => p \in gone
    BY <1>1, <1>3, LayersClosed DEF Unpacking!Below
  <2> HIDE DEF gone
  <2> QED BY <1>2, <2>1, LayersPruned
<1>8. Unpacking!IsPrefix(at, at)
  BY <1>1, LayersLying
<1> HIDE DEF d, k, w
<1>9. at \notin DOMAIN d
  BY <1>4, <1>8
<1>10. ASSUME NEW p, LayersIsDir(t, p), ~Unpacking!IsPrefix(at, p) PROVE LayersIsDir(d, p)
  BY <1>4, <1>10 DEF LayersIsDir
<1>11. LayersIsDir(d, Unpacking!Front(at))
  BY <1>1, <1>10, LayersNotBelow
<1>12. \A p \in DOMAIN w : LayersNamed(p) /\ LayersIsDir(d, Unpacking!Front(p))
  <2> TAKE p \in DOMAIN w
  <2>1. p \in DOMAIN q /\ ~Unpacking!IsPrefix(at, p) /\ LayersNamed(p) /\ LayersIsDir(t, Unpacking!Front(p))
    BY <1>2, <1>6
  <2>2. p \in Seq(Unpacking!Parts) /\ p # <<>>
    BY <2>1 DEF LayersNamed
  <2>3. ~Unpacking!IsPrefix(at, Unpacking!Front(p))
    BY <1>1, <2>1, <2>2, LayersClosed
  <2> QED BY <1>10, <2>1, <2>3
<1>13. e \subseteq DOMAIN d \cup DOMAIN w
  BY <1>2, <1>4, <1>6
<1>14. (\A p \in DOMAIN k : p \in DOMAIN d /\ k[p] = d[p].inode)
         /\ \A p \in DOMAIN d : d[p].kind # "dir" => p \in DOMAIN k
  BY <1>2, <1>4, <1>5
<1> HIDE DEF e
<1>15. LayersLaid(d, k, w, e, n)
  BY <1>7, <1>12, <1>13, <1>14, Zenon DEF LayersLaid
<1> QED BY <1>9, <1>11, <1>15, Zenon DEF d, k, w, e

LEMMA LayersLaidKept ==
  ASSUME NEW t, NEW m, NEW q, NEW o, NEW n, LayersLaid(t, m, q, o, n)
  PROVE  LayersLaid(Unpacking!Drop(t, {}), Unpacking!Drop(m, {}), q, o, n)
<1> DEFINE d == Unpacking!Drop(t, {})
           k == Unpacking!Drop(m, {})
<1>1. /\ DOMAIN d = DOMAIN t /\ \A p \in DOMAIN d : d[p] = t[p]
      /\ DOMAIN k = DOMAIN m /\ \A p \in DOMAIN k : k[p] = m[p]
  BY DEF Unpacking!Drop
<1>2. LayersGood(d, n)
  BY LayersPruned DEF LayersLaid
<1> HIDE DEF d, k
<1>3. \A p : LayersIsDir(t, p) => LayersIsDir(d, p)
  BY <1>1 DEF LayersIsDir
<1>4. LayersLaid(d, k, q, o, n)
  BY <1>1, <1>2, <1>3 DEF LayersLaid
<1> QED BY <1>4, Zenon DEF d, k

LEMMA LayersLaidPlanted ==
  ASSUME NEW t, NEW m, NEW q, NEW o, NEW n, LayersLaid(t, m, q, o, n), NEW at, NEW x, LayersFits(t, n, at, x)
  PROVE  LayersLaid(Unpacking!With(t, at, x), Unpacking!With(m, at, x.inode), q, o \cup {at}, n + 1)
<1> DEFINE w == Unpacking!With(t, at, x)
           r == Unpacking!With(m, at, x.inode)
<1>1. LayersGrows(t, n, at, x)
  BY LayersPlanted, Zenon
<1>2. LayersGood(w, n + 1) /\ DOMAIN w = DOMAIN t \cup {at} /\ w[at] = x /\ \A p \in DOMAIN t : w[p] = t[p]
  BY <1>1, Zenon DEF LayersGrows
<1>3. at \notin DOMAIN t
  BY Zenon DEF LayersFits
<1>4. at \notin DOMAIN m
  BY <1>3 DEF LayersLaid
<1>5. DOMAIN r = DOMAIN m \cup {at} /\ r[at] = x.inode /\ \A p \in DOMAIN m : r[p] = m[p]
  BY <1>4 DEF Unpacking!With
<1> HIDE DEF w, r
<1>6. \A p : LayersIsDir(t, p) => LayersIsDir(w, p)
  BY <1>2 DEF LayersIsDir
<1>7. (\A p \in DOMAIN r : p \in DOMAIN w /\ r[p] = w[p].inode)
        /\ \A p \in DOMAIN w : w[p].kind # "dir" => p \in DOMAIN r
  BY <1>2, <1>5 DEF LayersLaid
<1>8. (\A p \in DOMAIN q : LayersNamed(p) /\ LayersIsDir(w, Unpacking!Front(p)))
        /\ o \cup {at} \subseteq DOMAIN w \cup DOMAIN q
  BY <1>2, <1>6 DEF LayersLaid
<1> QED BY <1>2, <1>7, <1>8, Zenon DEF LayersLaid, w, r

LEMMA LayersLaidWaiting ==
  ASSUME NEW t, NEW m, NEW q, NEW o, NEW n, LayersLaid(t, m, q, o, n), NEW at, LayersNamed(at),
         LayersIsDir(t, Unpacking!Front(at)), NEW target
  PROVE  LayersLaid(t, m, Unpacking!With(q, at, target), o \cup {at}, n)
<1>1. DOMAIN Unpacking!With(q, at, target) = DOMAIN q \cup {at}
  BY DEF Unpacking!With
<1> QED BY <1>1 DEF LayersLaid

LEMMA LayersLaidRecorded ==
  ASSUME NEW t, NEW m, NEW q, NEW o, NEW n, LayersLaid(t, m, q, o, n), NEW at \in DOMAIN t
  PROVE  LayersLaid(t, Unpacking!With(m, at, t[at].inode), q, o \cup {at}, n)
<1> DEFINE r == Unpacking!With(m, at, t[at].inode)
<1>1. DOMAIN r = DOMAIN m \cup {at} /\ r[at] = t[at].inode /\ \A p \in DOMAIN m : p # at => r[p] = m[p]
  BY DEF Unpacking!With
<1> HIDE DEF r
<1>2. LayersLaid(t, r, q, o \cup {at}, n)
  BY <1>1 DEF LayersLaid
<1> QED BY <1>2, Zenon DEF r

LEMMA LayersLaidDone ==
  ASSUME NEW t, NEW m, NEW q, NEW o, NEW n, LayersLaid(t, m, q, o, n), NEW at \in DOMAIN t
  PROVE  LayersLaid(t, m, Unpacking!Drop(q, {at}), o, n)
<1>1. DOMAIN Unpacking!Drop(q, {at}) = DOMAIN q \ {at}
  BY DEF Unpacking!Drop
<1> QED BY <1>1 DEF LayersLaid

(* A link that is made gets the records of its target. *)
LEMMA LayersLaidLinked ==
  ASSUME Unpacking!LayersConstants, NEW t, NEW m, NEW q, NEW o, NEW n, LayersLaid(t, m, q, o, n),
         NEW at, LayersNamed(at), LayersIsDir(t, Unpacking!Front(at)), NEW target,
         Unpacking!Link(at, target, t, n).is = "linked"
  PROVE  LET r == Unpacking!Link(at, target, t, n) IN
         LayersLaid(r.tree, Unpacking!Shares(m, r), q, o \cup {at}, r.nodes) /\ at \in DOMAIN r.tree
<1> DEFINE r == Unpacking!Link(at, target, t, n)
           x == t[r.source]
<1>1. LayersGood(t, n)
  BY DEF LayersLaid
<1>2. /\ r.at = at /\ at \notin DOMAIN t /\ r.source \in DOMAIN t /\ x.kind = "file"
      /\ r.tree = Unpacking!With(t, at, x) /\ r.nodes = n + 1 /\ n < MaxNodes
  BY <1>1, LayersLinked, Zenon
<1> HIDE DEF r
<1>3. r.source \in DOMAIN m /\ m[r.source] = x.inode
  BY <1>2 DEF LayersLaid
<1>4. Unpacking!Shares(m, r) = Unpacking!With(m, at, x.inode)
  BY <1>2, <1>3, Zenon DEF Unpacking!Shares
<1>5. LayersFits(t, n, at, x)
  <2>1. LayersIsNode(x, n) /\ n \in Nat /\ MaxNodes \in Nat
    BY <1>1, <1>2 DEF LayersGood, Unpacking!LayersConstants
  <2>2. LayersIsNode(x, n + 1)
    BY <2>1 DEF LayersIsNode
  <2>3. x.kind = "file" /\ \E p \in DOMAIN t : x = t[p]
    BY <1>2
  <2> HIDE DEF x
  <2> QED BY <1>1, <1>2, <2>1, <2>2, <2>3, Zenon DEF LayersFits
<1>6. LayersLaid(Unpacking!With(t, at, x), Unpacking!With(m, at, x.inode), q, o \cup {at}, n + 1)
  <2> HIDE DEF x
  <2> QED BY <1>5, LayersLaidPlanted, Zenon
<1>7. at \in DOMAIN Unpacking!With(t, at, x)
  BY DEF Unpacking!With
<1> HIDE DEF x
<1> QED BY <1>2, <1>4, <1>6, <1>7, Zenon DEF r


LEMMA LayersRelink ==
  ASSUME Unpacking!LayersConstants, LayersInv, NEW at \in DOMAIN pending, Unpacking!Relink(at)
  PROVE  LayersInv'
<1> DEFINE r == Unpacking!Link(at, pending[at], tree, nodes)
<1>1. layering = "links" /\ r.is # "missing"
  BY DEF Unpacking!Relink
<1>2. /\ LayersLaid(tree, metadata, pending, owned, nodes) /\ LayersNamed(at)
      /\ LayersIsDir(tree, Unpacking!Front(at)) /\ LayersGood(tree, nodes)
  BY <1>1, LayersLaidNow DEF LayersLaid
<1>3. CASE r.is = "failed"
  <2>1. Unpacking!Fail
    BY <1>3 DEF Unpacking!Relink
  <2> QED BY <1>1, <2>1, LayersQuiet DEF Unpacking!Fail, LayersInv, Unpacking!TypeOK
<1>4. CASE r.is # "failed"
  <2>1. /\ tree' = r.tree /\ nodes' = r.nodes /\ metadata' = Unpacking!Shares(metadata, r)
        /\ pending' = Unpacking!Drop(pending, {at})
        /\ UNCHANGED <<layering, layer, paths, owned, applied>>
    BY <1>4 DEF Unpacking!Relink
  <2>2. r.is = "linked"
    BY <1>1, <1>2, <1>4, LayersLinked
  <2>3. /\ LayersLaid(r.tree, Unpacking!Shares(metadata, r), pending, owned \cup {at}, r.nodes)
        /\ at \in DOMAIN r.tree
    BY <1>2, <2>2, LayersLaidLinked, Zenon
  <2> HIDE DEF r
  <2>4. LayersLaid(tree', metadata', pending', owned \cup {at}, nodes')
    BY <2>1, <2>3, LayersLaidDone, Zenon
  <2>5. IsFiniteSet(paths') /\ Unpacking!Cardinality(paths') <= MaxLength
    BY <2>1 DEF LayersInv, Unpacking!TypeOK
  <2>6. owned' \subseteq owned \cup {at}
    BY <2>1
  <2> QED BY <1>1, <2>1, <2>4, <2>5, <2>6, LayersLaidNext
<1> QED BY <1>3, <1>4

LEMMA LayersInstall ==
  ASSUME Unpacking!LayersConstants, LayersInv, NEW e \in Entries, Unpacking!Install(e)
  PROVE  LayersInv'
<1> DEFINE w     == Unpacking!Location(e.path, TRUE)
           at    == w.at
           keeps == e.kind = "dir" /\ at \in DOMAIN w.tree /\ w.tree[at].kind = "dir"
           gone  == IF keeps THEN {} ELSE Unpacking!Below(w.tree, at)
           left  == Unpacking!Drop(w.tree, gone)
           kept  == Unpacking!Drop(metadata, gone)
           waits == IF keeps THEN pending ELSE Unpacking!Drop(pending, Unpacking!Invalidated(at))
           inode == IF keeps THEN w.tree[at].inode ELSE w.nodes + 1
           r     == Unpacking!Link(at, e.target, left, w.nodes)
           own   == owned \ IF keeps THEN {} ELSE {p \in owned : Unpacking!IsPrefix(at, p)}
           fails == \/ w.is = "failed"
                    \/ e.kind # "hard" /\ ~keeps /\ w.nodes = MaxNodes
                    \/ e.kind = "link" /\ ~Unpacking!StaysInside(at, e.target)
                    \/ e.kind = "hard" /\ r.is = "failed"
<1>1. /\ layering = "entries" /\ Unpacking!Accepted(e) /\ UNCHANGED <<layer, applied>>
      /\ IsFiniteSet(paths') /\ Unpacking!Cardinality(paths') <= MaxLength
  BY LayersTaken DEF Unpacking!Install, LayersInv
<1>2. /\ e.path \in Seq(Unpacking!Parts) /\ e.path # <<>> /\ Up \notin Unpacking!Range(e.path)
      /\ e.kind \in {"dir", "file", "link", "hard"} /\ (e.kind = "link" => e.target.parts \in Seq(Unpacking!Parts))
  BY <1>1 DEF Unpacking!LayersConstants, Unpacking!Accepted, Unpacking!ArchivePath
<1>3. LayersLaid(tree, metadata, pending, owned, nodes) /\ LayersGood(tree, nodes)
  BY <1>1, LayersLaidNow DEF LayersLaid
<1>4. /\ LayersNamed(at) /\ LayersIsDir(w.tree, Unpacking!Front(at)) /\ LayersGood(w.tree, w.nodes)
      /\ LayersGrown(tree, w.tree)
  BY <1>2, <1>3, LayersLocated, Zenon
<1>5. CASE fails
  <2>1. layering' = "failed" /\ UNCHANGED <<tree, metadata, nodes, pending, owned>>
    BY <1>5, Zenon DEF Unpacking!Install
  <2>2. layer' \in 0..MaxLayers
    BY <1>1 DEF LayersInv, Unpacking!TypeOK
  <2> QED BY <1>1, <2>1, <2>2, LayersQuiet
<1>6. CASE ~fails
  <2>1. owned' = own \cup {at} /\ UNCHANGED <<layering, layer, applied>>
    BY <1>1, <1>6, Zenon DEF Unpacking!Install
  <2>2. LayersLaid(w.tree, metadata, pending, owned, w.nodes)
    BY <1>3, <1>4, LayersLaidGrown
  <2>3. /\ LayersLaid(left, kept, waits, own, w.nodes) /\ LayersIsDir(left, Unpacking!Front(at))
        /\ keeps => at \in DOMAIN left /\ left[at] = w.tree[at]
        /\ ~keeps => at \notin DOMAIN left
    <3>1. CASE keeps
      <4>1. /\ left = Unpacking!Drop(w.tree, {}) /\ kept = Unpacking!Drop(metadata, {}) /\ waits = pending
            /\ own = owned
        BY <3>1
      <4>2. at \in DOMAIN w.tree
        BY <3>1
      <4> HIDE DEF w, at, keeps, left, kept, waits, own
      <4>3. LayersLaid(left, kept, waits, own, w.nodes)
        BY <2>2, <4>1, LayersLaidKept, Zenon
      <4>4. DOMAIN left = DOMAIN w.tree /\ \A p \in DOMAIN w.tree : left[p] = w.tree[p]
        BY <4>1 DEF Unpacking!Drop
      <4>5. LayersIsDir(left, Unpacking!Front(at))
        BY <1>4, <4>4 DEF LayersIsDir
      <4> QED BY <3>1, <4>2, <4>3, <4>4, <4>5
    <3>2. CASE ~keeps
      <4>1. /\ left = Unpacking!Drop(w.tree, Unpacking!Below(w.tree, at))
            /\ kept = Unpacking!Drop(metadata, Unpacking!Below(w.tree, at))
            /\ waits = Unpacking!Drop(pending, Unpacking!Below(pending, at))
            /\ own = owned \ {p \in owned : Unpacking!IsPrefix(at, p)}
        BY <3>2, Zenon DEF Unpacking!Invalidated
      <4> HIDE DEF w, at, keeps, left, kept, waits, own
      <4> QED BY <1>4, <2>2, <3>2, <4>1, LayersLaidCleared, Zenon
    <3> QED BY <3>1, <3>2
  <2>4. LayersGood(left, w.nodes)
    <3> HIDE DEF w, at, keeps, left, kept, waits, own
    <3> QED BY <2>3 DEF LayersLaid
  <2>5. CASE e.kind = "hard"
    <3>1. /\ tree' = r.tree /\ nodes' = r.nodes
          /\ metadata' = IF r.is = "linked" THEN Unpacking!Shares(kept, r) ELSE kept
          /\ pending' = IF r.is = "linked" THEN waits ELSE Unpacking!With(waits, at, e.target)
      BY <1>6, <2>5, Zenon DEF Unpacking!Install
    <3>2. r.is # "failed"
      BY <1>6, <2>5
    <3> DEFINE l == left
               k == kept
               q == waits
               v == own
    <3>3. /\ r = Unpacking!Link(at, e.target, l, w.nodes) /\ LayersLaid(l, k, q, v, w.nodes)
          /\ LayersIsDir(l, Unpacking!Front(at)) /\ LayersGood(l, w.nodes)
      BY <2>3, <2>4, Zenon
    <3> HIDE DEF fails, r, l, k, q, v, w, at, keeps, left, kept, waits, own
    <3>4. r.is \in {"linked", "missing", "failed"} /\ (r.is # "linked" => r.tree = l /\ r.nodes = w.nodes)
      <4> DEFINE m == w.nodes
      <4>1. /\ LayersNamed(at) /\ LayersIsDir(l, Unpacking!Front(at)) /\ LayersGood(l, m)
            /\ r = Unpacking!Link(at, e.target, l, m)
        BY <1>4, <3>3, Zenon
      <4> HIDE DEF m
      <4>2. r.is \in {"linked", "missing", "failed"} /\ (r.is # "linked" => r.tree = l /\ r.nodes = m)
        BY <4>1, LayersLinked
      <4> QED BY <4>2, Zenon DEF m
    <3>5. CASE r.is = "linked"
      <4>1. LayersLaid(r.tree, Unpacking!Shares(k, r), q, v \cup {at}, r.nodes)
        BY <1>4, <3>3, <3>5, LayersLaidLinked, Zenon
      <4>2. LayersLaid(tree', metadata', pending', own \cup {at}, nodes')
        BY <3>1, <3>5, <4>1, Zenon DEF k, q, v
      <4> QED BY <1>1, <2>1, <4>2, LayersLaidNext
    <3>6. CASE r.is # "linked"
      <4>1. LayersLaid(l, k, Unpacking!With(q, at, e.target), v \cup {at}, w.nodes)
        BY <1>4, <3>3, LayersLaidWaiting, Zenon
      <4>2. LayersLaid(tree', metadata', pending', own \cup {at}, nodes')
        BY <3>1, <3>4, <3>6, <4>1, Zenon DEF k, q, v
      <4> QED BY <1>1, <2>1, <4>2, LayersLaidNext
    <3> QED BY <3>5, <3>6
  <2>6. CASE e.kind # "hard"
    <3>1. /\ tree' = IF keeps THEN left ELSE Unpacking!With(left, at, Unpacking!Node(e.kind, inode, e.target))
          /\ nodes' = IF keeps THEN w.nodes ELSE inode
          /\ metadata' = Unpacking!Recorded(kept, at, inode)
          /\ pending' = waits
      BY <1>6, <2>6, Zenon DEF Unpacking!Install
    <3>2. CASE keeps
      <4>1. /\ tree' = left /\ nodes' = w.nodes /\ metadata' = Unpacking!With(kept, at, left[at].inode)
            /\ pending' = waits
        <5>1. inode = left[at].inode
          BY <2>3, <3>2, Zenon
        <5> HIDE DEF inode
        <5> QED BY <3>1, <3>2, <5>1, Zenon DEF Unpacking!Recorded
      <4>2. at \in DOMAIN left
        BY <2>3, <3>2, Zenon
      <4> HIDE DEF fails, w, at, keeps, left, kept, waits, own
      <4>3. LayersLaid(left, Unpacking!With(kept, at, left[at].inode), waits, own \cup {at}, w.nodes)
        BY <2>3, <4>2, LayersLaidRecorded, Zenon
      <4>4. LayersLaid(tree', metadata', pending', own \cup {at}, nodes')
        BY <4>1, <4>3, Zenon
      <4> QED BY <1>1, <2>1, <4>4, LayersLaidNext
    <3>3. CASE ~keeps
      <4> DEFINE x == Unpacking!Node(e.kind, w.nodes + 1, e.target)
      <4>1. x.inode = w.nodes + 1 /\ x.kind = e.kind /\ x.target = e.target
        BY DEF Unpacking!Node
      <4>2. /\ tree' = Unpacking!With(left, at, x) /\ nodes' = w.nodes + 1
            /\ metadata' = Unpacking!With(kept, at, w.nodes + 1) /\ pending' = waits
        <5>1. inode = w.nodes + 1
          BY <3>3, Zenon
        <5> HIDE DEF inode
        <5> QED BY <3>1, <3>3, <5>1, Zenon DEF Unpacking!Recorded
      <4>3. w.nodes # MaxNodes
        BY <1>6, <2>6, <3>3, Zenon
      <4>4. at \notin DOMAIN left
        BY <2>3, <3>3, Zenon
      <4> HIDE DEF fails, w, at, keeps, left, kept, waits, own, inode, x
      <4>5. w.nodes \in Nat /\ w.nodes < MaxNodes /\ MaxNodes \in Nat
        <5>1. w.nodes \in Nat /\ w.nodes <= MaxNodes /\ MaxNodes \in Nat
          BY <1>4 DEF LayersGood, Unpacking!LayersConstants
        <5> QED BY <4>3, <5>1
      <4>6. LayersIsNode(x, w.nodes + 1)
        BY <1>2, <2>6, <4>1, <4>5 DEF LayersIsNode
      <4>7. LayersFits(left, w.nodes, at, x)
        BY <1>4, <2>3, <2>4, <4>1, <4>4, <4>5, <4>6, Zenon DEF LayersFits
      <4>8. LayersLaid(Unpacking!With(left, at, x), Unpacking!With(kept, at, x.inode), waits, own \cup {at},
              w.nodes + 1)
        BY <2>3, <4>7, LayersLaidPlanted, Zenon
      <4>9. LayersLaid(tree', metadata', pending', own \cup {at}, nodes')
        BY <4>1, <4>2, <4>8, Zenon
      <4> QED BY <1>1, <2>1, <4>9, LayersLaidNext
    <3> QED BY <3>2, <3>3
  <2> QED BY <2>5, <2>6
<1> QED BY <1>5, <1>6

(* What finalize() applies is what is recorded, whichever name of an inode  *)
(* it meets first.                                                          *)
LEMMA LayersFinalize ==
  ASSUME LayersInv, Unpacking!Finalize
  PROVE  LayersInv'
<1>1. /\ layering = "ready" /\ layering' = "final"
      /\ UNCHANGED <<tree, metadata, nodes, pending, layer, paths, owned>>
  BY DEF Unpacking!Finalize
<1>2. PICK first \in [Unpacking!Inodes -> DOMAIN tree] :
        /\ \A i \in Unpacking!Inodes : tree[first[i]].inode = i
        /\ applied' = {i \in Unpacking!Inodes : first[i] \in DOMAIN metadata}
  BY DEF Unpacking!Finalize
<1>3. /\ LayersGood(tree, nodes) /\ pending = <<>> /\ Unpacking!MetadataFits /\ layer \in 0..MaxLayers
      /\ IsFiniteSet(paths) /\ Unpacking!Cardinality(paths) <= MaxLength
  BY <1>1 DEF LayersInv, Unpacking!TypeOK
<1>4. Unpacking!TypeOK'
  <2>1. Unpacking!Inodes' = Unpacking!Inodes
    BY <1>1 DEF Unpacking!Inodes
  <2>2. /\ layering' \in {"whiteouts", "entries", "links", "ready", "final", "failed"} /\ layer' \in 0..MaxLayers
        /\ applied' \subseteq Unpacking!Inodes' /\ Unpacking!Cardinality(paths') <= MaxLength
    BY <1>1, <1>2, <1>3, <2>1
  <2>3. LayersGood(tree', nodes')
    BY <1>1, <1>3
  <2> QED BY <2>2, <2>3, LayersGoodTypes DEF Unpacking!TypeOK
<1>5. {i \in Unpacking!Inodes : \E p \in DOMAIN metadata : metadata[p] = i} = applied'
  <2>1. \A p \in DOMAIN metadata : p \in DOMAIN tree /\ metadata[p] = tree[p].inode
    BY <1>3 DEF Unpacking!MetadataFits
  <2>2. \A p \in DOMAIN tree : tree[p].kind # "dir" => p \in DOMAIN metadata
    BY <1>3 DEF Unpacking!MetadataFits
  <2>3. \A p, q \in DOMAIN tree : tree[p].inode = tree[q].inode /\ p # q => tree[p].kind = "file"
          /\ tree[q].kind = "file"
    BY <1>3 DEF LayersGood
  <2>4. ASSUME NEW i \in Unpacking!Inodes, first[i] \in DOMAIN metadata
        PROVE \E p \in DOMAIN metadata : metadata[p] = i
    BY <1>2, <2>1, <2>4
  <2>5. ASSUME NEW i \in Unpacking!Inodes, NEW p \in DOMAIN metadata, metadata[p] = i
        PROVE first[i] \in DOMAIN metadata
    <3>1. p \in DOMAIN tree /\ tree[p].inode = i
      BY <2>1, <2>5
    <3>2. first[i] \in DOMAIN tree /\ tree[first[i]].inode = i
      BY <1>2
    <3>3. CASE first[i] = p
      BY <2>5, <3>3
    <3>4. CASE first[i] # p
      <4>1. tree[first[i]].kind = "file"
        BY <2>3, <3>1, <3>2, <3>4, Zenon
      <4> QED BY <2>2, <3>2, <4>1
    <3> QED BY <3>3, <3>4
  <2> QED BY <1>2, <2>4, <2>5
<1>6. Unpacking!MetadataFits'
  <2>1. {i \in Unpacking!Inodes : \E p \in DOMAIN metadata : metadata[p] = i}'
          = {i \in Unpacking!Inodes : \E p \in DOMAIN metadata : metadata[p] = i}
    BY <1>1 DEF Unpacking!Inodes
  <2> QED BY <1>1, <1>3, <1>5, <2>1 DEF Unpacking!MetadataFits
<1>7. /\ Unpacking!NothingLost'
      /\ (\A p \in DOMAIN pending : LayersNamed(p) /\ LayersIsDir(tree, Unpacking!Front(p)))'
  BY <1>1 DEF Unpacking!NothingLost, LayersInv
<1> QED BY <1>1, <1>3, <1>4, <1>6, <1>7 DEF LayersInv

LEMMA LayersStutter ==
  ASSUME LayersInv, UNCHANGED Unpacking!vars
  PROVE  LayersInv'
<1>1. UNCHANGED <<tree, metadata, nodes, pending, layering, layer, paths, owned, applied>>
  BY DEF Unpacking!vars
<1>2. Unpacking!TypeOK' /\ Unpacking!MetadataFits' /\ Unpacking!NothingLost'
  BY <1>1 DEF LayersInv, Unpacking!TypeOK, Unpacking!MetadataFits, Unpacking!NothingLost, Unpacking!Inodes
<1> QED BY <1>1, <1>2 DEF LayersInv

LEMMA LayersNext ==
  ASSUME Unpacking!LayersConstants, LayersInv, Unpacking!Next
  PROVE  LayersInv'
<1>1. CASE Unpacking!Rewind \/ Unpacking!Spoiled \/ Unpacking!Scanned \/ Unpacking!Unlinked \/ Unpacking!Applied
             \/ Unpacking!Finalize
  BY <1>1, LayersRewind, LayersSpoiled, LayersScanned, LayersUnlinked, LayersApplied, LayersFinalize
<1>2. ASSUME NEW p \in Removed, Unpacking!Whiteout(p) PROVE LayersInv'
  BY <1>2, LayersWhiteout
<1>3. ASSUME NEW p \in Opaque, Unpacking!WhiteoutAll(p) PROVE LayersInv'
  BY <1>3, LayersWhiteoutAll
<1>4. ASSUME NEW e \in Entries, Unpacking!Install(e) PROVE LayersInv'
  BY <1>4, LayersInstall
<1>5. ASSUME NEW p \in DOMAIN pending, Unpacking!Relink(p) PROVE LayersInv'
  BY <1>5, LayersRelink
<1> QED BY <1>1, <1>2, <1>3, <1>4, <1>5 DEF Unpacking!Next

-----------------------------------------------------------------------------
(* Theorems about the components, each by itself. *)

(* What a pull has taken and sent, whatever the registry answers. *)
THEOREM PullInvariant == ASSUME Pulling!RegistryConstants PROVE Pulling!Spec => []PullInv
<1>1. Pulling!Init => PullInv
  BY PullInit
<1>2. PullInv /\ [Pulling!Next]_(Pulling!vars) => PullInv'
  BY PullNext, PullStutter
<1> QED BY <1>1, <1>2, PTL DEF Pulling!Spec

(* What layers have left, whatever their entries and whiteouts are. *)
THEOREM LayersInvariant == ASSUME Unpacking!LayersConstants PROVE Unpacking!Spec => []LayersInv
<1>1. Unpacking!Init => LayersInv
  BY LayersInit
<1>2. LayersInv /\ [Unpacking!Next]_(Unpacking!vars) => LayersInv'
  BY LayersNext, LayersStutter
<1> QED BY <1>1, <1>2, PTL DEF Unpacking!Spec

(* Addresses and user ids, and what they rest on, hold in every state. *)
THEOREM HostInvariant == ASSUME Host!HostConstants PROVE Host!Spec => []HostInv
<1>1. Host!Init => HostInv
  BY HostInit
<1>2. HostInv /\ [Host!Next]_(Host!vars) => HostInv'
  BY HostNext, HostStutter
<1> QED BY <1>1, <1>2, PTL DEF Host!Spec

(* What is saved, and what the tabs show of it. *)
THEOREM ConfigInvariant == ASSUME Saving!ConfigConstants PROVE Saving!Spec => []ConfigInv
<1>1. Saving!Init => ConfigInv
  BY ConfigInit
<1>2. ConfigInv /\ [Saving!Next]_(Saving!vars) => ConfigInv'
  BY ConfigNext, ConfigStutter
<1> QED BY <1>1, <1>2, PTL DEF Saving!Spec

(* Disks of a VM, through runs that fail or are interrupted. *)
THEOREM DisksInvariant == ASSUME Preparing!DiskConstants PROVE Preparing!Spec => []DisksInv
<1>1. Preparing!Init => DisksInv
  BY DisksInit
<1>2. DisksInv /\ [Preparing!Next]_(Preparing!vars) => DisksInv'
  BY DisksNext, DisksStutter
<1> QED BY <1>1, <1>2, PTL DEF Preparing!Spec

(* Snapshots, their records and what is restored from them. *)
THEOREM FitInvariant == ASSUME Fit!FitConstants PROVE Fit!Spec => []FitInv
<1>1. Fit!Init => FitInv
  BY FitInit
<1>2. FitInv /\ [Fit!Next]_(Fit!vars) => FitInv'
  BY FitNext, FitStutter
<1> QED BY <1>1, <1>2, PTL DEF Fit!Spec

(* The page of a VM, while others change the VM. *)
THEOREM ConsoleInvariant == ASSUME Console!ConsoleConstants PROVE Console!Spec => []ConsoleInv
<1>1. Console!Init => ConsoleInv
  BY ConsoleInit
<1>2. ConsoleInv /\ [Console!Next]_(Console!vars) => ConsoleInv'
  BY ConsoleNext, ConsoleStutter
<1> QED BY <1>1, <1>2, PTL DEF Console!Spec

(* Variables keep their types; in particular every address that is offered, *)
(* given or routed is one of a network's definition.                        *)
THEOREM HostTypeCorrect == ASSUME Host!HostConstants PROVE Host!Spec => [](Host!TypeOK)
<1>1. HostInv => Host!TypeOK
  BY DEF HostInv
<1> QED BY <1>1, HostInvariant, PTL

(* No two VMs have one address, and each is served by its network as it is  *)
(* (crates/runtime: network and addressing).                                *)
THEOREM AddressesAlwaysHold == ASSUME Host!HostConstants PROVE Host!Spec => [](Host!AddressesHold)
<1>1. HostInv => Host!AddressesHold
  BY DEF HostInv
<1> QED BY <1>1, HostInvariant, PTL

(* No two VMs have one user id (crates/runtime: isolation/identity).        *)
THEOREM UidsAlwaysHold == ASSUME Host!HostConstants PROVE Host!Spec => [](Host!UidsHold)
<1>1. HostInv => Host!UidsHold
  BY DEF HostInv
<1> QED BY <1>1, HostInvariant, PTL

(* Tokens go to the registry only, and the password to it and to the realm  *)
(* that the operator trusts, whatever it is challenged with and wherever    *)
(* answers redirect (crates/oci: registry/client and registry/auth).        *)
THEOREM SecretsAlwaysStay == ASSUME Pulling!RegistryConstants PROVE Pulling!Spec => [](Pulling!SecretsStay)
<1>1. PullInv => Pulling!SecretsStay
  BY DEF PullInv
<1> QED BY <1>1, PullInvariant, PTL

(* An image is put together from one manifest, perhaps after an index that  *)
(* names it, with its configuration and all its layers in their order,      *)
(* however often the tag moves meanwhile (crates/oci: registry/manifest and *)
(* image).                                                                  *)
THEOREM OneImageAlways == ASSUME Pulling!RegistryConstants PROVE Pulling!Spec => [](Pulling!OneImage)
<1>1. PullInv => Pulling!OneImage
  BY DEF PullInv
<1> QED BY <1>1, PullInvariant, PTL

(* Owners and modes are applied to what they were recorded for, under each  *)
(* name of it, through whiteouts, replacements and links made later         *)
(* (crates/oci: extract/metadata).                                          *)
THEOREM MetadataAlwaysFits == ASSUME Unpacking!LayersConstants PROVE Unpacking!Spec => [](Unpacking!MetadataFits)
<1>1. LayersInv => Unpacking!MetadataFits
  BY DEF LayersInv
<1> QED BY <1>1, LayersInvariant, PTL

(* What a layer installs is there, or is a link that waits for its target,  *)
(* until another entry of the layer replaces it (crates/oci:                *)
(* extract/layer).                                                          *)
THEOREM NothingEverLost == ASSUME Unpacking!LayersConstants PROVE Unpacking!Spec => [](Unpacking!NothingLost)
<1>1. LayersInv => Unpacking!NothingLost
  BY DEF LayersInv
<1> QED BY <1>1, LayersInvariant, PTL

(* A guest boots from disks that are complete and of what its definition    *)
(* names, with those that a guest has written not made anew, and with the   *)
(* kernel, initrd and seed of the definition; an exit code that is shown is *)
(* of the last run; and what a reader of guest files found an inode to be   *)
(* is what it still is. This holds whatever fails, is dropped or crashes,   *)
(* but for a file that is in beside: one made, or replaced, while a copy of *)
(* a dropped handler to the same place still went on, of which nothing is   *)
(* promised but that it is named by the definition (crates/runtime: image,  *)
(* isolation/assets, seed, workload and guest_files).                       *)
THEOREM DisksAlwaysHold ==
  ASSUME Preparing!DiskConstants
  PROVE  Preparing!Spec => [](Preparing!DisksHold /\ Preparing!ReadsFit)
<1>1. DisksInv => Preparing!DisksHold /\ Preparing!ReadsFit
  BY DEF DisksInv
<1> QED BY <1>1, DisksInvariant, PTL

(* With the jailer or without it, a VM that is restored has the address,    *)
(* the filter, the security and the network of the snapshot's record, and   *)
(* from the library its disks and machine too (crates/runtime: snapshot and *)
(* snapshot_library/compatibility).                                         *)
THEOREM LoadedAlwaysFits == ASSUME Fit!FitConstants PROVE Fit!Spec => [](FitLoadedFits)
<1>1. FitInv => FitLoadedFits
  BY DEF FitInv
<1> QED BY <1>1, FitInvariant, PTL

(* With the jailer a restored guest also has the memory and the device      *)
(* state of one moment. Without it the operator may name one memory file    *)
(* for two snapshots, and the theorem above is what remains                 *)
(* (crates/runtime: snapshot and isolation/snapshots).                      *)
THEOREM RestoredAlwaysFits == ASSUME Fit!FitConstants, Jailed PROVE Fit!Spec => [](Fit!RestoredFits)
<1>1. FitInv => Fit!RestoredFits
  BY FitRestored DEF FitInv
<1> QED BY <1>1, FitInvariant, PTL

(* No save overwrites what was written before it began and its author had   *)
(* not been shown, no placeholder is stored and no secret shown, what the   *)
(* host manages changes on the host only, and what is saved is valid. What  *)
(* the host writes while a save runs may be overwritten (crates/config:     *)
(* managed).                                                                *)
THEOREM ConfigAlwaysHolds == ASSUME Saving!ConfigConstants PROVE Saving!Spec => [](Saving!ConfigHolds)
<1>1. ConfigInv => Saving!ConfigHolds
  BY DEF ConfigInv
<1> QED BY <1>1, ConfigInvariant, PTL

(* The page of a VM never shows an older state than before, the form shows  *)
(* and saves what its user wants, and a save replaces its own section only, *)
(* unless another change came after its read (webui: page-vms, view-vm-     *)
(* detail and view-vm-editor).                                              *)
THEOREM ConsoleAlwaysHolds == ASSUME Console!ConsoleConstants PROVE Console!Spec => [](Console!ConsoleHolds)
<1>1. ConsoleInv => Console!ConsoleHolds
  BY ConsoleConsole DEF ConsoleInv
<1> QED BY <1>1, ConsoleInvariant, PTL

-----------------------------------------------------------------------------
(* The specification that chooses a component. *)

PartsInv ==
  /\ part = "registry" => PullInv
  /\ part = "layers" => LayersInv
  /\ part = "host" => HostInv
  /\ part = "config" => ConfigInv
  /\ part = "disks" => DisksInv
  /\ part = "snapshots" => FitInv
  /\ part = "console" => ConsoleInv
  /\ part \in {"registry", "layers", "host", "config", "disks", "snapshots", "console"}

LEMMA PartsInit == ASSUME Init PROVE PartsInv
<1>1. CASE part = "registry"
  <2>1. Pulling!Init
    BY <1>1 DEF Init
  <2>2. PullInv
    BY <2>1, PullInit, ComponentConstants
  <2> QED BY <1>1, <2>2 DEF PartsInv
<1>2. CASE part = "layers"
  <2>1. Unpacking!Init
    BY <1>2 DEF Init
  <2>2. LayersInv
    BY <2>1, LayersInit, ComponentConstants
  <2> QED BY <1>2, <2>2 DEF PartsInv
<1>3. CASE part = "host"
  <2>1. Host!Init
    BY <1>3 DEF Init
  <2>2. HostInv
    BY <2>1, HostInit, ComponentConstants
  <2> QED BY <1>3, <2>2 DEF PartsInv
<1>4. CASE part = "config"
  <2>1. Saving!Init
    BY <1>4 DEF Init
  <2>2. ConfigInv
    BY <2>1, ConfigInit, ComponentConstants
  <2> QED BY <1>4, <2>2 DEF PartsInv
<1>5. CASE part = "disks"
  <2>1. Preparing!Init
    BY <1>5 DEF Init
  <2>2. DisksInv
    BY <2>1, DisksInit, ComponentConstants
  <2> QED BY <1>5, <2>2 DEF PartsInv
<1>6. CASE part = "snapshots"
  <2>1. Fit!Init
    BY <1>6 DEF Init
  <2>2. FitInv
    BY <2>1, FitInit, ComponentConstants
  <2> QED BY <1>6, <2>2 DEF PartsInv
<1>7. CASE part = "console"
  <2>1. Console!Init
    BY <1>7 DEF Init
  <2>2. ConsoleInv
    BY <2>1, ConsoleInit, ComponentConstants
  <2> QED BY <1>7, <2>2 DEF PartsInv
<1> QED BY <1>1, <1>2, <1>3, <1>4, <1>5, <1>6, <1>7 DEF Init

LEMMA PartsNext == ASSUME PartsInv, Next PROVE PartsInv'
<1>1. CASE part = "registry" /\ part' = part /\ Pulling!Next
  <2>1. PullInv
    BY <1>1 DEF PartsInv
  <2>2. PullInv'
    BY <1>1, <2>1, PullNext, ComponentConstants
  <2> QED BY <1>1, <2>2 DEF PartsInv
<1>2. CASE part = "layers" /\ part' = part /\ Unpacking!Next
  <2>1. LayersInv
    BY <1>2 DEF PartsInv
  <2>2. LayersInv'
    BY <1>2, <2>1, LayersNext, ComponentConstants
  <2> QED BY <1>2, <2>2 DEF PartsInv
<1>3. CASE part = "host" /\ part' = part /\ Host!Next
  <2>1. HostInv
    BY <1>3 DEF PartsInv
  <2>2. HostInv'
    BY <1>3, <2>1, HostNext, ComponentConstants
  <2> QED BY <1>3, <2>2 DEF PartsInv
<1>4. CASE part = "config" /\ part' = part /\ Saving!Next
  <2>1. ConfigInv
    BY <1>4 DEF PartsInv
  <2>2. ConfigInv'
    BY <1>4, <2>1, ConfigNext, ComponentConstants
  <2> QED BY <1>4, <2>2 DEF PartsInv
<1>5. CASE part = "disks" /\ part' = part /\ Preparing!Next
  <2>1. DisksInv
    BY <1>5 DEF PartsInv
  <2>2. DisksInv'
    BY <1>5, <2>1, DisksNext, ComponentConstants
  <2> QED BY <1>5, <2>2 DEF PartsInv
<1>6. CASE part = "snapshots" /\ part' = part /\ Fit!Next
  <2>1. FitInv
    BY <1>6 DEF PartsInv
  <2>2. FitInv'
    BY <1>6, <2>1, FitNext, ComponentConstants
  <2> QED BY <1>6, <2>2 DEF PartsInv
<1>7. CASE part = "console" /\ part' = part /\ Console!Next
  <2>1. ConsoleInv
    BY <1>7 DEF PartsInv
  <2>2. ConsoleInv'
    BY <1>7, <2>1, ConsoleNext, ComponentConstants
  <2> QED BY <1>7, <2>2 DEF PartsInv
<1> QED BY <1>1, <1>2, <1>3, <1>4, <1>5, <1>6, <1>7 DEF Next

LEMMA PartsStutter == ASSUME PartsInv, UNCHANGED vars PROVE PartsInv'
<1>1. CASE part = "registry"
  <2>1. part' = part /\ UNCHANGED Pulling!vars
    BY DEF vars, registryVars, Pulling!vars
  <2>2. PullInv
    BY <1>1 DEF PartsInv
  <2>3. PullInv'
    BY <2>1, <2>2, PullStutter, ComponentConstants
  <2> QED BY <1>1, <2>1, <2>3 DEF PartsInv
<1>2. CASE part = "layers"
  <2>1. part' = part /\ UNCHANGED Unpacking!vars
    BY DEF vars, layerVars, Unpacking!vars
  <2>2. LayersInv
    BY <1>2 DEF PartsInv
  <2>3. LayersInv'
    BY <2>1, <2>2, LayersStutter, ComponentConstants
  <2> QED BY <1>2, <2>1, <2>3 DEF PartsInv
<1>3. CASE part = "host"
  <2>1. part' = part /\ UNCHANGED Host!vars
    BY DEF vars, hostVars, Host!vars
  <2>2. HostInv
    BY <1>3 DEF PartsInv
  <2>3. HostInv'
    BY <2>1, <2>2, HostStutter, ComponentConstants
  <2> QED BY <1>3, <2>1, <2>3 DEF PartsInv
<1>4. CASE part = "config"
  <2>1. part' = part /\ UNCHANGED Saving!vars
    BY DEF vars, configVars, Saving!vars
  <2>2. ConfigInv
    BY <1>4 DEF PartsInv
  <2>3. ConfigInv'
    BY <2>1, <2>2, ConfigStutter, ComponentConstants
  <2> QED BY <1>4, <2>1, <2>3 DEF PartsInv
<1>5. CASE part = "disks"
  <2>1. part' = part /\ UNCHANGED Preparing!vars
    BY DEF vars, diskVars, Preparing!vars
  <2>2. DisksInv
    BY <1>5 DEF PartsInv
  <2>3. DisksInv'
    BY <2>1, <2>2, DisksStutter, ComponentConstants
  <2> QED BY <1>5, <2>1, <2>3 DEF PartsInv
<1>6. CASE part = "snapshots"
  <2>1. part' = part /\ UNCHANGED Fit!vars
    BY DEF vars, snapshotVars, Fit!vars
  <2>2. FitInv
    BY <1>6 DEF PartsInv
  <2>3. FitInv'
    BY <2>1, <2>2, FitStutter, ComponentConstants
  <2> QED BY <1>6, <2>1, <2>3 DEF PartsInv
<1>7. CASE part = "console"
  <2>1. part' = part /\ UNCHANGED Console!vars
    BY DEF vars, consoleVars, Console!vars
  <2>2. ConsoleInv
    BY <1>7 DEF PartsInv
  <2>3. ConsoleInv'
    BY <2>1, <2>2, ConsoleStutter, ComponentConstants
  <2> QED BY <1>7, <2>1, <2>3 DEF PartsInv
<1> QED BY <1>1, <1>2, <1>3, <1>4, <1>5, <1>6, <1>7 DEF PartsInv

(* The invariant of whichever component a behaviour is of. *)
THEOREM ComponentsInvariant == Spec => []PartsInv
<1>1. Init => PartsInv
  BY PartsInit
<1>2. PartsInv /\ [Next]_vars => PartsInv'
  BY PartsNext, PartsStutter
<1> QED BY <1>1, <1>2, PTL DEF Spec

(* Every component's state is of its types; in particular every path of a   *)
(* staging directory is in a directory that is there, whatever the layers   *)
(* remove and replace.                                                      *)
THEOREM ComponentsTypeCorrect == Spec => []TypeOK
<1>1. PartsInv => TypeOK
  BY DEF PartsInv, TypeOK, PullInv, LayersInv, HostInv, ConfigInv, DisksInv, FitInv, ConsoleInv
<1> QED BY <1>1, ComponentsInvariant, PTL

(* Secrets of a registry stay with it, an image is of one manifest, and     *)
(* unpacking loses nothing and gives nothing the metadata of another        *)
(* (crates/oci).                                                            *)
THEOREM ImagesAlwaysHold == Spec => []ImagesHold
<1>1. PartsInv => ImagesHold
  BY DEF PartsInv, ImagesHold, PullInv, LayersInv
<1> QED BY <1>1, ComponentsInvariant, PTL

(* Addresses and user ids belong to one VM; disks are complete and fit the  *)
(* definition, but for those made while a copy of a dropped handler went on *)
(* beside; and with the jailer a guest that is restored has memory and      *)
(* device state of one moment and the network of then, and from the library *)
(* the disks of then (crates/runtime).                                      *)
THEOREM GuestsAlwaysHold == ASSUME Jailed PROVE Spec => []GuestsHold
<1>1. PartsInv => GuestsHold
  BY FitRestored DEF PartsInv, GuestsHold, HostInv, DisksInv, FitInv
<1> QED BY <1>1, ComponentsInvariant, PTL

(* A save of the configuration overwrites nothing written before it began   *)
(* that its author's page has not shown, and changes nothing that is for    *)
(* the host to change; the page of a VM never goes back, its form saves     *)
(* what was put together in it, and a save of a section keeps the rest of   *)
(* the definition that it has read. Nothing is said of changes between that *)
(* read and the PUT, or while the form is open, nor of a draft typed during *)
(* its review (crates/config and the web console).                          *)
THEOREM EditsAlwaysHold == Spec => []EditsHold
<1>1. PartsInv => EditsHold
  BY ConsoleConsole DEF PartsInv, EditsHold, ConfigInv, ConsoleInv
<1> QED BY <1>1, ComponentsInvariant, PTL

=============================================================================
