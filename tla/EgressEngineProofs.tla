------------------------- MODULE EgressEngineProofs -------------------------
(***************************************************************************)
(* IInv of EgressEngine is inductive, for any VMs, policies, listeners and *)
(* connections.  There is one lemma for each of the four kinds of steps:   *)
(* a switch of the registrations, the end of the wait for it, a listener's *)
(* step, and the change of one connection.                                 *)
(***************************************************************************)
EXTENDS EgressEngine, FiniteSetTheorems, WellFoundedInduction, TLAPS

-----------------------------------------------------------------------------
(* Tags *)

(* A slot is in one of three states, told by its tag. *)
LEMMA ConnTags ==
  ASSUME TypeOK, NEW c \in Conns
  PROVE  /\ conn[c].st = "served" <=> conn[c] \in Conn
         /\ conn[c].st = "held" <=> conn[c] \in Held
         /\ conn[c].st = "idle" <=> conn[c] = Idle
  BY DEF TypeOK, Conn, Held, Idle

(* A VM is registered if it has an entry. *)
LEMMA EntryTags ==
  ASSUME TypeOK, NEW v \in Vms
  PROVE  v \in Registered <=> regs[v] \in Entry
<1>1. Unregistered \notin Entry
  BY DEF Unregistered, Entry
<1> QED BY <1>1 DEF Registered, TypeOK

(* A request under way differs from none. *)
LEMMA ReqTags == NoReq \notin Req
  BY EngineConstants DEF NoReq, Req

(* A policy's ports are ports. *)
LEMMA PortsTypes ==
  ASSUME NEW p \in Policies
  PROVE  PortsOf(p) \subseteq Ports
  BY EngineConstants DEF PortsOf, TcpTunnel

-----------------------------------------------------------------------------
(* A switch of the registrations *)

(* What register, unregister and replace_many make of the registrations: a  *)
(* VM keeps its entry, loses it, or gets a new one under a name that        *)
(* nothing uses.                                                            *)
Successor(r) ==
  /\ r \in [Vms -> Entry \cup {Unregistered}]
  /\ \A v \in Vms : r[v] \in {regs[v], Unregistered} \/ r[v].gen \in {v} \X FreeNames(v)
  /\ \A v, w \in Vms : r[v] # Unregistered /\ r[w] # Unregistered /\ r[v].guest = r[w].guest => v = w

(* A name that is free can be chosen. *)
LEMMA NewGenIsFree ==
  ASSUME NEW v \in Vms, FreeNames(v) # {}
  PROVE  NewGen(v) \in {v} \X FreeNames(v) /\ NewGen(v) \in Gens
<1> DEFINE n == CHOOSE n \in FreeNames(v) : TRUE
<1>1. n \in FreeNames(v)
  OBVIOUS
<1>2. NewGen(v) = <<v, n>> /\ FreeNames(v) \subseteq Names
  BY DEF NewGen, FreeNames
<1> HIDE DEF n
<1> QED BY <1>1, <1>2 DEF Gens

LEMMA RegisterSwitches ==
  ASSUME IInv, NEW v \in Vms, NEW u \in Identity, Register(v, u)
  PROVE  call = Free /\ \E r : Successor(r) /\ Switch(r)
<1> DEFINE e == With(u, NewGen(v))
           r == [regs EXCEPT ![v] = e]
<1>1. e \in Entry /\ e.gen \in {v} \X FreeNames(v) /\ e.guest = u.guest
  BY NewGenIsFree DEF Register, With, Entry, Identity
<1>2. \A w \in Vms : r[w] # Unregistered => w = v \/ w \in Registered
  BY DEF IInv, TypeOK, Registered
<1>3. Successor(r)
  <2>1. r \in [Vms -> Entry \cup {Unregistered}]
    BY <1>1 DEF IInv, TypeOK
  <2>2. \A w \in Vms : r[w] \in {regs[w], Unregistered} \/ r[w].gen \in {w} \X FreeNames(w)
    BY <1>1 DEF IInv, TypeOK
  <2>3. \A w, x \in Vms : r[w] # Unregistered /\ r[x] # Unregistered /\ r[w].guest = r[x].guest => w = x
    BY <1>1, <1>2 DEF Register, IInv, TypeOK, RegistrationsFit, GuestsDistinct
  <2> QED BY <2>1, <2>2, <2>3 DEF Successor
<1> QED BY <1>3 DEF Register

LEMMA UnregisterSwitches ==
  ASSUME IInv, NEW v \in Vms, Unregister(v)
  PROVE  call = Free /\ \E r : Successor(r) /\ Switch(r)
<1> DEFINE r == [regs EXCEPT ![v] = Unregistered]
<1>1. Successor(r)
  BY DEF Successor, IInv, TypeOK, RegistrationsFit, GuestsDistinct, Registered
<1> QED BY <1>1 DEF Unregister

LEMMA ReplaceManySwitches ==
  ASSUME IInv, NEW vs \in SUBSET Vms, ReplaceMany(vs)
  PROVE  call = Free /\ \E r : Successor(r) /\ Switch(r)
<1>1. PICK new \in [vs -> Update] :
        LET kept == {v \in vs : new[v].policy # None} IN
        /\ call = Free
        /\ GuestsFree(new)
        /\ \A v \in kept : FreeNames(v) # {}
        /\ LET r == [v \in Vms |-> IF v \in kept THEN With(new[v], NewGen(v))
                                   ELSE IF v \in vs THEN Unregistered ELSE regs[v]]
           IN CanBind(KeysNeeded(r)) /\ Switch(r)
  BY DEF ReplaceMany
<1> DEFINE kept == {v \in vs : new[v].policy # None}
           r == [v \in Vms |-> IF v \in kept THEN With(new[v], NewGen(v))
                               ELSE IF v \in vs THEN Unregistered ELSE regs[v]]
<1>2. \A v \in kept : /\ With(new[v], NewGen(v)) \in Entry
                      /\ With(new[v], NewGen(v)).gen \in {v} \X FreeNames(v)
                      /\ With(new[v], NewGen(v)).guest = new[v].guest
  BY <1>1, NewGenIsFree DEF With, Entry, Update
<1>3. r \in [Vms -> Entry \cup {Unregistered}]
  BY <1>2 DEF IInv, TypeOK
<1>4. \A v \in Vms : r[v] \in {regs[v], Unregistered} \/ r[v].gen \in {v} \X FreeNames(v)
  BY <1>2
<1>5. \A v \in Vms : r[v] # Unregistered => \/ v \in kept /\ r[v].guest = new[v].guest
                                            \/ v \in Registered \ vs /\ r[v] = regs[v]
  BY <1>2 DEF Registered
<1>6. \A v, w \in Vms : r[v] # Unregistered /\ r[w] # Unregistered /\ r[v].guest = r[w].guest => v = w
  BY <1>1, <1>5 DEF GuestsFree, IInv, RegistrationsFit, GuestsDistinct
<1> QED BY <1>1, <1>3, <1>4, <1>6 DEF Successor

(* The connections of a name that is free are over. *)
LEMMA FreeIsUnused ==
  ASSUME NEW v \in Vms, NEW g \in {v} \X FreeNames(v)
  PROVE  g \in Gens /\ g # regs[v].gen /\ Tasks(g) = {} /\ g[1] = v
  BY DEF FreeNames, Gens

(* What a switch keeps: names, tokens and listeners follow the entries, and *)
(* the connections of entries that went are waited for.                     *)
LEMMA SwitchKeeps ==
  ASSUME IInv, call = Free, NEW r, Successor(r), Switch(r)
  PROVE  IInv'
<1> USE DEF IInv
<1>1. regs' = r /\ conn' = conn /\ orphans' = orphans
  BY DEF Switch
<1>2. \A v \in Vms : v \in Registered' <=> r[v] # Unregistered
  BY <1>1 DEF Registered
<1>3. \A v \in Registered' : v \in Vms /\ r[v] \in Entry
  BY <1>1, <1>2 DEF Successor, Registered
<1>4. \A v \in Registered' : \/ v \in Registered /\ r[v] = regs[v]
                             \/ r[v].gen \in {v} \X FreeNames(v)
  BY <1>2, <1>3 DEF Successor, Registered
<1>5. NamedByVm'
  BY <1>1, <1>4 DEF NamedByVm, FreeNames
<1>6. TokensInForce'
  BY <1>1, <1>2 DEF Switch, TokensInForce, Registered
<1>7. Retired(r) \subseteq Gens
  <2>1. \A v \in Registered : regs[v] \in Entry
    BY EntryTags DEF Registered
  <2> QED BY <2>1 DEF Retired, Entry
<1>8. TypeOK'
  <2>1. tokens' \subseteq Gens
    BY <1>1, <1>3, <1>6 DEF TokensInForce, Entry
  <2>2. sock' \in [Keys -> {"none", "live", "dead", "closing"}]
    BY DEF Switch, Sockets, InMap, TypeOK
  <2>3. call' \in Waiting
    BY <1>7 DEF Switch, Waiting
  <2> QED BY <1>1, <2>1, <2>2, <2>3 DEF TypeOK, Successor
<1>9. RegistrationsFit'
  <2>1. GuestsDistinct'
    BY <1>1, <1>2 DEF Successor, GuestsDistinct, Registered
  <2>2. KeysNeeded(regs)' = KeysNeeded(r)
    BY <1>1 DEF KeysNeeded
  <2>3. \A k \in Keys : InMap(k)' <=> k \in KeysNeeded(r)
    BY DEF Switch, Sockets, InMap, TypeOK
  <2> QED BY <2>1, <2>2, <2>3 DEF RegistrationsFit, PortsListened
<1>10. NothingOutlivesPolicy'
  <2> SUFFICES ASSUME NEW c \in Conns, Served(c)
               PROVE  \/ \E v \in Registered' : r[v].gen = conn[c].gen /\ r[v].policy = conn[c].policy
                      \/ conn[c].gen \notin tokens' /\ conn[c].gen \in call'.prev \cup orphans
    BY <1>1 DEF NothingOutlivesPolicy, Served, Cancelled
  (* A new name has no connection. *)
  <2>1. \A v \in Registered' : r[v].gen = conn[c].gen => v \in Registered /\ r[v] = regs[v]
    <3> SUFFICES ASSUME NEW v \in Registered', r[v].gen = conn[c].gen, r[v].gen \in {v} \X FreeNames(v)
                 PROVE  FALSE
      BY <1>4
    <3> QED BY <1>3, FreeIsUnused DEF Tasks
  <2>2. CASE \E v \in Registered : regs[v].gen = conn[c].gen /\ regs[v].policy = conn[c].policy
    <3>1. PICK v \in Registered : regs[v].gen = conn[c].gen /\ regs[v].policy = conn[c].policy
      BY <2>2
    <3>2. CASE r[v] = regs[v]
      BY <1>2, <3>1, <3>2 DEF Registered
    <3>3. CASE r[v] # regs[v]
      <4>1. conn[c].gen \in call'.prev
        BY <3>1, <3>3 DEF Switch, Retired
      <4>2. conn[c].gen \notin tokens'
        BY <1>1, <1>6, <2>1, <3>1, <3>3 DEF TokensInForce, NamedByVm
      <4> QED BY <4>1, <4>2
    <3> QED BY <3>2, <3>3
  <2>3. CASE Cancelled(c) /\ conn[c].gen \in call.prev \cup orphans
    <3>1. conn[c].gen \notin tokens'
      BY <1>1, <1>6, <2>1, <2>3 DEF TokensInForce, Cancelled
    <3> QED BY <2>3, <3>1 DEF Free
  <2> QED BY <2>2, <2>3 DEF PolicyHolds, NothingOutlivesPolicy
<1>11. ForwardsAllowed'
  BY <1>1 DEF PolicyHolds, ForwardsAllowed, Served
<1>12. GuestCapacity'
  <2> SUFFICES ASSUME NEW v \in Registered'
               PROVE  Cardinality({c \in Tasks(r[v].gen) : conn[c].main \/ conn[c].tls}) <= Permits
    BY <1>1 DEF GuestCapacity, Tasks, Served
  <2>1. CASE v \in Registered /\ r[v] = regs[v]
    BY <2>1 DEF GuestCapacity
  <2>2. CASE r[v].gen \in {v} \X FreeNames(v)
    <3>1. {c \in Tasks(r[v].gen) : conn[c].main \/ conn[c].tls} = {}
      BY <1>3, <2>2, FreeIsUnused
    <3>2. Cardinality({}) = 0 /\ 0 <= Permits
      BY FS_EmptySet, EngineConstants
    <3> QED BY <3>1, <3>2
  <2> QED BY <1>4, <2>1, <2>2
<1> QED BY <1>5, <1>6, <1>8, <1>9, <1>10, <1>11, <1>12 DEF PolicyHolds

-----------------------------------------------------------------------------
(* The wait for what was removed *)

(* The call returns: no task is left of what it removed.                    *)
LEMMA ReturnKeeps ==
  ASSUME IInv, Return
  PROVE  IInv'
<1> USE DEF IInv, Return
<1>1. NothingOutlivesPolicy'
  BY DEF PolicyHolds, NothingOutlivesPolicy, Settled, Tasks, Served, Cancelled, Registered
<1>2. TypeOK'
  BY DEF TypeOK, Free, Waiting
<1>3. NamedByVm' /\ TokensInForce' /\ RegistrationsFit'
  BY DEF NamedByVm, TokensInForce, RegistrationsFit, GuestsDistinct, PortsListened, InMap, Registered
<1>4. ForwardsAllowed'
  BY DEF PolicyHolds, ForwardsAllowed, Served
<1>5. GuestCapacity'
  BY DEF GuestCapacity, Tasks, Served, Registered
<1> QED BY <1>1, <1>2, <1>3, <1>4, <1>5 DEF PolicyHolds

(* The call is dropped: what it waited for is remembered.                   *)
LEMMA DropKeeps ==
  ASSUME IInv, Drop
  PROVE  IInv'
<1> USE DEF IInv, Drop
<1>1. NothingOutlivesPolicy'
  BY DEF PolicyHolds, NothingOutlivesPolicy, Tasks, Served, Cancelled, Registered
<1>2. TypeOK'
  BY DEF TypeOK, Free, Waiting
<1>3. NamedByVm' /\ TokensInForce' /\ RegistrationsFit'
  BY DEF NamedByVm, TokensInForce, RegistrationsFit, GuestsDistinct, PortsListened, InMap, Registered
<1>4. ForwardsAllowed'
  BY DEF PolicyHolds, ForwardsAllowed, Served
<1>5. GuestCapacity'
  BY DEF GuestCapacity, Tasks, Served, Registered
<1> QED BY <1>1, <1>2, <1>3, <1>4, <1>5 DEF PolicyHolds

-----------------------------------------------------------------------------
(* The first rule *)

LEMMA LeastExists ==
  ASSUME NEW S \in SUBSET Nat, S # {}
  PROVE  \E i \in S : \A j \in S : i <= j
<1>1. PICK i \in S : \A j \in S : <<j, i>> \notin OpToRel(<, Nat)
  BY NatLessThanWellFounded, WFMin, Zenon
<1>2. \A j, k \in Nat : j < k => <<j, k>> \in OpToRel(<, Nat)
  BY SMT DEF OpToRel
<1>3. \A j \in S : ~(j < i) /\ j \in Nat /\ i \in Nat
  BY <1>1, <1>2, Zenon
<1> QED BY <1>3, SMT

(* FirstRule is a rule that matches, and no earlier one does.               *)
LEMMA FirstRuleIsFirst ==
  ASSUME NEW p \in Policies, NEW s, NEW h, RulesFor(p, s, h) # {}
  PROVE  \E i \in DOMAIN p.rules :
           /\ FirstRule(p, s, h) = p.rules[i]
           /\ Matches(p.rules[i], s, h)
           /\ \A j \in 1..(i - 1) : ~Matches(p.rules[j], s, h)
<1> DEFINE i == CHOOSE i \in RulesFor(p, s, h) : \A j \in RulesFor(p, s, h) : i <= j
<1>1. p.rules \in Seq(Rule)
  BY EngineConstants
<1>2. DOMAIN p.rules = 1..Len(p.rules) /\ Len(p.rules) \in Nat
  BY <1>1
<1>3. RulesFor(p, s, h) \subseteq Nat
  BY <1>2 DEF RulesFor
<1>4. i \in RulesFor(p, s, h) /\ \A j \in RulesFor(p, s, h) : i <= j
  BY <1>3, LeastExists
<1>5. FirstRule(p, s, h) = p.rules[i]
  BY DEF FirstRule
<1> HIDE DEF i
<1>6. i \in 1..Len(p.rules) /\ Matches(p.rules[i], s, h)
  BY <1>2, <1>4 DEF RulesFor
<1>7. ASSUME NEW j \in 1..(i - 1)
      PROVE  ~Matches(p.rules[j], s, h)
  BY <1>2, <1>4, <1>6 DEF RulesFor
<1> QED BY <1>2, <1>5, <1>6, <1>7

-----------------------------------------------------------------------------
(* The change of one connection *)

(* Of the connections only c changes, to f: it keeps its registration or    *)
(* has one in force, takes no permit that it had not or that was not free,  *)
(* and asks for what it may.  No other connection's registration is         *)
(* forgotten.                                                               *)
Fits(c, f) ==
  /\ f.st = "served" =>
       \/ \E v \in Registered : f.gen = regs[v].gen /\ f.policy = regs[v].policy
       \/ Served(c) /\ f.gen = conn[c].gen /\ f.policy = conn[c].policy
  /\ f.st = "served" /\ (f.main \/ f.tls) =>
       \/ Served(c) /\ f.gen = conn[c].gen /\ (conn[c].main \/ conn[c].tls)
       \/ \E v \in Registered : f.gen = regs[v].gen /\ HasPermit(v)
  /\ f.st = "served" /\ f.req # NoReq => Allowed(f)

LEMMA ConnectionKeeps ==
  ASSUME IInv, NEW c \in Conns, NEW f \in Held \cup Conn \cup {Idle},
         Sets(c, f), Fits(c, f), UNCHANGED <<regs, tokens, sock, call>>,
         orphans' \subseteq orphans,
         \A d \in Conns : conn'[d].st = "served" /\ conn'[d].gen \in orphans => conn'[d].gen \in orphans'
  PROVE  IInv'
<1> USE DEF IInv
<1>1. conn'[c] = f /\ \A d \in Conns \ {c} : conn'[d] = conn[d]
  BY DEF Sets, TypeOK
<1>2. Registered' = Registered
  BY DEF Registered
<1>3. TypeOK'
  BY DEF TypeOK, Sets
<1>4. NamedByVm' /\ TokensInForce' /\ RegistrationsFit'
  BY DEF NamedByVm, TokensInForce, RegistrationsFit, GuestsDistinct, PortsListened, InMap, Registered
<1>5. NothingOutlivesPolicy'
  <2> SUFFICES ASSUME NEW d \in Conns, conn'[d].st = "served"
               PROVE  \/ \E v \in Registered : regs[v].gen = conn'[d].gen /\ regs[v].policy = conn'[d].policy
                      \/ conn'[d].gen \notin tokens /\ conn'[d].gen \in call.prev \cup orphans'
    BY <1>2 DEF NothingOutlivesPolicy, Served, Cancelled
  <2>1. CASE \E v \in Registered : conn'[d].gen = regs[v].gen /\ conn'[d].policy = regs[v].policy
    BY <2>1
  <2>2. CASE Served(d) /\ conn'[d].gen = conn[d].gen /\ conn'[d].policy = conn[d].policy
    BY <2>2 DEF PolicyHolds, NothingOutlivesPolicy, Cancelled
  <2> QED BY <1>1, <2>1, <2>2 DEF Fits, Served
<1>6. ForwardsAllowed'
  <2> SUFFICES ASSUME NEW d \in Conns, conn'[d].st = "served", conn'[d].req # NoReq
               PROVE  Allowed(conn'[d])
    BY DEF ForwardsAllowed, Served, Allowed
  <2> QED BY <1>1 DEF Fits, PolicyHolds, ForwardsAllowed, Served
<1>7. GuestCapacity'
  <2> SUFFICES ASSUME NEW v \in Registered
               PROVE  Cardinality(PermitsOf(regs[v].gen)') <= Permits
    BY <1>2 DEF GuestCapacity, PermitsOf
  <2> DEFINE P == PermitsOf(regs[v].gen)
  <2>1. IsFiniteSet(P) /\ Cardinality(P) \in Nat /\ Permits \in Nat
    <3>1. P \subseteq Conns
      BY DEF PermitsOf, Tasks
    <3> QED BY <3>1, EngineConstants, FS_Subset, FS_CardinalityType
  <2>2. Cardinality(P) <= Permits
    BY DEF GuestCapacity, PermitsOf
  <2>3. P' \subseteq P \cup {c}
    BY <1>1 DEF PermitsOf, Tasks, Served
  <2>4. CASE P' \subseteq P
    <3>1. Cardinality(P') <= Cardinality(P) /\ Cardinality(P') \in Nat
      BY <2>1, <2>4, FS_Subset, FS_CardinalityType
    <3> QED BY <2>1, <2>2, <3>1
  <2>5. CASE ~(P' \subseteq P)
    <3>1. f.st = "served" /\ (f.main \/ f.tls) /\ f.gen = regs[v].gen /\ c \notin P
      BY <1>1, <2>3, <2>5 DEF PermitsOf, Tasks, Served
    <3>2. PICK w \in Registered : f.gen = regs[w].gen /\ HasPermit(w)
      BY <3>1 DEF Fits, PermitsOf, Tasks
    <3>3. Cardinality(P) < Permits
      BY <3>1, <3>2 DEF HasPermit
    <3>4. IsFiniteSet(P \cup {c}) /\ Cardinality(P \cup {c}) = Cardinality(P) + 1
      BY <2>1, <3>1, FS_AddElement
    <3>5. Cardinality(P') <= Cardinality(P \cup {c}) /\ Cardinality(P') \in Nat
      BY <2>3, <3>4, FS_Subset, FS_CardinalityType
    <3> QED BY <2>1, <3>3, <3>4, <3>5
  <2> QED BY <2>4, <2>5
<1> QED BY <1>3, <1>4, <1>5, <1>6, <1>7 DEF PolicyHolds

-----------------------------------------------------------------------------
(* The steps of listeners and connections *)

(* Accept: a connection that is held is not served yet.                     *)
LEMMA AcceptKeeps ==
  ASSUME IInv, NEW c \in Conns, NEW g \in Guests, NEW k \in Keys, Accept(c, g, k)
  PROVE  IInv'
<1> DEFINE f == [st |-> "held", guest |-> g, key |-> k]
<1>1. f \in Held /\ Sets(c, f) /\ Fits(c, f)
  BY DEF Accept, Held, Fits
<1>2. UNCHANGED <<regs, tokens, sock, call, orphans>>
  BY DEF Accept
<1> QED BY <1>1, <1>2, ConnectionKeeps

(* Dispatch: it is served under the entry in force, with a permit of it.    *)
LEMMA DispatchKeeps ==
  ASSUME IInv, NEW c \in Conns, Dispatch(c)
  PROVE  IInv'
<1>1. UNCHANGED <<regs, tokens, sock, call, orphans>>
  BY DEF Dispatch
<1>2. CASE Sets(c, Idle)
  <2>1. Fits(c, Idle)
    BY DEF Fits, Idle
  <2> QED BY <1>1, <1>2, <2>1, ConnectionKeeps
<1>3. ASSUME NEW v \in EntriesFor(conn[c].guest, conn[c].key), HasPermit(v), Sets(c, Accepts(c, v))
      PROVE  IInv'
  <2>1. v \in Registered /\ regs[v] \in Entry
    BY EntryTags DEF EntriesFor, Registered, IInv
  <2>2. conn[c] \in Held
    BY ConnTags DEF Dispatch, IInv
  <2>3. Accepts(c, v) \in Conn
    BY <2>1, <2>2 DEF Accepts, Conn, Held, Entry
  <2>4. Fits(c, Accepts(c, v))
    BY <1>3, <2>1 DEF Fits, Accepts
  <2> QED BY <1>1, <1>3, <2>3, <2>4, ConnectionKeeps
<1> QED BY <1>2, <1>3 DEF Dispatch

(* A listener's task ends: a cancelled one leaves, one in use stays listed. *)
LEMMA ListenerKeeps ==
  ASSUME IInv, NEW k \in Keys, ListenerStops(k) \/ AcceptFails(k)
  PROVE  IInv'
<1> USE DEF IInv
<1>1. UNCHANGED <<regs, tokens, conn, call, orphans>>
  BY DEF ListenerStops, AcceptFails, ListenerEnds
<1>2. TypeOK' /\ \A l \in Keys : InMap(l)' <=> InMap(l)
  BY DEF ListenerStops, AcceptFails, ListenerEnds, TypeOK, InMap
<1>3. KeysNeeded(regs)' = KeysNeeded(regs)
  BY <1>1
<1>4. RegistrationsFit'
  BY <1>1, <1>2, <1>3 DEF RegistrationsFit, GuestsDistinct, PortsListened, Registered
<1>5. NamedByVm' /\ TokensInForce'
  BY <1>1 DEF NamedByVm, TokensInForce, Registered
<1>6. NothingOutlivesPolicy'
  BY <1>1 DEF PolicyHolds, NothingOutlivesPolicy, Served, Cancelled, Registered
<1>7. ForwardsAllowed'
  BY <1>1 DEF PolicyHolds, ForwardsAllowed, Served
<1>8. GuestCapacity'
  BY <1>1 DEF GuestCapacity, Tasks, Served, Registered
<1> QED BY <1>2, <1>4, <1>5, <1>6, <1>7, <1>8 DEF PolicyHolds

(* A record of a served connection, tasks left or not.                      *)
Record == [st : {"served"}, key : Keys, gen : Gens, policy : Policies,
           main : BOOLEAN, tls : BOOLEAN, relay : BOOLEAN,
           target : Hosts \cup {None}, req : Req \cup {NoReq}]

(* A served connection changes its tasks and its request, but neither its   *)
(* registration nor, once they ended, the tasks that hold its permit.       *)
LEMMA BecomesKeeps ==
  ASSUME IInv, NEW c \in Conns, Served(c), NEW f \in Record, Becomes(c, f),
         f.gen = conn[c].gen, f.policy = conn[c].policy,
         f.main \/ f.tls => conn[c].main \/ conn[c].tls,
         f.req # NoReq => Allowed(f)
  PROVE  IInv'
<1>1. Tidy(f) \in Conn \cup {Idle}
  BY DEF Tidy, Conn, Record
<1>2. Tidy(f).st = "served" => Tidy(f) = f /\ Tidy(f) # Idle
  BY DEF Tidy, Idle
<1>3. Fits(c, Tidy(f))
  BY <1>2 DEF Fits
<1>4. ASSUME NEW d \in Conns, conn'[d].st = "served", conn'[d].gen \in orphans
      PROVE  conn'[d].gen \in orphans'
  <2>1. conn'[c] = Tidy(f) /\ \A e \in Conns \ {c} : conn'[e] = conn[e]
    BY DEF Becomes, Sets, IInv, TypeOK
  <2>2. CASE d = c
    BY <1>2, <1>4, <2>1, <2>2 DEF Becomes
  <2>3. CASE d # c
    BY <1>4, <2>1, <2>3 DEF Becomes, Tasks, Served
  <2> QED BY <2>2, <2>3
<1>5. orphans' \subseteq orphans /\ UNCHANGED <<regs, tokens, sock, call>> /\ Sets(c, Tidy(f))
  BY DEF Becomes
<1> QED BY <1>1, <1>3, <1>4, <1>5, ConnectionKeeps

(* The record of a served connection. *)
LEMMA ServedRecord ==
  ASSUME IInv, NEW c \in Conns, Served(c)
  PROVE  conn[c] \in Record /\ (conn[c].main \/ conn[c].tls \/ conn[c].relay)
  BY ConnTags DEF Served, IInv, Conn, Record

(* A request that is admitted: forward and tunnels end alike.               *)
LEMMA AdmittedKeeps ==
  ASSUME IInv, NEW c \in Conns, Served(c), NEW q \in Req, NEW nets, Admitted(c, q, nets),
         Allowed([conn[c] EXCEPT !.req = q])
  PROVE  IInv'
<1> DEFINE f == [conn[c] EXCEPT !.req = q]
<1>1. /\ f \in Record
      /\ f.gen = conn[c].gen /\ f.policy = conn[c].policy
      /\ f.main = conn[c].main /\ f.tls = conn[c].tls
  BY ServedRecord DEF Record
<1>2. Becomes(c, f)
  BY DEF Admitted
<1> HIDE DEF f
<1>3. Allowed(f)
  BY DEF f
<1> QED BY <1>1, <1>2, <1>3, BecomesKeeps

LEMMA ForwardKeeps ==
  ASSUME IInv, NEW c \in Conns, NEW r \in Requests, NEW a \in Addrs, Forward(c, r, a)
  PROVE  IInv'
<1> DEFINE q == [scheme |-> r.scheme, host |-> r.host, addr |-> a]
           f == [conn[c] EXCEPT !.req = q]
           p == conn[c].policy
<1>1. r.scheme \in {"http", "https"} /\ r.host \in Hosts
  BY EngineConstants
<1>2. Served(c) /\ q \in Req
  BY <1>1 DEF Forward, Asks, Req
<1>3. conn[c] \in Record
  BY <1>2, ServedRecord
<1>4. PICK i \in DOMAIN p.rules :
        /\ FirstRule(p, r.scheme, r.host) = p.rules[i]
        /\ Matches(p.rules[i], r.scheme, r.host)
        /\ \A j \in 1..(i - 1) : ~Matches(p.rules[j], r.scheme, r.host)
  BY <1>1, <1>3, FirstRuleIsFirst DEF Forward, Record
<1>5. Approved(a, p.rules[i].nets, TRUE) /\ Admitted(c, q, p.rules[i].nets)
  BY <1>1, <1>4 DEF Forward, Admitted
<1>6. a \in (IF p.rules[i].nets = {} THEN Public ELSE p.rules[i].nets)
  BY <1>5 DEF Approved
<1>7. r.scheme = "https" => conn[c].target = r.host
  BY DEF Forward, Agrees
<1>8. f.req = q /\ f.policy = p /\ f.target = conn[c].target /\ q.scheme # "tcp"
  BY <1>1, <1>3 DEF Record
<1>9. Allowed(f)
  <2> HIDE DEF f
  <2>1. q.host = r.host /\ q.scheme = r.scheme /\ q.addr = a
    OBVIOUS
  <2> HIDE DEF q, p
  <2> QED BY <1>4, <1>6, <1>7, <1>8, <2>1 DEF Allowed, Matches
<1> QED BY <1>2, <1>5, <1>9, AdmittedKeeps

LEMMA TunnelKeeps ==
  ASSUME IInv, NEW c \in Conns, NEW a \in Addrs, Tunnel(c, a)
  PROVE  IInv'
<1>1. Served(c) /\ conn[c] \in Record
  BY ServedRecord DEF Tunnel
<1>2. PICK t \in conn[c].policy.tunnels :
        /\ t.port = conn[c].key[2]
        /\ Admitted(c, [scheme |-> "tcp", host |-> t.host, addr |-> a], t.nets)
  BY DEF Tunnel
<1> DEFINE q == [scheme |-> "tcp", host |-> t.host, addr |-> a]
           f == [conn[c] EXCEPT !.req = q]
<1>3. q \in Req
  BY <1>1, EngineConstants DEF Req, Record, TcpTunnel
<1>4. t.nets # {} => a \in t.nets
  BY <1>2 DEF Admitted, Approved
<1>5. f.req = q /\ f.policy = conn[c].policy /\ f.key = conn[c].key
  BY <1>1 DEF Record
<1>6. Allowed(f)
  BY <1>2, <1>4, <1>5 DEF Allowed
<1> QED BY <1>1, <1>2, <1>3, <1>6, AdmittedKeeps

LEMMA ConnectKeeps ==
  ASSUME IInv, NEW c \in Conns, NEW r \in Requests, Connect(c, r)
  PROVE  IInv'
<1> DEFINE f == [conn[c] EXCEPT !.tls = TRUE, !.target = r.host]
<1>1. Served(c) /\ conn[c] \in Record /\ conn[c].req = NoReq /\ conn[c].main
  BY ServedRecord DEF Connect, Asks, InMain
<1>2. /\ f \in Record
      /\ f.gen = conn[c].gen /\ f.policy = conn[c].policy /\ f.req = NoReq
  BY <1>1, EngineConstants DEF Record
<1>3. Becomes(c, f)
  BY DEF Connect
<1> HIDE DEF f
<1> QED BY <1>1, <1>2, <1>3, BecomesKeeps

(* The ends of requests and tasks: what is left of a request is as before.  *)
LEMMA EndKeeps ==
  ASSUME IInv, NEW c \in Conns, NEW ok \in BOOLEAN,
         Connected(c, ok) \/ MainEnds(c) \/ TlsEnds(c) \/ RelayEnds(c)
  PROVE  IInv'
<1>1. Served(c) /\ conn[c] \in Record
  BY ServedRecord DEF Connected, MainEnds, TlsEnds, RelayEnds
<1>2. conn[c].req # NoReq => Allowed(conn[c])
  BY <1>1 DEF IInv, PolicyHolds, ForwardsAllowed
<1>3. PICK main \in BOOLEAN, tls \in BOOLEAN, relay \in BOOLEAN, req \in {conn[c].req, NoReq} :
        /\ Becomes(c, [conn[c] EXCEPT !.main = main, !.tls = tls, !.relay = relay, !.req = req])
        /\ main \/ tls => conn[c].main \/ conn[c].tls
  <2>1. CASE Connected(c, ok)
    <3>1. [conn[c] EXCEPT !.req = NoReq, !.relay = ok] =
          [conn[c] EXCEPT !.main = conn[c].main, !.tls = conn[c].tls, !.relay = ok, !.req = NoReq]
      BY <1>1 DEF Record
    <3> QED BY <1>1, <2>1, <3>1 DEF Connected, Record
  <2>2. CASE MainEnds(c)
    <3> DEFINE q == IF conn[c].tls THEN conn[c].req ELSE NoReq
    <3>1. [conn[c] EXCEPT !.main = FALSE, !.req = q] =
          [conn[c] EXCEPT !.main = FALSE, !.tls = conn[c].tls, !.relay = conn[c].relay, !.req = q]
      BY <1>1 DEF Record
    <3> QED BY <1>1, <2>2, <3>1 DEF MainEnds, Record
  <2>3. CASE TlsEnds(c)
    <3> DEFINE q == IF conn[c].main THEN conn[c].req ELSE NoReq
    <3>1. [conn[c] EXCEPT !.tls = FALSE, !.req = q] =
          [conn[c] EXCEPT !.main = conn[c].main, !.tls = FALSE, !.relay = conn[c].relay, !.req = q]
      BY <1>1 DEF Record
    <3> QED BY <1>1, <2>3, <3>1 DEF TlsEnds, Record
  <2>4. CASE RelayEnds(c)
    <3>1. [conn[c] EXCEPT !.relay = FALSE] =
          [conn[c] EXCEPT !.main = conn[c].main, !.tls = conn[c].tls, !.relay = FALSE, !.req = conn[c].req]
      BY <1>1 DEF Record
    <3> QED BY <1>1, <2>4, <3>1 DEF RelayEnds, Record
  <2> QED BY <2>1, <2>2, <2>3, <2>4
<1> DEFINE f == [conn[c] EXCEPT !.main = main, !.tls = tls, !.relay = relay, !.req = req]
<1>4. /\ f \in Record
      /\ f.gen = conn[c].gen /\ f.policy = conn[c].policy /\ f.key = conn[c].key
      /\ f.target = conn[c].target /\ f.main = main /\ f.tls = tls /\ f.req = req
  BY <1>1 DEF Record
<1>5. Becomes(c, f)
  BY <1>3
<1> HIDE DEF f
<1>6. f.req # NoReq => Allowed(f)
  BY <1>2, <1>4 DEF Allowed
<1> QED BY <1>1, <1>3, <1>4, <1>5, <1>6, BecomesKeeps

-----------------------------------------------------------------------------
(* The invariant *)

LEMMA InitHolds ==
  ASSUME Init
  PROVE  IInv
<1> USE DEF Init
<1>1. TypeOK
  BY DEF TypeOK, Free, Waiting
<1>2. Registered = {}
  BY DEF Registered
<1>3. KeysNeeded(regs) = {}
  BY DEF KeysNeeded
<1>4. RegistrationsFit
  BY <1>2, <1>3 DEF RegistrationsFit, GuestsDistinct, PortsListened, InMap
<1>5. \A c \in Conns : ~Served(c)
  BY DEF Served, Idle
<1> QED BY <1>1, <1>2, <1>4, <1>5 DEF IInv, NamedByVm, TokensInForce, PolicyHolds,
           NothingOutlivesPolicy, ForwardsAllowed, GuestCapacity

LEMMA NextKeeps ==
  ASSUME IInv, [Next]_vars
  PROVE  IInv'
<1>1. ASSUME NEW v \in Vms, NEW u \in Identity, Register(v, u)
      PROVE  IInv'
  BY <1>1, RegisterSwitches, SwitchKeeps
<1>2. ASSUME NEW v \in Vms, Unregister(v)
      PROVE  IInv'
  BY <1>2, UnregisterSwitches, SwitchKeeps
<1>3. ASSUME NEW vs \in SUBSET Vms, ReplaceMany(vs)
      PROVE  IInv'
  BY <1>3, ReplaceManySwitches, SwitchKeeps
<1>4. CASE Call
  BY <1>1, <1>2, <1>3, <1>4 DEF Call
<1>5. CASE Return
  BY <1>5, ReturnKeeps
<1>6. CASE Drop
  BY <1>6, DropKeeps
<1>7. CASE Listening
  BY <1>7, AcceptKeeps, DispatchKeeps, ListenerKeeps DEF Listening
<1>8. ASSUME NEW c \in Conns, Serving(c)
      PROVE  IInv'
  <2>1. TRUE \in BOOLEAN
    OBVIOUS
  <2> QED BY <1>8, <2>1, ConnectKeeps, ForwardKeeps, TunnelKeeps, EndKeeps DEF Serving
<1>9. CASE UNCHANGED vars
  <2> USE <1>9 DEF vars
  <2>1. Registered' = Registered /\ KeysNeeded(regs)' = KeysNeeded(regs)
    BY DEF Registered, KeysNeeded
  <2>2. TypeOK' /\ NamedByVm' /\ TokensInForce'
    BY <2>1 DEF IInv, TypeOK, NamedByVm, TokensInForce
  <2>3. RegistrationsFit'
    BY <2>1 DEF IInv, RegistrationsFit, GuestsDistinct, PortsListened, InMap
  <2>4. PolicyHolds'
    BY <2>1 DEF IInv, PolicyHolds, NothingOutlivesPolicy, ForwardsAllowed, Served, Cancelled
  <2>5. GuestCapacity'
    BY <2>1 DEF IInv, GuestCapacity, Tasks, Served
  <2> QED BY <2>2, <2>3, <2>4, <2>5 DEF IInv
<1> QED BY <1>4, <1>5, <1>6, <1>7, <1>8, <1>9 DEF Next

(* The invariant of the engine, whatever its VMs, policies, listeners and   *)
(* bounds are.                                                              *)
THEOREM EngineInvariant == Spec => []IInv
<1>1. Init => IInv
  BY InitHolds
<1>2. IInv /\ [Next]_vars => IInv'
  BY NextKeeps
<1> QED BY <1>1, <1>2, PTL DEF Spec

(* Every variable of the engine has its type in every reachable state.      *)
THEOREM EngineTypeCorrect == Spec => []TypeOK
<1>1. IInv => TypeOK
  BY DEF IInv
<1> QED BY <1>1, EngineInvariant, PTL

(* No two registered VMs have one guest address, and the listeners in the   *)
(* map are those that registrations need (manager.rs, replacement.rs).      *)
THEOREM RegistrationsFitAlways == Spec => []RegistrationsFit
<1>1. IInv => RegistrationsFit
  BY DEF IInv
<1> QED BY <1>1, EngineInvariant, PTL

(* No connection outlives its policy unnoticed, and each goes only where    *)
(* the first rule for its host or its tunnel lets it (http, resolve).       *)
THEOREM PolicyHoldsAlways == Spec => []PolicyHolds
<1>1. IInv => PolicyHolds
  BY DEF IInv
<1> QED BY <1>1, EngineInvariant, PTL

(* A guest has at most Permits connections under the policy in force.       *)
THEOREM GuestCapacityAlways == Spec => []GuestCapacity
<1>1. IInv => GuestCapacity
  BY DEF IInv
<1> QED BY <1>1, EngineInvariant, PTL
=============================================================================
