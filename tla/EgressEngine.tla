---------------------------- MODULE EgressEngine ----------------------------
(***************************************************************************)
(* The egress engine (crate egress-proxy): registrations of VMs, the       *)
(* listeners they share on their gateway, the connections of guests and    *)
(* the requests forwarded for them.  register, unregister and replace_many *)
(* change registrations and listeners under the write lock of `state` and  *)
(* then wait, under `mutation` only, for the tasks of the registrations    *)
(* they removed: the change is one step here and the wait another, and     *)
(* the client whose handler waits may disconnect.                          *)
(*                                                                         *)
(* A registration is named by its VM and a member of Names: the name       *)
(* stands for its cancellation token, its semaphore and its task tracker   *)
(* and is used again once no task holds it.  A connection is up to three tasks of *)
(* the tracker: `main` (connection), `tls` (the task that CONNECT spawns)  *)
(* and `relay` (the connection to the upstream server).                    *)
(***************************************************************************)
EXTENDS Naturals, FiniteSets, Sequences

CONSTANTS
  Vms, Guests, Gateways, Ports, Hosts, Addrs,
  Policies,  \* the policies offered: [port, rules, tunnels]
  Public,    \* the addresses is_public accepts
  Resolve,   \* the addresses that a host name may resolve to
  Requests,  \* the requests of guests: [connect, scheme, host, proper]
  Conns,     \* bound: connections at once
  Names,     \* bound: registrations of a VM, current or with tasks left
  Permits,   \* Semaphore::new(128)
  None       \* stands for Option::None

Rule   == [scheme : {"http", "https"}, host : Hosts, nets : SUBSET Addrs]
TcpTunnel == [port : Ports, host : Hosts, nets : SUBSET Addrs]

ASSUME EngineConstants ==
  /\ None \notin Vms \cup Guests \cup Ports \cup Hosts \cup Addrs \cup Conns
  /\ None \notin {"http", "https", "tcp"}
  /\ Policies \subseteq [port : Ports \cup {None}, rules : Seq(Rule), tunnels : SUBSET TcpTunnel]
  /\ Requests \subseteq [connect : BOOLEAN, scheme : {"http", "https"}, host : Hosts, proper : BOOLEAN]
  /\ Public \subseteq Addrs
  /\ Resolve \in [Hosts -> SUBSET Addrs]
  /\ IsFiniteSet(Conns)
  /\ Permits \in Nat \ {0}

VARIABLES
  regs,     \* State.registrations: what each VM is registered with, or Unregistered
  tokens,   \* the registrations whose cancellation token is not cancelled
  sock,     \* the listener of each key: State.listeners holds "live" and "dead"
            \* ones; a "closing" one is cancelled and its task not yet over
  conn,     \* the connections of guests
  call,     \* the holder of `mutation` that waits: what it waits for
  orphans   \* history: registrations whose removal nobody waits for any more

vars == <<regs, tokens, sock, conn, call, orphans>>

Keys  == Gateways \X Ports
Gens  == Vms \X Names
Entry == [gen : Gens, guest : Guests, gateway : Gateways, policy : Policies]
Unregistered == [gen |-> None]

NoReq == [scheme |-> None]
(* A request under way: what it is for and the address it connects to. *)
Req == [scheme : {"http", "https", "tcp"}, host : Hosts, addr : Addrs]

Idle == [st |-> "idle"]
Held == [st : {"held"}, guest : Guests, key : Keys]
Conn == {f \in [st : {"served"}, key : Keys, gen : Gens, policy : Policies,
                main : BOOLEAN, tls : BOOLEAN, relay : BOOLEAN,
                target : Hosts \cup {None}, req : Req \cup {NoReq}] :
           f.main \/ f.tls \/ f.relay}

Waiting == [prev : SUBSET Gens, closed : SUBSET Keys]
Free    == [prev |-> {}, closed |-> {}]

TypeOK ==
  /\ regs \in [Vms -> Entry \cup {Unregistered}]
  /\ tokens \subseteq Gens
  /\ sock \in [Keys -> {"none", "live", "dead", "closing"}]
  /\ conn \in [Conns -> Held \cup Conn \cup {Idle}]
  /\ call \in Waiting
  /\ orphans \subseteq Gens

Init ==
  /\ regs = [v \in Vms |-> Unregistered]
  /\ tokens = {}
  /\ sock = [k \in Keys |-> "none"]
  /\ conn = [c \in Conns |-> Idle]
  /\ call = Free
  /\ orphans = {}

-----------------------------------------------------------------------------
(* Policies *)

PortsOf(p) == (IF p.port = None THEN {} ELSE {p.port}) \cup {t.port : t \in p.tunnels}

(* EgressPolicy::validate: among other things, listener ports are unique. *)
Valid(p) ==
  /\ p.port \notin {t.port : t \in p.tunnels}
  /\ \A t, u \in p.tunnels : t.port = u.port => t = u

(* HttpRule::is_match; methods and path prefixes are part of r.proper. *)
Matches(rule, scheme, host) == rule.scheme = scheme /\ rule.host = host

(* The first rule that matches decides: its allowed_ips bind the request. *)
RulesFor(p, scheme, host) ==
  {i \in DOMAIN p.rules : Matches(p.rules[i], scheme, host)}
FirstRule(p, scheme, host) ==
  p.rules[CHOOSE i \in RulesFor(p, scheme, host) :
            \A j \in RulesFor(p, scheme, host) : i <= j]

(* Mutant: an empty allow list admits every address. *)
ApprovedAny(addr, nets, publicOnly) == nets # {} => addr \in nets

(* resolve::destination: is the address one that the list approves? *)
Approved(addr, nets, publicOnly) ==
  IF nets # {} THEN addr \in nets ELSE publicOnly => addr \in Public

-----------------------------------------------------------------------------
(* Registrations and listeners *)

Registered    == {v \in Vms : regs[v] # Unregistered}
KeysOf(e)     == {e.gateway} \X PortsOf(e.policy)
KeysNeeded(r) == UNION {KeysOf(r[v]) : v \in {w \in Vms : r[w] # Unregistered}}
InMap(k)      == sock[k] \in {"live", "dead"}

Served(c)  == conn[c].st = "served"
Tasks(g)   == {c \in Conns : Served(c) /\ conn[c].gen = g}
(* Mutant: the permit ends with the task that accepted the connection. *)
PermitsOfMain(g) == {c \in Tasks(g) : conn[c].main}

(* http::Context owns the permit: main and the CONNECT task share it. *)
PermitsOf(g) == {c \in Tasks(g) : conn[c].main \/ conn[c].tls}

FreeNames(v) == {n \in Names : regs[v].gen # <<v, n>> /\ Tasks(<<v, n>>) = {}}
NewGen(v)    == <<v, CHOOSE n \in FreeNames(v) : TRUE>>

CanBind(keys) == \A k \in keys : ~InMap(k) => sock[k] = "none"

(* The change itself: tokens of what is removed are cancelled, new ports   *)
(* are listened on, and listeners nobody needs any more are cancelled.     *)
(* Mutant: a listener is closed when one of its users goes. *)
SocketsWithout(r) ==
  [k \in Keys |-> IF \E v \in Registered : r[v] # regs[v] /\ k \in KeysOf(regs[v])
                    THEN (IF sock[k] = "live" THEN "closing" ELSE "none")
                  ELSE IF k \in KeysNeeded(r) /\ ~InMap(k) THEN "live" ELSE sock[k]]

Sockets(r) ==
  [k \in Keys |-> IF k \in KeysNeeded(r)
                    THEN IF InMap(k) THEN sock[k] ELSE "live"
                    ELSE IF sock[k] = "live" THEN "closing"
                    ELSE IF sock[k] = "dead" THEN "none" ELSE sock[k]]

Retired(r) == {regs[v].gen : v \in {w \in Registered : r[w] # regs[w]}}

Switch(r) ==
  /\ regs' = r
  /\ tokens' = {r[v].gen : v \in {w \in Vms : r[w] # Unregistered}}
  /\ sock' = Sockets(r)
  /\ call' = [prev |-> Retired(r),
              closed |-> {k \in Keys : sock[k] = "live" /\ Sockets(r)[k] = "closing"}]
  /\ UNCHANGED <<conn, orphans>>

Identity == [guest : Guests, gateway : Gateways, policy : {p \in Policies : Valid(p)}]
With(u, g) == [gen |-> g, guest |-> u.guest, gateway |-> u.gateway, policy |-> u.policy]

(* EgressManager::register *)
Register(v, u) ==
  /\ call = Free
  /\ v \notin Registered
  /\ \A w \in Registered : regs[w].guest # u.guest
  /\ FreeNames(v) # {}
  /\ LET e == With(u, NewGen(v)) IN
       /\ CanBind(KeysOf(e))
       /\ Switch([regs EXCEPT ![v] = e])

(* EgressManager::unregister *)
Unregister(v) ==
  /\ call = Free
  /\ v \in Registered
  /\ Switch([regs EXCEPT ![v] = Unregistered])

(* Mutant: replace_many looks for guests among the replaced VMs only. *)
GuestsFreeAmong(new) ==
  \A v, w \in DOMAIN new : v # w => new[v].guest # new[w].guest

(* The guests of the update differ, and no other VM has one of them. *)
GuestsFree(new) ==
  /\ \A v, w \in DOMAIN new : v # w => new[v].guest # new[w].guest
  /\ \A v \in DOMAIN new, w \in Registered \ DOMAIN new : regs[w].guest # new[v].guest

Update == [guest : Guests, gateway : Gateways,
           policy : {p \in Policies : Valid(p)} \cup {None}]

(* EgressManager::replace_many: a VM without a policy loses its entry. *)
ReplaceMany(vs) ==
  \E new \in [vs -> Update] :
    LET kept == {v \in vs : new[v].policy # None} IN
    /\ call = Free
    /\ GuestsFree(new)
    /\ \A v \in kept : FreeNames(v) # {}
    /\ LET r == [v \in Vms |-> IF v \in kept THEN With(new[v], NewGen(v))
                               ELSE IF v \in vs THEN Unregistered ELSE regs[v]]
       IN CanBind(KeysNeeded(r)) /\ Switch(r)

(* Mutant: the tasks of the removed registrations are not waited for. *)
SettledListeners == \A k \in call.closed : sock[k] # "closing"

(* tasks.wait() and the join handles of the closed listeners. *)
Settled ==
  /\ \A g \in call.prev : Tasks(g) = {}
  /\ \A k \in call.closed : sock[k] # "closing"

Return ==
  /\ call # Free
  /\ Settled
  /\ call' = Free
  /\ UNCHANGED <<regs, tokens, sock, conn, orphans>>

(* The handler that waits is dropped: `mutation` is free, nothing undone. *)
Drop ==
  /\ call # Free
  /\ orphans = {}  \* bound: one abandoned removal at a time
  /\ call' = Free
  /\ orphans' = {g \in call.prev : Tasks(g) # {}}
  /\ UNCHANGED <<regs, tokens, sock, conn>>

-----------------------------------------------------------------------------
(* Connections: accepted, dispatched to the registration in force, ended *)

Sets(c, f) == conn' = [conn EXCEPT ![c] = f]

(* Mutant: the slot of a connection whose tasks are over stays in use. *)
Untidy(f) == f

(* A record of no task left is an idle slot. *)
Tidy(f) == IF f.main \/ f.tls \/ f.relay THEN f ELSE Idle

(* A guest connects and the listener accepts: `held` until its lookup.  A  *)
(* cancelled listener may still accept, until it looks at its token.       *)
Holds(k, c) == conn[c].st = "held" /\ conn[c].key = k

Accept(c, g, k) ==
  /\ conn[c] = Idle
  /\ sock[k] \in {"live", "closing"}
  /\ \A d \in Conns : ~Holds(k, d)
  /\ Sets(c, [st |-> "held", guest |-> g, key |-> k])
  /\ UNCHANGED <<regs, tokens, sock, call, orphans>>

EntriesFor(guest, k) ==
  {v \in Registered : regs[v].guest = guest /\ k \in KeysOf(regs[v])}

Accepts(c, v) ==
  [st |-> "served", key |-> conn[c].key, gen |-> regs[v].gen,
   policy |-> regs[v].policy, main |-> TRUE, tls |-> FALSE, relay |-> FALSE,
   target |-> None, req |-> NoReq]

HasPermit(v) == Cardinality(PermitsOf(regs[v].gen)) < Permits

(* The lookup, under the read lock: a connection that finds no entry or no *)
(* permit is dropped.                                                      *)
Dispatch(c) ==
  /\ conn[c].st = "held"
  /\ LET entries == EntriesFor(conn[c].guest, conn[c].key) IN
       \/ \E v \in entries : HasPermit(v) /\ Sets(c, Accepts(c, v))
       \/ (\A v \in entries : ~HasPermit(v)) /\ Sets(c, Idle)
  /\ UNCHANGED <<regs, tokens, sock, call, orphans>>

(* The task of a listener ends: it saw its token, or accept failed.        *)
ListenerEnds(k, from, to) ==
  /\ sock[k] = from
  /\ \A c \in Conns : ~Holds(k, c)
  /\ sock' = [sock EXCEPT ![k] = to]
  /\ UNCHANGED <<regs, tokens, conn, call, orphans>>

ListenerStops(k) == ListenerEnds(k, "closing", "none")
AcceptFails(k)   == ListenerEnds(k, "live", "dead")

-----------------------------------------------------------------------------
(* Requests *)

InMain(c) == conn[c].main /\ conn[c].target = None /\ conn[c].policy.port = conn[c].key[2]
(* The TLS task is served once the upgrade has ended serve's connection and *)
(* the handshake, whose name must be that of CONNECT, is done.             *)
InTls(c)  == conn[c].tls /\ ~conn[c].main
Asks(c)   == Served(c) /\ conn[c].req = NoReq /\ ~conn[c].relay /\ (InMain(c) \/ InTls(c))

Becomes(c, f) ==
  /\ Sets(c, Tidy(f))
  /\ orphans' = {g \in orphans : Tidy(f) # Idle \/ Tasks(g) # {c}}
  /\ UNCHANGED <<regs, tokens, sock, call>>

(* handle, CONNECT: a rule for the host must exist; a task is spawned. *)
Connect(c, r) ==
  /\ Asks(c)
  /\ InMain(c)
  /\ r.connect /\ r.proper
  /\ RulesFor(conn[c].policy, "https", r.host) # {}
  /\ Becomes(c, [conn[c] EXCEPT !.tls = TRUE, !.target = r.host])

(* Mutant: a request inside TLS may name any host. *)
AgreesAny(c, r) == r.scheme = (IF InTls(c) THEN "https" ELSE "http")

(* The scheme is the connection's; inside TLS the host is CONNECT's. *)
Agrees(c, r) ==
  IF InTls(c) THEN r.scheme = "https" /\ r.host = conn[c].target
              ELSE r.scheme = "http"

(* The address that resolve::destination finds is the one connected to. *)
Admitted(c, q, nets) ==
  /\ q.addr \in Resolve[q.host]
  /\ Approved(q.addr, nets, q.scheme # "tcp")
  /\ Becomes(c, [conn[c] EXCEPT !.req = q])

(* forward, up to the address; a request that is refused changes nothing. *)
Forward(c, r, a) ==
  /\ Asks(c)
  /\ ~r.connect /\ r.proper
  /\ Agrees(c, r)
  /\ RulesFor(conn[c].policy, r.scheme, r.host) # {}
  /\ Admitted(c, [scheme |-> r.scheme, host |-> r.host, addr |-> a],
              FirstRule(conn[c].policy, r.scheme, r.host).nets)

(* connection, for a tunnel's port. *)
Tunnel(c, a) ==
  /\ Served(c)
  /\ conn[c].req = NoReq
  /\ conn[c].policy.port # conn[c].key[2]
  /\ \E t \in conn[c].policy.tunnels :
       /\ t.port = conn[c].key[2]
       /\ Admitted(c, [scheme |-> "tcp", host |-> t.host, addr |-> a], t.nets)

(* The body is read, headers and signature are set, the server or the      *)
(* upstream proxy answers: a task is spawned that relays the response.  Or *)
(* one of them fails, and the guest may ask again.                         *)
Connected(c, ok) ==
  /\ Served(c)
  /\ conn[c].req.scheme \in {"http", "https"}
  /\ Becomes(c, [conn[c] EXCEPT !.req = NoReq, !.relay = ok])

(* The end of a task: the guest or the server hung up, the response is     *)
(* over, or the task saw the cancelled token of its registration.          *)
MainEnds(c) ==
  /\ Served(c) /\ conn[c].main
  /\ Becomes(c, [conn[c] EXCEPT !.main = FALSE,
                              !.req = IF conn[c].tls THEN @ ELSE NoReq])
TlsEnds(c) ==
  /\ Served(c) /\ conn[c].tls
  /\ Becomes(c, [conn[c] EXCEPT !.tls = FALSE,
                              !.req = IF conn[c].main THEN @ ELSE NoReq])
RelayEnds(c) ==
  /\ Served(c) /\ conn[c].relay
  /\ Becomes(c, [conn[c] EXCEPT !.relay = FALSE])

-----------------------------------------------------------------------------
Call ==
  \/ \E v \in Vms, u \in Identity : Register(v, u)
  \/ \E v \in Vms : Unregister(v)
  \/ \E vs \in (SUBSET Vms) \ {{}} : ReplaceMany(vs)

Listening ==
  \/ \E c \in Conns, g \in Guests, k \in Keys : Accept(c, g, k)
  \/ \E c \in Conns : Dispatch(c)
  \/ \E k \in Keys : ListenerStops(k) \/ AcceptFails(k)

Serving(c) ==
  \/ \E r \in Requests : Connect(c, r)
  \/ \E r \in Requests, a \in Addrs : Forward(c, r, a)
  \/ \E a \in Addrs : Tunnel(c, a)
  \/ \E ok \in BOOLEAN : Connected(c, ok)
  \/ MainEnds(c) \/ TlsEnds(c) \/ RelayEnds(c)

Next == Call \/ Return \/ Drop \/ Listening \/ (\E c \in Conns : Serving(c))

Cancelled(c) == Served(c) /\ conn[c].gen \notin tokens

Spec == Init /\ [][Next]_vars

-----------------------------------------------------------------------------
(* Properties *)

(* No two VMs are registered for one guest address, whatever sequence of   *)
(* registrations and replacements led here: the lookup of an accepted      *)
(* connection finds at most one policy (manager.rs:98, replacement.rs:37). *)
GuestsDistinct ==
  \A v, w \in Registered : regs[v].guest = regs[w].guest => v = w

(* The listeners in the map are those of the ports that registrations in   *)
(* force need: VMs share them, and the last user closes them.              *)
PortsListened == \A k \in Keys : InMap(k) <=> k \in KeysNeeded(regs)

(* Nothing runs for a registration that is gone: once the call that        *)
(* removed it has returned no task of it is left, and until then, or when  *)
(* its client left while it waited, its tasks have a cancelled token.      *)
NothingOutlivesPolicy ==
  \A c \in Conns : Served(c) =>
    \/ \E v \in Registered : regs[v].gen = conn[c].gen /\ regs[v].policy = conn[c].policy
    \/ Cancelled(c) /\ conn[c].gen \in call.prev \cup orphans

(* A guest has at most Permits connections under the policy in force,      *)
(* those that CONNECT turned into TLS included.                            *)
GuestCapacity ==
  \A v \in Registered :
    Cardinality({c \in Tasks(regs[v].gen) : conn[c].main \/ conn[c].tls}) <= Permits

(* What is connected to is what a policy allows: the address resolved is   *)
(* approved by the first rule for the host, and a request inside TLS goes  *)
(* to the host that its CONNECT named.                                     *)
Allowed(f) ==
  LET q == f.req IN
  IF q.scheme = "tcp"
  THEN \E t \in f.policy.tunnels :
         t.port = f.key[2] /\ t.host = q.host /\ (t.nets # {} => q.addr \in t.nets)
  ELSE \E i \in DOMAIN f.policy.rules :
         LET rule == f.policy.rules[i] IN
         /\ rule.host = q.host /\ rule.scheme = q.scheme
         /\ \A j \in 1..(i - 1) : f.policy.rules[j].host # q.host
                                  \/ f.policy.rules[j].scheme # q.scheme
         /\ q.addr \in (IF rule.nets = {} THEN Public ELSE rule.nets)
         /\ q.scheme = "https" => f.target = q.host

ForwardsAllowed ==
  \A c \in Conns : Served(c) /\ conn[c].req # NoReq => Allowed(conn[c])

(* The registrations in force are those that are asked for, and listened    *)
(* for: a guest is looked up without doubt, at a port that is open.          *)
RegistrationsFit == GuestsDistinct /\ PortsListened

(* A connection serves one policy: the one in force when it was accepted,    *)
(* until that is replaced, and within what that policy allows.               *)
PolicyHolds == NothingOutlivesPolicy /\ ForwardsAllowed

-----------------------------------------------------------------------------
(* The inductive invariant behind these.                                     *)

(* A registration is named after its VM.                                     *)
NamedByVm == \A v \in Registered : regs[v].gen \in {v} \X Names

(* The tokens that are not cancelled are those of the registrations in force.*)
TokensInForce == tokens = {regs[v].gen : v \in Registered}

IInv ==
  /\ TypeOK
  /\ NamedByVm
  /\ TokensInForce
  /\ RegistrationsFit
  /\ PolicyHolds
  /\ GuestCapacity
=============================================================================
