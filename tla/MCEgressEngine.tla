--------------------------- MODULE MCEgressEngine ---------------------------
(* An instance of EgressEngine for model checking: one gateway, a proxy    *)
(* port and a tunnel port, and policies that share a listener or swap it.  *)
EXTENDS EgressEngine, TLC

MCResolve == [h \in {"api", "lan"} |-> IF h = "api" THEN {"public", "private"} ELSE {"private"}]

Web   == [port |-> "proxy", tunnels |-> {},
          rules |-> << [scheme |-> "https", host |-> "lan", nets |-> {"private"}],
                       [scheme |-> "https", host |-> "api", nets |-> {}],
                       [scheme |-> "https", host |-> "api", nets |-> {"private"}] >>]
Relay == [port |-> None, rules |-> <<>>,
          tunnels |-> {[port |-> "tcp", host |-> "api", nets |-> {"public"}]}]
Clash == [port |-> "tcp", rules |-> <<>>, tunnels |-> Relay.tunnels]

MCPolicies == {Web, Relay, Clash}

MCRequests ==
  { [connect |-> TRUE,  scheme |-> "https", host |-> "api", proper |-> TRUE],
    [connect |-> FALSE, scheme |-> "https", host |-> "api", proper |-> TRUE],
    [connect |-> FALSE, scheme |-> "https", host |-> "lan", proper |-> TRUE] }

(* VMs, addresses and connections are interchangeable. *)
Symmetric == Permutations(Vms) \cup Permutations(Guests) \cup Permutations(Conns)
=============================================================================
