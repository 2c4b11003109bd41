---------------------------- MODULE EgressAccess ----------------------------
(***************************************************************************)
(* What the egress catalog promises about guests, with no word about how:  *)
(* a guest has the access that the stored policy of its VM grants, or      *)
(* none; and a change is stored only while every guest that it concerns    *)
(* has none, so that none goes on with what the change takes away.         *)
(***************************************************************************)
CONSTANTS
  VM,       \* the virtual machines
  Policy,   \* the egress policies of the catalog
  Content,  \* what a policy can say: rules and resolved upstream
  Unbound,  \* the binding of a VM without a policy
  NoPolicy  \* no access at all

VARIABLES
  content,  \* the stored content of each policy
  bind,     \* the policy that each VM's stored specification selects
  access    \* what each guest can reach

accessVars == <<content, bind, access>>

(* Runtime::effective_egress, of the catalog <<c, b>> *)
Effective(c, b, v) == IF b[v] = Unbound THEN NoPolicy ELSE c[b[v]]

AccessInit ==
  /\ content \in [Policy -> Content]
  /\ bind \in [VM -> Policy \cup {Unbound}]
  /\ access = [v \in VM |-> NoPolicy]

(* Guests gain what is stored for them, or lose what they have, any time.  *)
Adjust ==
  /\ access' \in [VM -> Content \cup {NoPolicy}]
  /\ \A v \in VM : access'[v] \in {access[v], NoPolicy, Effective(content, bind, v)}
  /\ UNCHANGED <<content, bind>>

Store ==
  /\ content' \in [Policy -> Content]
  /\ bind' \in [VM -> Policy \cup {Unbound}]
  /\ \A v \in VM : Effective(content', bind', v) # Effective(content, bind, v)
                     => access[v] = NoPolicy
  /\ UNCHANGED access

AccessNext == Adjust \/ Store

AccessSpec == AccessInit /\ [][AccessNext]_accessVars
=============================================================================
