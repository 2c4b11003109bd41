--------------------------- MODULE MCEgressUpdate ---------------------------
(* Instances of EgressUpdate for model checking. *)
EXTENDS EgressUpdate, TLC

(* The VMs are interchangeable, and so are the contents. *)
Interchangeable == Permutations(VM) \cup Permutations(Content)

(* Everything but the marker file, the secrets and the rows.               *)
NetworkFails == Fallible \ {"mark", "row", "resolve"}
=============================================================================
