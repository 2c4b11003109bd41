--------------------------- MODULE MCVmLifecycle ---------------------------
(* Instances of VmLifecycle for model checking. *)
EXTENDS VmLifecycle
=============================================================================
