-------------------------- MODULE MCResourceLocks --------------------------
(* Instances of ResourceLocks for model checking. *)
EXTENDS ResourceLocks, TLC

(* Handlers are interchangeable. *)
Interchangeable == Permutations(Handler)

(* The operations that write what VMs refer to, and to what; with some that *)
(* only stand in their way.                                                *)
Writers == {"define", "duplicate", "update", "delete", "assign", "add", "remove"}
             \cup {"capture", "restore", "act"}

(* One operation for each order in which several mutexes are held.         *)
Nested == {"define", "update", "delete", "save", "export", "start"}
=============================================================================
