------------------------------ MODULE MCLibrary ------------------------------
(* Instances of SnapshotRestore for TLC. *)
EXTENDS SnapshotRestore, TLC
CONSTANTS n1, n2, p1, a1, a2, i1, i2, r1, r2, d1, d2, e1, x, y
Symmetry == Permutations(Handlers) \cup Permutations(Uuids) \cup Permutations(Aliases) \cup Permutations(Disks)
              \cup Permutations(Requests)
=============================================================================
