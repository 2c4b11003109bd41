----------------------------- MODULE MCAccounts -----------------------------
(* Instances of Accounts for TLC. *)
EXTENDS Accounts, TLC

CONSTANTS u1, u2, i1, i2, i3, c1, c2, c3, s1, s2, t1, t2, f1, f2

Symmetry == Permutations(Handlers) \cup Permutations(Creds) \cup Permutations(Shells)
=============================================================================
