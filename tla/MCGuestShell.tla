----------------------------- MODULE MCGuestShell -----------------------------
(* Instances of GuestShell for TLC. *)
EXTENDS GuestShell
CONSTANTS s1, s2
=============================================================================
