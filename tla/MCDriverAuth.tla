---------------------------- MODULE MCDriverAuth ----------------------------
(* DriverAuth on small sets of calls and logins. *)
EXTENDS DriverAuth, TLC

MCSymmetry == Permutations(Calls) \cup Permutations(Families)
=============================================================================
