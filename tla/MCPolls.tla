------------------------------ MODULE MCPolls -------------------------------
(* Small instances of Polls for TLC. *)
EXTENDS Polls, TLC

CONSTANTS u1, u2, r1, r2, a1, o1, o2, p1

Symmetry == Permutations(Users) \cup Permutations(Requests) \cup Permutations(Options)
=============================================================================
