---------------------------- MODULE MCVoteBudget ----------------------------
(* Small instances of VoteBudget for TLC. *)
EXTENDS VoteBudget, TLC
CONSTANTS v1, v2, p1, p2
VoterSymmetry == Permutations(Voters)
=============================================================================
