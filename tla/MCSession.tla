----------------------------- MODULE MCSession ------------------------------
(* Small instances of Session for TLC. *)
EXTENDS Session, TLC
CONSTANTS u1, u2, b1, b2
Symmetry == Permutations(Boots)
=============================================================================
