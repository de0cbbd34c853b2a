--------------------------- MODULE MCAccountForms ---------------------------
(* Small instances of AccountForms for TLC. *)
EXTENDS AccountForms, TLC
CONSTANTS n1, n2, s1, e1, e2
=============================================================================
