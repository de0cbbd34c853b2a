----------------------------- MODULE MCAccounts -----------------------------
(* Small instances of Accounts for TLC. *)
EXTENDS Accounts, TLC
CONSTANTS n1, n2, e1, e2, r1, r2, s1, s2
Symmetry == {a @@ b : a \in Permutations(Requests), b \in Permutations(Senders)}
=============================================================================
