-------------------------- MODULE MCUsernameFilter --------------------------
(* Small instances of UsernameFilter for TLC. *)
EXTENDS UsernameFilter, TLC
CONSTANTS n1, n2, n3, u1, u2, s1, c1, g1, g2, b1, b2

\* The positions of n3 are covered by those of n1 and n2 together.
MCPositions == n1 :> {b1} @@ n2 :> {b2} @@ n3 :> {b1, b2}

\* The positions stay what they are when n1 and n2 change places with theirs.
Swap == n1 :> n2 @@ n2 :> n1 @@ b1 :> b2 @@ b2 :> b1

Symmetry == {a @@ g @@ w : a \in Permutations(Accounts), g \in Permutations(Goroutines),
                           w \in {Swap, [x \in DOMAIN Swap |-> x]}}
=============================================================================
