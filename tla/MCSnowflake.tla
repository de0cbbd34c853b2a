---------------------------- MODULE MCSnowflake -----------------------------
(* Small instances of Snowflake for TLC. *)
EXTENDS Snowflake, TLC
CONSTANTS s1, s2, c1, c2

\* s1 has the highest node id; that of s2 is not valid, and counts as 1.
TwoNodes == s1 :> 2 @@ s2 :> 3
=============================================================================
