----------------------------- MODULE MCLiveHub ------------------------------
(* Small instances of LiveHub for TLC. *)
EXTENDS LiveHub
CONSTANTS c1, c2, p1, p2, v1, v2
=============================================================================
