----------------------------- MODULE MCPollCard -----------------------------
(* Small instances of PollCard for TLC. *)
EXTENDS PollCard
CONSTANTS o1, o2
MCPasts == {{}, 1..10, {1, 2, 9, 10}, {0, 1, 5, 6, 7, 8}}
=============================================================================
