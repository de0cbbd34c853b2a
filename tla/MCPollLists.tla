---------------------------- MODULE MCPollLists -----------------------------
(* Small instances of PollLists for TLC. *)
EXTENDS PollLists
=============================================================================
