------------------------------ MODULE LiveFeed ------------------------------
(***************************************************************************)
(* What the live updates promise a viewer, whatever carries them: the      *)
(* tallies it is sent were really reached, and it is never sent an older   *)
(* one after a newer one.                                                  *)
(***************************************************************************)
EXTENDS Integers

CONSTANTS PollIds, Clients

VARIABLES
    tally,        \* the votes of each poll
    shown         \* per viewer, the tally of each poll it was last sent

vars == <<tally, shown>>

Init ==
    /\ tally = [p \in PollIds |-> 0]
    /\ shown = [c \in Clients |-> [p \in PollIds |-> 0]]

Vote(p) ==
    /\ tally' = [tally EXCEPT ![p] = @ + 1]
    /\ UNCHANGED shown

\* Every poll moves forward, to a tally it has reached; no other viewer notices.
Show(c) ==
    /\ shown' \in [Clients -> [PollIds -> Nat]]
    /\ \A p \in PollIds : shown[c][p] <= shown'[c][p] /\ shown'[c][p] <= tally[p]
    /\ \A d \in Clients \ {c} : shown'[d] = shown[d]
    /\ UNCHANGED tally

Next ==
    \/ \E p \in PollIds : Vote(p)
    \/ \E c \in Clients : Show(c)

Spec == Init /\ [][Next]_vars
=============================================================================
