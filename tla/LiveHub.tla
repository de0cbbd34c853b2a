------------------------------ MODULE LiveHub -------------------------------
(***************************************************************************)
(* The websocket hub (pkg/ws/hub.go): three kinds of goroutines around two *)
(* channels, one map and one RWMutex.                                      *)
(*   - run takes clients from register and unregister and alone writes the *)
(*     map, under the write lock;                                          *)
(*   - broadcastLoop takes the dirty marks out of Redis, reads the tallies *)
(*     and offers one update to every client, under the read lock;         *)
(*   - a writePump per client carries its updates to its connection.       *)
(* The votes are the tail of AddVote's pipeline (pkg/vote): HINCRBY, then  *)
(* SADD of the dirty mark.                                                 *)
(*                                                                         *)
(* "panic" is a Go panic (a send on a closed channel, a second close);     *)
(* "lost" and "shown" are history variables: the polls whose mark is gone  *)
(* though nobody was told of their last votes, and what viewers were sent. *)
(***************************************************************************)
EXTENDS Integers, Sequences, FiniteSets

CONSTANTS
    PollIds,
    Clients,      \* websocket connections; each connects once
    Voters,       \* concurrent AddVote requests
    SendCap,      \* capacity of a client's send channel (4)
    HubCap,       \* capacity of register and of unregister (64)
    MaxTally      \* bound: votes per poll

ASSUME HubAssumption ==
    /\ SendCap \in Nat \ {0} /\ HubCap \in Nat \ {0} /\ MaxTally \in Nat

VARIABLES
    tally,        \* Redis: the votes of each poll
    dirty,        \* Redis: the set ws:dirty:polls
    voter,        \* per request, the poll it has counted but not yet marked
    clients,      \* Hub.clients
    register, unregister,
    drops,        \* goroutines started to unregister a slow client, per client
    runner,       \* what run has received and not yet done
    bcast,        \* where broadcastLoop is
    send, closed, \* a client's send channel
    pump,         \* where its writePump is
    hold,         \* the update its writePump is writing
    peer,         \* its connection: "ok", or "failed": its peer reads no more
    shown, panic, lost

redis   == <<tally, dirty, voter>>
chans   == <<register, unregister, drops>>
conns   == <<send, closed, pump, hold, peer, shown>>
vars    == <<redis, clients, chans, runner, bcast, conns, panic, lost>>

NoPoll   == "none"
Resting  == [op |-> "none"]
Waiting  == [pc |-> "tick", ids |-> {}, upd |-> {}, todo |-> {}]
Snapshots == [poll: PollIds, n: Nat]

TypeOK ==
    /\ tally \in [PollIds -> Nat] /\ dirty \subseteq PollIds /\ lost \subseteq PollIds
    /\ voter \in [Voters -> PollIds \cup {NoPoll}]
    /\ clients \subseteq Clients
    /\ register \in Seq(Clients) /\ Len(register) <= HubCap
    /\ unregister \in Seq(Clients) /\ Len(unregister) <= HubCap
    /\ drops \in [Clients -> Nat]
    /\ runner \in [op: {"add", "remove"}, client: Clients] \cup {Resting}
    /\ bcast \in [pc: {"tick", "members", "del", "read", "send"}, ids: SUBSET PollIds,
                  upd: SUBSET Snapshots, todo: SUBSET Clients]
    /\ send \in [Clients -> Seq(SUBSET Snapshots)]
    /\ \A c \in Clients : Len(send[c]) <= SendCap
    /\ closed \in [Clients -> BOOLEAN]
    /\ pump \in [Clients -> {"none", "register", "wait", "write", "exit", "done"}]
    /\ hold \in [Clients -> SUBSET Snapshots]
    /\ peer \in [Clients -> {"ok", "failed"}]
    /\ shown \in [Clients -> [PollIds -> Nat]]
    /\ panic \in BOOLEAN

Init ==
    /\ tally = [p \in PollIds |-> 0] /\ dirty = {} /\ lost = {}
    /\ voter = [v \in Voters |-> NoPoll]
    /\ clients = {} /\ register = <<>> /\ unregister = <<>>
    /\ drops = [c \in Clients |-> 0]
    /\ runner = Resting /\ bcast = Waiting
    /\ send = [c \in Clients |-> <<>>] /\ closed = [c \in Clients |-> FALSE]
    /\ pump = [c \in Clients |-> "none"] /\ hold = [c \in Clients |-> {}]
    /\ peer = [c \in Clients |-> "ok"]
    /\ shown = [c \in Clients |-> [p \in PollIds |-> 0]]
    /\ panic = FALSE

-----------------------------------------------------------------------------
(* Votes.                                                                  *)

CountVote(v, p) ==
    /\ voter[v] = NoPoll /\ tally[p] < MaxTally
    /\ tally' = [tally EXCEPT ![p] = @ + 1]
    /\ voter' = [voter EXCEPT ![v] = p]
    /\ UNCHANGED <<dirty, clients, chans, runner, bcast, conns, panic, lost>>

MarkDirty(v) ==
    /\ voter[v] # NoPoll
    /\ dirty' = dirty \cup {voter[v]}
    /\ lost' = lost \ {voter[v]}
    /\ voter' = [voter EXCEPT ![v] = NoPoll]
    /\ UNCHANGED <<tally, clients, chans, runner, bcast, conns, panic>>

\* The pipeline is cut between its two commands.
CutVote(v) ==
    /\ voter[v] # NoPoll
    /\ lost' = lost \cup {voter[v]}
    /\ voter' = [voter EXCEPT ![v] = NoPoll]
    /\ UNCHANGED <<tally, dirty, clients, chans, runner, bcast, conns, panic>>

-----------------------------------------------------------------------------
(* Clients arrive and fail.                                                *)

\* The handler upgrades the connection of a page that has loaded its polls.
Connect(c) ==
    /\ pump[c] = "none"
    /\ pump' = [pump EXCEPT ![c] = "register"]
    /\ UNCHANGED <<redis, clients, chans, runner, bcast,
                   send, closed, hold, peer, shown, panic, lost>>

\* register <- client, then go client.writePump().
ServeWS(c) ==
    /\ pump[c] = "register" /\ Len(register) < HubCap
    /\ register' = Append(register, c)
    /\ pump' = [pump EXCEPT ![c] = "wait"]
    /\ UNCHANGED <<redis, clients, unregister, drops, runner, bcast,
                   send, closed, hold, peer, shown, panic, lost>>

\* The peer stops reading or is gone: a write may return an error, or block
\* for good, as writePump sets no deadline.
PeerFails(c) ==
    /\ pump[c] # "none" /\ peer[c] = "ok"
    /\ peer' = [peer EXCEPT ![c] = "failed"]
    /\ UNCHANGED <<redis, clients, chans, runner, bcast,
                   send, closed, pump, hold, shown, panic, lost>>

-----------------------------------------------------------------------------
(* run.  Its map updates wait for broadcastLoop to release the read lock.  *)

ReadLocked == bcast.pc = "send"

RunReceives ==
    /\ runner = Resting
    /\ \/ /\ register # <<>>
          /\ runner' = [op |-> "add", client |-> Head(register)]
          /\ register' = Tail(register) /\ UNCHANGED <<unregister, drops>>
       \/ /\ unregister # <<>>
          /\ runner' = [op |-> "remove", client |-> Head(unregister)]
          /\ unregister' = Tail(unregister) /\ UNCHANGED <<register, drops>>
    /\ UNCHANGED <<redis, clients, bcast, conns, panic, lost>>

RunAdds ==
    /\ runner.op = "add" /\ ~ReadLocked
    /\ clients' = clients \cup {runner.client}
    /\ runner' = Resting
    /\ UNCHANGED <<redis, chans, bcast, conns, panic, lost>>

\* A slip: the channel is closed without asking whether the client is known.
RunRemovesUnchecked ==
    LET c == runner.client
    IN  /\ runner.op = "remove" /\ ~ReadLocked
        /\ clients' = clients \ {c}
        /\ closed' = [closed EXCEPT ![c] = TRUE]
        /\ panic' = (panic \/ closed[c])
        /\ runner' = Resting
        /\ UNCHANGED <<redis, chans, bcast, send, pump, hold, peer, shown, lost>>

RunRemoves ==
    LET c == runner.client
    IN  /\ runner.op = "remove" /\ ~ReadLocked
        /\ IF c \in clients
           THEN /\ clients' = clients \ {c}
                /\ closed' = [closed EXCEPT ![c] = TRUE]
                /\ panic' = (panic \/ closed[c])
           ELSE UNCHANGED <<clients, closed, panic>>
        /\ runner' = Resting
        /\ UNCHANGED <<redis, chans, bcast, send, pump, hold, peer, shown, lost>>

-----------------------------------------------------------------------------
(* broadcastLoop.  An error of PopDirtyPolls or GetSnapshots ends the pass.*)

\* A tick finds clients; without any the pass ends at once.
Tick ==
    /\ bcast.pc = "tick" /\ clients # {}
    /\ bcast' = [bcast EXCEPT !.pc = "members"]
    /\ UNCHANGED <<redis, clients, chans, runner, conns, panic, lost>>

PopMembers ==
    /\ bcast.pc = "members"
    /\ bcast' = [bcast EXCEPT !.pc = "del", !.ids = dirty]
    /\ UNCHANGED <<redis, clients, chans, runner, conns, panic, lost>>

\* The DEL takes every mark, the ones SMEMBERS has not seen included.
PopDel ==
    /\ bcast.pc = "del"
    /\ dirty' = {}
    /\ lost' = lost \cup (dirty \ bcast.ids)
    /\ bcast' = IF bcast.ids = {} THEN Waiting ELSE [bcast EXCEPT !.pc = "read"]
    /\ UNCHANGED <<tally, voter, clients, chans, runner, conns, panic>>

\* An error of the pipeline, before or after the DEL was executed.
PopFails ==
    /\ bcast.pc \in {"members", "del"}
    /\ \/ UNCHANGED <<dirty, lost>>
       \/ dirty' = {} /\ lost' = lost \cup dirty
    /\ bcast' = Waiting
    /\ UNCHANGED <<tally, voter, clients, chans, runner, conns, panic>>

\* A slip: a read that fails counts as zero votes.
ReadSnapshotUnchecked(p) ==
    /\ bcast.pc = "read" /\ p \in bcast.ids
    /\ \E n \in {tally[p], 0} :
          bcast' = [bcast EXCEPT !.ids = @ \ {p}, !.upd = @ \cup {[poll |-> p, n |-> n]}]
    /\ UNCHANGED <<redis, clients, chans, runner, conns, panic, lost>>

\* GetSnapshots: one poll after the other; a poll whose read fails is skipped.
ReadSnapshot(p) ==
    /\ bcast.pc = "read" /\ p \in bcast.ids
    /\ \/ /\ bcast' = [bcast EXCEPT !.ids = @ \ {p}, !.upd = @ \cup {[poll |-> p, n |-> tally[p]]}]
          /\ UNCHANGED lost
       \/ /\ bcast' = [bcast EXCEPT !.ids = @ \ {p}]
          /\ lost' = lost \cup {p}
    /\ UNCHANGED <<redis, clients, chans, runner, conns, panic>>

\* RLock; nothing is sent when no poll could be read.
StartSend ==
    /\ bcast.pc = "read" /\ bcast.ids = {}
    /\ bcast' = IF bcast.upd = {} \/ clients = {} THEN Waiting
                ELSE [bcast EXCEPT !.pc = "send", !.todo = clients]
    /\ UNCHANGED <<redis, clients, chans, runner, conns, panic, lost>>

Sent(c) ==
    LET left == bcast.todo \ {c}
    IN  bcast' = IF left = {} THEN Waiting ELSE [bcast EXCEPT !.todo = left]

\* The send of an update to a client with room in its channel.
Offer(c) ==
    /\ bcast.pc = "send" /\ c \in bcast.todo
    /\ closed[c] \/ Len(send[c]) < SendCap
    /\ IF closed[c] THEN panic' = TRUE /\ UNCHANGED send
       ELSE send' = [send EXCEPT ![c] = Append(@, bcast.upd)] /\ UNCHANGED panic
    /\ Sent(c)
    /\ UNCHANGED <<redis, clients, chans, runner, closed, pump, hold, peer, shown, lost>>

\* A slip: the slow client only misses this update.
DropNothing(c) ==
    /\ bcast.pc = "send" /\ c \in bcast.todo
    /\ ~closed[c] /\ Len(send[c]) = SendCap
    /\ Sent(c)
    /\ UNCHANGED <<redis, clients, chans, runner, conns, panic, lost>>

\* A slow client: a goroutine is started to unregister it.
Drop(c) ==
    /\ bcast.pc = "send" /\ c \in bcast.todo
    /\ ~closed[c] /\ Len(send[c]) = SendCap
    /\ drops' = [drops EXCEPT ![c] = @ + 1]
    /\ Sent(c)
    /\ UNCHANGED <<redis, clients, register, unregister, runner, conns, panic, lost>>

DropSends(c) ==
    /\ drops[c] > 0 /\ Len(unregister) < HubCap
    /\ unregister' = Append(unregister, c)
    /\ drops' = [drops EXCEPT ![c] = @ - 1]
    /\ UNCHANGED <<redis, clients, register, runner, bcast, conns, panic, lost>>

-----------------------------------------------------------------------------
(* writePump.                                                              *)

PumpReceives(c) ==
    /\ pump[c] = "wait" /\ send[c] # <<>>
    /\ hold' = [hold EXCEPT ![c] = Head(send[c])]
    /\ send' = [send EXCEPT ![c] = Tail(send[c])]
    /\ pump' = [pump EXCEPT ![c] = "write"]
    /\ UNCHANGED <<redis, clients, chans, runner, bcast, closed, peer, shown, panic, lost>>

\* The viewer is shown the polls of the update.
PumpWrites(c) ==
    /\ pump[c] = "write" /\ peer[c] = "ok"
    /\ shown' = [shown EXCEPT ![c] = [p \in PollIds |->
                    IF \E s \in hold[c] : s.poll = p
                    THEN (CHOOSE s \in hold[c] : s.poll = p).n ELSE @[p]]]
    /\ hold' = [hold EXCEPT ![c] = {}]
    /\ pump' = [pump EXCEPT ![c] = "wait"]
    /\ UNCHANGED <<redis, clients, chans, runner, bcast, send, closed, peer, panic, lost>>

\* WriteJSON returns an error.
PumpFails(c) ==
    /\ pump[c] = "write" /\ peer[c] = "failed"
    /\ hold' = [hold EXCEPT ![c] = {}]
    /\ pump' = [pump EXCEPT ![c] = "exit"]
    /\ UNCHANGED <<redis, clients, chans, runner, bcast, send, closed, peer, shown, panic, lost>>

\* The range over a closed and empty channel ends.
PumpEnds(c) ==
    /\ pump[c] = "wait" /\ send[c] = <<>> /\ closed[c]
    /\ pump' = [pump EXCEPT ![c] = "exit"]
    /\ UNCHANGED <<redis, clients, chans, runner, bcast,
                   send, closed, hold, peer, shown, panic, lost>>

\* A slip: the deferred function only closes the connection.
PumpForgets(c) ==
    /\ pump[c] = "exit"
    /\ pump' = [pump EXCEPT ![c] = "done"]
    /\ UNCHANGED <<redis, clients, chans, runner, bcast,
                   send, closed, hold, peer, shown, panic, lost>>

\* The deferred unregister <- c and conn.Close().
PumpExits(c) ==
    /\ pump[c] = "exit" /\ Len(unregister) < HubCap
    /\ unregister' = Append(unregister, c)
    /\ pump' = [pump EXCEPT ![c] = "done"]
    /\ UNCHANGED <<redis, clients, register, drops, runner, bcast,
                   send, closed, hold, peer, shown, panic, lost>>

-----------------------------------------------------------------------------
Run == RunReceives \/ RunAdds \/ RunRemoves

Broadcast ==
    \/ Tick \/ PopMembers \/ PopDel \/ PopFails
    \/ \E p \in PollIds : ReadSnapshot(p)
    \/ StartSend
    \/ \E c \in Clients : Offer(c) \/ Drop(c)

PumpGoesOn(c) == PumpReceives(c) \/ PumpWrites(c) \/ PumpEnds(c) \/ PumpExits(c)

Next ==
    \/ \E v \in Voters : (\E p \in PollIds : CountVote(v, p)) \/ MarkDirty(v) \/ CutVote(v)
    \/ \E c \in Clients : Connect(c) \/ ServeWS(c) \/ PeerFails(c)
                          \/ PumpGoesOn(c) \/ PumpFails(c) \/ DropSends(c)
    \/ Run
    \/ Broadcast

Spec == Init /\ [][Next]_vars

\* The Go scheduler runs every goroutine that can go on, and a channel hands
\* its room to the goroutines that wait for it.  Redis does not fail for ever:
\* a pass that keeps being started pops the marks some day.  Nothing makes a
\* viewer connect, a user vote or the write to a failed peer return.
Fairness ==
    /\ \A c \in Clients : WF_vars(ServeWS(c)) /\ WF_vars(PumpGoesOn(c)) /\ WF_vars(DropSends(c))
    /\ WF_vars(Run)
    /\ WF_vars(Broadcast) /\ SF_vars(PopMembers) /\ SF_vars(PopDel)
    /\ \A v \in Voters : WF_vars(MarkDirty(v) \/ CutVote(v))

FairSpec == Spec /\ Fairness

-----------------------------------------------------------------------------
(* Properties.                                                             *)

\* No goroutine of the hub panics: nothing is sent on a channel that was
\* closed, and no channel is closed twice, though a client may be unregistered
\* by its writePump and by any number of broadcast passes at once.
HubNeverPanics == ~panic

\* The hub is an implementation of the feed: viewers see real tallies only,
\* and never an older one after a newer one.
Feed == INSTANCE LiveFeed WITH
          PollIds <- PollIds, Clients <- Clients, tally <- tally, shown <- shown
ImplementsFeed == Feed!Spec

\* A slow client that was dropped, or one whose connection failed, leaves the
\* map: the lock and the three channels never make everyone wait for everyone.
DroppedClientLeaves ==
    \A c \in Clients : (drops[c] > 0 \/ pump[c] = "exit") ~> c \notin clients

\* While a viewer stays connected and reads, a poll that is marked dirty is
\* shown to it with every vote counted by then, unless the mark was lost.
MarkedVotesAreShown ==
    \A c \in Clients, p \in PollIds, n \in 1 .. MaxTally :
        (c \in clients /\ p \in dirty /\ tally[p] >= n)
            ~> (shown[c][p] >= n \/ c \notin clients \/ peer[c] # "ok" \/ p \in lost)
=============================================================================
