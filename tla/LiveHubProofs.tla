--------------------------- MODULE LiveHubProofs ----------------------------
(***************************************************************************)
(* What holds of the hub for any polls, clients and votes and for channels *)
(* of any capacity.                                                        *)
(***************************************************************************)
EXTENDS LiveHub, SequenceTheorems, TLAPS

-----------------------------------------------------------------------------
(* Channels.                                                               *)

LEMMA Pushed ==
    ASSUME NEW S, NEW s \in Seq(S), NEW e \in S
    PROVE  /\ Append(s, e) \in Seq(S) /\ Len(s) \in Nat /\ Len(Append(s, e)) = Len(s) + 1
           /\ \A i \in 1 .. Len(s) : Append(s, e)[i] = s[i]
           /\ Append(s, e)[Len(s) + 1] = e
OBVIOUS

LEMMA Popped ==
    ASSUME NEW S, NEW s \in Seq(S), s # <<>>
    PROVE  /\ Head(s) = s[1] /\ Head(s) \in S /\ Len(s) \in Nat \ {0}
           /\ Tail(s) \in Seq(S) /\ Len(Tail(s)) = Len(s) - 1
           /\ \A i \in 1 .. Len(s) - 1 : Tail(s)[i] = s[i + 1]
<1>1. Head(s) = s[1]
  OBVIOUS
<1>2. Len(s) \in Nat \ {0}
  BY EmptySeq
<1> QED
  BY <1>1, <1>2, HeadTailProperties

-----------------------------------------------------------------------------
(* Types.                                                                  *)

Ops     == [op: {"add", "remove"}, client: Clients] \cup {Resting}
Passes  == [pc: {"tick", "members", "del", "read", "send"}, ids: SUBSET PollIds,
            upd: SUBSET Snapshots, todo: SUBSET Clients]
Updates == SUBSET Snapshots

RedisOK == /\ tally \in [PollIds -> Nat] /\ dirty \subseteq PollIds /\ lost \subseteq PollIds
           /\ voter \in [Voters -> PollIds \cup {NoPoll}]
RunOK   == clients \subseteq Clients /\ runner \in Ops
ChansOK == /\ register \in Seq(Clients) /\ Len(register) <= HubCap
           /\ unregister \in Seq(Clients) /\ Len(unregister) <= HubCap
           /\ drops \in [Clients -> Nat]
SendOK  == send \in [Clients -> Seq(Updates)] /\ \A c \in Clients : Len(send[c]) <= SendCap
ConnsOK == /\ closed \in [Clients -> BOOLEAN]
           /\ pump \in [Clients -> {"none", "register", "wait", "write", "exit", "done"}]
           /\ hold \in [Clients -> Updates] /\ peer \in [Clients -> {"ok", "failed"}]
           /\ shown \in [Clients -> [PollIds -> Nat]] /\ panic \in BOOLEAN

LEMMA TypeParts ==
    /\ TypeOK <=> RedisOK /\ RunOK /\ ChansOK /\ bcast \in Passes /\ SendOK /\ ConnsOK
    /\ TypeOK' <=> RedisOK' /\ RunOK' /\ ChansOK' /\ bcast' \in Passes /\ SendOK' /\ ConnsOK'
BY DEF TypeOK, RedisOK, RunOK, ChansOK, SendOK, ConnsOK, Ops, Passes, Updates

LEMMA InitTypes == Init => TypeOK
<1> SUFFICES ASSUME Init
             PROVE  TypeOK
  OBVIOUS
<1>1. \A S : <<>> \in Seq(S) /\ Len(<<>>) = 0
  BY EmptySeq
<1>2. RedisOK /\ RunOK
  BY DEF Init, RedisOK, RunOK, Ops
<1>3. ChansOK /\ SendOK
  BY <1>1, HubAssumption DEF Init, ChansOK, SendOK
<1>4. bcast \in Passes
  BY DEF Init, Waiting, Passes
<1>5. ConnsOK
  BY DEF Init, ConnsOK, Updates
<1> QED
  BY <1>2, <1>3, <1>4, <1>5, TypeParts

LEMMA VoteTypes ==
    ASSUME TypeOK, NEW v \in Voters, (\E p \in PollIds : CountVote(v, p)) \/ MarkDirty(v) \/ CutVote(v)
    PROVE  TypeOK'
<1>1. RedisOK /\ RunOK /\ ChansOK /\ bcast \in Passes /\ SendOK /\ ConnsOK
  BY TypeParts
<1>2. UNCHANGED <<clients, chans, runner, bcast, conns, panic>>
  BY DEF CountVote, MarkDirty, CutVote
<1>3. RedisOK'
  <2>1. ASSUME NEW p \in PollIds, CountVote(v, p)
        PROVE  RedisOK'
    BY <1>1, <2>1 DEF CountVote, RedisOK
  <2>2. CASE MarkDirty(v)
    BY <1>1, <2>2 DEF MarkDirty, RedisOK
  <2>3. CASE CutVote(v)
    BY <1>1, <2>3 DEF CutVote, RedisOK
  <2> QED
    BY <2>1, <2>2, <2>3
<1>4. RunOK' /\ ChansOK' /\ SendOK' /\ ConnsOK' /\ bcast' \in Passes
  BY <1>1, <1>2 DEF RunOK, ChansOK, SendOK, ConnsOK, chans, conns
<1> QED
  BY <1>3, <1>4, TypeParts

LEMMA ClientTypes ==
    ASSUME TypeOK, NEW c \in Clients,
           \/ Connect(c) \/ ServeWS(c) \/ PeerFails(c) \/ PumpGoesOn(c) \/ PumpFails(c) \/ DropSends(c)
    PROVE  TypeOK'
<1>1. RedisOK /\ RunOK /\ ChansOK /\ bcast \in Passes /\ SendOK /\ ConnsOK
  BY TypeParts
<1>2. UNCHANGED <<redis, clients, runner, bcast, lost, panic, closed>>
  BY DEF Connect, ServeWS, PeerFails, PumpGoesOn, PumpReceives, PumpWrites, PumpEnds, PumpExits,
         PumpFails, DropSends, conns
<1>3. RedisOK' /\ RunOK' /\ bcast' \in Passes
  BY <1>1, <1>2 DEF RedisOK, RunOK, redis
<1> DEFINE Goal == ChansOK' /\ SendOK' /\ ConnsOK'
<1>4. ASSUME Connect(c) \/ PeerFails(c)
      PROVE  Goal
  BY <1>1, <1>4 DEF Connect, PeerFails, ChansOK, SendOK, ConnsOK, chans
<1>5. ASSUME ServeWS(c)
      PROVE  Goal
  <2>1. register' \in Seq(Clients) /\ Len(register') <= HubCap
    <3>1. register \in Seq(Clients) /\ Len(register) < HubCap /\ register' = Append(register, c)
      BY <1>1, <1>5 DEF ServeWS, ChansOK
    <3> QED
      BY <3>1, Pushed, HubAssumption
  <2> QED
    BY <1>1, <1>5, <2>1 DEF ServeWS, ChansOK, SendOK, ConnsOK
<1>6. ASSUME PumpReceives(c)
      PROVE  Goal
  <2>1. send[c] \in Seq(Updates) /\ send[c] # <<>> /\ Len(send[c]) <= SendCap
    BY <1>1, <1>6 DEF PumpReceives, SendOK
  <2>2. /\ Head(send[c]) \in Updates /\ Tail(send[c]) \in Seq(Updates)
        /\ Len(Tail(send[c])) <= SendCap
    BY <2>1, Popped, HubAssumption
  <2>3. SendOK'
    BY <1>1, <1>6, <2>2 DEF PumpReceives, SendOK
  <2> QED
    BY <1>1, <1>6, <2>2, <2>3 DEF PumpReceives, ChansOK, ConnsOK, chans
<1>7. ASSUME PumpWrites(c)
      PROVE  Goal
  <2> DEFINE new(p) == IF \E s \in hold[c] : s.poll = p
                       THEN (CHOOSE s \in hold[c] : s.poll = p).n ELSE shown[c][p]
  <2>1. ASSUME NEW p \in PollIds
        PROVE  new(p) \in Nat
    BY <1>1 DEF ConnsOK, Updates, Snapshots
  <2>2. shown' = [shown EXCEPT ![c] = [p \in PollIds |-> new(p)]]
    BY <1>7 DEF PumpWrites
  <2> HIDE DEF new
  <2>3. shown' \in [Clients -> [PollIds -> Nat]]
    BY <1>1, <2>1, <2>2 DEF ConnsOK
  <2> QED
    BY <1>1, <1>7, <2>3 DEF PumpWrites, ChansOK, SendOK, ConnsOK, Updates, chans
<1>8. ASSUME PumpEnds(c) \/ PumpFails(c)
      PROVE  Goal
  BY <1>1, <1>8 DEF PumpEnds, PumpFails, ChansOK, SendOK, ConnsOK, Updates, chans
<1>9. ASSUME PumpExits(c) \/ DropSends(c)
      PROVE  Goal
  <2>1. /\ unregister \in Seq(Clients) /\ Len(unregister) < HubCap
        /\ unregister' = Append(unregister, c)
    BY <1>1, <1>9 DEF PumpExits, DropSends, ChansOK
  <2>2. unregister' \in Seq(Clients) /\ Len(unregister') <= HubCap
    BY <2>1, Pushed, HubAssumption
  <2>3. drops' \in [Clients -> Nat] /\ UNCHANGED register
    BY <1>1, <1>9 DEF PumpExits, DropSends, ChansOK
  <2>4. ChansOK'
    BY <1>1, <2>2, <2>3 DEF ChansOK
  <2> QED
    BY <1>1, <1>9, <2>4 DEF PumpExits, DropSends, SendOK, ConnsOK, conns
<1>10. Goal
  <2> HIDE DEF Goal
  <2> QED
    BY <1>4, <1>5, <1>6, <1>7, <1>8, <1>9 DEF PumpGoesOn
<1> QED
  BY <1>3, <1>10, TypeParts

LEMMA RunTypes ==
    ASSUME TypeOK, Run
    PROVE  TypeOK'
<1>1. RedisOK /\ RunOK /\ ChansOK /\ bcast \in Passes /\ SendOK /\ ConnsOK
  BY TypeParts
<1>2. UNCHANGED <<redis, bcast, drops, send, pump, hold, peer, shown, lost>>
  BY DEF Run, RunReceives, RunAdds, RunRemoves, chans, conns
<1>3. RedisOK' /\ SendOK' /\ bcast' \in Passes
  BY <1>1, <1>2 DEF RedisOK, SendOK, redis
<1> DEFINE Goal == RunOK' /\ ChansOK' /\ closed' \in [Clients -> BOOLEAN] /\ panic' \in BOOLEAN
<1>4. ASSUME RunReceives
      PROVE  Goal
  <2>1. ASSUME NEW s \in Seq(Clients), s # <<>>, Len(s) <= HubCap
        PROVE  Head(s) \in Clients /\ Tail(s) \in Seq(Clients) /\ Len(Tail(s)) <= HubCap
    BY <2>1, Popped, HubAssumption
  <2>2. ChansOK'
    BY <1>1, <1>4, <2>1 DEF RunReceives, ChansOK
  <2>3. RunOK'
    BY <1>1, <1>4, <2>1 DEF RunReceives, ChansOK, RunOK, Ops
  <2> QED
    BY <1>1, <1>4, <2>2, <2>3 DEF RunReceives, ConnsOK, conns
<1>5. runner # Resting => runner.client \in Clients
  BY <1>1 DEF RunOK, Ops
<1>6. ASSUME RunAdds
      PROVE  Goal
  BY <1>1, <1>5, <1>6 DEF RunAdds, RunOK, Ops, ChansOK, ConnsOK, Resting, chans, conns
<1>7. ASSUME RunRemoves
      PROVE  Goal
  BY <1>1, <1>5, <1>7 DEF RunRemoves, RunOK, Ops, ChansOK, ConnsOK, Resting, chans
<1>8. Goal
  <2> HIDE DEF Goal
  <2> QED
    BY <1>4, <1>6, <1>7 DEF Run
<1> QED
  BY <1>1, <1>2, <1>3, <1>8, TypeParts DEF ConnsOK

\* A pass after each of its steps, field by field.
PassIs(pc, ids, upd, todo) == bcast' = [pc |-> pc, ids |-> ids, upd |-> upd, todo |-> todo]

LEMMA PassSteps ==
    ASSUME TypeOK
    PROVE  /\ bcast.pc \in {"tick", "members", "del", "read", "send"}
           /\ bcast.ids \subseteq PollIds /\ bcast.upd \in Updates /\ bcast.todo \subseteq Clients
           /\ Tick => PassIs("members", bcast.ids, bcast.upd, bcast.todo)
           /\ PopMembers => PassIs("del", dirty, bcast.upd, bcast.todo)
           /\ PopDel => bcast' = Waiting \/ PassIs("read", bcast.ids, bcast.upd, bcast.todo)
           /\ \A p \in PollIds : ReadSnapshot(p) =>
                \E upd \in {bcast.upd, bcast.upd \cup {[poll |-> p, n |-> tally[p]]}} :
                  PassIs("read", bcast.ids \ {p}, upd, bcast.todo)
           /\ StartSend => bcast' = Waiting \/ PassIs("send", bcast.ids, bcast.upd, clients)
           /\ \A c \in Clients : Sent(c) =>
                bcast' = Waiting \/ PassIs(bcast.pc, bcast.ids, bcast.upd, bcast.todo \ {c})
<1> DEFINE b == bcast
<1>1. b \in Passes
  BY TypeParts
<1> HIDE DEF b
<1>2. /\ b.pc \in {"tick", "members", "del", "read", "send"}
      /\ b.ids \subseteq PollIds /\ b.upd \in Updates /\ b.todo \subseteq Clients
  BY <1>1 DEF Passes, Updates
<1>4. ASSUME NEW pc, NEW ids, NEW upd, NEW todo
      PROVE  /\ [b EXCEPT !.pc = pc] = [pc |-> pc, ids |-> b.ids, upd |-> b.upd, todo |-> b.todo]
             /\ [b EXCEPT !.ids = ids] = [pc |-> b.pc, ids |-> ids, upd |-> b.upd, todo |-> b.todo]
             /\ [b EXCEPT !.todo = todo] = [pc |-> b.pc, ids |-> b.ids, upd |-> b.upd, todo |-> todo]
             /\ [b EXCEPT !.pc = pc, !.ids = ids]
                  = [pc |-> pc, ids |-> ids, upd |-> b.upd, todo |-> b.todo]
             /\ [b EXCEPT !.pc = pc, !.todo = todo]
                  = [pc |-> pc, ids |-> b.ids, upd |-> b.upd, todo |-> todo]
             /\ [b EXCEPT !.ids = ids, !.upd = upd]
                  = [pc |-> b.pc, ids |-> ids, upd |-> upd, todo |-> b.todo]
  <2> DEFINE x == [pc |-> pc, ids |-> b.ids, upd |-> b.upd, todo |-> b.todo]
             y == [pc |-> b.pc, ids |-> ids, upd |-> b.upd, todo |-> b.todo]
  <2>1. [b EXCEPT !.pc = pc] = x
    BY <1>1 DEF Passes
  <2>2. [b EXCEPT !.ids = ids] = y
    BY <1>1 DEF Passes
  <2>3. [b EXCEPT !.todo = todo] = [pc |-> b.pc, ids |-> b.ids, upd |-> b.upd, todo |-> todo]
    BY <1>1 DEF Passes
  <2>4. [x EXCEPT !.ids = ids] = [pc |-> pc, ids |-> ids, upd |-> b.upd, todo |-> b.todo]
    OBVIOUS
  <2>5. [x EXCEPT !.todo = todo] = [pc |-> pc, ids |-> b.ids, upd |-> b.upd, todo |-> todo]
    OBVIOUS
  <2>6. [y EXCEPT !.upd = upd] = [pc |-> b.pc, ids |-> ids, upd |-> upd, todo |-> b.todo]
    OBVIOUS
  <2> HIDE DEF x, y
  <2>7. [b EXCEPT !.pc = pc, !.ids = ids] = [x EXCEPT !.ids = ids]
    BY <2>1
  <2>8. [b EXCEPT !.pc = pc, !.todo = todo] = [x EXCEPT !.todo = todo]
    BY <2>1
  <2>9. [b EXCEPT !.ids = ids, !.upd = upd] = [y EXCEPT !.upd = upd]
    BY <2>2
  <2> QED
    BY <2>1, <2>2, <2>3, <2>4, <2>5, <2>6, <2>7, <2>8, <2>9 DEF x, y
<1>5. Tick => PassIs("members", bcast.ids, bcast.upd, bcast.todo)
  BY <1>4 DEF Tick, PassIs, b
<1>6. PopMembers => PassIs("del", dirty, bcast.upd, bcast.todo)
  BY <1>4 DEF PopMembers, PassIs, b
<1>7. PopDel => bcast' = Waiting \/ PassIs("read", bcast.ids, bcast.upd, bcast.todo)
  BY <1>4 DEF PopDel, PassIs, b
<1>8. ASSUME NEW p \in PollIds, ReadSnapshot(p)
      PROVE  \E upd \in {bcast.upd, bcast.upd \cup {[poll |-> p, n |-> tally[p]]}} :
               PassIs("read", bcast.ids \ {p}, upd, bcast.todo)
  BY <1>4, <1>8 DEF ReadSnapshot, PassIs, b
<1>9. StartSend => bcast' = Waiting \/ PassIs("send", bcast.ids, bcast.upd, clients)
  BY <1>4 DEF StartSend, PassIs, b
<1>10. ASSUME NEW c \in Clients, Sent(c)
       PROVE  bcast' = Waiting \/ PassIs(bcast.pc, bcast.ids, bcast.upd, bcast.todo \ {c})
  BY <1>4, <1>10 DEF Sent, PassIs, b
<1> QED
  BY <1>2, <1>5, <1>6, <1>7, <1>8, <1>9, <1>10 DEF b


LEMMA BroadcastTypes ==
    ASSUME TypeOK, Broadcast
    PROVE  TypeOK'
<1>1. RedisOK /\ RunOK /\ ChansOK /\ bcast \in Passes /\ SendOK /\ ConnsOK
  BY TypeParts
<1>2. UNCHANGED <<tally, voter, clients, runner, register, unregister, closed, pump, hold, peer, shown>>
  BY DEF Broadcast, Tick, PopMembers, PopDel, PopFails, ReadSnapshot, StartSend, Offer, Drop,
         redis, chans, conns
<1> DEFINE Goal == /\ bcast' \in Passes /\ dirty' \subseteq PollIds /\ lost' \subseteq PollIds
                   /\ SendOK' /\ panic' \in BOOLEAN /\ drops' \in [Clients -> Nat]
<1>3. Waiting \in Passes /\ dirty \subseteq PollIds /\ lost \subseteq PollIds /\ panic \in BOOLEAN
      /\ clients \subseteq Clients
  BY <1>1 DEF Waiting, Passes, RedisOK, ConnsOK, RunOK
<1>4. ASSUME NEW pc \in {"tick", "members", "del", "read", "send"}, NEW ids \in SUBSET PollIds,
             NEW upd \in Updates, NEW todo \in SUBSET Clients, PassIs(pc, ids, upd, todo)
      PROVE  bcast' \in Passes
  BY <1>4 DEF PassIs, Passes, Updates
<1>5. /\ bcast.pc \in {"tick", "members", "del", "read", "send"}
      /\ bcast.ids \in SUBSET PollIds /\ bcast.upd \in Updates /\ bcast.todo \in SUBSET Clients
  BY PassSteps
<1>6. ASSUME Tick \/ PopMembers \/ StartSend
      PROVE  Goal
  <2>1. bcast' \in Passes
    BY <1>3, <1>4, <1>5, <1>6, PassSteps
  <2>2. UNCHANGED <<dirty, lost, send, panic, drops>>
    BY <1>6 DEF Tick, PopMembers, StartSend, redis, chans, conns
  <2> QED
    BY <1>1, <1>3, <2>1, <2>2 DEF SendOK, ChansOK
<1>7. ASSUME PopDel
      PROVE  Goal
  <2>1. bcast' \in Passes
    BY <1>3, <1>4, <1>5, <1>7, PassSteps
  <2>2. UNCHANGED <<send, panic, drops>> /\ dirty' = {} /\ lost' = lost \cup (dirty \ bcast.ids)
    BY <1>7 DEF PopDel, chans, conns
  <2> QED
    BY <1>1, <1>3, <2>1, <2>2 DEF SendOK, ChansOK
<1>8. ASSUME PopFails
      PROVE  Goal
  <2>1. /\ UNCHANGED <<send, panic, drops>> /\ bcast' = Waiting
        /\ dirty' \subseteq dirty /\ lost' \subseteq lost \cup dirty
    BY <1>8 DEF PopFails, chans, conns
  <2> QED
    BY <1>1, <1>3, <2>1 DEF SendOK, ChansOK
<1>9. ASSUME NEW p \in PollIds, ReadSnapshot(p)
      PROVE  Goal
  <2>1. PICK upd \in {bcast.upd, bcast.upd \cup {[poll |-> p, n |-> tally[p]]}} :
          PassIs("read", bcast.ids \ {p}, upd, bcast.todo)
    BY <1>9, PassSteps
  <2>2. [poll |-> p, n |-> tally[p]] \in Snapshots
    BY <1>1 DEF RedisOK, Snapshots
  <2>3. upd \in Updates
    BY <1>5, <2>1, <2>2 DEF Updates
  <2>4. bcast' \in Passes
    BY <1>4, <1>5, <2>1, <2>3
  <2>5. UNCHANGED <<dirty, send, panic, drops>> /\ lost' \subseteq lost \cup {p}
    BY <1>9 DEF ReadSnapshot, redis, chans, conns
  <2> QED
    BY <1>1, <1>3, <2>4, <2>5 DEF SendOK, ChansOK
<1>10. ASSUME NEW c \in Clients, Offer(c)
       PROVE  Goal
  <2>1. bcast' \in Passes
    <3>1. bcast' = Waiting \/ PassIs(bcast.pc, bcast.ids, bcast.upd, bcast.todo \ {c})
      BY <1>10, PassSteps DEF Offer
    <3>2. bcast.todo \ {c} \in SUBSET Clients
      BY <1>5
    <3> QED
      BY <1>3, <1>4, <1>5, <3>1, <3>2
  <2>2. UNCHANGED <<dirty, lost, drops>> /\ panic' \in BOOLEAN
    BY <1>3, <1>10 DEF Offer, redis, chans
  <2>3. SendOK'
    <3>1. CASE closed[c]
      BY <1>1, <1>10, <3>1 DEF Offer, SendOK
    <3>2. CASE ~closed[c]
      <4>1. send[c] \in Seq(Updates) /\ Len(send[c]) < SendCap
            /\ send' = [send EXCEPT ![c] = Append(send[c], bcast.upd)]
        BY <1>1, <1>10, <3>2 DEF Offer, SendOK
      <4>2. Append(send[c], bcast.upd) \in Seq(Updates) /\ Len(Append(send[c], bcast.upd)) <= SendCap
        BY <1>5, <4>1, Pushed, HubAssumption
      <4> QED
        BY <1>1, <4>1, <4>2 DEF SendOK
    <3> QED
      BY <3>1, <3>2
  <2> QED
    BY <1>1, <1>3, <2>1, <2>2, <2>3 DEF ChansOK
<1>11. ASSUME NEW c \in Clients, Drop(c)
       PROVE  Goal
  <2>1. bcast' \in Passes
    <3>1. bcast' = Waiting \/ PassIs(bcast.pc, bcast.ids, bcast.upd, bcast.todo \ {c})
      BY <1>11, PassSteps DEF Drop
    <3>2. bcast.todo \ {c} \in SUBSET Clients
      BY <1>5
    <3> QED
      BY <1>3, <1>4, <1>5, <3>1, <3>2
  <2>2. UNCHANGED <<dirty, lost, send, panic>> /\ drops' = [drops EXCEPT ![c] = drops[c] + 1]
    BY <1>11 DEF Drop, redis, conns
  <2> QED
    BY <1>1, <1>3, <2>1, <2>2 DEF ChansOK, SendOK
<1>12. Goal
  <2> HIDE DEF Goal
  <2> QED
    BY <1>6, <1>7, <1>8, <1>9, <1>10, <1>11 DEF Broadcast
<1> QED
  BY <1>1, <1>2, <1>12, TypeParts DEF RedisOK, RunOK, ChansOK, ConnsOK

LEMMA NextTypes == TypeOK /\ [Next]_vars => TypeOK'
<1>1. TypeOK /\ UNCHANGED vars => TypeOK'
  BY DEF TypeOK, vars, redis, chans, conns
<1> QED
  BY <1>1, VoteTypes, ClientTypes, RunTypes, BroadcastTypes DEF Next

\* The types of the hub's state, the capacities of its channels included.
THEOREM HubTypes == Spec => []TypeOK
BY InitTypes, NextTypes, PTL DEF Spec

-----------------------------------------------------------------------------
(* The inductive invariants.                                               *)

Started == {c \in Clients : pump[c] \notin {"none", "register"}}

\* A client is handed to run once, so that one that has left is never in the
\* map again, and broadcastLoop only ever offers to clients that are in it.
HubInv ==
    /\ ~panic
    /\ \A c \in clients : c \in Started /\ ~closed[c]
    /\ \A c \in Clients : closed[c] => c \in Started
    /\ runner.op = "add" => /\ runner.client \in Started \ clients
                            /\ ~closed[runner.client]
    /\ \A i \in 1 .. Len(register) :
          /\ register[i] \in Started \ clients /\ ~closed[register[i]]
          /\ runner.op = "add" => register[i] # runner.client
          /\ \A j \in 1 .. Len(register) : register[i] = register[j] => i = j
    /\ ReadLocked => bcast.todo \subseteq clients

\* Nothing that a viewer was sent, or that waits for it, says more of a poll
\* than n votes.
AtMost(c, p, n) ==
    /\ shown[c][p] <= n
    /\ \A s \in hold[c] : s.poll = p => s.n <= n
    /\ \A i \in 1 .. Len(send[c]) : \A s \in send[c][i] : s.poll = p => s.n <= n

\* What waits for a viewer is in order: what it was shown, the update that
\* its writePump holds, its channel, the update of broadcastLoop, the tally.
FeedInv ==
    /\ \A c \in Clients, p \in PollIds : AtMost(c, p, tally[p])
    /\ \A c \in Clients : \A s \in hold[c] : shown[c][s.poll] <= s.n
    /\ \A c \in Clients : \A i \in 1 .. Len(send[c]) : \A s \in send[c][i] :
          /\ shown[c][s.poll] <= s.n
          /\ \A t \in hold[c] : t.poll = s.poll => t.n <= s.n
          /\ \A j \in i .. Len(send[c]) : \A t \in send[c][j] :
                i < j /\ t.poll = s.poll => s.n <= t.n
    /\ \A s \in bcast.upd :
          /\ s.n <= tally[s.poll]
          /\ \A c \in Clients : bcast.pc = "read" \/ c \in bcast.todo => AtMost(c, s.poll, s.n)
    /\ bcast.pc \in {"tick", "members", "del"} => bcast.upd = {}

LEMMA HubVote ==
    ASSUME HubInv, UNCHANGED <<panic, clients, pump, closed, runner, register, bcast>>
    PROVE  HubInv'
BY DEF HubInv, Started, ReadLocked

LEMMA HubClient ==
    ASSUME TypeOK, HubInv, NEW c \in Clients,
           \/ Connect(c) \/ ServeWS(c) \/ PeerFails(c) \/ PumpGoesOn(c) \/ PumpFails(c) \/ DropSends(c)
    PROVE  HubInv'
<1>1. UNCHANGED <<panic, clients, closed, runner, bcast>>
  BY DEF Connect, ServeWS, PeerFails, PumpGoesOn, PumpReceives, PumpWrites, PumpEnds, PumpExits,
         PumpFails, DropSends, conns
<1>2. /\ pump \in [Clients -> {"none", "register", "wait", "write", "exit", "done"}]
      /\ register \in Seq(Clients)
  BY DEF TypeOK
<1>3. CASE ~ServeWS(c)
  <2>1. UNCHANGED register
    BY <1>3 DEF Connect, PeerFails, PumpGoesOn, PumpReceives, PumpWrites, PumpEnds, PumpExits,
                PumpFails, DropSends, chans
  <2>2. Started' = Started
    BY <1>2, <1>3 DEF Started, Connect, PeerFails, PumpGoesOn, PumpReceives, PumpWrites, PumpEnds,
                      PumpExits, PumpFails, DropSends, conns
  <2> QED
    BY <1>1, <2>1, <2>2 DEF HubInv, ReadLocked
<1>4. CASE ServeWS(c)
  <2>1. /\ register' = Append(register, c)
        /\ c \notin Started /\ Started' = Started \cup {c}
    BY <1>2, <1>4 DEF ServeWS, Started
  <2>2. /\ Len(register) \in Nat /\ Len(register') = Len(register) + 1
        /\ \A i \in 1 .. Len(register) : register'[i] = register[i]
        /\ register'[Len(register) + 1] = c
    BY <1>2, <2>1, Pushed
  <2>3. /\ c \notin clients /\ ~closed[c] /\ (runner.op = "add" => runner.client # c)
        /\ \A i \in 1 .. Len(register) : register[i] # c
    BY <2>1 DEF HubInv
  <2>4. ASSUME NEW i \in 1 .. Len(register')
        PROVE  /\ register'[i] \in Started' \ clients /\ ~closed[register'[i]]
               /\ runner.op = "add" => register'[i] # runner.client
               /\ \A j \in 1 .. Len(register') : register'[i] = register'[j] => i = j
    BY <2>1, <2>2, <2>3 DEF HubInv
  <2> QED
    BY <1>1, <2>1, <2>4 DEF HubInv, ReadLocked
<1> QED
  BY <1>3, <1>4

LEMMA HubRun ==
    ASSUME TypeOK, HubInv, Run
    PROVE  HubInv'
<1>1. /\ UNCHANGED <<pump, bcast>> /\ Started' = Started
  BY DEF Run, RunReceives, RunAdds, RunRemoves, conns, Started
<1>2. register \in Seq(Clients) /\ closed \in [Clients -> BOOLEAN] /\ clients \subseteq Clients
      /\ Len(register) \in Nat
  BY EmptySeq DEF TypeOK
<1>3. CASE RunReceives
  <2>1. UNCHANGED <<panic, clients, closed>>
    BY <1>3 DEF RunReceives, conns
  <2>2. CASE register # <<>> /\ runner' = [op |-> "add", client |-> Head(register)] /\ register' = Tail(register)
    <3>1. /\ Len(register) \in Nat \ {0} /\ runner'.op = "add" /\ runner'.client = register[1]
          /\ Len(register') = Len(register) - 1
          /\ \A i \in 1 .. Len(register) - 1 : register'[i] = register[i + 1]
      BY <1>2, <2>2, Popped
    <3>2. runner'.client \in Started \ clients /\ ~closed[runner'.client]
      BY <3>1 DEF HubInv
    <3>3. ASSUME NEW i \in 1 .. Len(register')
          PROVE  /\ register'[i] \in Started \ clients /\ ~closed[register'[i]]
                 /\ register'[i] # runner'.client
                 /\ \A j \in 1 .. Len(register') : register'[i] = register'[j] => i = j
      <4>1. /\ i + 1 \in 1 .. Len(register) /\ 1 \in 1 .. Len(register) /\ i + 1 # 1
            /\ register'[i] = register[i + 1] /\ i \in Int
        BY <3>1
      <4>2. ASSUME NEW j \in 1 .. Len(register'), register'[i] = register'[j]
            PROVE  i = j
        <5>1. j + 1 \in 1 .. Len(register) /\ register'[j] = register[j + 1] /\ j \in Int
          BY <3>1
        <5>2. i + 1 = j + 1
          BY <4>1, <4>2, <5>1 DEF HubInv
        <5> QED
          BY <4>1, <5>1, <5>2
      <4> QED
        BY <3>1, <4>1, <4>2 DEF HubInv
    <3> QED
      BY <1>1, <2>1, <3>2, <3>3 DEF HubInv, ReadLocked
  <2>3. CASE runner' = [op |-> "remove", client |-> Head(unregister)] /\ UNCHANGED register
    <3>1. runner'.op = "remove"
      BY <2>3
    <3> QED
      BY <1>1, <2>1, <2>3, <3>1 DEF HubInv, ReadLocked
  <2> QED
    BY <1>3, <2>2, <2>3 DEF RunReceives
<1>4. CASE RunAdds
  <2>1. /\ clients' = clients \cup {runner.client} /\ runner.op = "add" /\ ~ReadLocked
        /\ UNCHANGED <<panic, closed, register>> /\ runner' = Resting
    BY <1>4 DEF RunAdds, chans, conns
  <2>2. runner'.op = "none"
    BY <2>1 DEF Resting
  <2> QED
    BY <1>1, <2>1, <2>2 DEF HubInv, ReadLocked
<1>5. CASE RunRemoves
  <2>1. ~ReadLocked /\ UNCHANGED register /\ runner'.op = "none"
    BY <1>5 DEF RunRemoves, Resting, chans
  <2>2. CASE runner.client \in clients
    <3>1. /\ clients' = clients \ {runner.client} /\ closed' = [closed EXCEPT ![runner.client] = TRUE]
          /\ panic' = (panic \/ closed[runner.client])
      BY <1>5, <2>2 DEF RunRemoves
    <3>2. ~panic'
      BY <2>2, <3>1 DEF HubInv
    <3> QED
      BY <1>1, <1>2, <2>1, <2>2, <3>1, <3>2 DEF HubInv, ReadLocked
  <2>3. CASE runner.client \notin clients
    <3>1. UNCHANGED <<clients, closed, panic>>
      BY <1>5, <2>3 DEF RunRemoves
    <3> QED
      BY <1>1, <2>1, <3>1 DEF HubInv, ReadLocked
  <2> QED
    BY <2>2, <2>3
<1> QED
  BY <1>3, <1>4, <1>5 DEF Run

LEMMA HubBroadcast ==
    ASSUME TypeOK, HubInv, Broadcast
    PROVE  HubInv'
<1>1. UNCHANGED <<clients, pump, closed, runner, register>>
  BY DEF Broadcast, Tick, PopMembers, PopDel, PopFails, ReadSnapshot, StartSend, Offer, Drop,
         redis, chans, conns
<1> DEFINE Goal == ~panic' /\ (bcast'.pc = "send" => bcast'.todo \subseteq clients)
<1>2. Waiting.pc = "tick" /\ ~panic
  BY DEF Waiting, HubInv
<1>3. ASSUME Tick \/ PopMembers \/ PopDel \/ PopFails \/ StartSend \/ \E p \in PollIds : ReadSnapshot(p)
      PROVE  Goal
  <2>1. UNCHANGED panic
    BY <1>3 DEF Tick, PopMembers, PopDel, PopFails, ReadSnapshot, StartSend
  <2>2. \/ bcast' = Waiting
        \/ \E pc \in {"members", "del", "read"} : \E ids, upd, todo : PassIs(pc, ids, upd, todo)
        \/ \E ids, upd : PassIs("send", ids, upd, clients)
    BY <1>3, PassSteps DEF PopFails
  <2>3. bcast'.pc = "send" => bcast'.todo \subseteq clients
    BY <1>2, <2>2 DEF PassIs
  <2> QED
    BY <1>2, <2>1, <2>3
<1>4. ASSUME NEW c \in Clients, Offer(c) \/ Drop(c)
      PROVE  Goal
  <2>1. bcast.pc = "send" /\ c \in bcast.todo /\ Sent(c)
    BY <1>4 DEF Offer, Drop
  <2>2. bcast.todo \subseteq clients
    BY <2>1 DEF HubInv, ReadLocked
  <2>3. ~closed[c]
    BY <2>1, <2>2 DEF HubInv
  <2>4. UNCHANGED panic
    BY <1>4, <2>3 DEF Offer, Drop
  <2>5. bcast' = Waiting \/ PassIs(bcast.pc, bcast.ids, bcast.upd, bcast.todo \ {c})
    BY <2>1, PassSteps
  <2>6. bcast'.pc = "send" => bcast'.todo \subseteq clients
    BY <1>2, <2>2, <2>5 DEF PassIs
  <2> QED
    BY <1>2, <2>4, <2>6
<1>5. Goal
  <2> HIDE DEF Goal
  <2> QED
    BY <1>3, <1>4 DEF Broadcast
<1> QED
  BY <1>1, <1>5 DEF HubInv, Started, ReadLocked

LEMMA HubNext == TypeOK /\ HubInv /\ [Next]_vars => HubInv'
<1> SUFFICES ASSUME TypeOK, HubInv, [Next]_vars
             PROVE  HubInv'
  OBVIOUS
<1>1. ASSUME NEW v \in Voters, (\E p \in PollIds : CountVote(v, p)) \/ MarkDirty(v) \/ CutVote(v)
      PROVE  HubInv'
  <2>1. UNCHANGED <<panic, clients, pump, closed, runner, register, bcast>>
    BY <1>1 DEF CountVote, MarkDirty, CutVote, chans, conns
  <2> QED
    BY <2>1, HubVote
<1>2. CASE UNCHANGED vars
  BY <1>2, HubVote DEF vars, chans, conns
<1> QED
  BY <1>1, <1>2, HubClient, HubRun, HubBroadcast DEF Next

LEMMA HubInit == Init => HubInv
<1>1. Len(<<>>) = 0
  OBVIOUS
<1> QED
  BY <1>1 DEF Init, HubInv, ReadLocked, Waiting, Resting

\* The hub never sends on a closed channel nor closes one twice, however many
\* goroutines ask for the same client to be unregistered.
THEOREM NoGoroutinePanics == Spec => []HubNeverPanics
<1>1. Init => TypeOK /\ HubInv
  BY InitTypes, HubInit
<1>2. (TypeOK /\ HubInv) /\ [Next]_vars => (TypeOK /\ HubInv)'
  BY NextTypes, HubNext
<1>3. HubInv => HubNeverPanics
  BY DEF HubInv, HubNeverPanics
<1> QED
  BY <1>1, <1>2, <1>3, PTL DEF Spec

-----------------------------------------------------------------------------
(* The order in which a viewer is sent the tallies of a poll.              *)

\* The part of FeedInv about one client: hold before send, and send in order.
InOrder(c) ==
    /\ \A s \in hold[c] : shown[c][s.poll] <= s.n
    /\ \A i \in 1 .. Len(send[c]) : \A s \in send[c][i] :
          /\ shown[c][s.poll] <= s.n
          /\ \A t \in hold[c] : t.poll = s.poll => t.n <= s.n
          /\ \A j \in i .. Len(send[c]) : \A t \in send[c][j] :
                i < j /\ t.poll = s.poll => s.n <= t.n

\* The part of FeedInv about the update of a pass.
PassInv ==
    /\ \A s \in bcast.upd :
          /\ s.n <= tally[s.poll]
          /\ \A c \in Clients : bcast.pc = "read" \/ c \in bcast.todo => AtMost(c, s.poll, s.n)
    /\ bcast.pc \in {"tick", "members", "del"} => bcast.upd = {}

LEMMA FeedParts ==
    /\ FeedInv <=> /\ \A c \in Clients, p \in PollIds : AtMost(c, p, tally[p])
                   /\ \A c \in Clients : InOrder(c)
                   /\ PassInv
    /\ FeedInv' <=> /\ \A c \in Clients, p \in PollIds : AtMost(c, p, tally[p])'
                    /\ \A c \in Clients : InOrder(c)'
                    /\ PassInv'
BY DEF FeedInv, InOrder, PassInv

\* What the state's components are, for the provers.
LEMMA FeedTypes ==
    ASSUME TypeOK
    PROVE  /\ tally \in [PollIds -> Nat] /\ shown \in [Clients -> [PollIds -> Nat]]
           /\ hold \in [Clients -> Updates] /\ send \in [Clients -> Seq(Updates)]
           /\ \A c \in Clients : /\ Len(send[c]) \in Nat
                                 /\ \A i \in 1 .. Len(send[c]) : send[c][i] \in Updates
           /\ \A upd \in Updates : \A s \in upd : s.poll \in PollIds /\ s.n \in Nat
<1>1. ASSUME NEW s \in Seq(Updates)
      PROVE  Len(s) \in Nat /\ \A i \in 1 .. Len(s) : s[i] \in Updates
  OBVIOUS
<1>2. \A upd \in Updates : \A s \in upd : s.poll \in PollIds /\ s.n \in Nat
  BY DEF Updates, Snapshots
<1> QED
  BY <1>1, <1>2 DEF TypeOK, Updates

\* A step that leaves the viewers alone and takes no vote back.
LEMMA FeedStays ==
    ASSUME TypeOK, FeedInv, tally' \in [PollIds -> Nat],
           \A p \in PollIds : tally[p] <= tally'[p],
           UNCHANGED <<shown, hold, send>>
    PROVE  /\ \A c \in Clients, p \in PollIds : AtMost(c, p, tally[p])'
           /\ \A c \in Clients : InOrder(c)'
<1>1. \A c \in Clients : InOrder(c)'
  BY FeedParts DEF InOrder
<1>2. ASSUME NEW c \in Clients, NEW p \in PollIds
      PROVE  AtMost(c, p, tally[p])'
  <2> DEFINE m == tally[p]
             n == tally'[p]
  <2>1. AtMost(c, p, m) /\ m <= n /\ m \in Nat /\ n \in Nat /\ shown[c][p] \in Nat
    BY <1>2, FeedParts, FeedTypes
  <2> HIDE DEF m, n
  <2>2. \A s \in hold[c] : s.n \in Nat
    BY FeedTypes
  <2>3. \A i \in 1 .. Len(send[c]) : \A s \in send[c][i] : s.n \in Nat
    BY FeedTypes
  <2>4. AtMost(c, p, n)
    BY <2>1, <2>2, <2>3 DEF AtMost
  <2> QED
    BY <2>4 DEF AtMost, n
<1> QED
  BY <1>1, <1>2

LEMMA FeedVote ==
    ASSUME TypeOK, FeedInv, TypeOK', \A p \in PollIds : tally[p] <= tally'[p],
           UNCHANGED <<shown, hold, send, bcast>>
    PROVE  FeedInv'
<1>1. tally' \in [PollIds -> Nat] /\ bcast.upd \in Updates
  BY PassSteps DEF TypeOK
<1>2. PassInv'
  <2>1. ASSUME NEW s \in bcast.upd
        PROVE  s.n <= tally'[s.poll]
    <3>1. s.poll \in PollIds /\ s.n \in Nat
      BY <1>1, FeedTypes
    <3>2. s.n <= tally[s.poll] /\ tally[s.poll] \in Nat /\ tally'[s.poll] \in Nat
          /\ tally[s.poll] <= tally'[s.poll]
      BY <1>1, <3>1, FeedTypes, FeedParts DEF PassInv
    <3> QED
      BY <3>1, <3>2
  <2> QED
    BY <2>1, FeedParts DEF PassInv, AtMost
<1> QED
  BY <1>1, <1>2, FeedStays, FeedParts

\* A step of one client's writePump: what waits for the client keeps its order
\* and says no more of a poll than before.
LEMMA FeedConn ==
    ASSUME TypeOK, FeedInv, NEW c \in Clients, UNCHANGED <<tally, bcast>>,
           \A d \in Clients \ {c} : shown'[d] = shown[d] /\ hold'[d] = hold[d] /\ send'[d] = send[d],
           \A p \in PollIds, n \in Nat : AtMost(c, p, n) => AtMost(c, p, n)',
           InOrder(c)'
    PROVE  FeedInv'
<1>1. \A d \in Clients, p \in PollIds, n \in Nat : AtMost(d, p, n) => AtMost(d, p, n)'
  BY DEF AtMost
<1>2. \A d \in Clients : InOrder(d)'
  BY FeedParts DEF InOrder
<1>3. ASSUME NEW d \in Clients, NEW p \in PollIds
      PROVE  AtMost(d, p, tally[p])'
  <2> DEFINE m == tally[p]
  <2>1. AtMost(d, p, m) /\ m \in Nat
    BY FeedParts, FeedTypes
  <2> HIDE DEF m
  <2>2. m' = m
    BY DEF m
  <2>3. /\ shown'[d][p] <= m
        /\ \A s \in hold'[d] : s.poll = p => s.n <= m
        /\ \A i \in 1 .. Len(send'[d]) : \A s \in send'[d][i] : s.poll = p => s.n <= m
    BY <1>1, <2>1 DEF AtMost
  <2> QED
    BY <2>2, <2>3 DEF AtMost, m
<1>4. PassInv'
  <2>1. bcast.upd \in Updates
    BY PassSteps
  <2>2. ASSUME NEW s \in bcast.upd, NEW d \in Clients, bcast.pc = "read" \/ d \in bcast.todo
        PROVE  /\ shown'[d][s.poll] <= s.n
               /\ \A t \in hold'[d] : t.poll = s.poll => t.n <= s.n
               /\ \A i \in 1 .. Len(send'[d]) : \A t \in send'[d][i] : t.poll = s.poll => t.n <= s.n
    <3> DEFINE p == s.poll
               n == s.n
    <3>1. p \in PollIds /\ n \in Nat /\ AtMost(d, p, n)
      BY <2>1, <2>2, FeedTypes, FeedParts DEF PassInv
    <3> HIDE DEF p, n
    <3>2. /\ shown'[d][p] <= n
          /\ \A t \in hold'[d] : t.poll = p => t.n <= n
          /\ \A i \in 1 .. Len(send'[d]) : \A t \in send'[d][i] : t.poll = p => t.n <= n
      BY <1>1, <3>1 DEF AtMost
    <3> QED
      BY <3>2 DEF p, n
  <2>3. PassInv
    BY FeedParts
  <2> QED
    BY <2>2, <2>3 DEF PassInv, AtMost
<1> QED
  BY <1>2, <1>3, <1>4, FeedParts

LEMMA FeedReceive ==
    ASSUME TypeOK, FeedInv, NEW c \in Clients, PumpReceives(c)
    PROVE  FeedInv'
<1>1. /\ hold \in [Clients -> Updates] /\ send \in [Clients -> Seq(Updates)]
      /\ send[c] # <<>> /\ hold' = [hold EXCEPT ![c] = Head(send[c])]
      /\ send' = [send EXCEPT ![c] = Tail(send[c])]
      /\ UNCHANGED <<tally, bcast, shown>>
  BY FeedTypes DEF PumpReceives, redis
<1>2. /\ hold'[c] = send[c][1] /\ Len(send[c]) \in Nat \ {0} /\ Len(send'[c]) = Len(send[c]) - 1
      /\ \A i \in 1 .. Len(send[c]) - 1 : send'[c][i] = send[c][i + 1]
  BY <1>1, Popped
<1>3. /\ 1 \in 1 .. Len(send[c])
      /\ \A i \in 1 .. Len(send'[c]) : i \in Int /\ i + 1 \in 1 .. Len(send[c]) /\ 1 < i + 1
                                       /\ send'[c][i] = send[c][i + 1]
  BY <1>2
<1>4. ASSUME NEW p \in PollIds, NEW n \in Nat, AtMost(c, p, n)
      PROVE  AtMost(c, p, n)'
  BY <1>1, <1>2, <1>3, <1>4 DEF AtMost
<1>5. InOrder(c)'
  <2>1. InOrder(c)
    BY FeedParts
  <2>2. \A s \in hold'[c] : shown'[c][s.poll] <= s.n
    BY <1>1, <1>2, <1>3, <2>1 DEF InOrder
  <2>3. ASSUME NEW i \in 1 .. Len(send'[c]), NEW s \in send'[c][i]
        PROVE  /\ shown'[c][s.poll] <= s.n
               /\ \A t \in hold'[c] : t.poll = s.poll => t.n <= s.n
               /\ \A j \in i .. Len(send'[c]) : \A t \in send'[c][j] :
                     i < j /\ t.poll = s.poll => s.n <= t.n
    <3>1. /\ i + 1 \in 1 .. Len(send[c]) /\ s \in send[c][i + 1] /\ i + 1 \in 1 .. Len(send[c])
          /\ 1 < i + 1 /\ i \in Int
      BY <1>3
    <3>2. shown'[c][s.poll] <= s.n
      BY <1>1, <2>1, <3>1 DEF InOrder
    <3>3. ASSUME NEW t \in hold'[c], t.poll = s.poll
          PROVE  t.n <= s.n
      <4>1. 1 \in 1 .. Len(send[c]) /\ i + 1 \in 1 .. Len(send[c]) /\ t \in send[c][1]
        BY <1>2, <1>3, <3>1
      <4> QED
        BY <2>1, <3>1, <3>3, <4>1 DEF InOrder
    <3>4. ASSUME NEW j \in i .. Len(send'[c]), NEW t \in send'[c][j], i < j, t.poll = s.poll
          PROVE  s.n <= t.n
      <4>1. j + 1 \in (i + 1) .. Len(send[c]) /\ t \in send[c][j + 1] /\ i + 1 < j + 1
        BY <1>2, <1>3, <3>1, <3>4
      <4> QED
        BY <2>1, <3>1, <3>4, <4>1 DEF InOrder
    <3> QED
      BY <3>2, <3>3, <3>4
  <2> QED
    BY <2>2, <2>3 DEF InOrder
<1> QED
  BY <1>1, <1>4, <1>5, FeedConn

\* A viewer is shown the tallies of the update that its writePump holds.
Written(c, h) == [p \in PollIds |-> IF \E s \in h : s.poll = p
                                    THEN (CHOOSE s \in h : s.poll = p).n ELSE shown[c][p]]

LEMMA FeedWrite ==
    ASSUME TypeOK, FeedInv, NEW c \in Clients, PumpWrites(c)
    PROVE  /\ FeedInv'
           /\ UNCHANGED tally /\ shown' \in [Clients -> [PollIds -> Nat]]
           /\ \A p \in PollIds : shown[c][p] <= shown'[c][p] /\ shown'[c][p] <= tally[p]
           /\ \A d \in Clients \ {c} : shown'[d] = shown[d]
<1>1. /\ hold \in [Clients -> Updates] /\ send \in [Clients -> Seq(Updates)]
      /\ shown \in [Clients -> [PollIds -> Nat]]
      /\ hold' = [hold EXCEPT ![c] = {}]
      /\ shown' = [shown EXCEPT ![c] = Written(c, hold[c])]
      /\ UNCHANGED <<tally, bcast, send>>
  BY FeedTypes DEF PumpWrites, redis, Written
<1>2. hold'[c] = {} /\ shown'[c] = Written(c, hold[c])
  BY <1>1
<1>3. ASSUME NEW p \in PollIds
      PROVE  \/ shown'[c][p] = shown[c][p]
             \/ \E s \in hold[c] : s.poll = p /\ shown'[c][p] = s.n
  BY <1>2 DEF Written
<1>4. ASSUME NEW p \in PollIds, NEW n \in Nat, AtMost(c, p, n)
      PROVE  AtMost(c, p, n)'
  BY <1>1, <1>2, <1>3, <1>4 DEF AtMost
<1>5. ASSUME NEW p \in PollIds
      PROVE  shown'[c][p] \in Nat /\ shown[c][p] <= shown'[c][p] /\ shown'[c][p] <= tally[p]
  <2>1. shown[c][p] \in Nat /\ tally[p] \in Nat /\ shown[c][p] <= tally[p]
        /\ \A s \in hold[c] : s.poll = p => s.n \in Nat /\ shown[c][p] <= s.n /\ s.n <= tally[p]
    BY <1>1, FeedTypes, FeedParts DEF AtMost, InOrder
  <2> QED
    BY <1>3, <2>1
<1>6. InOrder(c)'
  <2>1. InOrder(c)
    BY FeedParts
  <2>2. ASSUME NEW i \in 1 .. Len(send[c]), NEW s \in send[c][i]
        PROVE  shown'[c][s.poll] <= s.n
    <3>1. s.poll \in PollIds
      BY FeedTypes
    <3> QED
      BY <1>3, <2>1, <3>1 DEF InOrder
  <2> QED
    BY <1>1, <1>2, <2>1, <2>2 DEF InOrder
<1>7. \A d \in Clients \ {c} : shown'[d] = shown[d] /\ hold'[d] = hold[d] /\ send'[d] = send[d]
  BY <1>1
<1>8. shown' \in [Clients -> [PollIds -> Nat]]
  <2>1. Written(c, hold[c]) = [p \in PollIds |-> shown'[c][p]]
    BY <1>2 DEF Written
  <2>2. Written(c, hold[c]) \in [PollIds -> Nat]
    BY <1>5, <2>1
  <2> QED
    BY <1>1, <2>2
<1> QED
  BY <1>1, <1>4, <1>5, <1>6, <1>7, <1>8, FeedConn

\* Every other step of a client.
LEMMA FeedClient ==
    ASSUME TypeOK, TypeOK', FeedInv, NEW c \in Clients,
           \/ Connect(c) \/ ServeWS(c) \/ PeerFails(c) \/ PumpGoesOn(c) \/ PumpFails(c) \/ DropSends(c),
           ~PumpWrites(c)
    PROVE  FeedInv' /\ UNCHANGED <<tally, shown>>
<1>1. CASE PumpReceives(c)
  BY <1>1, FeedReceive DEF PumpReceives, redis
<1>2. CASE PumpFails(c)
  <2>1. /\ hold' = [hold EXCEPT ![c] = {}] /\ UNCHANGED <<tally, bcast, send, shown>>
    BY <1>2 DEF PumpFails, redis
  <2>2. hold'[c] = {}
    BY <2>1, FeedTypes
  <2>3. ASSUME NEW p \in PollIds, NEW n \in Nat, AtMost(c, p, n)
        PROVE  AtMost(c, p, n)'
    BY <2>1, <2>2, <2>3 DEF AtMost
  <2>4. InOrder(c)'
    BY <2>1, <2>2, FeedParts DEF InOrder
  <2>5. \A d \in Clients \ {c} : shown'[d] = shown[d] /\ hold'[d] = hold[d] /\ send'[d] = send[d]
    BY <2>1, FeedTypes
  <2> QED
    BY <2>1, <2>3, <2>4, <2>5, FeedConn
<1>3. CASE Connect(c) \/ ServeWS(c) \/ PeerFails(c) \/ PumpEnds(c) \/ PumpExits(c) \/ DropSends(c)
  <2>1. UNCHANGED <<tally, shown, hold, send, bcast>>
    BY <1>3 DEF Connect, ServeWS, PeerFails, PumpEnds, PumpExits, DropSends, redis, conns
  <2>2. \A p \in PollIds : tally[p] <= tally'[p]
    BY <2>1, FeedTypes
  <2> QED
    BY <2>1, <2>2, FeedVote
<1> QED
  BY <1>1, <1>2, <1>3 DEF PumpGoesOn

\* The update of a pass is read after all that its viewers wait for, and it is
\* offered to each of them once.
LEMMA FeedOffer ==
    ASSUME TypeOK, FeedInv, NEW c \in Clients, Offer(c)
    PROVE  FeedInv'
<1>1. /\ UNCHANGED <<tally, shown, hold>> /\ bcast.pc = "send" /\ c \in bcast.todo
      /\ bcast' = Waiting \/ PassIs("send", bcast.ids, bcast.upd, bcast.todo \ {c})
      /\ bcast.upd \in Updates
  BY PassSteps DEF Offer, redis
<1>2. send \in [Clients -> Seq(Updates)]
  BY FeedTypes
<1>3. PassInv /\ InOrder(c) /\ \A s \in bcast.upd : s.poll \in PollIds /\ s.n \in Nat
  BY <1>1, FeedParts, FeedTypes
<1>4. \A d \in Clients \ {c} : send'[d] = send[d]
  BY <1>2 DEF Offer
<1>5. \/ send'[c] = send[c]
      \/ /\ Len(send'[c]) = Len(send[c]) + 1
         /\ \A i \in 1 .. Len(send[c]) : send'[c][i] = send[c][i]
         /\ send'[c][Len(send[c]) + 1] = bcast.upd
  <2>1. CASE closed[c]
    BY <2>1 DEF Offer
  <2>2. CASE ~closed[c]
    <3>1. send'[c] = Append(send[c], bcast.upd)
      BY <1>2, <2>2 DEF Offer
    <3> QED
      BY <1>1, <1>2, <3>1, Pushed
  <2> QED
    BY <2>1, <2>2
<1>6. Len(send[c]) \in Nat
  BY FeedTypes
<1>7. ASSUME NEW p \in PollIds
      PROVE  AtMost(c, p, tally[p])'
  <2>1. AtMost(c, p, tally[p])
    BY FeedParts
  <2>2. \A s \in bcast.upd : s.poll = p => s.n <= tally[p]
    BY <1>3 DEF PassInv
  <2>3. ASSUME NEW i \in 1 .. Len(send'[c]), NEW s \in send'[c][i], s.poll = p
        PROVE  s.n <= tally[p]
    BY <1>5, <1>6, <2>1, <2>2, <2>3 DEF AtMost
  <2> QED
    BY <1>1, <2>1, <2>3 DEF AtMost
<1>8. ASSUME NEW d \in Clients \ {c}, NEW p \in PollIds
      PROVE  AtMost(d, p, tally[p])'
  BY <1>1, <1>4, FeedParts DEF AtMost
<1>9. \A s \in bcast.upd : AtMost(c, s.poll, s.n)
  BY <1>1, <1>3 DEF PassInv
<1>10. InOrder(c)'
  <2>1. \A s \in hold'[c] : shown'[c][s.poll] <= s.n
    BY <1>1, <1>3 DEF InOrder
  <2>2. ASSUME NEW i \in 1 .. Len(send'[c]), NEW s \in send'[c][i]
        PROVE  /\ shown'[c][s.poll] <= s.n
               /\ \A t \in hold'[c] : t.poll = s.poll => t.n <= s.n
    <3>1. CASE i \in 1 .. Len(send[c]) /\ s \in send[c][i]
      BY <1>1, <1>3, <3>1 DEF InOrder
    <3>2. CASE s \in bcast.upd
      BY <1>1, <1>9, <3>2 DEF AtMost
    <3> QED
      BY <1>5, <1>6, <2>2, <3>1, <3>2
  <2>3. ASSUME NEW i \in 1 .. Len(send'[c]), NEW s \in send'[c][i],
               NEW j \in i .. Len(send'[c]), NEW t \in send'[c][j], i < j, t.poll = s.poll
        PROVE  s.n <= t.n
    <3>1. CASE j \in i .. Len(send[c]) /\ t \in send[c][j]
      <4>1. i \in 1 .. Len(send[c]) /\ s \in send[c][i]
        BY <1>5, <1>6, <2>3, <3>1
      <4> QED
        BY <1>3, <2>3, <3>1, <4>1 DEF InOrder
    <3>2. CASE t \in bcast.upd /\ i \in 1 .. Len(send[c]) /\ s \in send[c][i]
      BY <1>9, <2>3, <3>2 DEF AtMost
    <3>3. \/ j \in i .. Len(send[c]) /\ t \in send[c][j]
          \/ t \in bcast.upd /\ i \in 1 .. Len(send[c]) /\ s \in send[c][i]
      BY <1>5, <1>6, <2>3
    <3> QED
      BY <3>1, <3>2, <3>3
  <2> QED
    BY <2>1, <2>2, <2>3 DEF InOrder
<1>11. \A d \in Clients \ {c} : InOrder(d)'
  BY <1>1, <1>4, FeedParts DEF InOrder
<1>12. PassInv'
  <2>1. CASE bcast' = Waiting
    BY <2>1 DEF PassInv, Waiting
  <2>2. CASE PassIs("send", bcast.ids, bcast.upd, bcast.todo \ {c})
    <3>1. bcast'.pc = "send" /\ bcast'.upd = bcast.upd /\ bcast'.todo = bcast.todo \ {c}
      BY <2>2 DEF PassIs
    <3>2. ASSUME NEW s \in bcast.upd, NEW d \in Clients, d \in bcast.todo \ {c}
          PROVE  /\ shown'[d][s.poll] <= s.n
                 /\ \A t \in hold'[d] : t.poll = s.poll => t.n <= s.n
                 /\ \A i \in 1 .. Len(send'[d]) : \A t \in send'[d][i] : t.poll = s.poll => t.n <= s.n
      BY <1>1, <1>3, <1>4, <3>2 DEF PassInv, AtMost
    <3> QED
      BY <1>1, <1>3, <3>1, <3>2 DEF PassInv, AtMost
  <2> QED
    BY <1>1, <2>1, <2>2
<1> QED
  BY <1>7, <1>8, <1>10, <1>11, <1>12, FeedParts

LEMMA FeedBroadcast ==
    ASSUME TypeOK, FeedInv, Broadcast
    PROVE  FeedInv' /\ UNCHANGED <<tally, shown>>
<1>1. UNCHANGED <<tally, shown, hold>>
  BY DEF Broadcast, Tick, PopMembers, PopDel, PopFails, ReadSnapshot, StartSend, Offer, Drop,
         redis, chans, conns
<1>2. CASE \E c \in Clients : Offer(c)
  BY <1>1, <1>2, FeedOffer
<1>3. CASE ~\E c \in Clients : Offer(c)
  <2>1. UNCHANGED send
    BY <1>3 DEF Broadcast, Tick, PopMembers, PopDel, PopFails, ReadSnapshot, StartSend, Drop, conns
  <2>2. PassInv /\ \A p \in PollIds : tally[p] <= tally'[p]
    BY <1>1, FeedParts, FeedTypes
  <2> DEFINE Kept(pc, upd, todo) ==
               /\ \A s \in upd : /\ s.n <= tally[s.poll]
                                 /\ \A c \in Clients : pc = "read" \/ c \in todo => AtMost(c, s.poll, s.n)
               /\ pc \in {"tick", "members", "del"} => upd = {}
  <2>3. ASSUME NEW pc, NEW ids, NEW upd, NEW todo, PassIs(pc, ids, upd, todo), Kept(pc, upd, todo)
        PROVE  PassInv'
    <3>1. bcast'.pc = pc /\ bcast'.upd = upd /\ bcast'.todo = todo
      BY <2>3 DEF PassIs
    <3> QED
      BY <1>1, <2>1, <2>3, <3>1 DEF PassInv, AtMost
  <2>4. bcast' = Waiting => PassInv'
    BY DEF PassInv, Waiting
  <2>5. ASSUME Tick \/ PopMembers
        PROVE  PassInv'
    <3>1. bcast.upd = {}
      BY <2>2, <2>5 DEF PassInv, Tick, PopMembers
    <3>2. \/ PassIs("members", bcast.ids, {}, bcast.todo)
          \/ PassIs("del", dirty, {}, bcast.todo)
      BY <2>5, <3>1, PassSteps
    <3>3. Kept("members", {}, bcast.todo) /\ Kept("del", {}, bcast.todo)
      OBVIOUS
    <3> HIDE DEF Kept
    <3> QED
      BY <2>3, <3>2, <3>3
  <2>6. ASSUME PopDel \/ PopFails
        PROVE  PassInv'
    <3>1. bcast.pc \in {"members", "del"}
      BY <2>6 DEF PopDel, PopFails
    <3>2. bcast.upd = {}
      BY <2>2, <3>1 DEF PassInv
    <3>3. bcast' = Waiting \/ PassIs("read", bcast.ids, {}, bcast.todo)
      BY <2>6, <3>2, PassSteps DEF PopFails
    <3>4. Kept("read", {}, bcast.todo)
      OBVIOUS
    <3> HIDE DEF Kept
    <3> QED
      BY <2>3, <2>4, <3>3, <3>4
  <2>7. ASSUME NEW p \in PollIds, ReadSnapshot(p)
        PROVE  PassInv'
    <3>1. PICK upd \in {bcast.upd, bcast.upd \cup {[poll |-> p, n |-> tally[p]]}} :
            PassIs("read", bcast.ids \ {p}, upd, bcast.todo)
      BY <2>7, PassSteps
    <3>2. bcast.pc = "read"
      BY <2>7 DEF ReadSnapshot
    <3>3. \A c \in Clients : AtMost(c, p, tally[p])
      BY FeedParts
    <3>4. tally[p] \in Nat
      BY FeedTypes
    <3>5. Kept("read", upd, bcast.todo)
      BY <2>2, <3>1, <3>2, <3>3, <3>4 DEF PassInv
    <3> HIDE DEF Kept
    <3> QED
      BY <2>3, <3>1, <3>5
  <2>8. ASSUME StartSend
        PROVE  PassInv'
    <3>1. bcast.pc = "read" /\ (bcast' = Waiting \/ PassIs("send", bcast.ids, bcast.upd, clients))
      BY <2>8, PassSteps DEF StartSend
    <3>2. Kept("send", bcast.upd, clients)
      BY <2>2, <3>1 DEF PassInv
    <3> HIDE DEF Kept
    <3> QED
      BY <2>3, <2>4, <3>1, <3>2
  <2>9. ASSUME NEW c \in Clients, Drop(c)
        PROVE  PassInv'
    <3>1. bcast.pc = "send" /\ (bcast' = Waiting \/ PassIs("send", bcast.ids, bcast.upd, bcast.todo \ {c}))
      BY <2>9, PassSteps DEF Drop
    <3>2. Kept("send", bcast.upd, bcast.todo \ {c})
      BY <2>2, <3>1 DEF PassInv
    <3> HIDE DEF Kept
    <3> QED
      BY <2>3, <2>4, <3>1, <3>2
  <2>10. PassInv'
    <3> HIDE DEF Kept
    <3> QED
      BY <1>3, <2>5, <2>6, <2>7, <2>8, <2>9 DEF Broadcast
  <2>11. tally' \in [PollIds -> Nat]
    BY <1>1, FeedTypes
  <2> QED
    BY <1>1, <2>1, <2>2, <2>10, <2>11, FeedStays, FeedParts
<1> QED
  BY <1>2, <1>3

LEMMA FeedInit == Init => FeedInv
<1>1. Len(<<>>) = 0
  OBVIOUS
<1> QED
  BY <1>1 DEF Init, FeedInv, AtMost, Waiting

-----------------------------------------------------------------------------
(* The hub implements the feed: CountVote is Vote, PumpWrites is Show, and *)
(* every other step changes nothing that a viewer can tell.                *)

LEMMA FeedStep ==
    ASSUME TypeOK, TypeOK', FeedInv, [Next]_vars
    PROVE  FeedInv' /\ [Feed!Next]_(Feed!vars)
<1>1. ASSUME NEW v \in Voters, NEW p \in PollIds, CountVote(v, p)
      PROVE  FeedInv' /\ [Feed!Next]_(Feed!vars)
  <2>1. tally' = [tally EXCEPT ![p] = @ + 1] /\ UNCHANGED <<shown, hold, send, bcast>>
    BY <1>1 DEF CountVote, conns
  <2>2. \A q \in PollIds : tally[q] <= tally'[q]
    BY <2>1, FeedTypes
  <2>3. Feed!Vote(p)
    BY <2>1 DEF Feed!Vote
  <2> QED
    BY <2>1, <2>2, <2>3, FeedVote DEF Feed!Next
<1>2. ASSUME (\E v \in Voters : MarkDirty(v) \/ CutVote(v)) \/ Run \/ UNCHANGED vars
      PROVE  FeedInv' /\ [Feed!Next]_(Feed!vars)
  <2>1. UNCHANGED <<tally, shown, hold, send, bcast>>
    BY <1>2 DEF MarkDirty, CutVote, Run, RunReceives, RunAdds, RunRemoves, vars, redis, conns
  <2>2. \A q \in PollIds : tally[q] <= tally'[q]
    BY <2>1, FeedTypes
  <2> QED
    BY <2>1, <2>2, FeedVote DEF Feed!vars
<1>3. ASSUME NEW c \in Clients, PumpWrites(c)
      PROVE  FeedInv' /\ [Feed!Next]_(Feed!vars)
  <2>1. Feed!Show(c)
    BY <1>3, FeedWrite DEF Feed!Show
  <2> QED
    BY <1>3, <2>1, FeedWrite DEF Feed!Next
<1>4. ASSUME NEW c \in Clients, ~PumpWrites(c),
             \/ Connect(c) \/ ServeWS(c) \/ PeerFails(c) \/ PumpGoesOn(c) \/ PumpFails(c) \/ DropSends(c)
      PROVE  FeedInv' /\ [Feed!Next]_(Feed!vars)
  BY <1>4, FeedClient DEF Feed!vars
<1>5. ASSUME Broadcast
      PROVE  FeedInv' /\ [Feed!Next]_(Feed!vars)
  BY <1>5, FeedBroadcast DEF Feed!vars
<1> QED
  BY <1>1, <1>2, <1>3, <1>4, <1>5 DEF Next

\* Viewers are sent tallies that were really reached, and never an older one
\* after a newer one, whatever is dropped, cut or closed on the way.
THEOREM HubImplementsFeed == Spec => ImplementsFeed
<1>1. Init => TypeOK /\ FeedInv /\ Feed!Init
  BY InitTypes, FeedInit DEF Init, Feed!Init
<1>2. (TypeOK /\ FeedInv) /\ [Next]_vars => (TypeOK /\ FeedInv)'
  BY NextTypes, FeedStep
<1>3. (TypeOK /\ FeedInv) /\ [Next]_vars => [Feed!Next]_(Feed!vars)
  BY NextTypes, FeedStep
<1> QED
  BY <1>1, <1>2, <1>3, PTL DEF Spec, ImplementsFeed, Feed!Spec
=============================================================================
