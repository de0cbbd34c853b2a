----------------------------- MODULE Snowflake ------------------------------
(***************************************************************************)
(* The generator of vote, option, comment and user ids                     *)
(* (pkg/utils/snowflake_id.go), one per server process.  nextID holds the  *)
(* mutex of the generator from its first line to its return, so a call is  *)
(* one step, except when it has used up the sequence numbers of a          *)
(* millisecond: it then reads the clock in a loop, still holding the mutex.*)
(*                                                                         *)
(* Nothing of the generator is persisted.  The clock of a server may be    *)
(* set back.  "issued", "high", "rewound" and "collided" are history       *)
(* variables: the ids given out, the latest time of one, whether a process *)
(* has started on times its predecessor used, and whether an id was given  *)
(* out twice.                                                              *)
(***************************************************************************)
EXTENDS Integers

CONSTANTS
    Servers,
    Callers,      \* concurrent calls of each server
    NodeEnv,      \* per server, SNOWFLAKE_NODE_ID; -1 if it is unset or no number
    NodeCount,    \* 2 ^ snowflakeNodeBits (1024)
    SeqCount,     \* 2 ^ snowflakeSequenceBits (4096)
    MaxWallClock, \* bound: the clocks stop here
    MaxSetBacks   \* bound: how often a clock is set back

ASSUME SnowflakeAssumption ==
    /\ NodeEnv \in [Servers -> Int]
    /\ NodeCount \in Nat /\ NodeCount > 1
    /\ SeqCount \in Nat \ {0}
    /\ MaxWallClock \in Nat /\ MaxSetBacks \in Nat

VARIABLES
    wallClock,    \* milliseconds since the epoch, per server
    setBacks,     \* how often a clock has been set back
    last,         \* lastTimestamp; 0 in a new process
    seq,          \* sequence
    pc,           \* per server and caller: "idle", "want" the mutex, "spin" with it
    issued, high, rewound, collided

history == <<issued, high, rewound, collided>>
snowflakeVars == <<wallClock, setBacks, last, seq, pc, history>>

\* getSnowflakeNodeID: what is no valid node id counts as 1.
NodeID(s) == IF NodeEnv[s] \in 0 .. NodeCount - 1 THEN NodeEnv[s] ELSE 1

Stamps == [ts: Nat, node: 0 .. NodeCount - 1, seq: 0 .. SeqCount - 1]

\* The three fields share no bit: the disjunction of the shifts is their sum.
Pack(i) == (i.ts * NodeCount + i.node) * SeqCount + i.seq

SnowflakeTypeOK ==
    /\ wallClock \in [Servers -> Nat \ {0}]
    /\ setBacks \in Nat
    /\ last \in [Servers -> Nat]
    /\ seq \in [Servers -> 0 .. SeqCount - 1]
    /\ pc \in [Servers -> [Callers -> {"idle", "want", "spin"}]]
    /\ issued \subseteq Stamps
    /\ high \in [Servers -> Nat]
    /\ rewound \in BOOLEAN
    /\ collided \in BOOLEAN

SnowflakeInit ==
    /\ wallClock = [s \in Servers |-> 1]
    /\ setBacks = 0
    /\ last = [s \in Servers |-> 0]
    /\ seq = [s \in Servers |-> 0]
    /\ pc = [s \in Servers |-> [c \in Callers |-> "idle"]]
    /\ issued = {}
    /\ high = [s \in Servers |-> 0]
    /\ rewound = FALSE
    /\ collided = FALSE

-----------------------------------------------------------------------------
(* The clocks and the processes.                                           *)

ClockTicks(s) ==
    /\ wallClock[s] < MaxWallClock
    /\ wallClock' = [wallClock EXCEPT ![s] = @ + 1]
    /\ UNCHANGED <<setBacks, last, seq, pc, history>>

SetBack(s) ==
    /\ setBacks < MaxSetBacks
    /\ \E t \in 1 .. wallClock[s] - 1 : wallClock' = [wallClock EXCEPT ![s] = t]
    /\ setBacks' = setBacks + 1
    /\ UNCHANGED <<last, seq, pc, history>>

\* A new process knows nothing of the ids its predecessor gave out.
Restart(s) ==
    /\ last' = [last EXCEPT ![s] = 0]
    /\ seq' = [seq EXCEPT ![s] = 0]
    /\ pc' = [pc EXCEPT ![s] = [c \in Callers |-> "idle"]]
    /\ UNCHANGED <<wallClock, setBacks, history>>

-----------------------------------------------------------------------------
(* nextID.                                                                 *)

MutexFree(s) == \A c \in Callers : pc[s][c] # "spin"

Call(s, c) ==
    /\ pc[s][c] = "idle"
    /\ pc' = [pc EXCEPT ![s][c] = "want"]
    /\ UNCHANGED <<wallClock, setBacks, last, seq, history>>

\* The caller returns with the id of time t and sequence number q.
Issue(s, c, t, q) ==
    LET id == [ts |-> t, node |-> NodeID(s), seq |-> q]
    IN  /\ last' = [last EXCEPT ![s] = t]
        /\ seq' = [seq EXCEPT ![s] = q]
        /\ pc' = [pc EXCEPT ![s][c] = "idle"]
        /\ issued' = issued \cup {id}
        /\ collided' = (collided \/ \E i \in issued : Pack(i) = Pack(id))
        /\ high' = [high EXCEPT ![s] = IF t > @ THEN t ELSE @]
        /\ rewound' = (rewound \/ (last[s] = 0 /\ t <= high[s]))
        /\ UNCHANGED <<wallClock, setBacks>>

\* A slip: the time of a clock set back is used.
Unpinned(s) == wallClock[s]

\* The time is pinned to the last one seen if the clock was set back.
Pinned(s) == IF wallClock[s] < last[s] THEN last[s] ELSE wallClock[s]

NextSeq(q) == (q + 1) % SeqCount

\* The first id of a millisecond.
IssueFirst(s, c) ==
    /\ pc[s][c] = "want" /\ MutexFree(s)
    /\ Pinned(s) # last[s]
    /\ Issue(s, c, Pinned(s), 0)

\* A further one, as long as there are sequence numbers.
IssueNext(s, c) ==
    /\ pc[s][c] = "want" /\ MutexFree(s)
    /\ Pinned(s) = last[s] /\ NextSeq(seq[s]) # 0
    /\ Issue(s, c, Pinned(s), NextSeq(seq[s]))

\* The sequence starts over: the caller waits for the clock, with the mutex.
Exhaust(s, c) ==
    /\ pc[s][c] = "want" /\ MutexFree(s)
    /\ Pinned(s) = last[s] /\ NextSeq(seq[s]) = 0
    /\ last[s] < MaxWallClock
    /\ seq' = [seq EXCEPT ![s] = 0]
    /\ pc' = [pc EXCEPT ![s][c] = "spin"]
    /\ UNCHANGED <<wallClock, setBacks, last, history>>

\* Slips: the loop ends one millisecond early, or never reads the clock again.
SpinEndsEarly(s, c) ==
    /\ pc[s][c] = "spin"
    /\ wallClock[s] >= last[s]
    /\ Issue(s, c, wallClock[s], 0)
SpinKeepsTime(s, c) ==
    /\ pc[s][c] = "spin"
    /\ \E t \in 1 .. last[s] : t > last[s] /\ Issue(s, c, t, 0)

\* The loop has read a later time.
SpinEnds(s, c) ==
    /\ pc[s][c] = "spin"
    /\ wallClock[s] > last[s]
    /\ Issue(s, c, wallClock[s], 0)

NextID(s, c) == IssueFirst(s, c) \/ IssueNext(s, c) \/ Exhaust(s, c)

SnowflakeNext ==
    \E s \in Servers :
        \/ ClockTicks(s)
        \/ SetBack(s)
        \/ Restart(s)
        \/ \E c \in Callers : Call(s, c) \/ NextID(s, c) \/ SpinEnds(s, c)

SnowflakeSpec == SnowflakeInit /\ [][SnowflakeNext]_snowflakeVars

\* Clocks move on; the loop runs; sync.Mutex hands itself to the caller that
\* waits longest, so none is passed over for ever.
Fairness ==
    \A s \in Servers :
        /\ WF_snowflakeVars(ClockTicks(s))
        /\ \A c \in Callers : SF_snowflakeVars(NextID(s, c)) /\ WF_snowflakeVars(SpinEnds(s, c))

FairSpec == SnowflakeSpec /\ Fairness

-----------------------------------------------------------------------------
(* Properties.                                                             *)

NodesDiffer == \A s, t \in Servers : NodeID(s) = NodeID(t) => s = t

\* No id is ever given out twice, whatever the clocks do and however the
\* calls queue, if the servers have different node ids and no process gives
\* out its first id at a time at which its predecessor was already giving
\* them out (nothing in the code prevents either).
UniqueIds == NodesDiffer /\ ~rewound => ~collided

\* Under the same condition the ids of one node only ever grow, a clock that
\* is set back included.
IdsGrow ==
    [][ NodesDiffer /\ ~rewound' =>
            \A new \in issued' \ issued, old \in issued :
                new.node = old.node => Pack(new) > Pack(old) ]_snowflakeVars

\* The strengthening that makes uniqueness inductive: the last stamp of a
\* server is ahead of all of its node, or its next one will be.
Ahead(s) ==
    /\ \A i \in issued : i.node = NodeID(s) => i.ts <= high[s]
    /\ last[s] # 0 =>
          /\ last[s] = high[s]
          /\ \A i \in issued :
                i.node = NodeID(s) /\ i.ts = last[s] /\ MutexFree(s) => i.seq <= seq[s]

IdsInv ==
    /\ SnowflakeTypeOK
    /\ NodesDiffer /\ ~rewound => ~collided /\ \A s \in Servers : Ahead(s)

\* A call is answered though others wait in the loop with the mutex held, and
\* though the clock may have been set back while they do.
CallersAreServed ==
    \A s \in Servers, c \in Callers :
        pc[s][c] # "idle" ~> (pc[s][c] = "idle" \/ last[s] = MaxWallClock)
=============================================================================
