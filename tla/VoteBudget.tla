----------------------------- MODULE VoteBudget -----------------------------
(***************************************************************************)
(* The vote balance of ONE user (pkg/vote/repository.go): a token bucket   *)
(* kept in a Redis hash under userBucketKey(user).  Buckets of different   *)
(* users are different keys and never interact.                            *)
(*                                                                         *)
(* Two pieces of code write the hash:                                      *)
(*   - tokenBucketScript, run by AddVote: one atomic Lua script, but the   *)
(*     time it is given was read by the server BEFORE the script runs;     *)
(*   - GetRemainingVotes: HGETALL, a refill computed in Go, then a write   *)
(*     back of the result, with other commands possible in between.        *)
(*                                                                         *)
(* A window of observation may open at any moment (OpenWindow): "spent"    *)
(* counts the tokens taken since then.  "spent", "winStart" and "raced"    *)
(* are history variables: no action of the code reads them.                *)
(***************************************************************************)
EXTENDS Integers

CONSTANTS
    MaxVotes,     \* maxVotes: capacity of the bucket (24)
    RefillRate,   \* refillRatePerSec: seconds per refilled token (3600)
    BucketTtl,    \* EXPIRE of the bucket key (172800 s)
    MaxDelay,     \* how old a request's time may be when Redis serves it
    Voters,       \* concurrent AddVote requests of the user
    Pollers,      \* concurrent GetRemainingVotes requests of the user
    MaxClock      \* bound: the clock stops here

ASSUME BudgetAssumption ==
    /\ MaxVotes \in Nat \ {0}
    /\ RefillRate \in Nat \ {0}
    /\ BucketTtl \in Nat
    /\ MaxDelay \in Nat
    /\ MaxClock \in Nat
    /\ MaxVotes * RefillRate + MaxDelay <= BucketTtl

VARIABLES
    clock,        \* seconds, of the servers and of Redis
    bucket,       \* the Redis hash: remaining, last_refill and its expiry
    req,          \* AddVote requests between time.Now() and the script
    poll,         \* GetRemainingVotes requests and what they read
    winStart,     \* when the window of observation opened
    spent,        \* tokens taken by votes since then
    raced         \* since then, a write back hit a bucket changed under it

budgetVars == <<clock, bucket, req, poll, winStart, spent, raced>>

NoBucket == [live |-> FALSE, remaining |-> 0, lastRefill |-> 0, expireAt |-> 0]
NoReq    == [sent |-> FALSE, now |-> 0]
NoPoll   == [pc |-> "idle", remaining |-> 0, lastRefill |-> 0, now |-> 0, start |-> 0]

BudgetTypeOK ==
    /\ clock \in Nat
    /\ bucket \in [live: BOOLEAN, remaining: 0 .. MaxVotes,
                   lastRefill: Nat, expireAt: Nat]
    /\ req \in [Voters -> [sent: BOOLEAN, now: Nat]]
    /\ poll \in [Pollers -> [pc: {"idle", "read", "write"}, remaining: 0 .. MaxVotes,
                             lastRefill: Nat, now: Nat, start: Nat]]
    /\ winStart \in Nat
    /\ spent \in Nat
    /\ raced \in BOOLEAN

-----------------------------------------------------------------------------
(* Refill arithmetic.                                                      *)

Smaller(a, b) == IF a <= b THEN a ELSE b

\* Lua: math.floor(elapsed / rate_secs); negative for a time read too early.
TokensToAdd(last, now) == (now - last) \div RefillRate

\* Slips of the script and of the write back, to test the properties with:
\* no test of tokens_to_add, last_refill left alone, a write back without the
\* cap, an EXPIRE that is set once and never renewed.
ScriptRefillUnguarded(remaining, last, now) ==
    LET add == TokensToAdd(last, now)
    IN  [remaining  |-> Smaller(MaxVotes, remaining + add),
         lastRefill |-> last + add * RefillRate]
ScriptRefillUncredited(remaining, last, now) ==
    LET add == TokensToAdd(last, now)
    IN  [remaining  |-> IF add > 0 THEN Smaller(MaxVotes, remaining + add) ELSE remaining,
         lastRefill |-> last]
PollRefillUncapped(remaining, last, now) ==
    LET add == TokensToAdd(last, now)
    IN  IF now - last > 0 /\ add > 0
        THEN [remaining |-> remaining + add, lastRefill |-> last + add * RefillRate]
        ELSE [remaining |-> remaining, lastRefill |-> last]
StoredNotRenewed(remaining, lastRefill) ==
    [live |-> TRUE, remaining |-> remaining, lastRefill |-> lastRefill,
     expireAt |-> IF bucket.live THEN bucket.expireAt ELSE clock + BucketTtl]

\* The refill of the Lua script.
ScriptRefill(remaining, last, now) ==
    LET add == TokensToAdd(last, now)
    IN  IF add > 0
        THEN [remaining  |-> Smaller(MaxVotes, remaining + add),
              lastRefill |-> last + add * RefillRate]
        ELSE [remaining |-> remaining, lastRefill |-> last]

\* The refill of GetRemainingVotes: the same rule written a second time, in Go.
PollRefill(remaining, last, now) ==
    LET add == TokensToAdd(last, now)
        sum == remaining + add
    IN  IF now - last > 0 /\ add > 0
        THEN [remaining  |-> IF sum > MaxVotes THEN MaxVotes ELSE sum,
              lastRefill |-> last + add * RefillRate]
        ELSE [remaining |-> remaining, lastRefill |-> last]

-----------------------------------------------------------------------------
BudgetInit ==
    /\ clock = 0
    /\ bucket = NoBucket
    /\ req = [v \in Voters |-> NoReq]
    /\ poll = [p \in Pollers |-> NoPoll]
    /\ winStart = 0
    /\ spent = 0
    /\ raced = FALSE

\* One second passes; Redis drops the hash when its time to live is over.
\* A request that reaches its deadline must have ended (Drop, PollFail) first.
Tick ==
    /\ clock < MaxClock
    /\ \A v \in Voters : req[v].sent => req[v].now + MaxDelay > clock
    /\ \A p \in Pollers : poll[p].pc # "idle" => poll[p].start + MaxDelay > clock
    /\ clock' = clock + 1
    /\ bucket' = IF bucket.live /\ bucket.expireAt <= clock' THEN NoBucket ELSE bucket
    /\ UNCHANGED <<req, poll, winStart, spent, raced>>

\* AddVote has parsed its arguments and reads the time it will send.
Send(v) ==
    /\ ~req[v].sent
    /\ req' = [req EXCEPT ![v] = [sent |-> TRUE, now |-> clock]]
    /\ UNCHANGED <<clock, bucket, poll, winStart, spent, raced>>

\* What the script finds: the hash, or a full bucket as of the caller's time.
Found(now) ==
    IF bucket.live
    THEN ScriptRefill(bucket.remaining, bucket.lastRefill, now)
    ELSE ScriptRefill(MaxVotes, now, now)

Stored(remaining, lastRefill) ==
    [live |-> TRUE, remaining |-> remaining, lastRefill |-> lastRefill,
     expireAt |-> clock + BucketTtl]

\* The script takes the n tokens of the request: it returns 1.
ScriptAllows(v, n) ==
    LET f == Found(req[v].now)
    IN  /\ req[v].sent
        /\ f.remaining >= n
        /\ bucket' = Stored(f.remaining - n, f.lastRefill)
        /\ spent' = spent + n
        /\ req' = [req EXCEPT ![v] = NoReq]
        /\ UNCHANGED <<clock, poll, winStart, raced>>

\* The script refuses for lack of tokens, and still stores the refill.
ScriptRefuses(v, n) ==
    LET f == Found(req[v].now)
    IN  /\ req[v].sent
        /\ f.remaining < n
        /\ bucket' = Stored(f.remaining, f.lastRefill)
        /\ req' = [req EXCEPT ![v] = NoReq]
        /\ UNCHANGED <<clock, poll, winStart, spent, raced>>

\* The request ends without touching the bucket: a count beyond the capacity
\* (the script returns 0 at once), or an error or deadline before the script ran.
Drop(v) ==
    /\ req[v].sent
    /\ req' = [req EXCEPT ![v] = NoReq]
    /\ UNCHANGED <<clock, bucket, poll, winStart, spent, raced>>

\* GetRemainingVotes: HGETALL finds the hash.  (It finds nothing for a user
\* who never voted: the answer is maxVotes and nothing is written.)
PollRead(p) ==
    /\ poll[p].pc = "idle"
    /\ bucket.live
    /\ poll' = [poll EXCEPT ![p] = [pc |-> "read", remaining |-> bucket.remaining,
                                    lastRefill |-> bucket.lastRefill,
                                    now |-> 0, start |-> clock]]
    /\ UNCHANGED <<clock, bucket, req, winStart, spent, raced>>

\* It computes the refill; without one it answers, with one it will write back.
PollCompute(p) ==
    /\ poll[p].pc = "read"
    /\ IF TokensToAdd(poll[p].lastRefill, clock) > 0
       THEN poll' = [poll EXCEPT ![p].pc = "write", ![p].now = clock]
       ELSE poll' = [poll EXCEPT ![p] = NoPoll]
    /\ UNCHANGED <<clock, bucket, req, winStart, spent, raced>>

\* The bucket still holds what the poller read.
Undisturbed(p) ==
    /\ bucket.live
    /\ bucket.remaining = poll[p].remaining
    /\ bucket.lastRefill = poll[p].lastRefill

\* HSET and EXPIRE of the value computed from the earlier read.
PollWrite(p) ==
    LET f == PollRefill(poll[p].remaining, poll[p].lastRefill, poll[p].now)
    IN  /\ poll[p].pc = "write"
        /\ bucket' = Stored(f.remaining, f.lastRefill)
        /\ raced' = (raced \/ ~Undisturbed(p))
        /\ poll' = [poll EXCEPT ![p] = NoPoll]
        /\ UNCHANGED <<clock, req, winStart, spent>>

\* The read or the write back fails; the error of the write is ignored.
PollFail(p) ==
    /\ poll[p].pc # "idle"
    /\ poll' = [poll EXCEPT ![p] = NoPoll]
    /\ UNCHANGED <<clock, bucket, req, winStart, spent, raced>>

\* The observer starts a new window.
OpenWindow ==
    /\ winStart' = clock
    /\ spent' = 0
    /\ raced' = FALSE
    /\ UNCHANGED <<clock, bucket, req, poll>>

Vote(v) ==
    \/ Send(v)
    \/ \E n \in 1 .. MaxVotes : ScriptAllows(v, n) \/ ScriptRefuses(v, n)
    \/ Drop(v)
Balance(p) == PollRead(p) \/ PollCompute(p) \/ PollWrite(p) \/ PollFail(p)

BudgetNext ==
    \/ Tick
    \/ OpenWindow
    \/ \E v \in Voters : Vote(v)
    \/ \E p \in Pollers : Balance(p)

BudgetSpec == BudgetInit /\ [][BudgetNext]_budgetVars

-----------------------------------------------------------------------------
(* Properties.                                                             *)

\* "Regenerates 1 vote per hour" of a balance of maxVotes: however the
\* requests interleave, however late Redis serves them and whenever the key
\* expires, the tokens a user spends within ANY window are at most a full
\* bucket, one per RefillRate of the window (its start up to MaxDelay earlier),
\* and the one refill already due when it opened.
WindowBudget ==
    (spent - MaxVotes) * RefillRate <= (clock - winStart) + MaxDelay + RefillRate

\* Nothing but a write back of GetRemainingVotes over a bucket that changed
\* since it was read can make a user exceed that budget.
BudgetUnlessRaced == raced \/ WindowBudget

\* While the hash lives, the time up to which refills were credited never
\* moves back, stale request times included; only a raced write back moves it.
RefillNeverRewinds ==
    [][ (bucket.live /\ bucket'.live /\ ~raced')
            => bucket'.lastRefill >= bucket.lastRefill ]_budgetVars

\* The two refill rules agree: the balance GetRemainingVotes is about to answer
\* is what the script would let the user spend at that moment.
BalanceIsSpendable ==
    \A p \in Pollers :
        poll[p].pc = "read" /\ Undisturbed(p)
            => PollRefill(poll[p].remaining, poll[p].lastRefill, clock).remaining
                 = Found(clock).remaining

\* Refills are never credited ahead of the clock, and every live hash was
\* written after them: its expiry lies a full BucketTtl beyond.
RefillBehindClock ==
    /\ bucket.live => bucket.lastRefill <= clock /\ clock < bucket.expireAt
                      /\ bucket.lastRefill + BucketTtl <= bucket.expireAt
    /\ \A v \in Voters : req[v].sent => req[v].now <= clock /\ clock <= req[v].now + MaxDelay
    /\ \A p \in Pollers : poll[p].pc # "idle" =>
            poll[p].lastRefill <= clock /\ poll[p].now <= clock

\* The strengthening that makes the budget inductive.
Backed ==
    (~raced /\ spent > 0) =>
        IF bucket.live
        THEN (spent + bucket.remaining - MaxVotes) * RefillRate
                <= bucket.lastRefill - winStart + MaxDelay + RefillRate
        ELSE spent * RefillRate <= clock - winStart + RefillRate

BudgetInv == BudgetTypeOK /\ winStart <= clock /\ RefillBehindClock /\ Backed
=============================================================================
