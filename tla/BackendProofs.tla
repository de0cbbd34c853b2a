--------------------------- MODULE BackendProofs ----------------------------
(***************************************************************************)
(* What holds of the parts of the backend that work on their own: the vote *)
(* balance, the id generator and the username filter, for every value of   *)
(* their constants that their assumptions allow.                           *)
(*                                                                         *)
(* Nothing relates the three: their variables, constants and definitions   *)
(* have names of their own, so that each part below is about one module.   *)
(***************************************************************************)
EXTENDS VoteBudget, Snowflake, UsernameFilter, TLAPS

-----------------------------------------------------------------------------
(***************************************************************************)
(* For every capacity, rate, time to live and delay allowed by             *)
(* BudgetAssumption, any set of requests and any bound on the clock:       *)
(* VoteBudget keeps its type, and no user exceeds the budget of a window   *)
(* unless a write back of GetRemainingVotes raced with a vote.             *)
(*                                                                         *)
(* The argument: Backed bounds what the window has spent TOGETHER with     *)
(* what is left in the bucket by the time up to which refills are          *)
(* credited.  A refill moves both sides by the same amount; the cap and    *)
(* a vote only help.  When the key expires, the full bucket it is replaced *)
(* by is paid for by the time to live (the last conjunct of                *)
(* BudgetAssumption), which is why RefillBehindClock is needed.            *)
(***************************************************************************)

-----------------------------------------------------------------------------
(* Arithmetic of the refill.                                               *)

\* Division by the rate rounds down, for negative elapsed times too.
LEMMA TokensBounds ==
    ASSUME NEW since \in Int, NEW now \in Int
    PROVE  /\ TokensToAdd(since, now) \in Int
           /\ TokensToAdd(since, now) * RefillRate <= now - since
           /\ now - since < TokensToAdd(since, now) * RefillRate + RefillRate
BY BudgetAssumption, SMTT(30) DEF TokensToAdd

LEMMA RateDistributes ==
    ASSUME NEW x \in Int, NEW y \in Int
    PROVE  (x + y) * RefillRate = x * RefillRate + y * RefillRate
BY BudgetAssumption

LEMMA RateMonotone ==
    ASSUME NEW x \in Int, NEW y \in Int, x <= y
    PROVE  x * RefillRate <= y * RefillRate
BY BudgetAssumption

\* What a refill by the script does to a bucket: it stays within its
\* capacity, it never takes tokens, the refill time moves by exactly the
\* tokens added, never past a time that was not past already, and ends less
\* than one rate behind the time it was given.
LEMMA RefillFacts ==
    ASSUME NEW rem \in 0 .. MaxVotes, NEW since \in Nat, NEW now \in Nat
    PROVE  LET f == ScriptRefill(rem, since, now)
           IN  /\ f.remaining \in 0 .. MaxVotes
               /\ f.lastRefill \in Nat
               /\ f.lastRefill >= since
               /\ f.lastRefill <= now \/ f.lastRefill = since
               /\ now - f.lastRefill < RefillRate
               /\ (f.remaining - rem) * RefillRate <= f.lastRefill - since
<1> DEFINE add == TokensToAdd(since, now)
<1>1. /\ add \in Int
      /\ add * RefillRate <= now - since
      /\ now - since < add * RefillRate + RefillRate
  <2>1. since \in Int /\ now \in Int
    OBVIOUS
  <2> QED
    BY <2>1, TokensBounds
<1>2. CASE add > 0
  <2> DEFINE r == Smaller(MaxVotes, rem + add)
  <2>1. ScriptRefill(rem, since, now)
          = [remaining |-> r, lastRefill |-> since + add * RefillRate]
    BY <1>2 DEF ScriptRefill
  <2>2. r \in 0 .. MaxVotes /\ r - rem \in Int /\ r - rem <= add
    BY <1>1, <1>2, BudgetAssumption DEF Smaller
  <2>3. add * RefillRate \in Nat
    BY <1>1, <1>2, BudgetAssumption
  <2>4. (r - rem) * RefillRate <= add * RefillRate
    BY <1>1, <2>2, RateMonotone
  <2> HIDE DEF r, add
  <2> QED
    BY <1>1, <2>1, <2>2, <2>3, <2>4, BudgetAssumption
<1>3. CASE ~(add > 0)
  <2>1. ScriptRefill(rem, since, now) = [remaining |-> rem, lastRefill |-> since]
    BY <1>3 DEF ScriptRefill
  <2>2. add * RefillRate <= 0 * RefillRate
    BY <1>1, <1>3, RateMonotone
  <2>3. (rem - rem) * RefillRate = 0
    BY BudgetAssumption
  <2> HIDE DEF add
  <2> QED
    BY <1>1, <2>1, <2>2, <2>3, BudgetAssumption
<1> QED
  BY <1>2, <1>3

\* The refill of GetRemainingVotes is the refill of the script.
LEMMA RefillsAgree ==
    ASSUME NEW rem \in 0 .. MaxVotes, NEW since \in Nat, NEW now \in Nat
    PROVE  PollRefill(rem, since, now) = ScriptRefill(rem, since, now)
<1> DEFINE add == TokensToAdd(since, now)
<1>1. /\ add \in Int
      /\ add * RefillRate <= now - since
      /\ now - since < add * RefillRate + RefillRate
  <2>1. since \in Int /\ now \in Int
    OBVIOUS
  <2> QED
    BY <2>1, TokensBounds
<1>2. CASE add > 0
  <2>1. 1 * RefillRate <= add * RefillRate
    BY <1>1, <1>2, RateMonotone
  <2>2. now - since > 0
    BY <1>1, <2>1, BudgetAssumption
  <2>3. (IF rem + add > MaxVotes THEN MaxVotes ELSE rem + add)
          = Smaller(MaxVotes, rem + add)
    BY <1>1, BudgetAssumption DEF Smaller
  <2> QED
    BY <1>2, <2>2, <2>3 DEF PollRefill, ScriptRefill
<1>3. CASE ~(add > 0)
  BY <1>3 DEF PollRefill, ScriptRefill
<1> QED
  BY <1>2, <1>3

-----------------------------------------------------------------------------
(* What the script works with, in a state that satisfies the invariant.    *)

\* In the words of RefillFacts, for the hash or for the full bucket that
\* replaces it; with "now" at most MaxDelay old, the refill time it stores
\* cannot lie a rate and a delay before the window.
LEMMA FoundFacts ==
    ASSUME BudgetTypeOK, RefillBehindClock, NEW now \in Nat, now <= clock
    PROVE  /\ Found(now).remaining \in 0 .. MaxVotes
           /\ Found(now).lastRefill \in Nat
           /\ Found(now).lastRefill <= clock
           /\ now - Found(now).lastRefill < RefillRate
           /\ bucket.live =>
                 /\ Found(now).lastRefill >= bucket.lastRefill
                 /\ (Found(now).remaining - bucket.remaining) * RefillRate
                        <= Found(now).lastRefill - bucket.lastRefill
           /\ ~bucket.live => Found(now).lastRefill >= now
<1>1. CASE bucket.live
  <2>1. /\ bucket.remaining \in 0 .. MaxVotes
        /\ bucket.lastRefill \in Nat
        /\ bucket.lastRefill <= clock
        /\ clock \in Nat
    BY <1>1 DEF BudgetTypeOK, RefillBehindClock
  <2>2. Found(now) = ScriptRefill(bucket.remaining, bucket.lastRefill, now)
    BY <1>1 DEF Found
  <2> DEFINE f == ScriptRefill(bucket.remaining, bucket.lastRefill, now)
  <2>3. /\ f.remaining \in 0 .. MaxVotes
        /\ f.lastRefill \in Nat
        /\ f.lastRefill >= bucket.lastRefill
        /\ f.lastRefill <= now \/ f.lastRefill = bucket.lastRefill
        /\ now - f.lastRefill < RefillRate
        /\ (f.remaining - bucket.remaining) * RefillRate
              <= f.lastRefill - bucket.lastRefill
    BY <2>1, RefillFacts
  <2> HIDE DEF f
  <2>4. Found(now) = f
    BY <2>2 DEF f
  <2> QED
    BY <1>1, <2>1, <2>3, <2>4
<1>2. CASE ~bucket.live
  <2>1. Found(now) = ScriptRefill(MaxVotes, now, now)
    BY <1>2 DEF Found
  <2> DEFINE f == ScriptRefill(MaxVotes, now, now)
  <2>2. MaxVotes \in 0 .. MaxVotes
    BY BudgetAssumption
  <2>3. /\ f.remaining \in 0 .. MaxVotes
        /\ f.lastRefill \in Nat
        /\ f.lastRefill >= now
        /\ f.lastRefill <= now \/ f.lastRefill = now
        /\ now - f.lastRefill < RefillRate
    BY <2>2, RefillFacts
  <2>4. clock \in Nat
    BY DEF BudgetTypeOK
  <2> HIDE DEF f
  <2>5. Found(now) = f
    BY <2>1 DEF f
  <2> QED
    BY <1>2, <2>3, <2>4, <2>5
<1> QED
  BY <1>1, <1>2

-----------------------------------------------------------------------------
(* Type correctness and the refill clock.                                  *)

TypeInv == BudgetTypeOK /\ winStart <= clock /\ RefillBehindClock

LEMMA EmptyTypes ==
    /\ NoBucket \in [live: BOOLEAN, remaining: 0 .. MaxVotes,
                     lastRefill: Nat, expireAt: Nat]
    /\ NoPoll \in [pc: {"idle", "read", "write"}, remaining: 0 .. MaxVotes,
                   lastRefill: Nat, now: Nat, start: Nat]
    /\ NoReq \in [sent: BOOLEAN, now: Nat]
<1>1. 0 \in 0 .. MaxVotes
  BY BudgetAssumption
<1> QED
  BY <1>1 DEF NoBucket, NoPoll, NoReq

LEMMA InitTypeInv == BudgetInit => TypeInv
<1> SUFFICES ASSUME BudgetInit PROVE TypeInv
  OBVIOUS
<1>1. BudgetTypeOK
  BY EmptyTypes DEF BudgetInit, BudgetTypeOK
<1>2. RefillBehindClock
  BY DEF BudgetInit, RefillBehindClock, NoBucket, NoReq, NoPoll
<1> QED
  BY <1>1, <1>2 DEF BudgetInit, TypeInv

LEMMA StoredFacts ==
    ASSUME TypeInv, NEW r \in 0 .. MaxVotes, NEW l \in Nat, l <= clock
    PROVE  /\ Stored(r, l) \in [live: BOOLEAN, remaining: 0 .. MaxVotes,
                                lastRefill: Nat, expireAt: Nat]
           /\ Stored(r, l).live
           /\ Stored(r, l).remaining = r
           /\ Stored(r, l).lastRefill = l
           /\ clock < Stored(r, l).expireAt
           /\ l + BucketTtl <= Stored(r, l).expireAt
<1>1. clock \in Nat
  BY DEF TypeInv, BudgetTypeOK
<1>2. 0 < MaxVotes * RefillRate
  BY BudgetAssumption
<1>3. 0 < BucketTtl
  BY <1>2, BudgetAssumption
<1> QED
  BY <1>1, <1>3, BudgetAssumption DEF Stored

LEMMA TypeInvStep == TypeInv /\ [BudgetNext]_budgetVars => TypeInv'
<1> SUFFICES ASSUME TypeInv, [BudgetNext]_budgetVars PROVE TypeInv'
  OBVIOUS
<1> USE DEF TypeInv
<1>1. CASE Tick
  <2>1. bucket' = NoBucket \/ (bucket' = bucket /\ (bucket.live => clock' < bucket.expireAt))
    BY <1>1 DEF Tick, BudgetTypeOK
  <2>2. /\ clock \in Nat /\ clock' = clock + 1 /\ MaxDelay \in Nat
        /\ UNCHANGED <<req, poll, winStart, spent, raced>>
    BY <1>1, BudgetAssumption DEF Tick, BudgetTypeOK
  <2>3. BudgetTypeOK'
    BY <2>1, <2>2, EmptyTypes DEF BudgetTypeOK
  <2>4. (bucket.live => bucket.lastRefill <= clock /\ clock < bucket.expireAt
                        /\ bucket.lastRefill + BucketTtl <= bucket.expireAt)'
    BY <2>1, <2>2 DEF BudgetTypeOK, RefillBehindClock, NoBucket
  <2>5. ASSUME NEW v \in Voters, req[v].sent
        PROVE  req[v].now <= clock + 1 /\ clock + 1 <= req[v].now + MaxDelay
    <3>1. req[v].now + MaxDelay > clock
      BY <1>1, <2>5 DEF Tick
    <3>2. req[v].now \in Nat /\ req[v].now <= clock
      BY <2>5 DEF BudgetTypeOK, RefillBehindClock
    <3> QED
      BY <2>2, <3>1, <3>2
  <2>6. ASSUME NEW p \in Pollers, poll[p].pc # "idle"
        PROVE  poll[p].lastRefill <= clock + 1 /\ poll[p].now <= clock + 1
    BY <2>2, <2>6 DEF BudgetTypeOK, RefillBehindClock
  <2>7. RefillBehindClock'
    BY <2>2, <2>4, <2>5, <2>6 DEF RefillBehindClock
  <2> QED
    BY <2>2, <2>3, <2>7 DEF BudgetTypeOK
<1>2. CASE OpenWindow
  <2>1. /\ clock' = clock /\ bucket' = bucket /\ req' = req /\ poll' = poll
        /\ winStart' = clock /\ spent' = 0 /\ raced' = FALSE
    BY <1>2 DEF OpenWindow
  <2>2. BudgetTypeOK'
    BY <2>1 DEF BudgetTypeOK
  <2>3. RefillBehindClock'
    BY <2>1 DEF RefillBehindClock
  <2> QED
    BY <2>1, <2>2, <2>3 DEF BudgetTypeOK
<1>3. ASSUME NEW v \in Voters, Send(v) PROVE TypeInv'
  BY <1>3, BudgetAssumption DEF Send, BudgetTypeOK, RefillBehindClock
<1>4. ASSUME NEW v \in Voters, NEW n \in 1 .. MaxVotes, ScriptAllows(v, n)
      PROVE  TypeInv'
  <2>1. req[v].sent /\ req[v].now \in Nat /\ req[v].now <= clock
    BY <1>4 DEF ScriptAllows, BudgetTypeOK, RefillBehindClock
  <2> DEFINE f == Found(req[v].now)
  <2>2. f.remaining \in 0 .. MaxVotes /\ f.lastRefill \in Nat /\ f.lastRefill <= clock
    BY <2>1, FoundFacts
  <2>3. f.remaining - n \in 0 .. MaxVotes /\ spent + n \in Nat
    BY <1>4, <2>2, BudgetAssumption DEF ScriptAllows, BudgetTypeOK
  <2>4. bucket' = Stored(f.remaining - n, f.lastRefill)
    BY <1>4 DEF ScriptAllows
  <2>5. /\ bucket' \in [live: BOOLEAN, remaining: 0 .. MaxVotes,
                         lastRefill: Nat, expireAt: Nat]
        /\ bucket'.live /\ bucket'.lastRefill = f.lastRefill
        /\ clock < bucket'.expireAt
        /\ f.lastRefill + BucketTtl <= bucket'.expireAt
    BY <2>2, <2>3, <2>4, StoredFacts
  <2> HIDE DEF f
  <2> QED
    BY <1>4, <2>2, <2>3, <2>5
    DEF ScriptAllows, BudgetTypeOK, RefillBehindClock, NoReq
<1>5. ASSUME NEW v \in Voters, NEW n \in 1 .. MaxVotes, ScriptRefuses(v, n)
      PROVE  TypeInv'
  <2>1. req[v].sent /\ req[v].now \in Nat /\ req[v].now <= clock
    BY <1>5 DEF ScriptRefuses, BudgetTypeOK, RefillBehindClock
  <2> DEFINE f == Found(req[v].now)
  <2>2. f.remaining \in 0 .. MaxVotes /\ f.lastRefill \in Nat /\ f.lastRefill <= clock
    BY <2>1, FoundFacts
  <2>3. bucket' = Stored(f.remaining, f.lastRefill)
    BY <1>5 DEF ScriptRefuses
  <2>4. /\ bucket' \in [live: BOOLEAN, remaining: 0 .. MaxVotes,
                         lastRefill: Nat, expireAt: Nat]
        /\ bucket'.live /\ bucket'.lastRefill = f.lastRefill
        /\ clock < bucket'.expireAt
        /\ f.lastRefill + BucketTtl <= bucket'.expireAt
    BY <2>2, <2>3, StoredFacts
  <2> HIDE DEF f
  <2> QED
    BY <1>5, <2>2, <2>4
    DEF ScriptRefuses, BudgetTypeOK, RefillBehindClock, NoReq
<1>6. ASSUME NEW v \in Voters, Drop(v) PROVE TypeInv'
  BY <1>6 DEF Drop, BudgetTypeOK, RefillBehindClock, NoReq
<1>7. ASSUME NEW p \in Pollers, PollRead(p) PROVE TypeInv'
  BY <1>7 DEF PollRead, BudgetTypeOK, RefillBehindClock
<1>8. ASSUME NEW p \in Pollers, PollCompute(p) PROVE TypeInv'
  <2>1. CASE TokensToAdd(poll[p].lastRefill, clock) > 0
    BY <1>8, <2>1 DEF PollCompute, BudgetTypeOK, RefillBehindClock
  <2>2. CASE ~(TokensToAdd(poll[p].lastRefill, clock) > 0)
    BY <1>8, <2>2, BudgetAssumption DEF PollCompute, BudgetTypeOK, RefillBehindClock, NoPoll
  <2> QED
    BY <2>1, <2>2
<1>9. ASSUME NEW p \in Pollers, PollWrite(p) PROVE TypeInv'
  <2>1. /\ poll[p].remaining \in 0 .. MaxVotes
        /\ poll[p].lastRefill \in Nat /\ poll[p].lastRefill <= clock
        /\ poll[p].now \in Nat /\ poll[p].now <= clock /\ clock \in Nat
    BY <1>9 DEF PollWrite, BudgetTypeOK, RefillBehindClock
  <2> DEFINE f == PollRefill(poll[p].remaining, poll[p].lastRefill, poll[p].now)
  <2>2. f = ScriptRefill(poll[p].remaining, poll[p].lastRefill, poll[p].now)
    BY <2>1, RefillsAgree
  <2>3. f.remaining \in 0 .. MaxVotes /\ f.lastRefill \in Nat
        /\ (f.lastRefill <= poll[p].now \/ f.lastRefill = poll[p].lastRefill)
    BY <2>1, <2>2, RefillFacts
  <2>4. bucket' = Stored(f.remaining, f.lastRefill)
    BY <1>9 DEF PollWrite
  <2> HIDE DEF f
  <2>5. f.lastRefill <= clock
    BY <2>1, <2>3
  <2>6. /\ bucket' \in [live: BOOLEAN, remaining: 0 .. MaxVotes,
                         lastRefill: Nat, expireAt: Nat]
        /\ bucket'.live /\ bucket'.lastRefill = f.lastRefill
        /\ clock < bucket'.expireAt
        /\ f.lastRefill + BucketTtl <= bucket'.expireAt
    BY <2>3, <2>4, <2>5, StoredFacts
  <2>7. poll' = [poll EXCEPT ![p] = NoPoll] /\ raced' \in BOOLEAN
        /\ UNCHANGED <<clock, req, winStart, spent>>
    BY <1>9 DEF PollWrite
  <2> QED
    BY <2>5, <2>6, <2>7, BudgetAssumption DEF BudgetTypeOK, RefillBehindClock, NoPoll
<1>10. ASSUME NEW p \in Pollers, PollFail(p) PROVE TypeInv'
  BY <1>10, BudgetAssumption DEF PollFail, BudgetTypeOK, RefillBehindClock, NoPoll
<1>11. CASE UNCHANGED budgetVars
  BY <1>11 DEF budgetVars, BudgetTypeOK, RefillBehindClock
<1> QED
  BY <1>1, <1>2, <1>3, <1>4, <1>5, <1>6, <1>7, <1>8, <1>9, <1>10, <1>11
  DEF BudgetNext, Vote, Balance

\* Type correctness of every reachable state, and with it that refills are
\* never credited ahead of the clock.
THEOREM TypeCorrect == BudgetSpec => []TypeInv
BY InitTypeInv, TypeInvStep, PTL DEF BudgetSpec

-----------------------------------------------------------------------------
(* The budget.                                                             *)

\* The bound on a live bucket, as the script and the write back re-establish
\* it: r tokens are left and refills are credited up to l, after the window
\* has taken s tokens.
Covered(s, r, l) ==
    (s + r - MaxVotes) * RefillRate <= l - winStart + MaxDelay + RefillRate

\* A served request leaves what the window has spent covered, whatever it took.
LEMMA ScriptCovers ==
    ASSUME BudgetInv, NEW v \in Voters, req[v].sent, ~raced,
           NEW n \in 0 .. MaxVotes, n <= Found(req[v].now).remaining,
           n > 0 \/ spent > 0
    PROVE  Covered(spent + n, Found(req[v].now).remaining - n, Found(req[v].now).lastRefill)
<1> DEFINE now == req[v].now
           f   == Found(now)
<1>1. /\ now \in Nat /\ now <= clock /\ clock <= now + MaxDelay
      /\ clock \in Nat /\ winStart \in Nat /\ winStart <= clock /\ spent \in Nat
      /\ MaxVotes \in Nat /\ MaxDelay \in Nat /\ RefillRate \in Nat
  BY BudgetAssumption DEF BudgetInv, BudgetTypeOK, RefillBehindClock
<1>2. /\ f.remaining \in 0 .. MaxVotes
      /\ f.lastRefill \in Nat
      /\ now - f.lastRefill < RefillRate
      /\ bucket.live =>
            /\ f.lastRefill >= bucket.lastRefill
            /\ (f.remaining - bucket.remaining) * RefillRate
                   <= f.lastRefill - bucket.lastRefill
      /\ ~bucket.live => f.lastRefill >= now
  BY <1>1, FoundFacts DEF BudgetInv
<1>3. Covered(spent + n, f.remaining - n, f.lastRefill)
        <=> ((spent + n) + (f.remaining - n) - MaxVotes) * RefillRate
               <= f.lastRefill - winStart + MaxDelay + RefillRate
  BY DEF Covered
<1> SUFFICES Covered(spent + n, f.remaining - n, f.lastRefill)
  OBVIOUS
<1> HIDE DEF f, now
<1>4. (spent + n) + (f.remaining - n) - MaxVotes = spent + f.remaining - MaxVotes
  BY <1>1, <1>2
<1> SUFFICES (spent + f.remaining - MaxVotes) * RefillRate
                <= f.lastRefill - winStart + MaxDelay + RefillRate
  BY <1>3, <1>4
<1>5. CASE spent = 0
  <2>1. (spent + f.remaining - MaxVotes) * RefillRate <= 0 * RefillRate
    BY <1>1, <1>2, <1>5, RateMonotone
  <2> QED
    BY <1>1, <1>2, <2>1
<1>6. CASE spent > 0 /\ bucket.live
  <2>1. bucket.remaining \in Nat /\ bucket.lastRefill \in Nat
    BY BudgetAssumption DEF BudgetInv, BudgetTypeOK
  <2>2. (spent + bucket.remaining - MaxVotes) * RefillRate
           <= bucket.lastRefill - winStart + MaxDelay + RefillRate
    BY <1>6 DEF BudgetInv, Backed
  <2>3. (spent + f.remaining - MaxVotes) * RefillRate
          = (spent + bucket.remaining - MaxVotes) * RefillRate
              + (f.remaining - bucket.remaining) * RefillRate
    <3>1. /\ spent + bucket.remaining - MaxVotes \in Int
          /\ f.remaining - bucket.remaining \in Int
          /\ (spent + bucket.remaining - MaxVotes) + (f.remaining - bucket.remaining)
                = spent + f.remaining - MaxVotes
      BY <1>1, <1>2, <2>1
    <3> QED
      BY <3>1, RateDistributes
  <2> DEFINE a == (spent + bucket.remaining - MaxVotes) * RefillRate
             b == (f.remaining - bucket.remaining) * RefillRate
  <2>4. a \in Int /\ b \in Int
    BY <1>1, <1>2, <2>1
  <2>5. b <= f.lastRefill - bucket.lastRefill
    BY <1>2, <1>6
  <2> HIDE DEF a, b
  <2>6. a <= bucket.lastRefill - winStart + MaxDelay + RefillRate
    BY <2>2 DEF a
  <2>7. (spent + f.remaining - MaxVotes) * RefillRate = a + b
    BY <2>3 DEF a, b
  <2> QED
    BY <1>1, <1>2, <2>1, <2>4, <2>5, <2>6, <2>7
<1>7. CASE spent > 0 /\ ~bucket.live
  <2>1. spent * RefillRate <= clock - winStart + RefillRate
    BY <1>7 DEF BudgetInv, Backed
  <2>2. (spent + f.remaining - MaxVotes) * RefillRate <= spent * RefillRate
    BY <1>1, <1>2, RateMonotone
  <2>3. f.lastRefill >= now
    BY <1>2, <1>7
  <2> QED
    BY <1>1, <1>2, <2>1, <2>2, <2>3
<1> QED
  BY <1>1, <1>5, <1>6, <1>7

LEMMA InitBudgetInv == BudgetInit => BudgetInv
BY InitTypeInv DEF TypeInv, BudgetInv, Backed, BudgetInit

LEMMA BackedStep == BudgetInv /\ [BudgetNext]_budgetVars => Backed'
<1> SUFFICES ASSUME BudgetInv, [BudgetNext]_budgetVars PROVE Backed'
  OBVIOUS
<1>0. /\ clock \in Nat /\ winStart \in Nat /\ winStart <= clock /\ spent \in Nat
      /\ MaxVotes \in Nat /\ MaxDelay \in Nat /\ RefillRate \in Nat /\ BucketTtl \in Nat
      /\ MaxVotes * RefillRate + MaxDelay <= BucketTtl
      /\ bucket.remaining \in 0 .. MaxVotes /\ bucket.lastRefill \in Nat
      /\ bucket.expireAt \in Nat
  BY BudgetAssumption DEF BudgetInv, BudgetTypeOK
<1>1. CASE Tick
  <2>1. /\ clock' = clock + 1
        /\ UNCHANGED <<req, poll, winStart, spent, raced>>
        /\ bucket' = IF bucket.live /\ bucket.expireAt <= clock' THEN NoBucket ELSE bucket
    BY <1>1 DEF Tick
  <2> SUFFICES ASSUME ~raced, spent > 0
               PROVE  /\ bucket'.live =>
                            (spent + bucket'.remaining - MaxVotes) * RefillRate
                              <= bucket'.lastRefill - winStart + MaxDelay + RefillRate
                      /\ ~bucket'.live =>
                            spent * RefillRate <= clock' - winStart + RefillRate
    <3>1. spent' = spent /\ raced' = raced /\ winStart' = winStart
      BY <2>1
    <3> QED
      BY <3>1 DEF Backed
  <2>2. CASE bucket.live /\ bucket.expireAt <= clock'
    <3>1. bucket' = NoBucket /\ ~bucket'.live
      BY <2>1, <2>2 DEF NoBucket
    <3>2. (spent + bucket.remaining - MaxVotes) * RefillRate
             <= bucket.lastRefill - winStart + MaxDelay + RefillRate
      BY <2>2 DEF BudgetInv, Backed
    <3>3. bucket.lastRefill + BucketTtl <= bucket.expireAt
      BY <2>2 DEF BudgetInv, RefillBehindClock
    <3>4. (spent - MaxVotes) * RefillRate
             <= (spent + bucket.remaining - MaxVotes) * RefillRate
      BY <1>0, RateMonotone
    <3>5. spent * RefillRate = (spent - MaxVotes) * RefillRate + MaxVotes * RefillRate
      <4>1. spent - MaxVotes \in Int /\ (spent - MaxVotes) + MaxVotes = spent
        BY <1>0
      <4> QED
        BY <1>0, <4>1, RateDistributes
    <3> DEFINE a == (spent - MaxVotes) * RefillRate
               m == MaxVotes * RefillRate
               b == (spent + bucket.remaining - MaxVotes) * RefillRate
    <3>6. a \in Int /\ m \in Int /\ b \in Int
      BY <1>0
    <3> HIDE DEF a, m, b
    <3>7. /\ b <= bucket.lastRefill - winStart + MaxDelay + RefillRate
          /\ a <= b
          /\ m + MaxDelay <= BucketTtl
          /\ spent * RefillRate = a + m
      BY <1>0, <3>2, <3>4, <3>5 DEF a, b, m
    <3>8. a + m <= clock + 1 - winStart + RefillRate
      BY <1>0, <2>1, <2>2, <3>3, <3>6, <3>7
    <3> QED
      BY <1>0, <2>1, <3>1, <3>7, <3>8
  <2>3. CASE ~(bucket.live /\ bucket.expireAt <= clock')
    <3>1. bucket' = bucket
      BY <2>1, <2>3
    <3>2. CASE bucket.live
      <4>1. (spent + bucket.remaining - MaxVotes) * RefillRate
               <= bucket.lastRefill - winStart + MaxDelay + RefillRate
        BY <3>2 DEF BudgetInv, Backed
      <4> QED
        BY <3>1, <3>2, <4>1
    <3>3. CASE ~bucket.live
      <4>1. spent * RefillRate <= clock - winStart + RefillRate
        BY <3>3 DEF BudgetInv, Backed
      <4>2. spent * RefillRate \in Int
        BY <1>0
      <4> QED
        BY <1>0, <2>1, <3>1, <3>3, <4>1, <4>2
    <3> QED
      BY <3>2, <3>3
  <2> QED
    BY <2>2, <2>3
<1>2. CASE OpenWindow
  BY <1>2 DEF OpenWindow, Backed
<1>3. ASSUME NEW v \in Voters, NEW n \in 1 .. MaxVotes, ScriptAllows(v, n)
      PROVE  Backed'
  <2> DEFINE f == Found(req[v].now)
  <2>1. /\ req[v].sent /\ f.remaining >= n
        /\ bucket' = Stored(f.remaining - n, f.lastRefill)
        /\ spent' = spent + n
        /\ UNCHANGED <<clock, poll, winStart, raced>>
    BY <1>3 DEF ScriptAllows
  <2>2. bucket'.live /\ bucket'.remaining = f.remaining - n
        /\ bucket'.lastRefill = f.lastRefill
    BY <2>1 DEF Stored
  <2>3. n \in 0 .. MaxVotes /\ n > 0 /\ n <= f.remaining
    <3>1. f.remaining \in Nat
      BY <2>1, FoundFacts DEF BudgetInv, BudgetTypeOK, RefillBehindClock
    <3> QED
      BY <1>0, <2>1, <3>1
  <2>4. ~raced => Covered(spent + n, f.remaining - n, f.lastRefill)
    BY <2>1, <2>3, ScriptCovers
  <2> HIDE DEF f
  <2> QED
    BY <2>1, <2>2, <2>4 DEF Backed, Covered
<1>4. ASSUME NEW v \in Voters, NEW n \in 1 .. MaxVotes, ScriptRefuses(v, n)
      PROVE  Backed'
  <2> DEFINE f == Found(req[v].now)
  <2>1. /\ req[v].sent
        /\ bucket' = Stored(f.remaining, f.lastRefill)
        /\ UNCHANGED <<clock, poll, winStart, spent, raced>>
    BY <1>4 DEF ScriptRefuses
  <2>2. bucket'.live /\ bucket'.remaining = f.remaining
        /\ bucket'.lastRefill = f.lastRefill
    BY <2>1 DEF Stored
  <2>3. f.remaining \in Nat
    BY <2>1, FoundFacts DEF BudgetInv, BudgetTypeOK, RefillBehindClock
  <2>4. ~raced /\ spent > 0 => Covered(spent + 0, f.remaining - 0, f.lastRefill)
    BY <1>0, <2>1, <2>3, ScriptCovers
  <2>5. spent + 0 = spent /\ f.remaining - 0 = f.remaining
    BY <1>0, <2>3
  <2> HIDE DEF f
  <2> QED
    BY <2>1, <2>2, <2>4, <2>5 DEF Backed, Covered
<1>5. ASSUME NEW p \in Pollers, PollWrite(p) PROVE Backed'
  <2> DEFINE f == PollRefill(poll[p].remaining, poll[p].lastRefill, poll[p].now)
  <2>1. /\ poll[p].pc = "write"
        /\ bucket' = Stored(f.remaining, f.lastRefill)
        /\ raced' = (raced \/ ~Undisturbed(p))
        /\ UNCHANGED <<clock, req, winStart, spent>>
    BY <1>5 DEF PollWrite
  <2> SUFFICES ASSUME ~raced, Undisturbed(p), spent > 0
               PROVE  Covered(spent, f.remaining, f.lastRefill)
    BY <2>1 DEF Backed, Covered, Stored
  <2>2. /\ bucket.live /\ poll[p].remaining = bucket.remaining
        /\ poll[p].lastRefill = bucket.lastRefill /\ poll[p].now \in Nat
    BY DEF Undisturbed, BudgetInv, BudgetTypeOK
  <2>3. f = ScriptRefill(bucket.remaining, bucket.lastRefill, poll[p].now)
    BY <1>0, <2>2, RefillsAgree
  <2> DEFINE g == ScriptRefill(bucket.remaining, bucket.lastRefill, poll[p].now)
  <2>4. /\ g.remaining \in 0 .. MaxVotes /\ g.lastRefill \in Nat
        /\ (g.remaining - bucket.remaining) * RefillRate
              <= g.lastRefill - bucket.lastRefill
    BY <1>0, <2>2, RefillFacts
  <2> HIDE DEF f, g
  <2>5. /\ f.remaining \in 0 .. MaxVotes /\ f.lastRefill \in Nat
        /\ (f.remaining - bucket.remaining) * RefillRate
              <= f.lastRefill - bucket.lastRefill
    BY <2>3, <2>4 DEF g
  <2>6. (spent + bucket.remaining - MaxVotes) * RefillRate
           <= bucket.lastRefill - winStart + MaxDelay + RefillRate
    BY <2>2 DEF BudgetInv, Backed
  <2>7. (spent + f.remaining - MaxVotes) * RefillRate
          = (spent + bucket.remaining - MaxVotes) * RefillRate
              + (f.remaining - bucket.remaining) * RefillRate
    <3>1. /\ spent + bucket.remaining - MaxVotes \in Int
          /\ f.remaining - bucket.remaining \in Int
          /\ (spent + bucket.remaining - MaxVotes) + (f.remaining - bucket.remaining)
                = spent + f.remaining - MaxVotes
      BY <1>0, <2>5
    <3> QED
      BY <3>1, RateDistributes
  <2> DEFINE a == (spent + bucket.remaining - MaxVotes) * RefillRate
             b == (f.remaining - bucket.remaining) * RefillRate
  <2>8. a \in Int /\ b \in Int
    BY <1>0, <2>5
  <2> HIDE DEF a, b
  <2>9. /\ a <= bucket.lastRefill - winStart + MaxDelay + RefillRate
        /\ b <= f.lastRefill - bucket.lastRefill
        /\ (spent + f.remaining - MaxVotes) * RefillRate = a + b
    BY <2>5, <2>6, <2>7 DEF a, b
  <2>10. a + b <= f.lastRefill - winStart + MaxDelay + RefillRate
    BY <1>0, <2>5, <2>8, <2>9
  <2> QED
    BY <2>9, <2>10 DEF Covered
<1>6. CASE UNCHANGED <<clock, bucket, winStart, spent, raced>>
  BY <1>6 DEF BudgetInv, Backed
<1>7. ASSUME NEW v \in Voters, Send(v) \/ Drop(v)
      PROVE  UNCHANGED <<clock, bucket, winStart, spent, raced>>
  BY <1>7 DEF Send, Drop
<1>8. ASSUME NEW p \in Pollers, PollRead(p) \/ PollCompute(p) \/ PollFail(p)
      PROVE  UNCHANGED <<clock, bucket, winStart, spent, raced>>
  BY <1>8 DEF PollRead, PollCompute, PollFail
<1> QED
  BY <1>1, <1>2, <1>3, <1>4, <1>5, <1>6, <1>7, <1>8 DEF BudgetNext, Vote, Balance, budgetVars

LEMMA BudgetInvStep == BudgetInv /\ [BudgetNext]_budgetVars => BudgetInv'
BY BackedStep, TypeInvStep DEF BudgetInv, TypeInv

\* The inductive invariant holds in every reachable state.
THEOREM BudgetInvariant == BudgetSpec => []BudgetInv
BY InitBudgetInv, BudgetInvStep, PTL DEF BudgetSpec

LEMMA BudgetInvImpliesBudget == BudgetInv => BudgetUnlessRaced
<1> SUFFICES ASSUME BudgetInv, ~raced PROVE WindowBudget
  BY DEF BudgetUnlessRaced
<1>0. /\ clock \in Nat /\ winStart \in Nat /\ winStart <= clock /\ spent \in Nat
      /\ MaxVotes \in Nat /\ MaxDelay \in Nat /\ RefillRate \in Nat
      /\ bucket.remaining \in Nat /\ bucket.lastRefill \in Nat
      /\ bucket.live => bucket.lastRefill <= clock
  BY BudgetAssumption DEF BudgetInv, BudgetTypeOK, RefillBehindClock
<1>1. CASE spent = 0
  <2>1. (spent - MaxVotes) * RefillRate <= 0 * RefillRate
    BY <1>0, <1>1, RateMonotone
  <2> QED
    BY <1>0, <2>1 DEF WindowBudget
<1>2. CASE spent > 0 /\ bucket.live
  <2>1. (spent + bucket.remaining - MaxVotes) * RefillRate
           <= bucket.lastRefill - winStart + MaxDelay + RefillRate
    BY <1>2 DEF BudgetInv, Backed
  <2>2. (spent - MaxVotes) * RefillRate <= (spent + bucket.remaining - MaxVotes) * RefillRate
    BY <1>0, RateMonotone
  <2> QED
    BY <1>0, <1>2, <2>1, <2>2 DEF WindowBudget
<1>3. CASE spent > 0 /\ ~bucket.live
  <2>1. spent * RefillRate <= clock - winStart + RefillRate
    BY <1>3 DEF BudgetInv, Backed
  <2>2. (spent - MaxVotes) * RefillRate <= spent * RefillRate
    BY <1>0, RateMonotone
  <2> QED
    BY <1>0, <2>1, <2>2 DEF WindowBudget
<1> QED
  BY <1>0, <1>1, <1>2, <1>3

\* The limit "maxVotes, one vote an hour" over every window of every run in
\* which no write back of GetRemainingVotes raced with a vote.
THEOREM BudgetHolds == BudgetSpec => []BudgetUnlessRaced
BY BudgetInvariant, BudgetInvImpliesBudget, PTL

\* The refill rule written in Go and the one written in Lua agree whenever
\* GetRemainingVotes is about to answer from an unchanged bucket.
THEOREM BalanceHolds == BudgetSpec => []BalanceIsSpendable
<1>1. BudgetInv => BalanceIsSpendable
  <2> SUFFICES ASSUME BudgetInv, NEW p \in Pollers, Undisturbed(p)
               PROVE  PollRefill(poll[p].remaining, poll[p].lastRefill, clock)
                        = Found(clock)
    BY DEF BalanceIsSpendable
  <2>1. /\ bucket.live /\ bucket.remaining \in 0 .. MaxVotes
        /\ bucket.lastRefill \in Nat /\ clock \in Nat
        /\ poll[p].remaining = bucket.remaining
        /\ poll[p].lastRefill = bucket.lastRefill
    BY DEF Undisturbed, BudgetInv, BudgetTypeOK
  <2> QED
    BY <2>1, RefillsAgree DEF Found
<1> QED
  BY <1>1, BudgetInvariant, PTL

\* Refills are never credited twice: the refill time of a live bucket never
\* moves back, except by a raced write back.
THEOREM RefillTimeMonotone == BudgetSpec => RefillNeverRewinds
<1> DEFINE Keeps == (bucket.live /\ bucket'.live /\ ~raced')
                        => bucket'.lastRefill >= bucket.lastRefill
<1>1. BudgetInv /\ [BudgetNext]_budgetVars => [Keeps]_budgetVars
  <2> SUFFICES ASSUME BudgetInv, BudgetNext, bucket.live, bucket'.live, ~raced'
               PROVE  bucket'.lastRefill >= bucket.lastRefill
    OBVIOUS
  <2>1. bucket.lastRefill \in Nat /\ bucket.remaining \in 0 .. MaxVotes
    BY DEF BudgetInv, BudgetTypeOK
  <2>2. CASE bucket' = bucket \/ bucket' = NoBucket
    BY <2>1, <2>2 DEF NoBucket
  <2>3. ASSUME NEW v \in Voters, NEW n \in 1 .. MaxVotes,
               ScriptAllows(v, n) \/ ScriptRefuses(v, n)
        PROVE  bucket'.lastRefill >= bucket.lastRefill
    <3>1. req[v].now \in Nat /\ req[v].now <= clock
      BY <2>3 DEF ScriptAllows, ScriptRefuses, BudgetInv, BudgetTypeOK, RefillBehindClock
    <3>2. Found(req[v].now).lastRefill >= bucket.lastRefill
      BY <3>1, FoundFacts DEF BudgetInv
    <3>3. bucket'.lastRefill = Found(req[v].now).lastRefill
      BY <2>3 DEF ScriptAllows, ScriptRefuses, Stored
    <3> QED
      BY <3>2, <3>3
  <2>4. ASSUME NEW p \in Pollers, PollWrite(p)
        PROVE  bucket'.lastRefill >= bucket.lastRefill
    <3>1. Undisturbed(p)
      BY <2>4 DEF PollWrite
    <3>2. /\ poll[p].remaining = bucket.remaining
          /\ poll[p].lastRefill = bucket.lastRefill
          /\ poll[p].now \in Nat
      BY <3>1 DEF Undisturbed, BudgetInv, BudgetTypeOK
    <3>3. PollRefill(poll[p].remaining, poll[p].lastRefill, poll[p].now)
            = ScriptRefill(bucket.remaining, bucket.lastRefill, poll[p].now)
      BY <2>1, <3>2, RefillsAgree
    <3>4. ScriptRefill(bucket.remaining, bucket.lastRefill, poll[p].now).lastRefill
            >= bucket.lastRefill
      BY <2>1, <3>2, RefillFacts
    <3>5. bucket'.lastRefill
            = PollRefill(poll[p].remaining, poll[p].lastRefill, poll[p].now).lastRefill
      BY <2>4 DEF PollWrite, Stored
    <3> QED
      BY <3>3, <3>4, <3>5
  <2>5. ASSUME NEW v \in Voters, Send(v) \/ Drop(v) PROVE bucket' = bucket
    BY <2>5 DEF Send, Drop
  <2>6. ASSUME NEW p \in Pollers, PollRead(p) \/ PollCompute(p) \/ PollFail(p)
        PROVE  bucket' = bucket
    BY <2>6 DEF PollRead, PollCompute, PollFail
  <2>7. Tick \/ OpenWindow => bucket' = bucket \/ bucket' = NoBucket
    BY DEF Tick, OpenWindow
  <2> QED
    BY <2>2, <2>3, <2>4, <2>5, <2>6, <2>7 DEF BudgetNext, Vote, Balance
<1> QED
  BY <1>1, BudgetInvariant, PTL DEF BudgetSpec, RefillNeverRewinds

-----------------------------------------------------------------------------
(***************************************************************************)
(* For any servers, callers, node ids and numbers of nodes and of sequence *)
(* numbers that SnowflakeAssumption allows: ids are unique, and those of a *)
(* node only grow, under the condition UniqueIds names.                    *)
(*                                                                         *)
(* The argument: the pair of lastTimestamp and sequence of a server is an  *)
(* upper bound, in lexicographic order, of all the stamps of its node      *)
(* (Ahead), a server in the loop excepted, which issues at a later time    *)
(* next; each call issues a stamp beyond that bound.  Packing preserves    *)
(* the order of stamps of a node and tells all stamps apart.               *)
(***************************************************************************)

-----------------------------------------------------------------------------
(* Packing.                                                                *)

LEMMA ProductMonotone ==
    ASSUME NEW b \in Nat, NEW x \in Int, NEW y \in Int, x <= y
    PROVE  x * b <= y * b
OBVIOUS

\* A greater quotient makes a greater number, whatever the remainders.
LEMMA QuotientDecides ==
    ASSUME NEW b \in Nat, NEW x \in Nat, NEW y \in Nat, x < y,
           NEW r \in 0 .. b - 1, NEW q \in 0 .. b - 1
    PROVE  x * b + r < y * b + q
<1>1. (x + 1) * b <= y * b
  BY ProductMonotone
<1>2. (x + 1) * b = x * b + b
  OBVIOUS
<1>3. x * b \in Nat /\ y * b \in Nat
  OBVIOUS
<1> QED
  BY <1>1, <1>2, <1>3

\* The number above the sequence field.
Upper(i) == i.ts * NodeCount + i.node

LEMMA UpperType ==
    ASSUME NEW i \in Stamps
    PROVE  Upper(i) \in Nat /\ Pack(i) = Upper(i) * SeqCount + i.seq /\ Pack(i) \in Nat
<1>1. i.ts \in Nat /\ i.node \in Nat /\ i.seq \in Nat
  BY SnowflakeAssumption DEF Stamps
<1>2. i.ts * NodeCount \in Nat
  BY <1>1, SnowflakeAssumption
<1>3. Upper(i) \in Nat
  BY <1>1, <1>2 DEF Upper
<1>4. Upper(i) * SeqCount \in Nat
  BY <1>3, SnowflakeAssumption
<1> QED
  BY <1>1, <1>3, <1>4 DEF Pack, Upper

\* Different stamps are different ids.
LEMMA PackTellsApart ==
    ASSUME NEW i \in Stamps, NEW j \in Stamps, Pack(i) = Pack(j)
    PROVE  i.ts = j.ts /\ i.node = j.node /\ i.seq = j.seq
<1>1. /\ i.seq \in 0 .. SeqCount - 1 /\ j.seq \in 0 .. SeqCount - 1
      /\ i.node \in 0 .. NodeCount - 1 /\ j.node \in 0 .. NodeCount - 1
      /\ i.ts \in Nat /\ j.ts \in Nat
  BY DEF Stamps
<1>2. Upper(i) = Upper(j) /\ i.seq = j.seq
  <2>1. Upper(i) * SeqCount + i.seq = Upper(j) * SeqCount + j.seq
    BY UpperType, Zenon
  <2>2. SeqCount \in Nat /\ Upper(i) \in Nat /\ Upper(j) \in Nat
    BY UpperType, SnowflakeAssumption
  <2>3. Upper(i) < Upper(j) => Upper(i) * SeqCount + i.seq < Upper(j) * SeqCount + j.seq
    BY <1>1, <2>2, QuotientDecides, Zenon
  <2>4. Upper(j) < Upper(i) => Upper(j) * SeqCount + j.seq < Upper(i) * SeqCount + i.seq
    BY <1>1, <2>2, QuotientDecides, Zenon
  <2>5. Upper(i) * SeqCount \in Nat /\ Upper(j) * SeqCount \in Nat
    BY <2>2
  <2>6. Upper(i) = Upper(j)
    BY <1>1, <2>1, <2>2, <2>3, <2>4, <2>5
  <2> QED
    BY <1>1, <2>1, <2>5, <2>6
<1>3. i.ts * NodeCount + i.node = j.ts * NodeCount + j.node
  BY <1>2 DEF Upper
<1>4. i.ts = j.ts /\ i.node = j.node
  <2>1. NodeCount \in Nat
    BY SnowflakeAssumption
  <2>2. i.ts < j.ts => i.ts * NodeCount + i.node < j.ts * NodeCount + j.node
    BY <1>1, <2>1, QuotientDecides, Zenon
  <2>3. j.ts < i.ts => j.ts * NodeCount + j.node < i.ts * NodeCount + i.node
    BY <1>1, <2>1, QuotientDecides, Zenon
  <2>4. i.ts * NodeCount \in Nat /\ j.ts * NodeCount \in Nat
    BY <1>1, <2>1
  <2>5. i.ts = j.ts
    BY <1>1, <1>3, <2>1, <2>2, <2>3, <2>4
  <2> QED
    BY <1>1, <1>3, <2>4, <2>5
<1> QED
  BY <1>2, <1>4

\* Later in lexicographic order.
Later(i, j) == j.ts < i.ts \/ (j.ts = i.ts /\ j.seq < i.seq)

\* Of two stamps of a node the later one is the greater id.
LEMMA PackGrows ==
    ASSUME NEW i \in Stamps, NEW j \in Stamps, i.node = j.node, Later(i, j)
    PROVE  Pack(i) > Pack(j)
<1>1. /\ i.seq \in 0 .. SeqCount - 1 /\ j.seq \in 0 .. SeqCount - 1
      /\ i.node \in 0 .. NodeCount - 1 /\ j.node \in 0 .. NodeCount - 1
      /\ i.ts \in Nat /\ j.ts \in Nat
  BY DEF Stamps
<1>2. CASE j.ts < i.ts
  <2>1. Upper(j) < Upper(i)
    <3>1. NodeCount \in Nat
      BY SnowflakeAssumption
    <3> QED
      BY <1>1, <1>2, <3>1, QuotientDecides, Zenon DEF Upper
  <2>2. Upper(j) * SeqCount + j.seq < Upper(i) * SeqCount + i.seq
    <3>1. SeqCount \in Nat /\ Upper(i) \in Nat /\ Upper(j) \in Nat
      BY UpperType, SnowflakeAssumption
    <3> QED
      BY <1>1, <2>1, <3>1, QuotientDecides, Zenon
  <2> QED
    BY <2>2, UpperType
<1>3. CASE j.ts = i.ts /\ j.seq < i.seq
  <2>1. Upper(j) = Upper(i)
    BY <1>3 DEF Upper
  <2>2. Upper(i) * SeqCount \in Nat
    BY UpperType, SnowflakeAssumption
  <2> QED
    BY <1>1, <1>3, <2>1, <2>2, UpperType
<1> QED
  BY <1>2, <1>3 DEF Later

-----------------------------------------------------------------------------
(* Types.                                                                  *)

LEMMA NodeIDType ==
    ASSUME NEW s \in Servers
    PROVE  NodeID(s) \in 0 .. NodeCount - 1
BY SnowflakeAssumption DEF NodeID

LEMMA NextSeqType ==
    ASSUME NEW q \in 0 .. SeqCount - 1
    PROVE  NextSeq(q) \in 0 .. SeqCount - 1 /\ (NextSeq(q) # 0 => NextSeq(q) = q + 1)
<1>1. CASE q + 1 < SeqCount
  <2>1. (q + 1) % SeqCount = q + 1
    BY <1>1, SnowflakeAssumption, SMTT(30)
  <2> QED
    BY <1>1, <2>1, SnowflakeAssumption DEF NextSeq
<1>2. CASE q + 1 = SeqCount
  <2>1. SeqCount % SeqCount = 0
    BY SnowflakeAssumption, SMTT(30)
  <2> QED
    BY <1>2, <2>1, SnowflakeAssumption DEF NextSeq
<1> QED
  BY <1>1, <1>2, SnowflakeAssumption

LEMMA NextSeqBeyond ==
    ASSUME NEW q \in 0 .. SeqCount - 1, NextSeq(q) # 0
    PROVE  NextSeq(q) > q
BY NextSeqType, SnowflakeAssumption

LEMMA PinnedType ==
    ASSUME SnowflakeTypeOK, NEW s \in Servers
    PROVE  Pinned(s) \in Nat \ {0} /\ Pinned(s) >= last[s]
<1>1. wallClock[s] \in Nat \ {0} /\ last[s] \in Nat
  BY DEF SnowflakeTypeOK
<1> QED
  BY <1>1 DEF Pinned

\* What Issue does to the types, for a time and a sequence number in range.
LEMMA IssueTypes ==
    ASSUME SnowflakeTypeOK, NEW s \in Servers, NEW c \in Callers,
           NEW t \in Nat, NEW q \in 0 .. SeqCount - 1, Issue(s, c, t, q)
    PROVE  SnowflakeTypeOK'
<1> DEFINE id == [ts |-> t, node |-> NodeID(s), seq |-> q]
<1>1. id \in Stamps
  BY NodeIDType DEF Stamps
<1>2. issued' \subseteq Stamps
  BY <1>1 DEF Issue, SnowflakeTypeOK
<1>3. /\ last' \in [Servers -> Nat]
      /\ seq' \in [Servers -> 0 .. SeqCount - 1]
      /\ high' \in [Servers -> Nat]
  BY DEF Issue, SnowflakeTypeOK
<1>4. pc' \in [Servers -> [Callers -> {"idle", "want", "spin"}]]
  BY DEF Issue, SnowflakeTypeOK
<1>5. rewound' \in BOOLEAN /\ collided' \in BOOLEAN
  BY DEF Issue, SnowflakeTypeOK
<1> QED
  BY <1>2, <1>3, <1>4, <1>5 DEF Issue, SnowflakeTypeOK

\* Every call that returns an id returns one beyond the bound of Ahead.
Beyond(s, t, q) ==
    \/ last[s] < t
    \/ last[s] = t /\ t # 0 /\ MutexFree(s) /\ seq[s] < q

LEMMA CallsIssueBeyond ==
    ASSUME SnowflakeTypeOK, NEW s \in Servers, NEW c \in Callers,
           IssueFirst(s, c) \/ IssueNext(s, c) \/ SpinEnds(s, c)
    PROVE  \E t \in Nat, q \in 0 .. SeqCount - 1 : Issue(s, c, t, q) /\ Beyond(s, t, q)
<1>1. /\ wallClock[s] \in Nat \ {0} /\ last[s] \in Nat
      /\ seq[s] \in 0 .. SeqCount - 1
      /\ 0 \in 0 .. SeqCount - 1
  BY SnowflakeAssumption DEF SnowflakeTypeOK
<1>2. CASE IssueFirst(s, c)
  <2>1. last[s] < Pinned(s) /\ Pinned(s) \in Nat
    BY <1>1, <1>2, PinnedType DEF IssueFirst
  <2>2. Issue(s, c, Pinned(s), 0) /\ Beyond(s, Pinned(s), 0)
    BY <1>2, <2>1 DEF IssueFirst, Beyond
  <2> QED
    BY <1>1, <2>1, <2>2
<1>3. CASE IssueNext(s, c)
  <2>1. /\ NextSeq(seq[s]) \in 0 .. SeqCount - 1
        /\ seq[s] < NextSeq(seq[s])
    BY <1>1, <1>3, NextSeqType, NextSeqBeyond, SnowflakeAssumption DEF IssueNext
  <2>2. Pinned(s) \in Nat \ {0} /\ last[s] = Pinned(s)
    BY <1>1, <1>3, PinnedType DEF IssueNext
  <2>3. Issue(s, c, Pinned(s), NextSeq(seq[s])) /\ Beyond(s, Pinned(s), NextSeq(seq[s]))
    BY <1>3, <2>1, <2>2 DEF IssueNext, Beyond
  <2> QED
    BY <2>1, <2>2, <2>3
<1>4. CASE SpinEnds(s, c)
  <2>1. last[s] < wallClock[s] /\ Issue(s, c, wallClock[s], 0)
    BY <1>1, <1>4 DEF SpinEnds
  <2> QED
    BY <1>1, <2>1 DEF Beyond
<1> QED
  BY <1>2, <1>3, <1>4

-----------------------------------------------------------------------------
(* One call.                                                               *)

LEMMA NotRewound ==
    ASSUME SnowflakeTypeOK, ~rewound', NEW s \in Servers, NEW c \in Callers,
           NEW t \in Nat, NEW q, Issue(s, c, t, q)
    PROVE  ~rewound /\ (last[s] = 0 => high[s] < t)
<1>1. high[s] \in Nat
  BY DEF SnowflakeTypeOK
<1>2. ~(rewound \/ (last[s] = 0 /\ t <= high[s]))
  BY Zenon DEF Issue
<1> QED
  BY <1>1, <1>2

\* The new id is later than every id of its node.
LEMMA IssueIsLater ==
    ASSUME IdsInv, NodesDiffer, ~rewound',
           NEW s \in Servers, NEW c \in Callers,
           NEW t \in Nat, NEW q \in 0 .. SeqCount - 1,
           Issue(s, c, t, q), Beyond(s, t, q),
           NEW i \in issued, i.node = NodeID(s)
    PROVE  Later([ts |-> t, node |-> NodeID(s), seq |-> q], i)
<1>1. ~rewound /\ (last[s] = 0 => high[s] < t)
  BY NotRewound DEF IdsInv
<1>2. Ahead(s)
  BY <1>1 DEF IdsInv
<1>3. /\ i.ts \in Nat /\ i.seq \in Nat /\ i.ts <= high[s]
      /\ last[s] \in Nat /\ high[s] \in Nat /\ seq[s] \in Nat
  BY <1>2, SnowflakeAssumption DEF Ahead, IdsInv, SnowflakeTypeOK, Stamps
<1>4. CASE last[s] < t
  <2>1. i.ts < t
    BY <1>1, <1>2, <1>3, <1>4 DEF Ahead
  <2> QED
    BY <2>1 DEF Later
<1>5. CASE last[s] = t /\ t # 0 /\ MutexFree(s) /\ seq[s] < q
  <2>1. i.ts < t \/ i.ts = t
    BY <1>2, <1>3, <1>5 DEF Ahead
  <2>2. i.ts = t => i.seq < q
    BY <1>2, <1>3, <1>5 DEF Ahead
  <2> QED
    BY <2>1, <2>2 DEF Later
<1> QED
  BY <1>4, <1>5 DEF Beyond

\* So a call keeps the invariant.
LEMMA IssueKeepsInv ==
    ASSUME IdsInv, NEW s \in Servers, NEW c \in Callers,
           NEW t \in Nat, NEW q \in 0 .. SeqCount - 1,
           Issue(s, c, t, q), Beyond(s, t, q)
    PROVE  IdsInv'
<1> DEFINE id == [ts |-> t, node |-> NodeID(s), seq |-> q]
<1>1. SnowflakeTypeOK'
  BY IssueTypes DEF IdsInv
<1>2. id \in Stamps /\ issued \subseteq Stamps /\ issued' = issued \cup {id}
  BY NodeIDType DEF Stamps, IdsInv, SnowflakeTypeOK, Issue
<1> SUFFICES ASSUME NodesDiffer, ~rewound'
             PROVE  ~collided' /\ \A r \in Servers : Ahead(r)'
  BY <1>1 DEF IdsInv, NodesDiffer
<1>3. /\ ~rewound /\ (last[s] = 0 => high[s] < t)
      /\ ~collided /\ \A r \in Servers : Ahead(r)
  <2>1. ~rewound /\ (last[s] = 0 => high[s] < t)
    BY NotRewound DEF IdsInv
  <2> QED
    BY <2>1 DEF IdsInv
<1>4. ~collided'
  <2> SUFFICES ASSUME NEW i \in issued, Pack(i) = Pack(id)
               PROVE  FALSE
    BY <1>3 DEF Issue
  <2>1. i \in Stamps
    BY <1>2
  <2>2. i.ts = id.ts /\ i.node = id.node /\ i.seq = id.seq
    BY <1>2, <2>1, PackTellsApart
  <2>3. Later(id, i)
    BY <2>2, IssueIsLater
  <2> QED
    BY <2>2, <2>3 DEF Later
<1>5. ASSUME NEW r \in Servers PROVE Ahead(r)'
  <2>1. /\ last \in [Servers -> Nat] /\ high \in [Servers -> Nat]
        /\ seq \in [Servers -> 0 .. SeqCount - 1]
    BY DEF IdsInv, SnowflakeTypeOK
  <2>2. CASE r = s
    <3>1. last'[s] = t /\ seq'[s] = q /\ high'[s] = IF t > high[s] THEN t ELSE high[s]
      BY <2>1 DEF Issue
    <3>2. high'[s] = t
      BY <1>3, <2>1, <3>1 DEF Ahead, Beyond
    <3>3. ASSUME NEW i \in issued', i.node = NodeID(s)
          PROVE  i.ts <= t /\ (i.ts = t => i.seq <= q)
      <4>1. CASE i = id
        BY <4>1
      <4>2. CASE i \in issued
        <5>1. Later(id, i)
          BY <3>3, <4>2, IssueIsLater
        <5>2. i.ts \in Nat /\ i.seq \in Nat
          BY <1>2, <4>2, SnowflakeAssumption DEF Stamps
        <5> QED
          BY <5>1, <5>2 DEF Later
      <4> QED
        BY <1>2, <4>1, <4>2
    <3> QED
      BY <2>2, <3>1, <3>2, <3>3 DEF Ahead, NodeID
  <2>3. CASE r # s
    <3>1. last'[r] = last[r] /\ seq'[r] = seq[r] /\ high'[r] = high[r]
      BY <2>1, <2>3 DEF Issue
    <3>2. MutexFree(r)' => MutexFree(r)
      BY <2>3 DEF Issue, MutexFree, IdsInv, SnowflakeTypeOK
    <3>3. id.node # NodeID(r)
      BY <2>3 DEF NodesDiffer
    <3>4. \A i \in issued' : i.node = NodeID(r) => i \in issued
      BY <1>2, <3>3
    <3>5. NodeID(r)' = NodeID(r)
      BY DEF NodeID
    <3> HIDE DEF id
    <3> QED
      BY <1>3, <3>1, <3>2, <3>4, <3>5 DEF Ahead
  <2> QED
    BY <2>2, <2>3
<1> QED
  BY <1>4, <1>5

-----------------------------------------------------------------------------
(* Every step.                                                             *)

\* A step that gives out no id keeps Ahead of a server whose last id and
\* sequence it keeps, of one in a new process, and of one that is in the loop.
LEMMA QuietKeepsAhead ==
    ASSUME UNCHANGED history, NEW r \in Servers, Ahead(r),
           \/ last'[r] = last[r] /\ seq'[r] = seq[r] /\ (MutexFree(r)' => MutexFree(r))
           \/ last'[r] = 0
           \/ last'[r] = last[r] /\ ~MutexFree(r)'
    PROVE  Ahead(r)'
<1>1. issued' = issued /\ high' = high /\ NodeID(r)' = NodeID(r)
  BY DEF history, NodeID
<1> QED
  BY <1>1 DEF Ahead

LEMMA QuietKeepsInv ==
    ASSUME IdsInv, SnowflakeTypeOK', UNCHANGED history,
           \A r \in Servers : Ahead(r) => Ahead(r)'
    PROVE  IdsInv'
<1>1. rewound' = rewound /\ collided' = collided
  BY DEF history
<1>2. NodesDiffer' <=> NodesDiffer
  BY DEF NodesDiffer, NodeID
<1>3. CASE NodesDiffer /\ ~rewound
  BY <1>1, <1>2, <1>3 DEF IdsInv
<1> QED
  BY <1>1, <1>2, <1>3 DEF IdsInv

LEMMA InitIdsInv == SnowflakeInit => IdsInv
<1> SUFFICES ASSUME SnowflakeInit PROVE IdsInv
  OBVIOUS
<1>1. SnowflakeTypeOK
  <2>1. 0 \in 0 .. SeqCount - 1
    BY SnowflakeAssumption
  <2>2. pc \in [Servers -> [Callers -> {"idle", "want", "spin"}]]
    BY DEF SnowflakeInit
  <2>3. rewound \in BOOLEAN /\ collided \in BOOLEAN /\ issued \subseteq Stamps
    BY DEF SnowflakeInit
  <2>4. /\ wallClock \in [Servers -> Nat \ {0}]
        /\ last \in [Servers -> Nat]
        /\ seq \in [Servers -> 0 .. SeqCount - 1]
        /\ high \in [Servers -> Nat]
    BY <2>1 DEF SnowflakeInit
  <2>5. setBacks \in Nat
    BY DEF SnowflakeInit
  <2> QED
    BY <2>2, <2>3, <2>4, <2>5 DEF SnowflakeTypeOK
<1>2. issued = {} /\ \A s \in Servers : last[s] = 0
  BY DEF SnowflakeInit
<1>3. \A s \in Servers : Ahead(s)
  BY <1>2 DEF Ahead
<1> QED
  BY <1>1, <1>3 DEF SnowflakeInit, IdsInv

\* The calls that return are the only steps that touch the history.
Answers(s, c) == IssueFirst(s, c) \/ IssueNext(s, c) \/ SpinEnds(s, c)

LEMMA QuietStepTypes ==
    ASSUME SnowflakeTypeOK, NEW s \in Servers, NEW c,
           \/ ClockTicks(s) \/ SetBack(s) \/ Restart(s)
           \/ c \in Callers /\ (Call(s, c) \/ Exhaust(s, c))
    PROVE  SnowflakeTypeOK'
<1>1. 0 \in 0 .. SeqCount - 1
  BY SnowflakeAssumption
<1>2. CASE ClockTicks(s)
  BY <1>2 DEF ClockTicks, history, SnowflakeTypeOK
<1>3. CASE SetBack(s)
  <2>1. PICK t \in 1 .. wallClock[s] - 1 : wallClock' = [wallClock EXCEPT ![s] = t]
    BY <1>3 DEF SetBack
  <2>2. t \in Nat \ {0}
    BY <2>1 DEF SnowflakeTypeOK
  <2> QED
    BY <1>3, <2>1, <2>2 DEF SetBack, history, SnowflakeTypeOK
<1>4. CASE Restart(s)
  BY <1>1, <1>4 DEF Restart, history, SnowflakeTypeOK
<1>5. CASE c \in Callers /\ Call(s, c)
  BY <1>5 DEF Call, history, SnowflakeTypeOK
<1>6. CASE c \in Callers /\ Exhaust(s, c)
  BY <1>1, <1>6 DEF Exhaust, history, SnowflakeTypeOK
<1> QED
  BY <1>2, <1>3, <1>4, <1>5, <1>6

LEMMA QuietStepKeepsInv ==
    ASSUME IdsInv, NEW s \in Servers, NEW c,
           \/ ClockTicks(s) \/ SetBack(s) \/ Restart(s)
           \/ c \in Callers /\ (Call(s, c) \/ Exhaust(s, c))
    PROVE  IdsInv'
<1>1. SnowflakeTypeOK /\ SnowflakeTypeOK'
  BY QuietStepTypes DEF IdsInv
<1>2. UNCHANGED history
  BY DEF ClockTicks, SetBack, Restart, Call, Exhaust
<1>3. ASSUME NEW r \in Servers, Ahead(r) PROVE Ahead(r)'
  <2>1. CASE ClockTicks(s) \/ SetBack(s) \/ (c \in Callers /\ Call(s, c))
    <3>1. last' = last /\ seq' = seq
      BY <2>1 DEF ClockTicks, SetBack, Call
    <3>2. MutexFree(r)' => MutexFree(r)
      BY <1>1, <2>1 DEF ClockTicks, SetBack, Call, MutexFree, SnowflakeTypeOK
    <3> QED
      BY <1>2, <1>3, <3>1, <3>2, QuietKeepsAhead
  <2>2. CASE Restart(s) /\ r = s
    <3>1. last'[r] = 0
      BY <1>1, <2>2 DEF Restart, SnowflakeTypeOK
    <3> QED
      BY <1>2, <1>3, <3>1, QuietKeepsAhead
  <2>3. CASE c \in Callers /\ Exhaust(s, c) /\ r = s
    <3>1. last' = last /\ pc'[s][c] = "spin"
      BY <1>1, <2>3 DEF Exhaust, SnowflakeTypeOK
    <3>2. ~MutexFree(r)'
      BY <2>3, <3>1 DEF MutexFree
    <3> QED
      BY <1>2, <1>3, <3>1, <3>2, QuietKeepsAhead
  <2>4. CASE (Restart(s) \/ (c \in Callers /\ Exhaust(s, c))) /\ r # s
    <3>1. last'[r] = last[r] /\ seq'[r] = seq[r] /\ pc'[r] = pc[r]
      BY <1>1, <2>4 DEF Restart, Exhaust, SnowflakeTypeOK
    <3>2. MutexFree(r)' => MutexFree(r)
      BY <3>1 DEF MutexFree
    <3> QED
      BY <1>2, <1>3, <3>1, <3>2, QuietKeepsAhead
  <2> QED
    BY <2>1, <2>2, <2>3, <2>4
<1> QED
  BY <1>1, <1>2, <1>3, QuietKeepsInv

\* A call that returns, in the form the lemmas on Issue need.
LEMMA ReturnKeepsInv ==
    ASSUME IdsInv, NEW s \in Servers, NEW c \in Callers, Answers(s, c)
    PROVE  IdsInv'
<1>1. PICK t \in Nat, q \in 0 .. SeqCount - 1 : Issue(s, c, t, q) /\ Beyond(s, t, q)
  BY CallsIssueBeyond DEF IdsInv, Answers
<1> QED
  BY <1>1, IssueKeepsInv

LEMMA StepKeepsInv == IdsInv /\ [SnowflakeNext]_snowflakeVars => IdsInv'
<1> SUFFICES ASSUME IdsInv, [SnowflakeNext]_snowflakeVars PROVE IdsInv'
  OBVIOUS
<1>1. CASE UNCHANGED snowflakeVars
  <2>1. SnowflakeTypeOK'
    BY <1>1 DEF IdsInv, SnowflakeTypeOK, snowflakeVars, history
  <2>2. UNCHANGED history /\ last' = last /\ seq' = seq /\ pc' = pc
    BY <1>1 DEF snowflakeVars
  <2>3. \A r \in Servers : Ahead(r) => Ahead(r)'
    BY <2>2, QuietKeepsAhead DEF MutexFree
  <2> QED
    BY <2>1, <2>2, <2>3, QuietKeepsInv
<1>2. CASE SnowflakeNext
  <2>1. PICK s \in Servers :
            \/ ClockTicks(s) \/ SetBack(s) \/ Restart(s)
            \/ \E c \in Callers : Call(s, c) \/ NextID(s, c) \/ SpinEnds(s, c)
    BY <1>2 DEF SnowflakeNext
  <2>2. CASE ClockTicks(s) \/ SetBack(s) \/ Restart(s)
    BY <2>2, QuietStepKeepsInv
  <2>3. ASSUME NEW c \in Callers, Call(s, c) \/ NextID(s, c) \/ SpinEnds(s, c)
        PROVE  IdsInv'
    <3>1. CASE Call(s, c) \/ Exhaust(s, c)
      BY <3>1, QuietStepKeepsInv
    <3>2. CASE Answers(s, c)
      BY <3>2, ReturnKeepsInv
    <3> QED
      BY <2>3, <3>1, <3>2 DEF NextID, Answers
  <2> QED
    BY <2>1, <2>2, <2>3
<1> QED
  BY <1>1, <1>2

-----------------------------------------------------------------------------
(* The theorems.                                                           *)

THEOREM IdsInvariant == SnowflakeSpec => []IdsInv
BY InitIdsInv, StepKeepsInv, PTL DEF SnowflakeSpec

\* The variables keep their types: no field of an id overflows into the next.
THEOREM TypesHold == SnowflakeSpec => []SnowflakeTypeOK
<1>1. IdsInv => SnowflakeTypeOK
  BY DEF IdsInv
<1> QED
  BY <1>1, IdsInvariant, PTL

\* No id is given out twice, under the condition that UniqueIds names.
THEOREM IdsAreUnique == SnowflakeSpec => []UniqueIds
<1>1. IdsInv => UniqueIds
  BY DEF IdsInv, UniqueIds
<1> QED
  BY <1>1, IdsInvariant, PTL

\* The ids of a node only grow, under the same condition.
THEOREM IdsOfANodeGrow == SnowflakeSpec => IdsGrow
<1> DEFINE Grows == NodesDiffer /\ ~rewound' =>
                      \A new \in issued' \ issued, old \in issued :
                          new.node = old.node => Pack(new) > Pack(old)
<1>1. IdsInv /\ [SnowflakeNext]_snowflakeVars => [Grows]_snowflakeVars
  <2> SUFFICES ASSUME IdsInv, SnowflakeNext, NodesDiffer, ~rewound',
                      NEW new \in issued' \ issued, NEW old \in issued,
                      new.node = old.node
               PROVE  Pack(new) > Pack(old)
    OBVIOUS
  <2>1. PICK s \in Servers, c \in Callers : Answers(s, c)
    BY DEF SnowflakeNext, NextID, Answers, ClockTicks, SetBack, Restart, Call, Exhaust, history
  <2>2. PICK t \in Nat, q \in 0 .. SeqCount - 1 : Issue(s, c, t, q) /\ Beyond(s, t, q)
    BY <2>1, CallsIssueBeyond DEF IdsInv, Answers
  <2> DEFINE id == [ts |-> t, node |-> NodeID(s), seq |-> q]
  <2>3. new = id /\ old.node = NodeID(s)
    BY <2>2 DEF Issue
  <2>4. Later(new, old)
    BY <2>2, <2>3, IssueIsLater
  <2>5. new \in Stamps /\ old \in Stamps
    BY <2>3, NodeIDType DEF Stamps, IdsInv, SnowflakeTypeOK
  <2> QED
    BY <2>4, <2>5, PackGrows
<1> QED
  BY <1>1, IdsInvariant, PTL DEF SnowflakeSpec, IdsGrow

-----------------------------------------------------------------------------
(***************************************************************************)
(* For any names, positions, processes and goroutines that                 *)
(* FilterAssumption allows: a serving process knows every name in use,     *)
(* checks tell the truth, and stored names last, each under the condition  *)
(* its property names.                                                     *)
(***************************************************************************)

-----------------------------------------------------------------------------
(* The types.                                                              *)

Persists == [pc: {"idle", "copy", "set"}, copy: SUBSET Bits, overtaken: BOOLEAN]
Calls    == {NoCall} \cup [pc: {"free", "inserted"}, name: Names]
Asked    == {NoCheck} \cup [pc: {"filter", "verify", "taken", "free"}, name: Names,
                           sawOpen: BOOLEAN, sawTaken: BOOLEAN]

LEMMA InitTypes == FilterInit => FilterTypeOK
<1> SUFFICES ASSUME FilterInit PROVE FilterTypeOK
  OBVIOUS
<1>1. /\ name \in [Accounts -> Names \cup {None}]
      /\ bits \subseteq Bits /\ left \subseteq Names /\ unadded \subseteq Names
      /\ saved \in (SUBSET Bits) \cup {NoCopy}
      /\ phase = "down" /\ origin = "mongo" /\ fresh \in BOOLEAN
  BY DEF FilterInit
<1>2. boots \in 0..MaxBoots
  BY FilterAssumption DEF FilterInit
<1>3. saver \in [Savers -> Persists]
  BY DEF FilterInit, Resting, Persists
<1>4. signup \in [Signups -> Calls] /\ check \in [Checks -> Asked]
  BY DEF FilterInit, Calls, Asked
<1> QED
  BY <1>1, <1>2, <1>3, <1>4 DEF FilterTypeOK, Persists, Calls, Asked

LEMMA PositionsType == \A n \in Names : Positions[n] \subseteq Bits
BY FilterAssumption

LEMMA AddTypes ==
    ASSUME FilterTypeOK, NEW n \in Names, Add(n)
    PROVE  bits' \subseteq Bits /\ saver' \in [Savers -> Persists]
BY PositionsType DEF Add, FilterTypeOK, Savers, Persists

LEMMA StartTypes == FilterTypeOK /\ Start => FilterTypeOK'
<1> SUFFICES ASSUME FilterTypeOK, Start PROVE FilterTypeOK'
  OBVIOUS
<1>1. /\ bits' \subseteq Bits /\ left' \subseteq Names /\ unadded' \subseteq Names
      /\ origin' \in {"redis", "mongo"} /\ phase' \in {"seed", "serve"}
  BY DEF FilterTypeOK, Start, LoadFromRedis, ColdStart, InUse, NoCopy
<1>2. boots' \in 0..MaxBoots
  BY FilterAssumption DEF FilterTypeOK, Start
<1> QED
  BY <1>1, <1>2 DEF FilterTypeOK, Start, stores

LEMMA PersistTypes == FilterTypeOK /\ PersistToRedis => FilterTypeOK'
<1> SUFFICES ASSUME FilterTypeOK, NEW g \in Savers, CopyBits(g) \/ SetCopy(g) \/ SetFails(g)
             PROVE  FilterTypeOK'
  BY DEF PersistToRedis
<1>1. CASE CopyBits(g)
  BY <1>1 DEF FilterTypeOK, CopyBits, stores, server, ghosts
<1>2. CASE SetCopy(g)
  <2>1. saver' \in [Savers -> Persists]
    BY <1>2 DEF FilterTypeOK, SetCopy, Resting, Persists
  <2>2. saver[g].copy \subseteq Bits
    BY DEF FilterTypeOK
  <2> QED
    BY <1>2, <2>1, <2>2 DEF FilterTypeOK, SetCopy, Returns, Persists
<1>3. CASE SetFails(g)
  BY <1>3 DEF FilterTypeOK, SetFails, Returns, Resting, stores, ghosts
<1> QED
  BY <1>1, <1>2, <1>3

LEMMA WatchTypes == FilterTypeOK /\ Watch => check' \in [Checks -> Asked]
<1> SUFFICES ASSUME FilterTypeOK, Watch, NEW c \in Checks PROVE check'[c] \in Asked
  BY DEF Watch
<1>1. check[c] \in Asked
  BY DEF FilterTypeOK, Asked
<1>2. CASE check[c].pc \notin {"filter", "verify"}
  BY <1>1, <1>2 DEF Watch
<1>3. CASE check[c].pc \in {"filter", "verify"}
  <2>1. check[c] \in [pc: {"filter", "verify", "taken", "free"}, name: Names,
                      sawOpen: BOOLEAN, sawTaken: BOOLEAN]
    BY <1>1, <1>3 DEF Asked, NoCheck
  <2>2. check'[c] = [check[c] EXCEPT !.sawOpen  = @ \/ check[c].name \notin Settled',
                                     !.sawTaken = @ \/ check[c].name \in InUse']
    BY <1>3 DEF Watch
  <2>3. /\ (check[c].sawOpen \/ check[c].name \notin Settled') \in BOOLEAN
        /\ (check[c].sawTaken \/ check[c].name \in InUse') \in BOOLEAN
    BY <2>1
  <2> QED
    BY <2>1, <2>2, <2>3 DEF Asked
<1> QED
  BY <1>2, <1>3

LEMMA CreateTypes == FilterTypeOK /\ CreateUser => FilterTypeOK'
<1> SUFFICES ASSUME FilterTypeOK, NEW s \in Signups,
                    \/ \E n \in Names : FindUsername(s, n)
                    \/ \E a \in Accounts : InsertUser(s, a)
                    \/ InsertFails(s) \/ AddUsername(s)
             PROVE  FilterTypeOK'
  BY DEF CreateUser
<1>0. signup[s].pc # "idle" => signup[s] \in [pc: {"free", "inserted"}, name: Names]
  BY DEF FilterTypeOK, NoCall
<1>1. CASE \E n \in Names : FindUsername(s, n)
  BY <1>1 DEF FilterTypeOK, FindUsername, stores, server, ghosts
<1>2. CASE \E a \in Accounts : InsertUser(s, a)
  <2> PICK a \in Accounts : InsertUser(s, a)
    BY <1>2
  <2>1. signup[s] \in [pc: {"free", "inserted"}, name: Names]
    BY <1>0 DEF InsertUser
  <2>2. name' \in [Accounts -> Names \cup {None}] /\ unadded' \subseteq Names
    BY <2>1 DEF FilterTypeOK, InsertUser
  <2>3. signup' \in [Signups -> Calls]
    BY <2>1 DEF FilterTypeOK, InsertUser, Calls
  <2>4. check' \in [Checks -> Asked]
    BY WatchTypes DEF InsertUser
  <2> QED
    BY <2>2, <2>3, <2>4 DEF FilterTypeOK, InsertUser, server, Calls, Asked
<1>3. CASE InsertFails(s)
  BY <1>3 DEF FilterTypeOK, InsertFails, stores, server, ghosts
<1>4. CASE AddUsername(s)
  <2>1. bits' \subseteq Bits /\ saver' \in [Savers -> Persists]
    BY <1>0, <1>4, AddTypes DEF AddUsername
  <2> QED
    BY <1>4, <2>1 DEF FilterTypeOK, AddUsername, stores, Persists
<1> QED
  BY <1>1, <1>2, <1>3, <1>4

LEMMA ChangeTypes == FilterTypeOK /\ ChangeUser => FilterTypeOK'
<1> SUFFICES ASSUME FilterTypeOK, NEW a \in Accounts,
                    DeleteUser(a) \/ \E n \in Names : UpdateUser(a, n)
             PROVE  FilterTypeOK'
  BY DEF ChangeUser
<1>1. check' \in [Checks -> Asked]
  BY WatchTypes DEF DeleteUser, UpdateUser
<1>2. name' \in [Accounts -> Names \cup {None}] /\ unadded' \subseteq Names
  BY DEF FilterTypeOK, DeleteUser, UpdateUser, ghosts
<1> QED
  BY <1>1, <1>2 DEF FilterTypeOK, DeleteUser, UpdateUser, server, ghosts, Asked

LEMMA CheckTypes == FilterTypeOK /\ CheckUsernameExists => FilterTypeOK'
<1> SUFFICES ASSUME FilterTypeOK, NEW c \in Checks,
                    \/ \E n \in Names : Ask(c, n)
                    \/ AskFilter(c) \/ VerifyInMongo(c) \/ Answer(c)
             PROVE  FilterTypeOK'
  BY DEF CheckUsernameExists
<1>1. check[c].pc # "idle" =>
        check[c] \in [pc: {"filter", "verify", "taken", "free"}, name: Names,
                      sawOpen: BOOLEAN, sawTaken: BOOLEAN]
  BY DEF FilterTypeOK, NoCheck
<1>2. check' \in [Checks -> Asked]
  <2>1. CASE \E n \in Names : Ask(c, n)
    <3> PICK n \in Names : Ask(c, n)
      BY <2>1
    <3>1. (n \notin Settled) \in BOOLEAN /\ (n \in InUse) \in BOOLEAN
      OBVIOUS
    <3> QED
      BY <3>1 DEF FilterTypeOK, Ask, Asked
  <2>2. CASE AskFilter(c)
    BY <1>1, <2>2 DEF FilterTypeOK, AskFilter, Asked
  <2>3. CASE VerifyInMongo(c)
    BY <1>1, <2>3 DEF FilterTypeOK, VerifyInMongo, Asked
  <2>4. CASE Answer(c)
    BY <2>4 DEF FilterTypeOK, Answer, Asked
  <2> QED
    BY <2>1, <2>2, <2>3, <2>4
<1> QED
  BY <1>2 DEF FilterTypeOK, Ask, AskFilter, VerifyInMongo, Answer, stores, server, ghosts, Asked

LEMMA NextTypes == FilterTypeOK /\ [FilterNext]_filterVars => FilterTypeOK'
<1> SUFFICES ASSUME FilterTypeOK, [FilterNext]_filterVars PROVE FilterTypeOK'
  OBVIOUS
<1>1. CASE SeedFromMongoDB
  <2> PICK n \in left : Add(n) /\ left' = left \ {n}
    BY <1>1 DEF SeedFromMongoDB
  <2>1. bits' \subseteq Bits /\ saver' \in [Savers -> Persists]
    BY AddTypes DEF FilterTypeOK
  <2> QED
    BY <1>1, <2>1 DEF FilterTypeOK, SeedFromMongoDB, stores, ghosts, Persists
<1>2. CASE Seeded
  BY <1>2 DEF FilterTypeOK, Seeded, Savers, stores, ghosts
<1>3. CASE Crash
  BY <1>3 DEF FilterTypeOK, Crash, Resting, stores, ghosts
<1>4. CASE UNCHANGED filterVars
  BY <1>4 DEF FilterTypeOK, filterVars, stores, server, ghosts
<1> QED
  BY <1>1, <1>2, <1>3, <1>4, StartTypes, PersistTypes, CreateTypes, ChangeTypes, CheckTypes
     DEF FilterNext

(* Every state of every execution is well typed. *)
THEOREM FilterTypes == FilterSpec => []FilterTypeOK
BY InitTypes, NextTypes, PTL DEF FilterSpec

-----------------------------------------------------------------------------
(* The filter covers the settled names.                                    *)

LEMMA MightExistGrows ==
    ASSUME NEW n \in Names, bits \subseteq bits', MightExist(n)
    PROVE  MightExist(n)'
BY DEF MightExist

LEMMA AddCovers ==
    ASSUME NEW n, Add(n)
    PROVE  bits \subseteq bits' /\ Positions[n] \subseteq bits'
BY DEF Add

LEMMA SettledType == FilterTypeOK => Settled \subseteq Names /\ InUse \subseteq Names
BY DEF FilterTypeOK, Settled, InUse

(* While names are read from MongoDB each name in use is set or still to   *)
(* come; from then on the settled ones are set.  Signups are under way     *)
(* only while the server serves.                                           *)
CoverInv ==
    /\ phase = "seed" => \A n \in InUse : n \in left \/ MightExist(n)
    /\ phase \in {"persist", "serve"} => \A n \in Settled : MightExist(n)
    /\ saver[Main].pc # "idle" => phase = "persist"
    /\ phase # "serve" => \A s \in Signups : signup[s].pc = "idle"

LEMMA InitCovers == FilterInit => CoverInv
BY DEF FilterInit, CoverInv, Resting, NoCall, Savers

LEMMA SettledStays ==
    ASSUME FilterTypeOK, CoverInv, bits \subseteq bits', Settled' \subseteq Settled,
           phase \in {"persist", "serve"}
    PROVE  \A n \in Settled' : MightExist(n)'
BY SettledType, MightExistGrows DEF CoverInv

LEMMA NextCovers == FilterTypeOK /\ CoverInv /\ [FilterNext]_filterVars => CoverInv'
<1> SUFFICES ASSUME FilterTypeOK, CoverInv, [FilterNext]_filterVars PROVE CoverInv'
  OBVIOUS
<1>1. CASE Start
  <2>1. saver[Main].pc = "idle" /\ \A s \in Signups : signup[s].pc = "idle"
    BY <1>1 DEF Start, CoverInv
  <2>2. CASE LoadFromRedis
    <3>1. \A n \in Settled' : MightExist(n)'
      BY <1>1, <2>2 DEF Start, LoadFromRedis, Settled, InUse, MightExist, stores
    <3> QED
      BY <1>1, <2>1, <2>2, <3>1 DEF Start, LoadFromRedis, CoverInv, stores
  <2>3. CASE ColdStart
    <3>1. InUse' = left'
      BY <1>1, <2>3 DEF Start, ColdStart, InUse, stores
    <3> QED
      BY <1>1, <2>1, <2>3, <3>1 DEF Start, ColdStart, CoverInv
  <2> QED
    BY <1>1, <2>2, <2>3 DEF Start
<1>2. CASE SeedFromMongoDB
  <2> PICK n \in left : Add(n) /\ left' = left \ {n}
    BY <1>2 DEF SeedFromMongoDB
  <2>1. InUse' = InUse
    BY <1>2 DEF SeedFromMongoDB, InUse, stores
  <2>2. \A m \in InUse : m \in left' \/ MightExist(m)'
    BY <1>2, AddCovers DEF SeedFromMongoDB, CoverInv, MightExist
  <2>3. saver'[Main] = saver[Main]
    BY FilterAssumption DEF Add, FilterTypeOK, Savers, Main
  <2> QED
    BY <1>2, <2>1, <2>2, <2>3 DEF SeedFromMongoDB, CoverInv
<1>3. CASE Seeded
  <2>1. InUse' = InUse /\ Settled \subseteq InUse
    BY <1>3 DEF Seeded, InUse, Settled, stores
  <2>2. \A n \in InUse : MightExist(n)'
    BY <1>3 DEF Seeded, CoverInv, MightExist
  <2>3. Settled' \subseteq InUse
    BY <2>1 DEF Settled
  <2> QED
    BY <1>3, <2>2, <2>3 DEF Seeded, CoverInv
<1>4. CASE Crash
  BY <1>4 DEF Crash, CoverInv, Resting, NoCall, Savers
<1>5. CASE PersistToRedis
  <2> PICK g \in Savers : CopyBits(g) \/ SetCopy(g) \/ SetFails(g)
    BY <1>5 DEF PersistToRedis
  <2>1. bits' = bits /\ Settled' = Settled /\ InUse' = InUse
    BY DEF CopyBits, SetCopy, SetFails, Settled, InUse, Joining, stores, server, ghosts
  <2>2. left' = left /\ signup' = signup
    BY DEF CopyBits, SetCopy, SetFails, server
  <2>3. CASE phase' = phase
    <3>1. saver'[Main].pc # "idle" => saver[Main].pc # "idle"
      BY DEF CopyBits, SetCopy, SetFails, Resting, FilterTypeOK, Savers
    <3> QED
      BY <2>1, <2>2, <2>3, <3>1 DEF CoverInv, MightExist
  <2>4. CASE phase' # phase
    <3>1. g = Main /\ phase' = "serve" /\ (SetCopy(g) \/ SetFails(g))
      BY <2>4 DEF CopyBits, SetCopy, SetFails, Returns, server
    <3>2. phase = "persist" /\ saver'[Main].pc = "idle"
      BY <3>1 DEF SetCopy, SetFails, CoverInv, Resting, FilterTypeOK, Savers
    <3> QED
      BY <2>1, <2>2, <3>1, <3>2 DEF CoverInv, MightExist
  <2> QED
    BY <2>3, <2>4
<1>6. CASE CreateUser
  <2> PICK s \in Signups : \/ \E n \in Names : FindUsername(s, n)
                           \/ \E a \in Accounts : InsertUser(s, a)
                           \/ InsertFails(s) \/ AddUsername(s)
    BY <1>6 DEF CreateUser
  <2>1. phase = "serve" /\ phase' = "serve" /\ left' = left
    BY DEF FindUsername, InsertUser, InsertFails, AddUsername, CoverInv, server
  <2>2. saver'[Main] = saver[Main]
    BY FilterAssumption
       DEF FindUsername, InsertUser, InsertFails, AddUsername, Add, FilterTypeOK, Savers, Main
  <2>3. \A n \in Settled' : MightExist(n)'
    <3>1. CASE \E n \in Names : FindUsername(s, n)
      <4> PICK n \in Names : FindUsername(s, n)
        BY <3>1
      <4>1. \A t \in Signups : signup'[t].pc = "inserted" <=> signup[t].pc = "inserted"
        BY DEF FindUsername, FilterTypeOK
      <4>2. \A t \in Signups : signup[t].pc = "inserted" => signup'[t].name = signup[t].name
        BY DEF FindUsername, FilterTypeOK
      <4>3. Settled' = Settled /\ bits' = bits
        BY <4>1, <4>2 DEF FindUsername, Settled, Joining, InUse, stores, server, ghosts
      <4> QED
        BY <2>1, <4>3, SettledStays
    <3>2. CASE \E a \in Accounts : InsertUser(s, a)
      <4> PICK a \in Accounts : InsertUser(s, a)
        BY <3>2
      <4>1. InUse' \subseteq InUse \cup {signup[s].name}
        BY DEF InsertUser, InUse, FilterTypeOK
      <4>2. \A t \in Signups : signup[t].pc = "inserted" => signup'[t] = signup[t]
        BY DEF InsertUser, FilterTypeOK
      <4>3. Joining \subseteq Joining' /\ unadded \subseteq unadded'
        BY <4>2 DEF InsertUser, Joining
      <4>4. signup[s].name \in Joining' \cup unadded'
        <5>1. CASE signup' = [signup EXCEPT ![s].pc = "inserted"]
          <6>1. signup'[s].pc = "inserted" /\ signup'[s].name = signup[s].name
            BY <5>1 DEF FilterTypeOK
          <6> QED
            BY <6>1 DEF Joining
        <5>2. CASE unadded' = unadded \cup {signup[s].name}
          BY <5>2
        <5> QED
          BY <5>1, <5>2 DEF InsertUser
      <4>5. Settled' \subseteq Settled /\ bits' = bits
        BY <4>1, <4>3, <4>4 DEF Settled, InsertUser, server
      <4> QED
        BY <2>1, <4>5, SettledStays
    <3>3. CASE InsertFails(s)
      <4>1. \A t \in Signups : /\ signup'[t].pc = "inserted" <=> signup[t].pc = "inserted"
                               /\ signup[t].pc = "inserted" => signup'[t].name = signup[t].name
        BY <3>3 DEF InsertFails, FilterTypeOK, NoCall
      <4>2. Joining \subseteq Joining' /\ Joining' \subseteq Joining
        BY <4>1 DEF Joining
      <4>3. Settled' = Settled /\ bits' = bits
        BY <3>3, <4>2 DEF InsertFails, Settled, InUse, stores, server, ghosts
      <4> QED
        BY <2>1, <4>3, SettledStays
    <3>4. CASE AddUsername(s)
      <4>1. /\ bits \subseteq bits' /\ Positions[signup[s].name] \subseteq bits'
        BY <3>4, AddCovers DEF AddUsername
      <4>2. \A t \in Signups : t # s => signup'[t] = signup[t]
        BY <3>4 DEF AddUsername, FilterTypeOK
      <4>3. Joining \subseteq Joining' \cup {signup[s].name}
        BY <4>2 DEF Joining
      <4>4. Settled' \subseteq Settled \cup {signup[s].name}
        BY <3>4, <4>3 DEF AddUsername, Settled, InUse, stores
      <4> QED
        BY <2>1, <4>1, <4>4, SettledType, MightExistGrows DEF CoverInv, MightExist
    <3> QED
      BY <3>1, <3>2, <3>3, <3>4
  <2> QED
    BY <2>1, <2>2, <2>3 DEF CoverInv
<1>7. CASE ChangeUser
  <2> PICK a \in Accounts : DeleteUser(a) \/ \E n \in Names : UpdateUser(a, n)
    BY <1>7 DEF ChangeUser
  <2>1. Settled' \subseteq Settled
    <3>1. Joining' = Joining /\ unadded \subseteq unadded'
      BY DEF DeleteUser, UpdateUser, Joining, ghosts
    <3>2. CASE DeleteUser(a)
      <4>1. InUse' \subseteq InUse
        BY <3>2 DEF DeleteUser, InUse, FilterTypeOK
      <4> QED
        BY <3>1, <4>1 DEF Settled
    <3>3. ASSUME NEW n \in Names, UpdateUser(a, n) PROVE Settled' \subseteq Settled
      <4>1. InUse' \subseteq InUse \cup {n} /\ n \in unadded'
        BY <3>3 DEF UpdateUser, InUse, FilterTypeOK
      <4> QED
        BY <3>1, <4>1 DEF Settled
    <3> QED
      BY <3>2, <3>3
  <2>2. phase = "serve" /\ UNCHANGED <<bits, phase, left, saver, signup>>
    BY DEF DeleteUser, UpdateUser, server
  <2> QED
    BY <2>1, <2>2, SettledStays DEF CoverInv
<1>8. CASE CheckUsernameExists
  <2>1. UNCHANGED <<stores, server, saver, signup, ghosts>>
    BY <1>8 DEF CheckUsernameExists, Ask, AskFilter, VerifyInMongo, Answer
  <2> QED
    BY <2>1 DEF CoverInv, Settled, InUse, Joining, MightExist, stores, server, ghosts
<1>9. CASE UNCHANGED filterVars
  BY <1>9 DEF CoverInv, Settled, InUse, Joining, MightExist, filterVars, stores, server, ghosts
<1> QED
  BY <1>1, <1>2, <1>3, <1>4, <1>5, <1>6, <1>7, <1>8, <1>9 DEF FilterNext

(* The filter of a serving process knows every settled name. *)
THEOREM FilterHasNoFalseNegatives == FilterSpec => []FilterCovers
<1>1. CoverInv => FilterCovers
  BY DEF CoverInv, FilterCovers
<1> QED
  BY InitTypes, NextTypes, InitCovers, NextCovers, <1>1, PTL DEF FilterSpec

-----------------------------------------------------------------------------
(* Checks.                                                                 *)

(* A check under way has recorded what it can have missed: the name is     *)
(* settled unless it saw it open, and not in use unless it saw it taken.   *)
Witnessed(c) ==
    /\ check[c].pc # "idle" => phase = "serve"
    /\ check[c].pc \in {"filter", "verify"} =>
         /\ check[c].sawOpen \/ check[c].name \in Settled
         /\ check[c].sawTaken \/ check[c].name \notin InUse
    /\ check[c].pc = "taken" => check[c].sawTaken
    /\ check[c].pc = "free" => check[c].sawOpen

CheckInv == \A c \in Checks : Witnessed(c)

LEMMA InitWitnessed == FilterInit => CheckInv
BY DEF FilterInit, CheckInv, Witnessed, NoCheck

LEMMA WatchWitnesses ==
    ASSUME FilterTypeOK, CheckInv, Watch, phase' = phase
    PROVE  CheckInv'
<1> SUFFICES ASSUME NEW c \in Checks PROVE Witnessed(c)'
  BY DEF CheckInv
<1>1. CASE check[c].pc \notin {"filter", "verify"}
  <2>1. check'[c] = check[c]
    BY <1>1 DEF Watch
  <2> QED
    BY <1>1, <2>1 DEF CheckInv, Witnessed
<1>2. CASE check[c].pc \in {"filter", "verify"}
  <2>1. check[c] \in [pc: {"filter", "verify", "taken", "free"}, name: Names,
                      sawOpen: BOOLEAN, sawTaken: BOOLEAN]
    BY <1>2 DEF FilterTypeOK, NoCheck
  <2>2. check'[c] = [check[c] EXCEPT !.sawOpen  = @ \/ check[c].name \notin Settled',
                                     !.sawTaken = @ \/ check[c].name \in InUse']
    BY <1>2 DEF Watch
  <2>3. /\ check'[c].pc = check[c].pc /\ check'[c].name = check[c].name
        /\ check'[c].sawOpen = (check[c].sawOpen \/ check[c].name \notin Settled')
        /\ check'[c].sawTaken = (check[c].sawTaken \/ check[c].name \in InUse')
    BY <2>1, <2>2
  <2> QED
    BY <1>2, <2>3 DEF CheckInv, Witnessed
<1> QED
  BY <1>1, <1>2

LEMMA SameNamesWitness ==
    ASSUME CheckInv, check' = check, Settled \subseteq Settled', InUse' = InUse,
           phase = "serve" => phase' = "serve"
    PROVE  CheckInv'
BY DEF CheckInv, Witnessed

LEMMA NextWitnessed == FilterTypeOK /\ CoverInv /\ CheckInv /\ [FilterNext]_filterVars => CheckInv'
<1> SUFFICES ASSUME FilterTypeOK, CoverInv, CheckInv, [FilterNext]_filterVars PROVE CheckInv'
  OBVIOUS
<1>1. CASE Start \/ SeedFromMongoDB \/ Seeded
  BY <1>1 DEF Start, SeedFromMongoDB, Seeded, CheckInv, Witnessed
<1>2. CASE Crash
  BY <1>2 DEF Crash, CheckInv, Witnessed, NoCheck
<1>3. CASE PersistToRedis
  <2> PICK g \in Savers : CopyBits(g) \/ SetCopy(g) \/ SetFails(g)
    BY <1>3 DEF PersistToRedis
  <2>1. Settled' = Settled /\ InUse' = InUse /\ check' = check
    BY DEF CopyBits, SetCopy, SetFails, Settled, InUse, Joining, stores, server, ghosts
  <2>2. phase = "serve" => phase' = "serve"
    BY DEF CopyBits, SetCopy, SetFails, Returns, server
  <2> QED
    BY <2>1, <2>2, SameNamesWitness
<1>4. CASE CreateUser
  <2> PICK s \in Signups : \/ \E n \in Names : FindUsername(s, n)
                           \/ \E a \in Accounts : InsertUser(s, a)
                           \/ InsertFails(s) \/ AddUsername(s)
    BY <1>4 DEF CreateUser
  <2>1. CASE \E a \in Accounts : InsertUser(s, a)
    BY <2>1, WatchWitnesses DEF InsertUser, server
  <2>2. CASE ~ \E a \in Accounts : InsertUser(s, a)
    <3>1. InUse' = InUse /\ check' = check /\ phase' = phase /\ unadded' \subseteq unadded
      BY <2>2 DEF FindUsername, InsertFails, AddUsername, InUse, stores, server, ghosts
    <3>2. \A t \in Signups : signup'[t].pc = "inserted" =>
            signup[t].pc = "inserted" /\ signup'[t].name = signup[t].name
      BY <2>2 DEF FindUsername, InsertFails, AddUsername, FilterTypeOK, NoCall
    <3>3. Joining' \subseteq Joining
      BY <3>2 DEF Joining
    <3>4. Settled \subseteq Settled'
      BY <3>1, <3>3 DEF Settled
    <3> QED
      BY <3>1, <3>4, SameNamesWitness
  <2> QED
    BY <2>1, <2>2
<1>5. CASE ChangeUser
  BY <1>5, WatchWitnesses DEF ChangeUser, DeleteUser, UpdateUser, server
<1>6. CASE CheckUsernameExists
  <2> PICK c \in Checks : \/ \E n \in Names : Ask(c, n)
                          \/ AskFilter(c) \/ VerifyInMongo(c) \/ Answer(c)
    BY <1>6 DEF CheckUsernameExists
  <2>1. UNCHANGED <<stores, server, saver, signup, ghosts>>
    BY DEF Ask, AskFilter, VerifyInMongo, Answer
  <2>2. Settled' = Settled /\ InUse' = InUse /\ phase' = phase
    BY <2>1 DEF Settled, InUse, Joining, stores, server, ghosts
  <2>3. \A d \in Checks : d # c => check'[d] = check[d]
    BY DEF Ask, AskFilter, VerifyInMongo, Answer, FilterTypeOK
  <2>4. Witnessed(c)'
    <3>1. CASE \E n \in Names : Ask(c, n)
      <4> PICK n \in Names : Ask(c, n)
        BY <3>1
      <4>1. check'[c] = [pc |-> "filter", name |-> n,
                         sawOpen |-> n \notin Settled, sawTaken |-> n \in InUse]
        BY DEF Ask, FilterTypeOK
      <4>2. /\ check'[c].pc = "filter" /\ check'[c].name = n
            /\ check'[c].sawOpen = (n \notin Settled) /\ check'[c].sawTaken = (n \in InUse)
        BY <4>1
      <4>3. phase = "serve"
        BY DEF Ask
      <4> QED
        BY <2>2, <4>2, <4>3 DEF Witnessed
    <3>2. CASE AskFilter(c)
      <4>1. check[c].name \in Settled => MightExist(check[c].name)
        BY <3>2 DEF AskFilter, CoverInv, CheckInv, Witnessed
      <4>2. check'[c] = [check[c] EXCEPT !.pc = IF MightExist(check[c].name) THEN "verify" ELSE "free"]
        BY <3>2 DEF AskFilter, FilterTypeOK
      <4>3. check[c] \in [pc: {"filter", "verify", "taken", "free"}, name: Names,
                          sawOpen: BOOLEAN, sawTaken: BOOLEAN]
        BY <3>2 DEF AskFilter, FilterTypeOK, NoCheck
      <4>4. /\ check'[c].name = check[c].name /\ check'[c].sawOpen = check[c].sawOpen
            /\ check'[c].sawTaken = check[c].sawTaken
            /\ check'[c].pc = IF MightExist(check[c].name) THEN "verify" ELSE "free"
        BY <4>2, <4>3
      <4> QED
        BY <2>2, <3>2, <4>1, <4>4 DEF AskFilter, CheckInv, Witnessed
    <3>3. CASE VerifyInMongo(c)
      <4>1. check'[c] = [check[c] EXCEPT !.pc = IF check[c].name \in InUse THEN "taken" ELSE "free"]
        BY <3>3 DEF VerifyInMongo, FilterTypeOK
      <4>2. check[c] \in [pc: {"filter", "verify", "taken", "free"}, name: Names,
                          sawOpen: BOOLEAN, sawTaken: BOOLEAN]
        BY <3>3 DEF VerifyInMongo, FilterTypeOK, NoCheck
      <4>3. /\ check'[c].name = check[c].name /\ check'[c].sawOpen = check[c].sawOpen
            /\ check'[c].sawTaken = check[c].sawTaken
            /\ check'[c].pc = IF check[c].name \in InUse THEN "taken" ELSE "free"
        BY <4>1, <4>2
      <4>4. /\ check[c].sawOpen \/ check[c].name \in InUse
            /\ check[c].sawTaken \/ check[c].name \notin InUse
            /\ phase = "serve"
        BY <3>3 DEF VerifyInMongo, CheckInv, Witnessed, Settled
      <4> QED
        BY <2>2, <4>3, <4>4 DEF Witnessed
    <3>4. CASE Answer(c)
      BY <3>4 DEF Answer, Witnessed, NoCheck, FilterTypeOK
    <3> QED
      BY <3>1, <3>2, <3>3, <3>4
  <2> QED
    BY <2>2, <2>3, <2>4 DEF CheckInv, Witnessed
<1>7. CASE UNCHANGED filterVars
  <2>1. Settled' = Settled /\ InUse' = InUse /\ check' = check /\ phase' = phase
    BY <1>7 DEF Settled, InUse, Joining, filterVars, stores, server, ghosts
  <2> QED
    BY <2>1, SameNamesWitness
<1> QED
  BY <1>1, <1>2, <1>3, <1>4, <1>5, <1>6, <1>7 DEF FilterNext

(* A check never answers what was false all the time it ran. *)
THEOREM ChecksTellTheTruth == FilterSpec => []ChecksAreRight
<1>1. CheckInv => ChecksAreRight
  BY DEF CheckInv, Witnessed, ChecksAreRight
<1> QED
  BY InitTypes, NextTypes, InitCovers, NextCovers, InitWitnessed, NextWitnessed, <1>1, PTL
     DEF FilterSpec

-----------------------------------------------------------------------------
(* What is stored in Redis.                                                *)

\* This process has loaded or written what is stored.
Owns == origin = "redis" \/ fresh

(* What is stored by this process, or was loaded by it, is in memory, and  *)
(* in every copy that no later write has overtaken.                        *)
StoredInv ==
    /\ phase # "down" /\ Owns => saved = NoCopy \/ saved \subseteq bits
    /\ phase = "down" => \A g \in Savers : saver[g].pc = "idle"
    /\ \A g \in Savers : saver[g].pc = "set" =>
         /\ saver[g].copy \subseteq bits
         /\ Owns /\ ~saver[g].overtaken => saved = NoCopy \/ saved \subseteq saver[g].copy

LEMMA InitStored == FilterInit => StoredInv
BY DEF FilterInit, StoredInv, Resting

LEMMA AddStores ==
    ASSUME FilterTypeOK, StoredInv, NEW n, Add(n), phase # "down", phase' # "down",
           UNCHANGED <<saved, origin, fresh>>
    PROVE  StoredInv'
<1> PICK g \in Goroutines : saver[g].pc = "idle" /\ saver' = [saver EXCEPT ![g].pc = "copy"]
  BY DEF Add
<1>1. bits \subseteq bits'
  BY DEF Add
<1>2. \A h \in Savers : saver'[h].pc = "set" => saver'[h] = saver[h]
  BY DEF FilterTypeOK, Savers
<1> QED
  BY <1>1, <1>2 DEF StoredInv, Owns

LEMMA NextStored == FilterTypeOK /\ CoverInv /\ StoredInv /\ [FilterNext]_filterVars => StoredInv'
<1> SUFFICES ASSUME FilterTypeOK, CoverInv, StoredInv, [FilterNext]_filterVars PROVE StoredInv'
  OBVIOUS
<1>1. CASE Start
  BY <1>1 DEF Start, LoadFromRedis, ColdStart, StoredInv, Owns, stores
<1>2. CASE SeedFromMongoDB
  BY <1>2, AddStores DEF SeedFromMongoDB, stores, ghosts
<1>3. CASE Seeded
  <2>1. \A h \in Savers : saver'[h].pc = "set" => saver'[h] = saver[h]
    BY <1>3 DEF Seeded, FilterTypeOK
  <2> QED
    BY <1>3, <2>1 DEF Seeded, StoredInv, Owns, stores, ghosts
<1>4. CASE Crash
  BY <1>4 DEF Crash, StoredInv, Resting
<1>5. CASE PersistToRedis
  <2> PICK g \in Savers : CopyBits(g) \/ SetCopy(g) \/ SetFails(g)
    BY <1>5 DEF PersistToRedis
  <2>0. phase # "down" /\ phase' # "down" /\ bits' = bits /\ origin' = origin
    BY DEF CopyBits, SetCopy, SetFails, Returns, StoredInv, server
  <2>1. CASE CopyBits(g)
    <3>1. saver'[g] = [pc |-> "set", copy |-> bits, overtaken |-> FALSE]
      BY <2>1 DEF CopyBits, FilterTypeOK
    <3>2. \A h \in Savers : h # g => saver'[h] = saver[h]
      BY <2>1 DEF CopyBits, FilterTypeOK
    <3> QED
      BY <2>0, <2>1, <3>1, <3>2 DEF CopyBits, StoredInv, Owns, stores, ghosts
  <2>2. CASE SetCopy(g)
    <3>1. saved' = saver[g].copy /\ saver[g].copy \subseteq bits
      BY <2>2 DEF SetCopy, StoredInv
    <3>2. saver'[g].pc = "idle"
      BY <2>2 DEF SetCopy, Resting
    <3>3. \A h \in Savers : h # g =>
            /\ saver'[h].pc = saver[h].pc /\ saver'[h].copy = saver[h].copy
            /\ saver'[h].overtaken = (saver[h].pc = "set")
      BY <2>2 DEF SetCopy, FilterTypeOK
    <3> QED
      BY <2>0, <3>1, <3>2, <3>3 DEF StoredInv
  <2>3. CASE SetFails(g)
    <3>1. \A h \in Savers : saver'[h].pc = "set" => saver'[h] = saver[h]
      BY <2>3 DEF SetFails, Resting, FilterTypeOK
    <3> QED
      BY <2>0, <2>3, <3>1 DEF SetFails, StoredInv, Owns, stores, ghosts
  <2> QED
    BY <2>1, <2>2, <2>3
<1>6. CASE CreateUser
  <2> PICK s \in Signups : \/ \E n \in Names : FindUsername(s, n)
                           \/ \E a \in Accounts : InsertUser(s, a)
                           \/ InsertFails(s) \/ AddUsername(s)
    BY <1>6 DEF CreateUser
  <2>1. CASE AddUsername(s)
    <3>1. phase = "serve" /\ phase' = "serve" /\ Add(signup[s].name)
      BY <2>1 DEF AddUsername, CoverInv
    <3> QED
      BY <2>1, <3>1, AddStores DEF AddUsername, stores
  <2>2. CASE ~AddUsername(s)
    BY <2>2 DEF FindUsername, InsertUser, InsertFails, StoredInv, Owns, stores, server, ghosts
  <2> QED
    BY <2>1, <2>2
<1>7. CASE ChangeUser \/ CheckUsernameExists
  <2>1. UNCHANGED <<saved, server, saver, fresh>>
    BY <1>7 DEF ChangeUser, DeleteUser, UpdateUser, CheckUsernameExists, Ask, AskFilter,
                VerifyInMongo, Answer, stores, ghosts
  <2> QED
    BY <2>1 DEF StoredInv, Owns, server
<1>8. CASE UNCHANGED filterVars
  BY <1>8 DEF StoredInv, Owns, filterVars, stores, server, ghosts
<1> QED
  BY <1>1, <1>2, <1>3, <1>4, <1>5, <1>6, <1>7, <1>8 DEF FilterNext

(* Redis loses a stored name only to a copy that was overtaken, or to a    *)
(* filter seeded anew.                                                     *)
THEOREM StoredNamesLast == FilterSpec => CopyForgetsOnlyIfOvertaken
<1> DEFINE Step == saved # NoCopy /\ ~(saved \subseteq saved') =>
                     \/ origin = "mongo" /\ ~fresh
                     \/ \E g \in Savers : saver[g].overtaken /\ saver'[g].pc = "idle"
<1>1. FilterTypeOK /\ StoredInv /\ [FilterNext]_filterVars => [Step]_filterVars
  <2> SUFFICES ASSUME FilterTypeOK, StoredInv, FilterNext, saved # NoCopy, ~(saved \subseteq saved'),
                      ~(origin = "mongo" /\ ~fresh)
               PROVE  \E g \in Savers : saver[g].overtaken /\ saver'[g].pc = "idle"
    OBVIOUS
  <2>1. PICK g \in Savers : SetCopy(g)
    BY DEF FilterNext, Start, SeedFromMongoDB, Seeded, Crash, PersistToRedis, CopyBits, SetFails,
           CreateUser, FindUsername, InsertUser, InsertFails, AddUsername, ChangeUser, DeleteUser,
           UpdateUser, CheckUsernameExists, Ask, AskFilter, VerifyInMongo, Answer, stores
  <2>2. Owns
    BY DEF Owns, FilterTypeOK
  <2>3. saver[g].overtaken
    BY <2>1, <2>2 DEF SetCopy, StoredInv, FilterTypeOK
  <2>4. saver'[g].pc = "idle"
    BY <2>1 DEF SetCopy, Resting
  <2> QED
    BY <2>3, <2>4
<1> QED
  BY <1>1, InitTypes, NextTypes, InitCovers, NextCovers, InitStored, NextStored, PTL
     DEF FilterSpec, CopyForgetsOnlyIfOvertaken
=============================================================================
