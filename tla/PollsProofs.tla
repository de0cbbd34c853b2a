---------------------------- MODULE PollsProofs -----------------------------
(***************************************************************************)
(* What holds of polls for any polls, options, users and numbers of        *)
(* concurrent requests, whichever of their commands fail.                  *)
(***************************************************************************)
EXTENDS Polls, FiniteSetTheorems, TLAPS

-----------------------------------------------------------------------------
(* The tokens of the votes under way, counted.                             *)

\* A token is a pair of a request and a number, so that the sum of what some
\* requests have taken is the size of a set.  "f" is the function "job".
Tokens(f, K) == {t \in Requests \X (1 .. MaxCount) : f[t[1]] \in K /\ t[2] <= f[t[1]].n}

\* What one request has of them.
Part(f, r, K) == IF f[r] \in K THEN f[r].n ELSE 0

Calls == [Requests -> Jobs \cup {NoJob}]

LEMMA TokensOfOne ==
    ASSUME NEW r, NEW n \in Nat
    PROVE  IsFiniteSet({r} \X (1 .. n)) /\ Cardinality({r} \X (1 .. n)) = n
<1>1. IsFiniteSet({r}) /\ Cardinality({r}) = 1
  BY FS_Singleton
<1>2. IsFiniteSet(1 .. n) /\ Cardinality(1 .. n) = n
  BY FS_Interval
<1>3. Cardinality({r} \X (1 .. n)) = 1 * n
  BY <1>1, <1>2, FS_Product
<1>4. IsFiniteSet({r} \X (1 .. n))
  BY <1>1, <1>2, FS_Product
<1> QED
  BY <1>3, <1>4

LEMMA DisjointUnion ==
    ASSUME NEW S, NEW T, IsFiniteSet(S), IsFiniteSet(T), S \cap T = {}
    PROVE  IsFiniteSet(S \cup T) /\ Cardinality(S \cup T) = Cardinality(S) + Cardinality(T)
BY FS_Union, FS_EmptySet, FS_CardinalityType

\* The tokens of one request and those of the others.
LEMMA TokensSplit ==
    ASSUME NEW f \in Calls, NEW K \in SUBSET Jobs, NEW r \in Requests, IsFiniteSet(Tokens(f, K))
    PROVE  LET Rest == {t \in Tokens(f, K) : t[1] # r}
           IN  /\ IsFiniteSet(Rest) /\ Part(f, r, K) \in 0 .. MaxCount
               /\ Cardinality(Tokens(f, K)) = Cardinality(Rest) + Part(f, r, K)
<1> DEFINE Rest == {t \in Tokens(f, K) : t[1] # r}
           n    == Part(f, r, K)
<1>1. n \in 0 .. MaxCount
  BY PollsAssumption DEF Part, Jobs
<1>2. Tokens(f, K) = Rest \cup ({r} \X (1 .. n))
  <2>1. ASSUME NEW t \in Tokens(f, K), t[1] = r
        PROVE  t \in {r} \X (1 .. n)
    BY <2>1 DEF Tokens, Part
  <2>2. ASSUME NEW t \in {r} \X (1 .. n)
        PROVE  t \in Tokens(f, K)
    BY <1>1, <2>2, PollsAssumption DEF Tokens, Part
  <2> QED
    BY <2>1, <2>2
<1>3. Rest \cap ({r} \X (1 .. n)) = {}
  OBVIOUS
<1>4. IsFiniteSet(Rest)
  BY FS_Subset
<1>5. IsFiniteSet({r} \X (1 .. n)) /\ Cardinality({r} \X (1 .. n)) = n
  <2>1. n \in Nat
    BY <1>1, PollsAssumption
  <2> QED
    BY <2>1, TokensOfOne
<1> HIDE DEF Rest, n
<1>6. Cardinality(Tokens(f, K)) = Cardinality(Rest) + n
  BY <1>2, <1>3, <1>4, <1>5, DisjointUnion
<1> QED
  BY <1>1, <1>4, <1>6 DEF Rest, n

\* The step of one request changes the sum by what it takes or is done with.
LEMMA OneRequestMoves ==
    ASSUME NEW f \in Calls, NEW g \in Calls, NEW r \in Requests, IsFiniteSet(Tokens(f, Jobs)),
           \A q \in Requests \ {r} : g[q] = f[q]
    PROVE  /\ IsFiniteSet(Tokens(g, Jobs))
           /\ \A K \in SUBSET Jobs :
                /\ Cardinality(Tokens(f, K)) \in Nat /\ Cardinality(Tokens(g, K)) \in Nat
                /\ Part(f, r, K) \in 0 .. Cardinality(Tokens(f, K))
                /\ Part(g, r, K) \in 0 .. Cardinality(Tokens(g, K))
                /\ Cardinality(Tokens(g, K)) + Part(f, r, K)
                     = Cardinality(Tokens(f, K)) + Part(g, r, K)
<1>1. IsFiniteSet(Tokens(g, Jobs))
  <2> DEFINE rest == {t \in Tokens(f, Jobs) : t[1] # r}
             all  == {r} \X (1 .. MaxCount)
  <2>1. IsFiniteSet(rest)
    BY FS_Subset
  <2>2. IsFiniteSet(all)
    BY TokensOfOne, PollsAssumption
  <2>3. Tokens(g, Jobs) \subseteq rest \cup all
    BY DEF Tokens
  <2> HIDE DEF rest, all
  <2>4. IsFiniteSet(rest \cup all)
    BY <2>1, <2>2, FS_Union
  <2> QED
    BY <2>3, <2>4, FS_Subset
<1> SUFFICES ASSUME NEW K \in SUBSET Jobs
             PROVE  /\ Cardinality(Tokens(f, K)) \in Nat /\ Cardinality(Tokens(g, K)) \in Nat
                    /\ Part(f, r, K) \in 0 .. Cardinality(Tokens(f, K))
                    /\ Part(g, r, K) \in 0 .. Cardinality(Tokens(g, K))
                    /\ Cardinality(Tokens(g, K)) + Part(f, r, K)
                         = Cardinality(Tokens(f, K)) + Part(g, r, K)
  BY <1>1
<1>2. IsFiniteSet(Tokens(f, K)) /\ IsFiniteSet(Tokens(g, K))
  <2>1. Tokens(f, K) \subseteq Tokens(f, Jobs) /\ Tokens(g, K) \subseteq Tokens(g, Jobs)
    BY DEF Tokens
  <2> QED
    BY <1>1, <2>1, FS_Subset
<1> DEFINE Rest(h) == {t \in Tokens(h, K) : t[1] # r}
<1>3. Rest(g) = Rest(f)
  BY DEF Tokens
<1>4. /\ IsFiniteSet(Rest(f)) /\ Part(f, r, K) \in 0 .. MaxCount
      /\ Cardinality(Tokens(f, K)) = Cardinality(Rest(f)) + Part(f, r, K)
  BY <1>2, TokensSplit
<1>5. /\ Part(g, r, K) \in 0 .. MaxCount
      /\ Cardinality(Tokens(g, K)) = Cardinality(Rest(g)) + Part(g, r, K)
  BY <1>2, TokensSplit
<1> HIDE DEF Rest
<1>6. Cardinality(Rest(f)) \in Nat
  BY <1>4, FS_CardinalityType
<1> QED
  BY <1>3, <1>4, <1>5, <1>6

\* Ledgers: functions of two or three arguments with one entry changed.
LEMMA Put2 ==
    ASSUME NEW A, NEW B, NEW S, NEW f \in [A -> [B -> S]], NEW a \in A, NEW b \in B, NEW v \in S,
           NEW g, g = [f EXCEPT ![a][b] = v]
    PROVE  /\ g \in [A -> [B -> S]]
           /\ \A x \in A, y \in B : g[x][y] = IF x = a /\ y = b THEN v ELSE f[x][y]
OBVIOUS

LEMMA Put3 ==
    ASSUME NEW A, NEW B, NEW C, NEW S, NEW f \in [A -> [B -> [C -> S]]],
           NEW a \in A, NEW b \in B, NEW c \in C, NEW v \in S,
           NEW g, g = [f EXCEPT ![a][b][c] = v]
    PROVE  /\ g \in [A -> [B -> [C -> S]]]
           /\ \A x \in A, y \in B, z \in C :
                g[x][y][z] = IF x = a /\ y = b /\ z = c THEN v ELSE f[x][y][z]
<1>1. g = [f EXCEPT ![a] = [f[a] EXCEPT ![b][c] = v]]
  OBVIOUS
<1> DEFINE h == [f[a] EXCEPT ![b][c] = v]
<1>2. h \in [B -> [C -> S]] /\ \A y \in B, z \in C : h[y][z] = IF y = b /\ z = c THEN v ELSE f[a][y][z]
  BY Put2
<1> HIDE DEF h
<1>3. g = [f EXCEPT ![a] = h]
  BY <1>1 DEF h
<1> QED
  BY <1>2, <1>3

-----------------------------------------------------------------------------
(* Types.                                                                  *)

LEMMA InitTypes == Init => TypeOK
BY PollsAssumption DEF Init, TypeOK, Tally, CreateSteps, Asleep

\* A step of CreateVote concerns its own poll.
LEMMA GoesOn ==
    ASSUME TypeOK, NEW p \in PollIds, NEW s \in CreateSteps, NEW e \in CreateSteps, Goes(p, s, e)
    PROVE  /\ creation' \in [PollIds -> CreateSteps] /\ creation'[p] \in {s, e}
           /\ \A q \in PollIds \ {p} : creation'[q] = creation[q]
BY DEF TypeOK, Goes

LEMMA CreateTypes ==
    ASSUME TypeOK, NEW p \in PollIds, CreateVote(p)
    PROVE  TypeOK'
<1> DEFINE C == creation' \in [PollIds -> CreateSteps]
           M == /\ status' \in [PollIds -> {"none", "created", "live", "closed"}]
                /\ opts' \in [PollIds -> SUBSET Options]
           R == counts' \in [PollIds -> [Options -> Tally]]
           K == known' \subseteq PollIds
           U == UNCHANGED <<active, dirty, logs, rows, job, admin, worker, taken, mine, acked, wiped>>
<1>1. CASE CreateVoteInMongo(p)
  <2>1. C
    BY <1>1, GoesOn DEF CreateVoteInMongo, CreateSteps
  <2>2. M /\ R /\ K /\ U
    BY <1>1 DEF TypeOK, CreateVoteInMongo, history
  <2> QED
    BY <2>1, <2>2 DEF TypeOK, logs
<1>2. CASE AddOptionsInMongo(p)
  <2>1. C
    BY <1>2, GoesOn DEF AddOptionsInMongo, CreateSteps
  <2>2. M /\ R /\ K /\ U
    BY <1>2 DEF TypeOK, AddOptionsInMongo, history
  <2> QED
    BY <2>1, <2>2 DEF TypeOK, logs
<1>3. CASE InitVoteInRedis(p)
  <2>1. C
    BY <1>3, GoesOn DEF InitVoteInRedis, CreateSteps
  <2>2. PICK S \in SUBSET Options :
          counts' = [counts EXCEPT ![p] = [o \in Options |-> IF o \in S THEN 0 ELSE counts[p][o]]]
    BY <1>3 DEF InitVoteInRedis
  <2>3. [o \in Options |-> IF o \in S THEN 0 ELSE counts[p][o]] \in [Options -> Tally]
    BY DEF TypeOK, Tally
  <2>4. R
    BY <2>2, <2>3 DEF TypeOK
  <2>5. M /\ K /\ U
    BY <1>3 DEF TypeOK, InitVoteInRedis, history, mongo
  <2> QED
    BY <2>1, <2>4, <2>5 DEF TypeOK, logs
<1>4. CASE UpdateStatus(p)
  <2>1. C
    BY <1>4, GoesOn DEF UpdateStatus, CreateSteps
  <2>2. M /\ R /\ K /\ U
    BY <1>4 DEF TypeOK, UpdateStatus, SetStatus
  <2> QED
    BY <2>1, <2>2 DEF TypeOK, logs
<1>5. CASE Rollback(p)
  <2>1. C
    BY <1>5 DEF TypeOK, Rollback, CreateSteps
  <2>2. M /\ R /\ K /\ U
    BY <1>5 DEF TypeOK, Rollback, history
  <2> QED
    BY <2>1, <2>2 DEF TypeOK, logs
<1> QED
  BY <1>1, <1>2, <1>3, <1>4, <1>5 DEF CreateVote

\* A request that goes on keeps its user, poll, option and tokens.
LEMMA JobGoesOn ==
    ASSUME TypeOK, NEW r \in Requests, job[r] # NoJob, NEW s \in VoteSteps, NEW t \in Nat
    PROVE  /\ job[r] \in Jobs
           /\ [job[r] EXCEPT !.pc = s, !.total = t] \in Jobs
           /\ [job[r] EXCEPT !.pc = s, !.total = t]
                = [pc |-> s, user |-> job[r].user, poll |-> job[r].poll, opt |-> job[r].opt,
                   n |-> job[r].n, total |-> t, late |-> job[r].late]
           /\ [job[r] EXCEPT !.pc = s]
                = [pc |-> s, user |-> job[r].user, poll |-> job[r].poll, opt |-> job[r].opt,
                   n |-> job[r].n, total |-> job[r].total, late |-> job[r].late]
           /\ [job[r] EXCEPT !.pc = s] \in Jobs
           /\ job[r].user \in Users /\ job[r].poll \in PollIds /\ job[r].opt \in Options
           /\ job[r].n \in 1 .. MaxCount /\ job[r].n \in Nat /\ job[r].total \in Nat
           /\ job[r].pc \in VoteSteps
<1> DEFINE j == job[r]
<1>1. j \in Jobs
  BY DEF TypeOK
<1> HIDE DEF j
<1>2. /\ j.user \in Users /\ j.poll \in PollIds /\ j.opt \in Options
      /\ j.n \in 1 .. MaxCount /\ j.n \in Nat /\ j.total \in Nat /\ j.pc \in VoteSteps
  BY <1>1, PollsAssumption DEF Jobs
<1> DEFINE x == [j EXCEPT !.pc = s]
<1>7. x = [pc |-> s, user |-> j.user, poll |-> j.poll, opt |-> j.opt,
           n |-> j.n, total |-> j.total, late |-> j.late]
  BY <1>1 DEF Jobs
<1>3. [j EXCEPT !.pc = s, !.total = t]
        = [pc |-> s, user |-> j.user, poll |-> j.poll, opt |-> j.opt,
           n |-> j.n, total |-> t, late |-> j.late]
  <2>1. [j EXCEPT !.pc = s, !.total = t] = [x EXCEPT !.total = t]
    OBVIOUS
  <2> HIDE DEF x
  <2> QED
    BY <1>7, <2>1
<1>4. [j EXCEPT !.pc = s, !.total = t] \in Jobs
  BY <1>1, <1>3 DEF Jobs
<1>5. [j EXCEPT !.pc = s]
        = [pc |-> s, user |-> j.user, poll |-> j.poll, opt |-> j.opt,
           n |-> j.n, total |-> j.total, late |-> j.late]
  BY <1>7
<1>6. [j EXCEPT !.pc = s] \in Jobs
  BY <1>1, <1>5 DEF Jobs
<1> QED
  BY <1>1, <1>2, <1>3, <1>4, <1>5, <1>6 DEF j

LEMMA JobPut ==
    ASSUME TypeOK, NEW r \in Requests, NEW j \in Jobs \cup {NoJob}, job' = [job EXCEPT ![r] = j]
    PROVE  job \in Calls /\ job' \in Calls /\ job'[r] = j /\ \A q \in Requests \ {r} : job'[q] = job[q]
BY DEF TypeOK, Calls

\* The step of a vote changes its own request alone, and nothing of polls.
LEMMA VoteMoves ==
    ASSUME TypeOK, NEW r \in Requests, AddVote(r)
    PROVE  /\ \E j \in Jobs \cup {NoJob} : job' = [job EXCEPT ![r] = j]
           /\ UNCHANGED <<mongo, rows, creation, admin, worker, known, wiped>>
<1> USE DEF mongo, history
<1>1. ASSUME NEW u \in Users, NEW p \in PollIds, NEW o \in Options, NEW n \in 1 .. MaxCount,
             BeginVote(r, u, p, o, n)
      PROVE  /\ \E j \in Jobs \cup {NoJob} : job' = [job EXCEPT ![r] = j]
             /\ UNCHANGED <<mongo, rows, creation, admin, worker, known, wiped>>
  BY <1>1 DEF BeginVote, Jobs, VoteSteps
<1>2. CASE ReadMeta(r)
  <2>1. PICK t \in {NewTotal(meta[job[r].user][job[r].poll], job[r].opt, job[r].n), job[r].n} :
          job' = [job EXCEPT ![r] = [job[r] EXCEPT !.pc = "zadd", !.total = t]]
    BY <1>2 DEF ReadMeta
  <2>2. job[r] # NoJob
    BY <1>2 DEF ReadMeta, NoJob
  <2>3. t \in Nat
    <3>1. /\ job[r].user \in Users /\ job[r].poll \in PollIds
          /\ job[r].n \in Nat
      BY <2>2, JobGoesOn DEF VoteSteps
    <3>2. meta[job[r].user][job[r].poll] \in [opt: Options, total: Nat] \cup {NoMeta}
      BY <3>1 DEF TypeOK
    <3>3. meta[job[r].user][job[r].poll].total \in Nat
      BY <3>2 DEF NoMeta
    <3> QED
      BY <2>1, <3>1, <3>3 DEF NewTotal
  <2>4. [job[r] EXCEPT !.pc = "zadd", !.total = t] \in Jobs
    BY <2>2, <2>3, JobGoesOn DEF VoteSteps
  <2> QED
    BY <1>2, <2>1, <2>4 DEF ReadMeta
<1>3. CASE LogPoll(r) \/ LogTotal(r) \/ Count(r) \/ MarkDirty(r)
  <2>1. job[r] # NoJob
    BY <1>3 DEF LogPoll, LogTotal, Count, MarkDirty, NoJob
  <2>2. ASSUME NEW s \in VoteSteps
        PROVE  [job[r] EXCEPT !.pc = s] \in Jobs
    BY <2>1, JobGoesOn
  <2>3. \E s \in VoteSteps : job' = [job EXCEPT ![r] = [job[r] EXCEPT !.pc = s]]
    BY <1>3 DEF LogPoll, LogTotal, Count, MarkDirty, VoteSteps
  <2> QED
    BY <1>3, <2>2, <2>3 DEF LogPoll, LogTotal, Count, MarkDirty
<1>4. CASE MarkActive(r) \/ AbortVote(r)
  BY <1>4 DEF MarkActive, AbortVote
<1> QED
  BY <1>1, <1>2, <1>3, <1>4 DEF AddVote

LEMMA VoteTypes ==
    ASSUME TypeOK, NEW r \in Requests, AddVote(r)
    PROVE  TypeOK'
<1>1. job' \in Calls
  BY VoteMoves, JobPut
<1>2. UNCHANGED <<mongo, rows, creation, admin, worker, known, wiped>>
  BY VoteMoves
<1> DEFINE Counts == counts \in [PollIds -> [Options -> Tally]]
           Sets   == active \subseteq PollIds /\ dirty \subseteq PollIds
           Voted  == voted \in [Users -> SUBSET PollIds]
           Meta   == meta \in [Users -> [PollIds -> [opt: Options, total: Nat] \cup {NoMeta}]]
           Paid   == /\ taken \in [PollIds -> [Options -> Nat]]
                     /\ mine \in [Users -> [PollIds -> [Options -> Nat]]]
           Acked  == acked \in [PollIds -> [Options -> Nat]]
           Rest   == Counts /\ Sets /\ Voted /\ Meta /\ Paid /\ Acked
<1>3. Counts /\ Sets /\ Voted /\ Meta /\ Paid /\ Acked
  BY DEF TypeOK
<1>4. ASSUME NEW u \in Users, NEW p \in PollIds, NEW o \in Options, NEW n \in 1 .. MaxCount,
             BeginVote(r, u, p, o, n)
      PROVE  Rest'
  <2>1. n \in Nat
    BY PollsAssumption
  <2>2. taken[p][o] + n \in Nat /\ mine[u][p][o] + n \in Nat
    BY <1>3, <2>1
  <2>3. taken' = [taken EXCEPT ![p][o] = taken[p][o] + n]
        /\ mine' = [mine EXCEPT ![u][p][o] = mine[u][p][o] + n]
    BY <1>4 DEF BeginVote
  <2>4. taken' \in [PollIds -> [Options -> Nat]]
    BY <1>3, <2>2, <2>3, Put2
  <2>5. mine' \in [Users -> [PollIds -> [Options -> Nat]]]
    BY <1>3, <2>2, <2>3, Put3
  <2> QED
    BY <1>3, <1>4, <2>4, <2>5 DEF BeginVote, logs
<1>5. ASSUME AbortVote(r) \/ ReadMeta(r)
      PROVE  Rest'
  BY <1>3, <1>5 DEF AbortVote, ReadMeta, logs, history
<1>6. ASSUME LogPoll(r) \/ LogTotal(r) \/ Count(r) \/ MarkDirty(r) \/ MarkActive(r)
      PROVE  Rest'
  <2>1. job[r] # NoJob
    BY <1>6 DEF LogPoll, LogTotal, Count, MarkDirty, MarkActive, NoJob
  <2>2. /\ job[r].user \in Users /\ job[r].poll \in PollIds /\ job[r].opt \in Options
        /\ job[r].n \in Nat /\ job[r].total \in Nat
    BY <2>1, JobGoesOn DEF VoteSteps
  <2>3. ASSUME LogPoll(r)
        PROVE  Rest'
    <3>1. Voted'
      BY <1>3, <2>2, <2>3 DEF LogPoll
    <3> QED
      BY <1>3, <2>3, <3>1 DEF LogPoll, history
  <2>4. ASSUME LogTotal(r)
        PROVE  Rest'
    <3>1. [opt |-> job[r].opt, total |-> job[r].total] \in [opt: Options, total: Nat]
      BY <2>2
    <3>2. Meta'
      BY <1>3, <2>2, <2>4, <3>1 DEF LogTotal
    <3> QED
      BY <1>3, <2>4, <3>2 DEF LogTotal, history
  <2>5. ASSUME Count(r)
        PROVE  Rest'
    <3>1. HIncrBy(counts[job[r].poll][job[r].opt], job[r].n) \in Tally
      BY <1>3, <2>2 DEF HIncrBy, Tally
    <3>2. Counts'
      BY <1>3, <2>2, <2>5, <3>1 DEF Count
    <3> QED
      BY <1>3, <2>5, <3>2 DEF Count, logs, history
  <2>6. ASSUME MarkDirty(r)
        PROVE  Rest'
    BY <1>3, <2>2, <2>6 DEF MarkDirty, logs, history
  <2>7. ASSUME MarkActive(r)
        PROVE  Rest'
    <3>1. acked[job[r].poll][job[r].opt] + job[r].n \in Nat
      BY <1>3, <2>2
    <3>2. \/ acked' = acked
          \/ acked' = [acked EXCEPT ![job[r].poll][job[r].opt]
                                 = acked[job[r].poll][job[r].opt] + job[r].n]
      BY <2>7 DEF MarkActive
    <3>3. ASSUME acked' # acked
          PROVE  acked' \in [PollIds -> [Options -> Nat]]
      <4>1. acked \in [PollIds -> [Options -> Nat]] /\ job[r].poll \in PollIds /\ job[r].opt \in Options
        BY <1>3, <2>2
      <4>2. acked' = [acked EXCEPT ![job[r].poll][job[r].opt]
                                 = acked[job[r].poll][job[r].opt] + job[r].n]
        BY <3>2, <3>3
      <4> HIDE DEF Acked
      <4> QED
        BY <3>1, <4>1, <4>2, Put2
    <3> QED
      BY <1>3, <2>2, <2>7, <3>3 DEF MarkActive, logs
  <2> QED
    BY <1>6, <2>3, <2>4, <2>5, <2>6, <2>7
<1>7. Rest'
  <2> HIDE DEF Rest
  <2> QED
    BY <1>4, <1>5, <1>6 DEF AddVote
<1> QED
  BY <1>1, <1>2, <1>7 DEF TypeOK, Calls, mongo


LEMMA AdminTypes ==
    ASSUME TypeOK, NEW a \in Admins, CloseOrDelete(a)
    PROVE  TypeOK'
<1> DEFINE Tasks == [pc: {"close", "closeDel", "load", "del", "remove"}, poll: PollIds]
           A == admin' \in [Admins -> Tasks \cup {NoTask}]
           M == status' \in [PollIds -> {"none", "created", "live", "closed"}]
           R == counts' \in [PollIds -> [Options -> Tally]] /\ wiped' \subseteq PollIds
           K == known' \subseteq PollIds
           U == UNCHANGED <<opts, active, dirty, logs, rows, creation, job, worker, taken, mine, acked>>
<1>1. ASSUME NEW pc \in {"closeDel", "del", "remove"}, admin[a] # NoTask, To(a, pc)
      PROVE  A
  <2> DEFINE t == admin[a]
  <2>1. t \in Tasks
    BY <1>1 DEF TypeOK
  <2>2. [t EXCEPT !.pc = pc] \in Tasks
    BY <2>1
  <2>3. admin' = [admin EXCEPT ![a] = [t EXCEPT !.pc = pc]]
    BY <1>1 DEF To
  <2> HIDE DEF t
  <2> QED
    BY <2>2, <2>3 DEF TypeOK
<1>2. ASSUME Ends(a)
      PROVE  A
  BY <1>2 DEF Ends, TypeOK
<1>3. ASSUME NEW p \in PollIds, Wipe(p)
      PROVE  R
  BY <1>3 DEF Wipe, TypeOK, Tally
<1>4. ASSUME admin[a] # NoTask
      PROVE  admin[a].poll \in PollIds
  BY <1>4 DEF TypeOK
<1> HIDE DEF A, R
<1>5. CASE \E p \in PollIds, pc \in {"close", "load"} : Ask(a, p, pc)
  <2>1. A
    BY <1>5 DEF A, Ask, TypeOK
  <2>2. M /\ R /\ K /\ U
    BY <1>5 DEF TypeOK, R, Ask, mongo, history
  <2> QED
    BY <2>1, <2>2 DEF TypeOK, logs, A, R
<1>6. CASE CloseVoteInMongo(a)
  <2>1. A
    BY <1>1, <1>2, <1>6 DEF CloseVoteInMongo, NoTask
  <2>2. M /\ R /\ K /\ U
    BY <1>4, <1>6 DEF TypeOK, R, CloseVoteInMongo, NoTask, SetStatus, history
  <2> QED
    BY <2>1, <2>2 DEF TypeOK, logs, A, R
<1>7. CASE CloseDeleteInRedis(a)
  <2>1. A
    BY <1>2, <1>7 DEF CloseDeleteInRedis
  <2>2. admin[a].poll \in PollIds
    BY <1>4, <1>7 DEF CloseDeleteInRedis, NoTask
  <2>3. R
    <3>1. Wipe(admin[a].poll) \/ UNCHANGED <<counts, wiped>>
      BY <1>7 DEF CloseDeleteInRedis
    <3> QED
      BY <1>3, <2>2, <3>1 DEF R, TypeOK
  <2>4. M /\ K /\ U
    BY <1>7 DEF TypeOK, CloseDeleteInRedis, mongo
  <2> QED
    BY <2>1, <2>3, <2>4 DEF TypeOK, logs, A, R
<1>8. CASE LoadForDelete(a)
  <2>1. A
    BY <1>1, <1>2, <1>8 DEF LoadForDelete, NoTask
  <2>2. M /\ R /\ K /\ U
    BY <1>8 DEF TypeOK, R, LoadForDelete, mongo, history
  <2> QED
    BY <2>1, <2>2 DEF TypeOK, logs, A, R
<1>9. CASE DeleteVoteInRedis(a)
  <2>1. A
    BY <1>1, <1>9 DEF DeleteVoteInRedis, NoTask
  <2>2. admin[a].poll \in PollIds
    BY <1>4, <1>9 DEF DeleteVoteInRedis, NoTask
  <2>3. R
    <3>1. Wipe(admin[a].poll) \/ UNCHANGED <<counts, wiped>>
      BY <1>9 DEF DeleteVoteInRedis
    <3> QED
      BY <1>3, <2>2, <3>1 DEF R, TypeOK
  <2>4. M /\ K /\ U
    BY <1>9 DEF TypeOK, DeleteVoteInRedis, mongo
  <2> QED
    BY <2>1, <2>3, <2>4 DEF TypeOK, logs, A, R
<1>10. CASE HardDeleteVote(a)
  <2>1. A
    BY <1>2, <1>10 DEF HardDeleteVote
  <2>2. M
    BY <1>10 DEF TypeOK, HardDeleteVote
  <2>3. R /\ K /\ U
    BY <1>10 DEF TypeOK, R, HardDeleteVote, history
  <2> QED
    BY <2>1, <2>2, <2>3 DEF TypeOK, logs, A, R
<1> QED
  BY <1>5, <1>6, <1>7, <1>8, <1>9, <1>10 DEF CloseOrDelete

\* What the worker has read is rows, and what it inserts is counts.
LEMMA SnapTypes ==
    ASSUME TypeOK, Snapshot
    PROVE  TypeOK'
<1> DEFINE W == worker' \in [pc: {"idle", "pick", "get"}, polls: SUBSET PollIds,
                             fields: SUBSET (PollIds \X Options), got: SUBSET Rows]
           R == rows' \in [PollIds -> [Options -> Tally]]
<1>1. /\ worker \in [pc: {"idle", "pick", "get"}, polls: SUBSET PollIds,
                     fields: SUBSET (PollIds \X Options), got: SUBSET Rows]
      /\ counts \in [PollIds -> [Options -> Tally]] /\ active \subseteq PollIds
      /\ rows \in [PollIds -> [Options -> Tally]]
  BY DEF TypeOK
<1>2. ASSUME SnapStart
      PROVE  W /\ R
  BY <1>1, <1>2 DEF SnapStart
<1>3. ASSUME NEW p \in PollIds, SnapFields(p)
      PROVE  W /\ R
  <2>1. PICK F \in SUBSET Options :
          worker' = [worker EXCEPT !.pc = IF F = {} THEN "pick" ELSE "get",
                                   !.polls = worker.polls \ {p}, !.fields = {p} \X F]
    BY <1>3 DEF SnapFields
  <2>2. {p} \X F \subseteq PollIds \X Options
    OBVIOUS
  <2>3. W
    BY <1>1, <2>1, <2>2
  <2> QED
    BY <1>1, <1>3, <2>3 DEF SnapFields
<1>4. ASSUME NEW p \in PollIds, NEW o \in Options, SnapGet(p, o)
      PROVE  W /\ R
  <2> DEFINE row == [poll |-> p, opt |-> o, count |-> counts[p][o]]
  <2>1. counts[p][o] # Absent => row \in Rows
    BY <1>1 DEF Rows, Tally
  <2>2. PICK G \in {{}, IF counts[p][o] = Absent THEN {} ELSE {row}} :
          worker' = [worker EXCEPT !.pc = IF worker.fields \ {<<p, o>>} = {} THEN "pick" ELSE "get",
                                   !.fields = worker.fields \ {<<p, o>>}, !.got = worker.got \cup G]
    BY <1>4 DEF SnapGet
  <2>3. G \subseteq Rows
    BY <2>1, <2>2
  <2> HIDE DEF row
  <2>4. W
    BY <1>1, <2>2, <2>3
  <2> QED
    BY <1>1, <1>4, <2>4 DEF SnapGet
<1>5. ASSUME SnapInsert
      PROVE  W /\ R
  <2>1. W
    BY <1>5 DEF SnapInsert, Asleep
  <2> DEFINE new(p, o) == IF \E g \in worker.got : g.poll = p /\ g.opt = o
                          THEN (CHOOSE g \in worker.got : g.poll = p /\ g.opt = o).count
                          ELSE rows[p][o]
  <2>2. ASSUME NEW p \in PollIds, NEW o \in Options
        PROVE  new(p, o) \in Tally
    BY <1>1 DEF Rows, Tally
  <2>3. rows' = [p \in PollIds |-> [o \in Options |-> new(p, o)]] \/ rows' = rows
    BY <1>5 DEF SnapInsert
  <2> HIDE DEF new
  <2>4. R
    BY <1>1, <2>2, <2>3
  <2> QED
    BY <2>1, <2>4
<1>6. W /\ R
  <2> HIDE DEF W, R
  <2> QED
    BY <1>2, <1>3, <1>4, <1>5 DEF Snapshot
<1>7. UNCHANGED Others
  BY DEF Snapshot, SnapStart, SnapFields, SnapGet, SnapInsert
<1> QED
  BY <1>6, <1>7 DEF TypeOK, Others, mongo, logs, history

LEMMA NextTypes == TypeOK /\ [Next]_vars => TypeOK'
<1> SUFFICES ASSUME TypeOK, [Next]_vars
             PROVE  TypeOK'
  OBVIOUS
<1>1. ASSUME NEW u \in Users, ForgetUser(u)
      PROVE  TypeOK'
  <2>1. voted' \in [Users -> SUBSET PollIds]
    BY <1>1 DEF TypeOK, ForgetUser
  <2>2. meta' \in [Users -> [PollIds -> [opt: Options, total: Nat] \cup {NoMeta}]]
    <3>1. [p \in PollIds |-> NoMeta] \in [PollIds -> [opt: Options, total: Nat] \cup {NoMeta}]
      OBVIOUS
    <3> QED
      BY <1>1, <3>1 DEF TypeOK, ForgetUser
  <2> QED
    BY <1>1, <2>1, <2>2 DEF TypeOK, ForgetUser, mongo, history
<1>2. CASE PopDirtyPolls
  BY <1>2 DEF TypeOK, PopDirtyPolls, mongo, logs, history
<1>3. CASE UNCHANGED vars
  BY <1>3 DEF TypeOK, vars, mongo, logs, history
<1> QED
  BY <1>1, <1>2, <1>3, CreateTypes, VoteTypes, AdminTypes, SnapTypes DEF Next

\* The types of a poll's state in the three stores, for any number of polls,
\* options, users and requests.
THEOREM PollTypes == Spec => []TypeOK
BY InitTypes, NextTypes, PTL DEF Spec


-----------------------------------------------------------------------------
(* The inductive invariant.                                                *)

\* The votes of a tally; a field that is missing holds none.
Votes(c) == IF c = Absent THEN 0 ELSE c

\* What the requests of a kind have taken together.
Sum(K) == Cardinality(Tokens(job, K))

\* Requests for an option that are still to be counted, that are counted but
\* not answered, and, of one user, that have not yet read the user's record.
Uncounted(p, o) ==
    {j \in Jobs : j.pc \in {"read", "zadd", "hset", "incr"} /\ j.poll = p /\ j.opt = o}
Counted(p, o) == {j \in Jobs : j.pc \in {"dirty", "active"} /\ j.poll = p /\ j.opt = o}
Unread(u, p, o) == {j \in Jobs : j.pc = "read" /\ j.user = u /\ j.poll = p /\ j.opt = o}

Making == {"insert", "options", "redis", "status"}

\* Nobody votes on, closes, deletes or snapshots a poll that is not listed,
\* and a poll whose creation still goes on is not listed.
KnownInv ==
    /\ \A p \in PollIds : creation[p] \in Making => p \notin known /\ status[p] \in {"none", "created"}
    /\ active \subseteq known /\ wiped \subseteq known /\ worker.polls \subseteq known
    /\ \A f \in worker.fields : f[1] \in known
    /\ \A g \in worker.got : g.poll \in known
    /\ \A r \in Requests : job[r] # NoJob => job[r].poll \in known
    /\ \A a \in Admins : admin[a] # NoTask => admin[a].poll \in known
    /\ \A p \in PollIds \ known, o \in Options : acked[p][o] = 0 /\ rows[p][o] = Absent

\* What CreateVote has written of a poll by the time it lists it.
CompleteInv ==
    \A p \in PollIds :
        /\ creation[p] \in {"redis", "status"} => opts[p] = Options
        /\ creation[p] = "status" => \A o \in Options : counts[p][o] # Absent
        /\ status[p] = "live" => /\ opts[p] = Options
                                 /\ p \in wiped \/ \A o \in Options : counts[p][o] # Absent

FiniteInv == IsFiniteSet(Tokens(job, Jobs))

\* Every token taken is counted once at most: what is counted and what is
\* still to be counted fit into what was taken.
PaidInv ==
    /\ \A p \in PollIds, o \in Options : Votes(counts[p][o]) + Sum(Uncounted(p, o)) <= taken[p][o]
    /\ \A p \in PollIds, o \in Options : rows[p][o] <= taken[p][o]
    /\ \A g \in worker.got : g.count <= taken[g.poll][g.opt]

\* A user's record, and what a request is about to write into it, leave room
\* for the requests that have not read it yet.
MineInv ==
    /\ \A u \in Users, p \in PollIds, o \in Options : Sum(Unread(u, p, o)) <= mine[u][p][o]
    /\ \A u \in Users, p \in PollIds : meta[u][p] # NoMeta =>
          meta[u][p].total + Sum(Unread(u, p, meta[u][p].opt)) <= mine[u][p][meta[u][p].opt]
    /\ \A r \in Requests : job[r] # NoJob /\ job[r].pc # "read" =>
          job[r].total + Sum(Unread(job[r].user, job[r].poll, job[r].opt))
            <= mine[job[r].user][job[r].poll][job[r].opt]

\* The tally of a poll that nothing has wiped holds the votes that were
\* answered and those that are about to be.
AckInv ==
    \A p \in PollIds \ wiped, o \in Options :
        acked[p][o] + Sum(Counted(p, o)) <= Votes(counts[p][o])

\* The tally has only grown since the worker read it, and it read it after
\* the row before was written.
HistoryInv ==
    /\ \A p \in PollIds \ wiped, o \in Options : rows[p][o] <= counts[p][o]
    /\ \A g \in worker.got : g.poll \notin wiped =>
          rows[g.poll][g.opt] <= g.count /\ g.count <= counts[g.poll][g.opt]

PollsInv == /\ TypeOK /\ KnownInv /\ CompleteInv /\ FiniteInv
            /\ PaidInv /\ MineInv /\ AckInv /\ HistoryInv

-----------------------------------------------------------------------------
(* How the sums move.                                                      *)

Amount(j, K) == IF j \in K THEN j.n ELSE 0

LEMMA SumMoves ==
    ASSUME TypeOK, FiniteInv, NEW r \in Requests, NEW j \in Jobs \cup {NoJob},
           job' = [job EXCEPT ![r] = j]
    PROVE  /\ FiniteInv' /\ job[r] \in Jobs \cup {NoJob}
           /\ \A K \in SUBSET Jobs :
                /\ Sum(K) \in Nat /\ Sum(K)' \in Nat
                /\ Amount(job[r], K) \in 0 .. Sum(K) /\ Amount(j, K) \in 0 .. Sum(K)'
                /\ Sum(K)' + Amount(job[r], K) = Sum(K) + Amount(j, K)
<1>1. job \in Calls /\ job' \in Calls /\ job'[r] = j /\ \A q \in Requests \ {r} : job'[q] = job[q]
  BY JobPut
<1>2. IsFiniteSet(Tokens(job, Jobs))
  BY DEF FiniteInv
<1>3. /\ IsFiniteSet(Tokens(job', Jobs))
      /\ \A K \in SUBSET Jobs :
           /\ Cardinality(Tokens(job, K)) \in Nat /\ Cardinality(Tokens(job', K)) \in Nat
           /\ Part(job, r, K) \in 0 .. Cardinality(Tokens(job, K))
           /\ Part(job', r, K) \in 0 .. Cardinality(Tokens(job', K))
           /\ Cardinality(Tokens(job', K)) + Part(job, r, K)
                = Cardinality(Tokens(job, K)) + Part(job', r, K)
  BY <1>1, <1>2, OneRequestMoves
<1>4. ASSUME NEW K \in SUBSET Jobs
      PROVE  /\ Part(job, r, K) = Amount(job[r], K) /\ Part(job', r, K) = Amount(j, K)
             /\ Sum(K) = Cardinality(Tokens(job, K)) /\ Sum(K)' = Cardinality(Tokens(job', K))
  BY <1>1 DEF Part, Amount, Sum
<1>5. FiniteInv' /\ job[r] \in Jobs \cup {NoJob}
  BY <1>1, <1>3 DEF FiniteInv, Calls
<1>6. ASSUME NEW K \in SUBSET Jobs
      PROVE  /\ Sum(K) \in Nat /\ Sum(K)' \in Nat
             /\ Amount(job[r], K) \in 0 .. Sum(K) /\ Amount(j, K) \in 0 .. Sum(K)'
             /\ Sum(K)' + Amount(job[r], K) = Sum(K) + Amount(j, K)
  BY <1>3, <1>4
<1> QED
  BY <1>5, <1>6

\* Sums are numbers.
LEMMA SumIsNat ==
    ASSUME FiniteInv, NEW K \in SUBSET Jobs
    PROVE  Sum(K) \in Nat
<1>1. Tokens(job, K) \subseteq Tokens(job, Jobs)
  BY DEF Tokens
<1> QED
  BY <1>1, FS_Subset, FS_CardinalityType DEF FiniteInv, Sum

LEMMA Amounts ==
    ASSUME NEW j \in Jobs, NEW u \in Users, NEW p \in PollIds, NEW o \in Options
    PROVE  /\ Amount(j, Uncounted(p, o)) = IF /\ j.pc \in {"read", "zadd", "hset", "incr"}
                                              /\ j.poll = p /\ j.opt = o THEN j.n ELSE 0
           /\ Amount(j, Counted(p, o)) = IF /\ j.pc \in {"dirty", "active"}
                                            /\ j.poll = p /\ j.opt = o THEN j.n ELSE 0
           /\ Amount(j, Unread(u, p, o)) = IF /\ j.pc = "read" /\ j.user = u
                                              /\ j.poll = p /\ j.opt = o THEN j.n ELSE 0
           /\ Uncounted(p, o) \in SUBSET Jobs /\ Counted(p, o) \in SUBSET Jobs
           /\ Unread(u, p, o) \in SUBSET Jobs
           /\ Amount(NoJob, Uncounted(p, o)) = 0 /\ Amount(NoJob, Counted(p, o)) = 0
           /\ Amount(NoJob, Unread(u, p, o)) = 0
<1>1. NoJob \notin Jobs
  BY DEF NoJob, Jobs, VoteSteps
<1> QED
  BY <1>1 DEF Amount, Uncounted, Counted, Unread

\* The request after a step of AddVote, step by step.
LEMMA NextJob ==
    ASSUME TypeOK, NEW r \in Requests
    PROVE  LET j     == job[r]
               At(s) == [pc |-> s, user |-> j.user, poll |-> j.poll, opt |-> j.opt,
                         n |-> j.n, total |-> j.total, late |-> j.late]
           IN  /\ LogPoll(r) => j \in Jobs /\ j.pc = "zadd" /\ job' = [job EXCEPT ![r] = At("hset")]
               /\ LogTotal(r) => j \in Jobs /\ j.pc = "hset" /\ job' = [job EXCEPT ![r] = At("incr")]
               /\ Count(r) => j \in Jobs /\ j.pc = "incr" /\ job' = [job EXCEPT ![r] = At("dirty")]
               /\ MarkDirty(r) => j \in Jobs /\ j.pc = "dirty" /\ job' = [job EXCEPT ![r] = At("active")]
               /\ MarkActive(r) => j \in Jobs /\ j.pc = "active" /\ job' = [job EXCEPT ![r] = NoJob]
               /\ j \in Jobs => \A s \in VoteSteps : At(s) \in Jobs
<1> DEFINE j     == job[r]
           At(s) == [pc |-> s, user |-> j.user, poll |-> j.poll, opt |-> j.opt,
                     n |-> j.n, total |-> j.total, late |-> j.late]
<1>1. j \in Jobs \cup {NoJob}
  BY DEF TypeOK
<1>2. ASSUME NEW s \in VoteSteps, j # NoJob
      PROVE  [j EXCEPT !.pc = s] = At(s)
  BY <1>2, JobGoesOn DEF VoteSteps
<1>3. LogPoll(r) => j # NoJob /\ j.pc = "zadd" /\ job' = [job EXCEPT ![r] = [j EXCEPT !.pc = "hset"]]
  BY DEF LogPoll, NoJob
<1>4. LogTotal(r) => j # NoJob /\ j.pc = "hset" /\ job' = [job EXCEPT ![r] = [j EXCEPT !.pc = "incr"]]
  BY DEF LogTotal, NoJob
<1>5. Count(r) => j # NoJob /\ j.pc = "incr" /\ job' = [job EXCEPT ![r] = [j EXCEPT !.pc = "dirty"]]
  BY DEF Count, NoJob
<1>6. MarkDirty(r) => j # NoJob /\ j.pc = "dirty" /\ job' = [job EXCEPT ![r] = [j EXCEPT !.pc = "active"]]
  BY DEF MarkDirty, NoJob
<1>7. MarkActive(r) => j # NoJob /\ j.pc = "active" /\ job' = [job EXCEPT ![r] = NoJob]
  BY DEF MarkActive, NoJob
<1>8. j \in Jobs => \A s \in VoteSteps : At(s) \in Jobs
  BY DEF Jobs
<1>9. \A s \in VoteSteps : j # NoJob => [j EXCEPT !.pc = s] = At(s)
  BY <1>2
<1> HIDE DEF j, At
<1>10. /\ LogPoll(r) => j \in Jobs /\ j.pc = "zadd" /\ job' = [job EXCEPT ![r] = At("hset")]
       /\ LogTotal(r) => j \in Jobs /\ j.pc = "hset" /\ job' = [job EXCEPT ![r] = At("incr")]
       /\ Count(r) => j \in Jobs /\ j.pc = "incr" /\ job' = [job EXCEPT ![r] = At("dirty")]
       /\ MarkDirty(r) => j \in Jobs /\ j.pc = "dirty" /\ job' = [job EXCEPT ![r] = At("active")]
       /\ MarkActive(r) => j \in Jobs /\ j.pc = "active" /\ job' = [job EXCEPT ![r] = NoJob]
  BY <1>1, <1>3, <1>4, <1>5, <1>6, <1>7, <1>9 DEF VoteSteps
<1> QED
  BY <1>8, <1>10 DEF j, At


\* The same, field by field.
LEMMA NextFields ==
    ASSUME TypeOK, NEW r \in Requests,
           LogPoll(r) \/ LogTotal(r) \/ Count(r) \/ MarkDirty(r)
    PROVE  /\ job[r] \in Jobs /\ job'[r] \in Jobs /\ job' = [job EXCEPT ![r] = job'[r]]
           /\ job'[r].user = job[r].user /\ job'[r].poll = job[r].poll /\ job'[r].opt = job[r].opt
           /\ job'[r].n = job[r].n /\ job'[r].total = job[r].total
           /\ LogPoll(r) => job[r].pc = "zadd" /\ job'[r].pc = "hset"
           /\ LogTotal(r) => job[r].pc = "hset" /\ job'[r].pc = "incr"
           /\ Count(r) => job[r].pc = "incr" /\ job'[r].pc = "dirty"
           /\ MarkDirty(r) => job[r].pc = "dirty" /\ job'[r].pc = "active"
<1> DEFINE At(s) == [pc |-> s, user |-> job[r].user, poll |-> job[r].poll, opt |-> job[r].opt,
                     n |-> job[r].n, total |-> job[r].total, late |-> job[r].late]
<1>1. /\ LogPoll(r) => job[r].pc = "zadd" /\ job' = [job EXCEPT ![r] = At("hset")]
      /\ LogTotal(r) => job[r].pc = "hset" /\ job' = [job EXCEPT ![r] = At("incr")]
      /\ Count(r) => job[r].pc = "incr" /\ job' = [job EXCEPT ![r] = At("dirty")]
      /\ MarkDirty(r) => job[r].pc = "dirty" /\ job' = [job EXCEPT ![r] = At("active")]
      /\ job[r] \in Jobs /\ \A s \in VoteSteps : At(s) \in Jobs
  BY NextJob
<1>2. \A s \in VoteSteps : /\ At(s).pc = s /\ At(s).user = job[r].user /\ At(s).poll = job[r].poll
                           /\ At(s).opt = job[r].opt /\ At(s).n = job[r].n
                           /\ At(s).total = job[r].total
  OBVIOUS
<1>3. job \in [Requests -> Jobs \cup {NoJob}]
  BY DEF TypeOK
<1> HIDE DEF At
<1>4. /\ LogPoll(r) => job[r].pc = "zadd" /\ job' = [job EXCEPT ![r] = At("hset")] /\ job'[r] = At("hset")
      /\ LogTotal(r) => job[r].pc = "hset" /\ job' = [job EXCEPT ![r] = At("incr")] /\ job'[r] = At("incr")
      /\ Count(r) => job[r].pc = "incr" /\ job' = [job EXCEPT ![r] = At("dirty")] /\ job'[r] = At("dirty")
      /\ MarkDirty(r) => job[r].pc = "dirty" /\ job' = [job EXCEPT ![r] = At("active")]
                         /\ job'[r] = At("active")
  BY <1>1, <1>3
<1> QED
  BY <1>1, <1>2, <1>4 DEF VoteSteps

-----------------------------------------------------------------------------
(* What is known of a poll, and what is written of it before.              *)

LEMMA KnownCreate ==
    ASSUME TypeOK, KnownInv, NEW p \in PollIds, CreateVote(p)
    PROVE  KnownInv'
<1> DEFINE First == \A q \in PollIds : creation[q] \in Making =>
                       q \notin known /\ status[q] \in {"none", "created"}
           U     == UNCHANGED <<active, wiped, worker, job, admin, acked, rows>>
<1>1. First /\ known \subseteq PollIds
  BY DEF KnownInv, TypeOK
<1>2. creation \in [PollIds -> CreateSteps] /\ status \in [PollIds -> {"none", "created", "live", "closed"}]
  BY DEF TypeOK
<1>3. ASSUME CreateVoteInMongo(p)
      PROVE  First' /\ known \subseteq known' /\ U
  <2>1. /\ creation'[p] \in {"options", "failed"}
        /\ \A q \in PollIds \ {p} : creation'[q] = creation[q]
    BY <1>3, GoesOn DEF CreateVoteInMongo, CreateSteps
  <2>2. UNCHANGED known /\ U
    BY <1>3 DEF CreateVoteInMongo, history
  <2>3. /\ status'[p] \in {"created", status[p]} /\ creation[p] \in Making
        /\ \A q \in PollIds \ {p} : status'[q] = status[q]
    BY <1>2, <1>3 DEF CreateVoteInMongo, Making
  <2> QED
    BY <1>1, <2>1, <2>2, <2>3
<1>4. ASSUME AddOptionsInMongo(p)
      PROVE  First' /\ known \subseteq known' /\ U
  <2>1. /\ creation'[p] \in {"redis", "rollback"}
        /\ \A q \in PollIds \ {p} : creation'[q] = creation[q]
    BY <1>4, GoesOn DEF AddOptionsInMongo, CreateSteps
  <2>2. UNCHANGED <<known, status>> /\ U /\ creation[p] \in Making
    BY <1>4 DEF AddOptionsInMongo, history, Making
  <2> QED
    BY <1>1, <2>1, <2>2
<1>5. ASSUME InitVoteInRedis(p)
      PROVE  First' /\ known \subseteq known' /\ U
  <2>1. /\ creation'[p] \in {"status", "rollback"}
        /\ \A q \in PollIds \ {p} : creation'[q] = creation[q]
    BY <1>5, GoesOn DEF InitVoteInRedis, CreateSteps
  <2>2. UNCHANGED <<known, status>> /\ U /\ creation[p] \in Making
    BY <1>5 DEF InitVoteInRedis, history, mongo, Making
  <2> QED
    BY <1>1, <2>1, <2>2
<1>6. ASSUME UpdateStatus(p)
      PROVE  First' /\ known \subseteq known' /\ U
  <2>1. /\ creation'[p] \in {"ok", "rollback"}
        /\ \A q \in PollIds \ {p} : creation'[q] = creation[q]
    BY <1>6, GoesOn DEF UpdateStatus, CreateSteps
  <2>2. U /\ known' \in {known, known \cup {p}}
    BY <1>6 DEF UpdateStatus
  <2>3. \A q \in PollIds \ {p} : status'[q] = status[q]
    BY <1>2, <1>6 DEF UpdateStatus, SetStatus
  <2> QED
    BY <1>1, <2>1, <2>2, <2>3 DEF Making
<1>7. ASSUME Rollback(p)
      PROVE  First' /\ known \subseteq known' /\ U
  <2>1. /\ creation'[p] = "failed"
        /\ \A q \in PollIds \ {p} : creation'[q] = creation[q] /\ status'[q] = status[q]
    BY <1>2, <1>7 DEF Rollback
  <2>2. U /\ UNCHANGED known
    BY <1>7 DEF Rollback, history
  <2> QED
    BY <1>1, <2>1, <2>2 DEF Making
<1>8. First' /\ known \subseteq known' /\ U
  <2> HIDE DEF First, U
  <2> QED
    BY <1>3, <1>4, <1>5, <1>6, <1>7 DEF CreateVote
<1> QED
  BY <1>8 DEF KnownInv

LEMMA KnownVote ==
    ASSUME TypeOK, KnownInv, NEW r \in Requests, AddVote(r)
    PROVE  KnownInv'
<1>1. UNCHANGED <<mongo, rows, creation, admin, worker, known, wiped>>
  BY VoteMoves
<1>2. \A q \in Requests \ {r} : job'[q] = job[q]
  BY VoteMoves, JobPut
<1> DEFINE K == (job'[r] # NoJob => job'[r].poll \in known)
           A == active' \subseteq known
           C == \A p \in PollIds \ known, o \in Options : acked'[p][o] = 0
<1>3. active \subseteq known /\ (job[r] # NoJob => job[r].poll \in known)
      /\ \A p \in PollIds \ known, o \in Options : acked[p][o] = 0
  BY DEF KnownInv
<1>4. job \in [Requests -> Jobs \cup {NoJob}] /\ acked \in [PollIds -> [Options -> Nat]]
  BY DEF TypeOK
<1>5. ASSUME NEW u \in Users, NEW p \in PollIds, NEW o \in Options, NEW n \in 1 .. MaxCount,
             BeginVote(r, u, p, o, n)
      PROVE  K /\ A /\ C
  BY <1>3, <1>4, <1>5 DEF BeginVote
<1>6. ASSUME ReadMeta(r)
      PROVE  K /\ A /\ C
  <2>1. PICK t \in Nat \cup {job[r].n, NewTotal(meta[job[r].user][job[r].poll], job[r].opt, job[r].n)} :
          job' = [job EXCEPT ![r] = [job[r] EXCEPT !.pc = "zadd", !.total = t]]
    BY <1>6 DEF ReadMeta
  <2>2. job[r] # NoJob /\ UNCHANGED <<active, acked>>
    BY <1>6 DEF ReadMeta, NoJob, history
  <2>3. job[r] \in Jobs
    BY <1>4, <2>2
  <2>4. [job[r] EXCEPT !.pc = "zadd", !.total = t].poll = job[r].poll
    BY <2>3 DEF Jobs
  <2>5. job'[r].poll = job[r].poll
    BY <1>4, <2>1, <2>4
  <2> QED
    BY <1>3, <2>2, <2>5
<1>7. ASSUME LogPoll(r) \/ LogTotal(r) \/ Count(r) \/ MarkDirty(r)
      PROVE  K /\ A /\ C
  <2>1. job[r] \in Jobs /\ job'[r].poll = job[r].poll
    BY <1>4, <1>7, NextJob
  <2>2. UNCHANGED <<active, acked>> /\ job[r] # NoJob
    BY <1>7 DEF LogPoll, LogTotal, Count, MarkDirty, history, NoJob
  <2> QED
    BY <1>3, <2>1, <2>2
<1>8. ASSUME MarkActive(r)
      PROVE  K /\ A /\ C
  <2>1. job[r] \in Jobs /\ job[r].poll \in known /\ job'[r] = NoJob
    BY <1>3, <1>4, <1>8, NextJob DEF MarkActive, NoJob
  <2>2. A
    BY <1>3, <1>8, <2>1 DEF MarkActive
  <2>3. \A p \in PollIds \ known : acked'[p] = acked[p]
    BY <1>4, <1>8, <2>1 DEF MarkActive
  <2> QED
    BY <1>3, <2>1, <2>2, <2>3
<1>9. ASSUME AbortVote(r)
      PROVE  K /\ A /\ C
  BY <1>3, <1>4, <1>9 DEF AbortVote, history
<1>10. K /\ A /\ C
  <2> HIDE DEF K, A, C
  <2> QED
    BY <1>5, <1>6, <1>7, <1>8, <1>9 DEF AddVote
<1> QED
  BY <1>1, <1>2, <1>10 DEF KnownInv, mongo

LEMMA KnownAdmin ==
    ASSUME TypeOK, KnownInv, NEW a \in Admins, CloseOrDelete(a)
    PROVE  KnownInv'
<1>1. UNCHANGED <<creation, known, active, worker, job, acked, rows>>
  BY DEF CloseOrDelete, Ask, CloseVoteInMongo, CloseDeleteInRedis, LoadForDelete, DeleteVoteInRedis,
         HardDeleteVote, history
<1>2. admin \in [Admins -> [pc: {"close", "closeDel", "load", "del", "remove"}, poll: PollIds] \cup {NoTask}]
      /\ status \in [PollIds -> {"none", "created", "live", "closed"}]
  BY DEF TypeOK
<1>3. ASSUME admin[a] # NoTask
      PROVE  admin[a].poll \in known
  BY <1>3 DEF KnownInv
<1> DEFINE T == /\ \A b \in Admins \ {a} : admin'[b] = admin[b]
                /\ admin'[a] # NoTask => admin'[a].poll \in known
           S == \A q \in PollIds \ known : status'[q] = status[q]
           D == wiped' \subseteq known
<1>4. wiped \subseteq known
  BY DEF KnownInv
<1>5. ASSUME NEW pc \in {"closeDel", "del", "remove"}, admin[a] # NoTask, To(a, pc)
      PROVE  T
  <2> DEFINE t == admin[a]
  <2>1. t \in [pc: {"close", "closeDel", "load", "del", "remove"}, poll: PollIds]
    BY <1>2, <1>5
  <2>2. [t EXCEPT !.pc = pc].poll = t.poll
    BY <2>1
  <2>3. admin' = [admin EXCEPT ![a] = [t EXCEPT !.pc = pc]]
    BY <1>5 DEF To
  <2>4. t.poll \in known
    BY <1>3, <1>5
  <2> HIDE DEF t
  <2> QED
    BY <1>2, <2>2, <2>3, <2>4
<1>6. ASSUME Ends(a)
      PROVE  T
  BY <1>2, <1>6 DEF Ends
<1> HIDE DEF T
<1>7. ASSUME NEW p \in PollIds, NEW pc \in {"close", "load"}, Ask(a, p, pc)
      PROVE  T /\ S /\ D
  BY <1>2, <1>4, <1>7 DEF T, Ask, mongo, history
<1>8. ASSUME CloseVoteInMongo(a)
      PROVE  T /\ S /\ D
  <2>1. admin[a] # NoTask /\ UNCHANGED wiped
    BY <1>8 DEF CloseVoteInMongo, NoTask, history
  <2>2. T
    BY <1>5, <1>6, <1>8, <2>1 DEF CloseVoteInMongo
  <2>3. S
    BY <1>2, <1>3, <1>8, <2>1 DEF CloseVoteInMongo, SetStatus
  <2> QED
    BY <1>4, <2>1, <2>2, <2>3
<1>9. ASSUME CloseDeleteInRedis(a)
      PROVE  T /\ S /\ D
  <2>1. admin[a] # NoTask /\ UNCHANGED status /\ wiped' \in {wiped, wiped \cup {admin[a].poll}}
    BY <1>9 DEF CloseDeleteInRedis, NoTask, mongo, Wipe
  <2>2. T
    BY <1>6, <1>9 DEF CloseDeleteInRedis
  <2> QED
    BY <1>3, <1>4, <2>1, <2>2
<1>10. ASSUME LoadForDelete(a)
       PROVE  T /\ S /\ D
  <2>1. admin[a] # NoTask /\ UNCHANGED <<status, wiped>>
    BY <1>10 DEF LoadForDelete, NoTask, mongo, history
  <2>2. T
    BY <1>5, <1>6, <1>10, <2>1 DEF LoadForDelete
  <2> QED
    BY <1>4, <2>1, <2>2
<1>11. ASSUME DeleteVoteInRedis(a)
       PROVE  T /\ S /\ D
  <2>1. admin[a] # NoTask /\ UNCHANGED status /\ wiped' \in {wiped, wiped \cup {admin[a].poll}}
    BY <1>11 DEF DeleteVoteInRedis, NoTask, mongo, Wipe
  <2>2. T
    BY <1>5, <1>11, <2>1 DEF DeleteVoteInRedis
  <2> QED
    BY <1>3, <1>4, <2>1, <2>2
<1>12. ASSUME HardDeleteVote(a)
       PROVE  T /\ S /\ D
  <2>1. admin[a] # NoTask /\ UNCHANGED wiped
    BY <1>12 DEF HardDeleteVote, NoTask, history
  <2>2. T
    BY <1>6, <1>12 DEF HardDeleteVote
  <2>3. S
    BY <1>2, <1>3, <1>12, <2>1 DEF HardDeleteVote
  <2> QED
    BY <1>4, <2>1, <2>2, <2>3
<1>13. T /\ S /\ D
  <2> HIDE DEF S, D
  <2> QED
    BY <1>7, <1>8, <1>9, <1>10, <1>11, <1>12 DEF CloseOrDelete
<1> QED
  BY <1>1, <1>13 DEF T, KnownInv


\* What one step of the worker does to its state and to the rows.
LEMMA SnapMoves ==
    ASSUME TypeOK, Snapshot
    PROVE  /\ UNCHANGED Others
           /\ worker'.polls \subseteq worker.polls \cup active
           /\ \A f \in worker'.fields : f \in worker.fields \/ f[1] \in worker.polls
           /\ \A g \in worker'.got :
                \/ g \in worker.got
                \/ \E f \in worker.fields : /\ g.poll = f[1] /\ g.opt = f[2]
                                            /\ f \in PollIds \X Options
                                            /\ g.count = counts[f[1]][f[2]] /\ g.count # Absent
           /\ \A p \in PollIds, o \in Options :
                \/ rows'[p][o] = rows[p][o]
                \/ /\ worker'.got = {}
                   /\ \E g \in worker.got : g.poll = p /\ g.opt = o /\ rows'[p][o] = g.count
           /\ rows' = rows \/ worker'.got = {}
<1> DEFINE G == /\ worker'.polls \subseteq worker.polls \cup active
                /\ \A f \in worker'.fields : f \in worker.fields \/ f[1] \in worker.polls
                /\ \A g \in worker'.got :
                     \/ g \in worker.got
                     \/ \E f \in worker.fields : /\ g.poll = f[1] /\ g.opt = f[2]
                                                 /\ f \in PollIds \X Options
                                                 /\ g.count = counts[f[1]][f[2]] /\ g.count # Absent
           R == \A p \in PollIds, o \in Options :
                  \/ rows'[p][o] = rows[p][o]
                  \/ /\ worker'.got = {}
                     /\ \E g \in worker.got : g.poll = p /\ g.opt = o /\ rows'[p][o] = g.count
           Z == rows' = rows \/ worker'.got = {}
<1>1. /\ worker \in [pc: {"idle", "pick", "get"}, polls: SUBSET PollIds,
                     fields: SUBSET (PollIds \X Options), got: SUBSET Rows]
      /\ rows \in [PollIds -> [Options -> Tally]]
  BY DEF TypeOK
<1>2. ASSUME SnapStart
      PROVE  G /\ R /\ Z
  BY <1>2 DEF SnapStart
<1>3. ASSUME NEW p \in PollIds, SnapFields(p)
      PROVE  G /\ R /\ Z
  <2>1. PICK F \in SUBSET Options :
          worker' = [worker EXCEPT !.pc = IF F = {} THEN "pick" ELSE "get",
                                   !.polls = worker.polls \ {p}, !.fields = {p} \X F]
    BY <1>3 DEF SnapFields
  <2>2. /\ worker'.polls = worker.polls \ {p} /\ worker'.fields = {p} \X F
        /\ worker'.got = worker.got
    BY <1>1, <2>1
  <2>3. p \in worker.polls /\ rows' = rows
    BY <1>3 DEF SnapFields
  <2> QED
    BY <2>2, <2>3
<1>4. ASSUME NEW p \in PollIds, NEW o \in Options, SnapGet(p, o)
      PROVE  G /\ R /\ Z
  <2> DEFINE row == [poll |-> p, opt |-> o, count |-> counts[p][o]]
  <2>1. PICK N \in {{}, IF counts[p][o] = Absent THEN {} ELSE {row}} :
          worker' = [worker EXCEPT !.pc = IF worker.fields \ {<<p, o>>} = {} THEN "pick" ELSE "get",
                                   !.fields = worker.fields \ {<<p, o>>}, !.got = worker.got \cup N]
    BY <1>4 DEF SnapGet
  <2>2. /\ worker'.polls = worker.polls /\ worker'.fields = worker.fields \ {<<p, o>>}
        /\ worker'.got = worker.got \cup N
    BY <1>1, <2>1
  <2>3. <<p, o>> \in worker.fields /\ rows' = rows
    BY <1>4 DEF SnapGet
  <2>4. ASSUME NEW g \in N
        PROVE  \E f \in worker.fields : /\ g.poll = f[1] /\ g.opt = f[2]
                                        /\ f \in PollIds \X Options
                                        /\ g.count = counts[f[1]][f[2]] /\ g.count # Absent
    <3>1. g = row /\ counts[p][o] # Absent
      BY <2>1, <2>4
    <3>2. <<p, o>> \in worker.fields /\ <<p, o>>[1] = p /\ <<p, o>>[2] = o
      BY <2>3
    <3> QED
      BY <3>1, <3>2
  <2> QED
    BY <2>2, <2>3, <2>4
<1>5. ASSUME SnapInsert
      PROVE  G /\ R /\ Z
  <2> DEFINE Is(g, p, o) == g.poll = p /\ g.opt = o
             new(p, o)   == IF \E g \in worker.got : g.poll = p /\ g.opt = o
                            THEN (CHOOSE g \in worker.got : g.poll = p /\ g.opt = o).count
                            ELSE rows[p][o]
  <2>1. worker' = Asleep
    BY <1>5 DEF SnapInsert
  <2>2. ASSUME NEW p \in PollIds, NEW o \in Options
        PROVE  \/ new(p, o) = rows[p][o]
               \/ \E g \in worker.got : g.poll = p /\ g.opt = o /\ new(p, o) = g.count
    OBVIOUS
  <2>3. rows' = [p \in PollIds |-> [o \in Options |-> new(p, o)]] \/ rows' = rows
    BY <1>5 DEF SnapInsert
  <2>4. worker'.got = {} /\ worker'.fields = {} /\ worker'.polls = {}
    BY <2>1 DEF Asleep
  <2> HIDE DEF new
  <2>5. R
    BY <2>2, <2>3, <2>4
  <2> QED
    BY <2>4, <2>5
<1>6. G /\ R /\ Z
  <2> HIDE DEF G, R, Z
  <2> QED
    BY <1>2, <1>3, <1>4, <1>5 DEF Snapshot
<1>7. UNCHANGED Others
  BY DEF Snapshot, SnapStart, SnapFields, SnapGet, SnapInsert
<1> QED
  BY <1>6, <1>7

LEMMA KnownSnap ==
    ASSUME TypeOK, KnownInv, Snapshot
    PROVE  KnownInv'
<1>1. UNCHANGED <<creation, known, status, active, wiped, job, admin, acked>>
  BY SnapMoves DEF Others, mongo, history
<1>2. /\ active \subseteq known /\ worker.polls \subseteq known
      /\ \A f \in worker.fields : f[1] \in known
      /\ \A g \in worker.got : g.poll \in known
      /\ \A p \in PollIds \ known, o \in Options : acked[p][o] = 0 /\ rows[p][o] = Absent
  BY DEF KnownInv
<1>3. worker'.polls \subseteq known /\ \A f \in worker'.fields : f[1] \in known
  BY <1>2, SnapMoves
<1>4. \A g \in worker'.got : g.poll \in known
  BY <1>2, SnapMoves
<1>5. \A p \in PollIds \ known, o \in Options : rows'[p][o] = Absent
  BY <1>2, SnapMoves
<1> QED
  BY <1>1, <1>3, <1>4, <1>5 DEF KnownInv

LEMMA KnownNext == TypeOK /\ KnownInv /\ [Next]_vars => KnownInv'
<1> SUFFICES ASSUME TypeOK, KnownInv, [Next]_vars
             PROVE  KnownInv'
  OBVIOUS
<1>1. ASSUME (\E u \in Users : ForgetUser(u)) \/ PopDirtyPolls \/ UNCHANGED vars
      PROVE  KnownInv'
  <2>1. UNCHANGED <<creation, known, status, active, wiped, worker, job, admin, acked, rows>>
    BY <1>1 DEF ForgetUser, PopDirtyPolls, vars, mongo, history
  <2> QED
    BY <2>1 DEF KnownInv
<1> QED
  BY <1>1, KnownCreate, KnownVote, KnownAdmin, KnownSnap DEF Next

\* The counts change as requests are counted, and when a poll is wiped.
LEMMA AdminWipes ==
    ASSUME TypeOK, NEW a \in Admins, CloseOrDelete(a)
    PROVE  /\ UNCHANGED <<opts, creation, known, rows, worker, job, taken, mine, acked, meta>>
           /\ \A p \in PollIds : status'[p] \in {status[p], "closed", "none"}
           /\ \A p \in PollIds : status[p] = "none" => status'[p] = "none"
           /\ wiped \subseteq wiped'
           /\ \A p \in PollIds \ wiped' : counts'[p] = counts[p]
           /\ \A p \in PollIds, o \in Options : counts'[p][o] \in {counts[p][o], Absent}
<1>1. UNCHANGED <<opts, creation, known, rows, worker, job, taken, mine, acked, meta>>
  BY DEF CloseOrDelete, Ask, CloseVoteInMongo, CloseDeleteInRedis, LoadForDelete, DeleteVoteInRedis,
         HardDeleteVote, mongo, logs, history
<1>2. /\ status \in [PollIds -> {"none", "created", "live", "closed"}]
      /\ counts \in [PollIds -> [Options -> Tally]]
      /\ admin[a] # NoTask => admin[a].poll \in PollIds
  BY DEF TypeOK
<1> DEFINE S == /\ \A p \in PollIds : status'[p] \in {status[p], "closed", "none"}
                /\ \A p \in PollIds : status[p] = "none" => status'[p] = "none"
           C == /\ wiped \subseteq wiped'
                /\ \A p \in PollIds \ wiped' : counts'[p] = counts[p]
                /\ \A p \in PollIds, o \in Options : counts'[p][o] \in {counts[p][o], Absent}
<1>3. ASSUME NEW p \in PollIds, Wipe(p) \/ UNCHANGED <<counts, wiped>>
      PROVE  C
  BY <1>2, <1>3 DEF Wipe
<1>4. ASSUME NEW p \in PollIds, NEW pc \in {"close", "load"}, Ask(a, p, pc)
      PROVE  S /\ C
  BY <1>2, <1>4 DEF Ask, mongo, history
<1>5. ASSUME CloseVoteInMongo(a)
      PROVE  S /\ C
  BY <1>2, <1>5 DEF CloseVoteInMongo, NoTask, SetStatus, history
<1>6. ASSUME CloseDeleteInRedis(a)
      PROVE  S /\ C
  <2>1. admin[a] # NoTask /\ UNCHANGED status
    BY <1>6 DEF CloseDeleteInRedis, NoTask, mongo
  <2>2. C
    BY <1>2, <1>3, <1>6, <2>1 DEF CloseDeleteInRedis
  <2> QED
    BY <2>1, <2>2
<1>7. ASSUME LoadForDelete(a)
      PROVE  S /\ C
  BY <1>7 DEF LoadForDelete, mongo, history
<1>8. ASSUME DeleteVoteInRedis(a)
      PROVE  S /\ C
  <2>1. admin[a] # NoTask /\ UNCHANGED status
    BY <1>8 DEF DeleteVoteInRedis, NoTask, mongo
  <2>2. C
    BY <1>2, <1>3, <1>8, <2>1 DEF DeleteVoteInRedis
  <2> QED
    BY <2>1, <2>2
<1>9. ASSUME HardDeleteVote(a)
      PROVE  S /\ C
  BY <1>2, <1>9 DEF HardDeleteVote, NoTask, history
<1>10. S /\ C
  <2> HIDE DEF S, C
  <2> QED
    BY <1>4, <1>5, <1>6, <1>7, <1>8, <1>9 DEF CloseOrDelete
<1> QED
  BY <1>1, <1>10


LEMMA CompleteCreate ==
    ASSUME TypeOK, KnownInv, CompleteInv, NEW p \in PollIds, CreateVote(p)
    PROVE  CompleteInv'
<1> DEFINE Full(q) == \A o \in Options : counts[q][o] # Absent
           Done(q) == /\ creation[q] \in {"redis", "status"} => opts[q] = Options
                      /\ creation[q] = "status" => Full(q)
                      /\ status[q] = "live" => opts[q] = Options /\ (q \in wiped \/ Full(q))
           Same(q) == creation'[q] = creation[q] /\ opts'[q] = opts[q]
                      /\ counts'[q] = counts[q] /\ status'[q] = status[q]
           All     == Done(p)' /\ (\A q \in PollIds \ {p} : Same(q)) /\ UNCHANGED wiped
<1>1. \A q \in PollIds : Done(q)
  BY DEF CompleteInv
<1>2. /\ creation \in [PollIds -> CreateSteps] /\ counts \in [PollIds -> [Options -> Tally]]
      /\ status \in [PollIds -> {"none", "created", "live", "closed"}]
      /\ opts \in [PollIds -> SUBSET Options]
  BY DEF TypeOK
<1>3. creation[p] \in Making => status[p] # "live" /\ p \notin known
  BY DEF KnownInv
<1>4. ASSUME CreateVoteInMongo(p)
      PROVE  All
  <2>1. creation'[p] \in {"options", "failed"} /\ \A q \in PollIds \ {p} : creation'[q] = creation[q]
    BY <1>4, GoesOn DEF CreateVoteInMongo, CreateSteps
  <2>2. /\ status'[p] # "live" /\ (\A q \in PollIds \ {p} : status'[q] = status[q])
        /\ UNCHANGED <<opts, counts, wiped>>
    BY <1>2, <1>3, <1>4 DEF CreateVoteInMongo, Making, history
  <2> QED
    BY <2>1, <2>2
<1>5. ASSUME AddOptionsInMongo(p)
      PROVE  All
  <2>1. creation'[p] \in {"redis", "rollback"} /\ \A q \in PollIds \ {p} : creation'[q] = creation[q]
    BY <1>5, GoesOn DEF AddOptionsInMongo, CreateSteps
  <2>2. /\ creation'[p] = "redis" => opts'[p] = Options
        /\ \A q \in PollIds \ {p} : opts'[q] = opts[q]
    BY <1>2, <1>5 DEF AddOptionsInMongo, Succeeds
  <2>3. UNCHANGED <<status, counts, wiped>> /\ status[p] # "live"
    BY <1>3, <1>5 DEF AddOptionsInMongo, Making, history
  <2> QED
    BY <2>1, <2>2, <2>3
<1>6. ASSUME InitVoteInRedis(p)
      PROVE  All
  <2>1. creation'[p] \in {"status", "rollback"} /\ \A q \in PollIds \ {p} : creation'[q] = creation[q]
    BY <1>6, GoesOn DEF InitVoteInRedis, CreateSteps
  <2>2. PICK S \in SUBSET Options :
          /\ Succeeds(p) => S = Options
          /\ counts' = [counts EXCEPT ![p] = [o \in Options |-> IF o \in S THEN 0 ELSE counts[p][o]]]
    BY <1>6 DEF InitVoteInRedis
  <2>3. /\ creation'[p] = "status" => \A o \in Options : counts'[p][o] = 0
        /\ \A q \in PollIds \ {p} : counts'[q] = counts[q]
    BY <1>2, <2>2 DEF Succeeds
  <2>4. UNCHANGED <<status, opts, wiped>> /\ status[p] # "live" /\ opts[p] = Options
    BY <1>1, <1>3, <1>6 DEF InitVoteInRedis, Making, mongo, history
  <2> QED
    BY <2>1, <2>3, <2>4 DEF Absent
<1>7. ASSUME UpdateStatus(p)
      PROVE  All
  <2>1. creation'[p] \in {"ok", "rollback"} /\ \A q \in PollIds \ {p} : creation'[q] = creation[q]
    BY <1>7, GoesOn DEF UpdateStatus, CreateSteps
  <2>2. UNCHANGED <<opts, counts, wiped>> /\ opts[p] = Options /\ Full(p)
    BY <1>1, <1>7 DEF UpdateStatus
  <2>3. \A q \in PollIds \ {p} : status'[q] = status[q]
    BY <1>2, <1>7 DEF UpdateStatus, SetStatus
  <2> QED
    BY <2>1, <2>2, <2>3
<1>8. ASSUME Rollback(p)
      PROVE  All
  <2>1. creation'[p] = "failed" /\ \A q \in PollIds \ {p} : creation'[q] = creation[q]
    BY <1>2, <1>8 DEF Rollback
  <2>2. /\ status'[p] \in {status[p], "none"} /\ (\A q \in PollIds \ {p} : status'[q] = status[q])
        /\ UNCHANGED <<opts, counts, wiped>>
    BY <1>2, <1>8 DEF Rollback, history
  <2> QED
    BY <1>1, <2>1, <2>2
<1>9. All
  <2> HIDE DEF All
  <2> QED
    BY <1>4, <1>5, <1>6, <1>7, <1>8 DEF CreateVote
<1>10. \A q \in PollIds : Done(q)'
  BY <1>1, <1>9
<1> QED
  BY <1>10 DEF CompleteInv

\* What the counting of a request does to the tallies.
LEMMA CountMoves ==
    ASSUME TypeOK, NEW r \in Requests, Count(r)
    PROVE  /\ job[r].poll \in PollIds /\ job[r].opt \in Options /\ job[r].n \in Nat
           /\ \A p \in PollIds, o \in Options :
                counts'[p][o] = IF p = job[r].poll /\ o = job[r].opt
                                THEN HIncrBy(counts[p][o], job[r].n) ELSE counts[p][o]
<1> DEFINE j == job[r]
<1>1. j # NoJob
  BY DEF Count, NoJob
<1>2. j.poll \in PollIds /\ j.opt \in Options /\ j.n \in Nat
  BY <1>1, JobGoesOn DEF VoteSteps
<1>3. counts \in [PollIds -> [Options -> Tally]]
  BY DEF TypeOK
<1>4. HIncrBy(counts[j.poll][j.opt], j.n) \in Tally
  BY <1>2, <1>3 DEF HIncrBy, Tally
<1>5. counts' = [counts EXCEPT ![j.poll][j.opt] = HIncrBy(counts[j.poll][j.opt], j.n)]
  BY DEF Count
<1> HIDE DEF j
<1>6. \A p \in PollIds, o \in Options :
        counts'[p][o] = IF p = j.poll /\ o = j.opt THEN HIncrBy(counts[j.poll][j.opt], j.n)
                        ELSE counts[p][o]
  BY <1>2, <1>3, <1>4, <1>5, Put2
<1> QED
  BY <1>2, <1>6 DEF j

\* The steps of a vote other than Count leave the tallies alone.
LEMMA OtherVoteSteps ==
    ASSUME NEW r \in Requests, AddVote(r), ~Count(r)
    PROVE  UNCHANGED counts
BY DEF AddVote, BeginVote, ReadMeta, LogPoll, LogTotal, MarkDirty, MarkActive, AbortVote

LEMMA CompleteNext == TypeOK /\ KnownInv /\ CompleteInv /\ [Next]_vars => CompleteInv'
<1> SUFFICES ASSUME TypeOK, KnownInv, CompleteInv, [Next]_vars
             PROVE  CompleteInv'
  OBVIOUS
<1>0. counts \in [PollIds -> [Options -> Tally]]
  BY DEF TypeOK
<1>1. ASSUME NEW r \in Requests, AddVote(r)
      PROVE  CompleteInv'
  <2>1. UNCHANGED <<creation, opts, status, wiped>>
    BY <1>1, VoteMoves DEF mongo
  <2>2. \A p \in PollIds, o \in Options : counts[p][o] # Absent => counts'[p][o] # Absent
    BY <1>0, <1>1, CountMoves, OtherVoteSteps DEF HIncrBy, Absent, Tally
  <2> QED
    BY <2>1, <2>2 DEF CompleteInv
<1>2. ASSUME NEW a \in Admins, CloseOrDelete(a)
      PROVE  CompleteInv'
  <2>1. /\ UNCHANGED <<opts, creation, known>>
        /\ \A p \in PollIds : status'[p] \in {status[p], "closed", "none"}
        /\ wiped \subseteq wiped' /\ \A p \in PollIds \ wiped' : counts'[p] = counts[p]
    BY <1>2, AdminWipes
  <2>2. wiped' \subseteq known
    BY <1>2, <2>1, KnownAdmin DEF KnownInv
  <2>3. \A p \in PollIds : creation[p] = "status" => p \notin wiped'
    BY <2>2 DEF KnownInv, Making
  <2> QED
    BY <2>1, <2>3 DEF CompleteInv
<1>3. ASSUME Snapshot \/ (\E u \in Users : ForgetUser(u)) \/ PopDirtyPolls \/ UNCHANGED vars
      PROVE  CompleteInv'
  <2>1. UNCHANGED <<creation, opts, status, counts, wiped>>
    BY <1>3, SnapMoves DEF Others, ForgetUser, PopDirtyPolls, vars, mongo, history
  <2> QED
    BY <2>1 DEF CompleteInv
<1> QED
  BY <1>1, <1>2, <1>3, CompleteCreate DEF Next


-----------------------------------------------------------------------------
(* The ledgers: tokens taken, votes counted, votes answered.               *)

LEMMA FiniteNext == TypeOK /\ FiniteInv /\ [Next]_vars => FiniteInv'
<1> SUFFICES ASSUME TypeOK, FiniteInv, [Next]_vars
             PROVE  FiniteInv'
  OBVIOUS
<1>1. ASSUME NEW r \in Requests, AddVote(r)
      PROVE  FiniteInv'
  BY <1>1, VoteMoves, SumMoves
<1>2. ASSUME NEW p \in PollIds, CreateVote(p)
      PROVE  UNCHANGED job
  BY <1>2 DEF CreateVote, CreateVoteInMongo, AddOptionsInMongo, InitVoteInRedis, UpdateStatus, Rollback
<1>3. ASSUME NEW a \in Admins, CloseOrDelete(a)
      PROVE  UNCHANGED job
  BY <1>3, AdminWipes
<1>4. ASSUME Snapshot \/ (\E u \in Users : ForgetUser(u)) \/ PopDirtyPolls \/ UNCHANGED vars
      PROVE  UNCHANGED job
  BY <1>4, SnapMoves DEF Others, ForgetUser, PopDirtyPolls, vars
<1>5. UNCHANGED job => FiniteInv'
  BY DEF FiniteInv, Tokens
<1> QED
  BY <1>1, <1>2, <1>3, <1>4, <1>5 DEF Next

\* A vote begins: its tokens are entered in the ledgers.
LEMMA BeginMoves ==
    ASSUME TypeOK, NEW r \in Requests, NEW u \in Users, NEW p \in PollIds, NEW o \in Options,
           NEW n \in 1 .. MaxCount, BeginVote(r, u, p, o, n)
    PROVE  /\ n \in Nat /\ job[r] = NoJob
           /\ \E j \in Jobs : /\ job' = [job EXCEPT ![r] = j]
                              /\ j.pc = "read" /\ j.user = u /\ j.poll = p /\ j.opt = o /\ j.n = n
           /\ \A q \in PollIds, x \in Options :
                taken'[q][x] = IF q = p /\ x = o THEN taken[q][x] + n ELSE taken[q][x]
           /\ \A v \in Users, q \in PollIds, x \in Options :
                mine'[v][q][x] = IF v = u /\ q = p /\ x = o THEN mine[v][q][x] + n ELSE mine[v][q][x]
           /\ UNCHANGED <<counts, meta, rows, worker, acked, wiped>>
<1> DEFINE j == [pc |-> "read", user |-> u, poll |-> p, opt |-> o,
                 n |-> n, total |-> 0, late |-> status[p] = "closed"]
<1>1. n \in Nat
  BY PollsAssumption
<1>2. j \in Jobs
  BY DEF Jobs, VoteSteps
<1>3. /\ job[r] = NoJob /\ job' = [job EXCEPT ![r] = j]
      /\ taken' = [taken EXCEPT ![p][o] = taken[p][o] + n]
      /\ mine' = [mine EXCEPT ![u][p][o] = mine[u][p][o] + n]
      /\ UNCHANGED <<counts, meta, rows, worker, acked, wiped>>
  BY DEF BeginVote, logs
<1>4. taken \in [PollIds -> [Options -> Nat]] /\ mine \in [Users -> [PollIds -> [Options -> Nat]]]
  BY DEF TypeOK
<1>5. taken[p][o] + n \in Nat /\ mine[u][p][o] + n \in Nat
  BY <1>1, <1>4
<1>6. \A q \in PollIds, x \in Options :
        taken'[q][x] = IF q = p /\ x = o THEN taken[q][x] + n ELSE taken[q][x]
  BY <1>3, <1>4, <1>5, Put2
<1>7. \A v \in Users, q \in PollIds, x \in Options :
        mine'[v][q][x] = IF v = u /\ q = p /\ x = o THEN mine[v][q][x] + n ELSE mine[v][q][x]
  BY <1>3, <1>4, <1>5, Put3
<1>8. \E k \in Jobs : /\ job' = [job EXCEPT ![r] = k]
                      /\ k.pc = "read" /\ k.user = u /\ k.poll = p /\ k.opt = o /\ k.n = n
  BY <1>2, <1>3
<1> HIDE DEF j
<1> QED
  BY <1>1, <1>3, <1>6, <1>7, <1>8

\* The user's record is read: the total that will be written is known.
LEMMA ReadMoves ==
    ASSUME TypeOK, NEW r \in Requests, ReadMeta(r)
    PROVE  /\ job[r] \in Jobs /\ job[r].pc = "read"
           /\ \E k \in Jobs :
                /\ job' = [job EXCEPT ![r] = k]
                /\ k.pc = "zadd" /\ k.user = job[r].user /\ k.poll = job[r].poll
                /\ k.opt = job[r].opt /\ k.n = job[r].n
                /\ \/ k.total = job[r].n
                   \/ LET m == meta[job[r].user][job[r].poll]
                      IN  m.opt = job[r].opt /\ k.total = job[r].n + m.total
           /\ UNCHANGED <<counts, meta, rows, worker, taken, mine, acked, wiped>>
<1> DEFINE j == job[r]
           m == meta[j.user][j.poll]
<1>1. j # NoJob /\ j.pc = "read" /\ j \in Jobs
  BY DEF ReadMeta, NoJob, TypeOK
<1>2. UNCHANGED <<counts, meta, rows, worker, taken, mine, acked, wiped>>
  BY DEF ReadMeta, logs, history
<1>3. /\ j.user \in Users /\ j.poll \in PollIds /\ j.n \in Nat
  BY <1>1, JobGoesOn DEF VoteSteps
<1>4. PICK t \in {NewTotal(m, j.opt, j.n), j.n} :
        job' = [job EXCEPT ![r] = [j EXCEPT !.pc = "zadd", !.total = t]]
  BY DEF ReadMeta
<1>5. m \in [opt: Options, total: Nat] \cup {NoMeta}
  BY <1>3 DEF TypeOK
<1>6. m.total \in Nat
  BY <1>5 DEF NoMeta
<1>7. t \in Nat /\ (t = j.n \/ (m.opt = j.opt /\ t = j.n + m.total))
  BY <1>3, <1>4, <1>6 DEF NewTotal
<1>8. [j EXCEPT !.pc = "zadd", !.total = t]
        = [pc |-> "zadd", user |-> j.user, poll |-> j.poll, opt |-> j.opt,
           n |-> j.n, total |-> t, late |-> j.late]
      /\ [j EXCEPT !.pc = "zadd", !.total = t] \in Jobs
  BY <1>1, <1>7, JobGoesOn DEF VoteSteps
<1> DEFINE k == [j EXCEPT !.pc = "zadd", !.total = t]
<1>9. /\ k \in Jobs /\ job' = [job EXCEPT ![r] = k]
      /\ k.pc = "zadd" /\ k.user = j.user /\ k.poll = j.poll /\ k.opt = j.opt /\ k.n = j.n /\ k.total = t
  BY <1>4, <1>8
<1> HIDE DEF k, m
<1> QED
  BY <1>1, <1>2, <1>7, <1>9 DEF m

LEMMA PaidVote ==
    ASSUME TypeOK, FiniteInv, PaidInv, NEW r \in Requests, AddVote(r)
    PROVE  PaidInv'
<1>1. UNCHANGED <<rows, worker>>
  BY VoteMoves
<1>2. /\ taken \in [PollIds -> [Options -> Nat]] /\ counts \in [PollIds -> [Options -> Tally]]
      /\ worker.got \subseteq Rows /\ job \in [Requests -> Jobs \cup {NoJob}]
  BY DEF TypeOK
<1> SUFFICES ASSUME NEW p \in PollIds, NEW o \in Options
             PROVE  /\ Votes(counts'[p][o]) + Sum(Uncounted(p, o))' <= taken'[p][o]
                    /\ taken'[p][o] \in Nat /\ taken[p][o] <= taken'[p][o]
  <2>1. \A g \in worker.got : g.poll \in PollIds /\ g.opt \in Options /\ g.count \in Nat
    BY <1>2 DEF Rows
  <2>2. rows \in [PollIds -> [Options -> Tally]]
    BY DEF TypeOK
  <2>3. \A p \in PollIds, o \in Options : taken[p][o] <= taken'[p][o] /\ taken'[p][o] \in Nat
    OBVIOUS
  <2>4. \A p \in PollIds, o \in Options : rows'[p][o] <= taken'[p][o]
    BY <1>1, <1>2, <2>2, <2>3 DEF PaidInv, Tally, Absent
  <2>5. \A g \in worker'.got : g.count <= taken'[g.poll][g.opt]
    BY <1>1, <1>2, <2>1, <2>3 DEF PaidInv
  <2> QED
    BY <2>4, <2>5 DEF PaidInv
<1> DEFINE K == Uncounted(p, o)
           v == Votes(counts[p][o])
<1>3. /\ K \in SUBSET Jobs /\ Amount(NoJob, K) = 0
      /\ \A j \in Jobs : Amount(j, K) = IF /\ j.pc \in {"read", "zadd", "hset", "incr"}
                                           /\ j.poll = p /\ j.opt = o THEN j.n ELSE 0
  BY Amounts DEF Uncounted, Amount, NoJob, Jobs, VoteSteps
<1>4. v \in Nat /\ v + Sum(K) <= taken[p][o] /\ taken[p][o] \in Nat /\ Sum(K) \in Nat
  BY <1>2, <1>3, SumIsNat DEF PaidInv, Votes, Tally
<1> HIDE DEF K
<1>5. ASSUME NEW u \in Users, NEW q \in PollIds, NEW x \in Options, NEW n \in 1 .. MaxCount,
             BeginVote(r, u, q, x, n)
      PROVE  /\ Votes(counts'[p][o]) + Sum(K)' <= taken'[p][o]
             /\ taken'[p][o] \in Nat /\ taken[p][o] <= taken'[p][o]
  <2>1. PICK j \in Jobs : /\ job' = [job EXCEPT ![r] = j]
                          /\ j.pc = "read" /\ j.poll = q /\ j.opt = x /\ j.n = n
    BY <1>5, BeginMoves
  <2>2. /\ job[r] = NoJob /\ UNCHANGED counts /\ n \in Nat
        /\ taken'[p][o] = IF p = q /\ o = x THEN taken[p][o] + n ELSE taken[p][o]
    BY <1>5, BeginMoves
  <2>3. Sum(K)' + Amount(job[r], K) = Sum(K) + Amount(j, K) /\ Sum(K)' \in Nat
    BY <1>3, <2>1, SumMoves
  <2>4. Amount(job[r], K) = 0 /\ Amount(j, K) = IF p = q /\ o = x THEN n ELSE 0
    BY <1>3, <2>1, <2>2
  <2> QED
    BY <1>4, <2>2, <2>3, <2>4
<1>6. ASSUME ReadMeta(r) \/ LogPoll(r) \/ LogTotal(r) \/ MarkDirty(r) \/ MarkActive(r) \/ AbortVote(r)
      PROVE  Sum(K)' <= Sum(K) /\ Sum(K)' \in Nat /\ UNCHANGED <<counts, taken>>
  <2>1. UNCHANGED <<counts, taken>>
    BY <1>6 DEF ReadMeta, LogPoll, LogTotal, MarkDirty, MarkActive, AbortVote, history
  <2>2. PICK j \in Jobs \cup {NoJob} : job' = [job EXCEPT ![r] = j]
    BY VoteMoves
  <2>3. job'[r] = j /\ job[r] \in Jobs \cup {NoJob}
    BY <1>2, <2>2
  <2>9. /\ Sum(K)' + Amount(job[r], K) = Sum(K) + Amount(j, K) /\ Sum(K)' \in Nat
        /\ Sum(K) \in Nat /\ Amount(job[r], K) \in 0 .. Sum(K)
    BY <1>3, <2>2, SumMoves
  <2>4. /\ Sum(K)' + Amount(job[r], K) = Sum(K) + Amount(j, K) /\ Sum(K)' \in Nat
        /\ Sum(K) \in Nat /\ Amount(job[r], K) \in Nat
    BY <2>9
  <2>5. ASSUME ReadMeta(r)
        PROVE  Amount(j, K) = Amount(job[r], K)
    <3>1. PICK k \in Jobs :
                /\ job' = [job EXCEPT ![r] = k]
                /\ k.pc = "zadd" /\ k.poll = job[r].poll /\ k.opt = job[r].opt /\ k.n = job[r].n
      BY <2>5, ReadMoves
    <3>2. job[r] \in Jobs /\ job[r].pc = "read"
      BY <2>5, ReadMoves
    <3>3. j = k
      BY <1>2, <2>3, <3>1
    <3> QED
      BY <1>3, <3>1, <3>2, <3>3
  <2>6. ASSUME LogPoll(r) \/ LogTotal(r)
        PROVE  Amount(j, K) = Amount(job[r], K)
    <3>1. /\ job[r] \in Jobs /\ job[r].pc \in {"zadd", "hset"}
          /\ job'[r] \in Jobs /\ job'[r].pc \in {"hset", "incr"} /\ job'[r].poll = job[r].poll
          /\ job'[r].opt = job[r].opt /\ job'[r].n = job[r].n
      BY <2>6, NextFields
    <3> QED
      BY <1>3, <2>3, <3>1
  <2>7. ASSUME MarkDirty(r)
        PROVE  Amount(j, K) = 0
    <3>1. job'[r] \in Jobs /\ job'[r].pc = "active"
      BY <2>7, NextFields
    <3> QED
      BY <1>3, <2>3, <3>1
  <2>8. ASSUME MarkActive(r) \/ AbortVote(r)
        PROVE  Amount(j, K) = 0
    <3>1. job'[r] = NoJob
      BY <1>2, <2>8 DEF MarkActive, AbortVote
    <3> QED
      BY <1>3, <2>3, <3>1
  <2> QED
    BY <1>6, <2>1, <2>4, <2>5, <2>6, <2>7, <2>8
<1>7. ASSUME Count(r)
      PROVE  Votes(counts'[p][o]) + Sum(K)' <= taken'[p][o] /\ UNCHANGED taken
  <2>1. /\ job[r] \in Jobs /\ job[r].pc = "incr" /\ job'[r] \in Jobs /\ job'[r].pc = "dirty"
        /\ job' = [job EXCEPT ![r] = job'[r]]
    BY <1>7, NextFields
  <2>2. Sum(K)' + Amount(job[r], K) = Sum(K) + Amount(job'[r], K) /\ Sum(K)' \in Nat
    BY <1>3, <2>1, SumMoves
  <2>3. /\ Amount(job'[r], K) = 0
        /\ Amount(job[r], K) = IF job[r].poll = p /\ job[r].opt = o THEN job[r].n ELSE 0
    BY <1>3, <2>1
  <2>4. /\ counts'[p][o] = IF p = job[r].poll /\ o = job[r].opt
                           THEN HIncrBy(counts[p][o], job[r].n) ELSE counts[p][o]
        /\ job[r].n \in Nat
    BY <1>7, CountMoves
  <2>5. Votes(HIncrBy(counts[p][o], job[r].n)) = v + job[r].n
    BY <1>2, <2>4 DEF Votes, HIncrBy, Tally, Absent
  <2>6. UNCHANGED taken
    BY <1>7 DEF Count, history
  <2> HIDE DEF v
  <2>7. Votes(counts'[p][o]) = IF p = job[r].poll /\ o = job[r].opt THEN v + job[r].n ELSE v
    BY <2>4, <2>5 DEF v
  <2> QED
    BY <1>4, <2>2, <2>3, <2>4, <2>6, <2>7
<1> HIDE DEF v
<1>8. ASSUME UNCHANGED <<counts, taken>>, Sum(K)' <= Sum(K), Sum(K)' \in Nat
      PROVE  Votes(counts'[p][o]) + Sum(K)' <= taken'[p][o]
  BY <1>4, <1>8 DEF v
<1> QED
  BY <1>4, <1>5, <1>6, <1>7, <1>8 DEF AddVote, K


\* A creation sets tallies to 0, and those of its own unlisted poll only.
LEMMA CreateMoves ==
    ASSUME TypeOK, KnownInv, NEW p \in PollIds, CreateVote(p)
    PROVE  /\ UNCHANGED <<job, taken, mine, acked, meta, rows, worker, wiped>>
           /\ \A q \in PollIds, o \in Options :
                counts'[q][o] = counts[q][o] \/ (counts'[q][o] = 0 /\ q \notin known)
<1>1. UNCHANGED <<job, taken, mine, acked, meta, rows, worker, wiped>>
  BY DEF CreateVote, CreateVoteInMongo, AddOptionsInMongo, InitVoteInRedis, UpdateStatus, Rollback,
         logs, history
<1>2. ~InitVoteInRedis(p) => UNCHANGED counts
  BY DEF CreateVote, CreateVoteInMongo, AddOptionsInMongo, UpdateStatus, Rollback
<1>3. ASSUME InitVoteInRedis(p), NEW q \in PollIds, NEW o \in Options
      PROVE  counts'[q][o] = counts[q][o] \/ (counts'[q][o] = 0 /\ q \notin known)
  <2>1. PICK S \in SUBSET Options :
          counts' = [counts EXCEPT ![p] = [x \in Options |-> IF x \in S THEN 0 ELSE counts[p][x]]]
    BY <1>3 DEF InitVoteInRedis
  <2>2. p \notin known
    BY <1>3 DEF KnownInv, InitVoteInRedis, Making
  <2>3. counts \in [PollIds -> [Options -> Tally]]
    BY DEF TypeOK
  <2> QED
    BY <1>3, <2>1, <2>2, <2>3
<1> QED
  BY <1>1, <1>2, <1>3

\* The votes of a tally are not fewer than the tally.
LEMMA VotesOfTally ==
    ASSUME NEW c \in Tally
    PROVE  Votes(c) \in Nat /\ c <= Votes(c) /\ Votes(0) = 0 /\ Votes(Absent) = 0
BY DEF Votes, Tally, Absent

LEMMA PaidNext ==
    ASSUME TypeOK, KnownInv, FiniteInv, PaidInv, [Next]_vars
    PROVE  PaidInv'
<1>1. /\ taken \in [PollIds -> [Options -> Nat]] /\ counts \in [PollIds -> [Options -> Tally]]
      /\ rows \in [PollIds -> [Options -> Tally]] /\ worker.got \subseteq Rows
  BY DEF TypeOK
<1>2. \A p \in PollIds, o \in Options :
        /\ Votes(counts[p][o]) \in Nat /\ counts[p][o] <= Votes(counts[p][o])
        /\ Sum(Uncounted(p, o)) \in Nat
        /\ Votes(counts[p][o]) + Sum(Uncounted(p, o)) <= taken[p][o]
        /\ rows[p][o] <= taken[p][o]
  <2>1. ASSUME NEW p \in PollIds, NEW o \in Options
        PROVE  Sum(Uncounted(p, o)) \in Nat
    <3>1. Uncounted(p, o) \in SUBSET Jobs
      BY DEF Uncounted
    <3> QED
      BY <3>1, SumIsNat
  <2> QED
    BY <1>1, <2>1, VotesOfTally DEF PaidInv
<1>3. ASSUME UNCHANGED <<job, taken, rows, worker>>,
             \A p \in PollIds, o \in Options : Votes(counts'[p][o]) \in 0 .. Votes(counts[p][o])
      PROVE  PaidInv'
  <2>1. \A p \in PollIds, o \in Options : Sum(Uncounted(p, o))' = Sum(Uncounted(p, o))
    BY <1>3 DEF Sum, Tokens
  <2>2. \A p \in PollIds, o \in Options :
          Votes(counts'[p][o]) + Sum(Uncounted(p, o))' <= taken'[p][o]
    BY <1>1, <1>2, <1>3, <2>1
  <2> QED
    BY <1>3, <2>2 DEF PaidInv
<1>4. ASSUME NEW p \in PollIds, CreateVote(p)
      PROVE  PaidInv'
  <2>1. \A q \in PollIds, o \in Options : counts'[q][o] \in {counts[q][o], 0}
    BY <1>4, CreateMoves
  <2>3. Votes(0) = 0 /\ Votes(Absent) = 0
    BY DEF Votes, Absent
  <2>2. \A q \in PollIds, o \in Options : Votes(counts'[q][o]) \in 0 .. Votes(counts[q][o])
    BY <1>2, <2>1, <2>3
  <2> QED
    BY <1>3, <1>4, <2>2, CreateMoves
<1>5. ASSUME NEW a \in Admins, CloseOrDelete(a)
      PROVE  PaidInv'
  <2>1. \A q \in PollIds, o \in Options : counts'[q][o] \in {counts[q][o], Absent}
    BY <1>5, AdminWipes
  <2>3. Votes(0) = 0 /\ Votes(Absent) = 0
    BY DEF Votes, Absent
  <2>2. \A q \in PollIds, o \in Options : Votes(counts'[q][o]) \in 0 .. Votes(counts[q][o])
    BY <1>2, <2>1, <2>3
  <2> QED
    BY <1>3, <1>5, <2>2, AdminWipes
<1>6. ASSUME Snapshot
      PROVE  PaidInv'
  <2>1. UNCHANGED <<counts, taken, job>>
    BY <1>6, SnapMoves DEF Others, history
  <2>2. \A p \in PollIds, o \in Options : rows'[p][o] <= taken[p][o]
    <3> SUFFICES ASSUME NEW p \in PollIds, NEW o \in Options
                 PROVE  rows'[p][o] <= taken[p][o]
      OBVIOUS
    <3>1. \/ rows'[p][o] = rows[p][o]
          \/ \E g \in worker.got : g.poll = p /\ g.opt = o /\ rows'[p][o] = g.count
      BY <1>6, SnapMoves
    <3> QED
      BY <1>2, <3>1 DEF PaidInv
  <2>3. \A g \in worker'.got : g.count <= taken[g.poll][g.opt]
    <3> SUFFICES ASSUME NEW g \in worker'.got
                 PROVE  g.count <= taken[g.poll][g.opt]
      OBVIOUS
    <3>1. CASE g \in worker.got
      BY <3>1 DEF PaidInv
    <3>2. CASE \E f \in PollIds \X Options : g.poll = f[1] /\ g.opt = f[2] /\ g.count = counts[f[1]][f[2]]
      <4>1. g.poll \in PollIds /\ g.opt \in Options /\ g.count = counts[g.poll][g.opt]
        BY <3>2
      <4> QED
        BY <1>1, <1>2, <4>1 DEF Tally, Absent
    <3> QED
      BY <1>6, <3>1, <3>2, SnapMoves
  <2>4. \A p \in PollIds, o \in Options : Sum(Uncounted(p, o))' = Sum(Uncounted(p, o))
    BY <2>1 DEF Sum, Tokens
  <2> QED
    BY <1>2, <2>1, <2>2, <2>3, <2>4 DEF PaidInv
<1>7. ASSUME (\E u \in Users : ForgetUser(u)) \/ PopDirtyPolls \/ UNCHANGED vars
      PROVE  PaidInv'
  <2>1. UNCHANGED <<counts, taken, job, rows, worker>>
    BY <1>7 DEF ForgetUser, PopDirtyPolls, vars, history
  <2> QED
    BY <1>2, <1>3, <2>1
<1> QED
  BY <1>4, <1>5, <1>6, <1>7, PaidVote DEF Next


\* The room that a user's own ledger leaves for what is written of it never
\* shrinks by more than the requests that are about to fill it.
LEMMA MineRoom ==
    ASSUME TypeOK, FiniteInv, NEW r \in Requests, AddVote(r),
           NEW u \in Users, NEW p \in PollIds, NEW o \in Options
    PROVE  /\ Sum(Unread(u, p, o)) \in Nat /\ Sum(Unread(u, p, o))' \in Nat
           /\ mine[u][p][o] \in Nat /\ mine'[u][p][o] \in Nat
           /\ Sum(Unread(u, p, o))' + mine[u][p][o] <= Sum(Unread(u, p, o)) + mine'[u][p][o]
           /\ ReadMeta(r) /\ job[r].user = u /\ job[r].poll = p /\ job[r].opt = o =>
                Sum(Unread(u, p, o))' + job[r].n = Sum(Unread(u, p, o))
<1> DEFINE K == Unread(u, p, o)
<1>1. /\ K \in SUBSET Jobs /\ Amount(NoJob, K) = 0
      /\ \A j \in Jobs : Amount(j, K) = IF /\ j.pc = "read" /\ j.user = u
                                           /\ j.poll = p /\ j.opt = o THEN j.n ELSE 0
  BY Amounts DEF Unread, Amount, NoJob, Jobs, VoteSteps
<1>2. job \in [Requests -> Jobs \cup {NoJob}] /\ mine \in [Users -> [PollIds -> [Options -> Nat]]]
  BY DEF TypeOK
<1>3. PICK j \in Jobs \cup {NoJob} : job' = [job EXCEPT ![r] = j]
  BY VoteMoves
<1>4. job'[r] = j /\ job[r] \in Jobs \cup {NoJob}
  BY <1>2, <1>3
<1>5. /\ Sum(K)' + Amount(job[r], K) = Sum(K) + Amount(j, K) /\ Sum(K)' \in Nat
      /\ Sum(K) \in Nat /\ Amount(job[r], K) \in 0 .. Sum(K)
  BY <1>1, <1>3, SumMoves
<1>6. mine[u][p][o] \in Nat
  BY <1>2
<1> HIDE DEF K
<1> DEFINE Goal == /\ mine'[u][p][o] \in Nat
                   /\ Sum(K)' + mine[u][p][o] <= Sum(K) + mine'[u][p][o]
<1>7. ASSUME NEW v \in Users, NEW q \in PollIds, NEW x \in Options, NEW n \in 1 .. MaxCount,
             BeginVote(r, v, q, x, n)
      PROVE  Goal /\ ~ReadMeta(r)
  <2>1. PICK k \in Jobs : /\ job' = [job EXCEPT ![r] = k]
                          /\ k.pc = "read" /\ k.user = v /\ k.poll = q /\ k.opt = x /\ k.n = n
    BY <1>7, BeginMoves
  <2>2. /\ job[r] = NoJob /\ n \in Nat
        /\ mine'[u][p][o] = IF u = v /\ p = q /\ o = x THEN mine[u][p][o] + n ELSE mine[u][p][o]
    BY <1>7, BeginMoves
  <2>3. j = k
    BY <1>2, <1>4, <2>1
  <2>4. Amount(job[r], K) = 0 /\ Amount(j, K) = IF u = v /\ p = q /\ o = x THEN n ELSE 0
    BY <1>1, <2>1, <2>2, <2>3
  <2>5. Goal
    BY <1>5, <1>6, <2>2, <2>4
  <2> QED
    BY <2>2, <2>5 DEF ReadMeta, NoJob
<1>8. ASSUME ReadMeta(r)
      PROVE  Goal /\ (job[r].user = u /\ job[r].poll = p /\ job[r].opt = o => Sum(K)' + job[r].n = Sum(K))
  <2>1. PICK k \in Jobs : job' = [job EXCEPT ![r] = k] /\ k.pc = "zadd"
    BY <1>8, ReadMoves
  <2>2. job[r] \in Jobs /\ job[r].pc = "read" /\ UNCHANGED mine
    BY <1>8, ReadMoves
  <2>3. j = k
    BY <1>2, <1>4, <2>1
  <2>4. Amount(j, K) = 0
    BY <1>1, <2>1, <2>3
  <2>5. job[r].user = u /\ job[r].poll = p /\ job[r].opt = o => Amount(job[r], K) = job[r].n
    BY <1>1, <2>2
  <2> QED
    BY <1>5, <1>6, <2>2, <2>4, <2>5
<1>9. ASSUME LogPoll(r) \/ LogTotal(r) \/ Count(r) \/ MarkDirty(r)
      PROVE  Goal /\ ~ReadMeta(r)
  <2>1. job'[r] \in Jobs /\ job'[r].pc # "read" /\ job[r].pc # "read"
    BY <1>9, NextFields
  <2>2. Amount(j, K) = 0
    BY <1>1, <1>4, <2>1
  <2>3. UNCHANGED mine
    BY <1>9 DEF LogPoll, LogTotal, Count, MarkDirty, history
  <2>4. Goal
    BY <1>5, <1>6, <2>2, <2>3
  <2> QED
    BY <2>1, <2>4 DEF ReadMeta
<1>10. ASSUME MarkActive(r) \/ AbortVote(r)
       PROVE  Goal
  <2>1. job'[r] = NoJob /\ UNCHANGED mine
    BY <1>2, <1>10 DEF MarkActive, AbortVote, history
  <2>2. Amount(j, K) = 0
    BY <1>1, <1>4, <2>1
  <2> QED
    BY <1>5, <1>6, <2>1, <2>2
<1>11. Goal
  <2> HIDE DEF Goal
  <2> QED
    BY <1>7, <1>8, <1>9, <1>10 DEF AddVote
<1>12. ReadMeta(r) /\ job[r].user = u /\ job[r].poll = p /\ job[r].opt = o => Sum(K)' + job[r].n = Sum(K)
  BY <1>8
<1> QED
  BY <1>5, <1>6, <1>11, <1>12 DEF K

LEMMA MineVote ==
    ASSUME TypeOK, FiniteInv, MineInv, NEW r \in Requests, AddVote(r)
    PROVE  MineInv'
<1>1. /\ job \in [Requests -> Jobs \cup {NoJob}]
      /\ meta \in [Users -> [PollIds -> [opt: Options, total: Nat] \cup {NoMeta}]]
      /\ mine' \in [Users -> [PollIds -> [Options -> Nat]]]
  BY VoteTypes DEF TypeOK
<1>2. \A q \in Requests \ {r} : job'[q] = job[q]
  BY VoteMoves, JobPut
<1> DEFINE N(u, p, o)  == Cardinality(Tokens(job, Unread(u, p, o)))
           N2(u, p, o) == Cardinality(Tokens(job', Unread(u, p, o)))
           Fits(x, u, p, o)  == x + N(u, p, o) <= mine[u][p][o]
           Fits2(x, u, p, o) == x + N2(u, p, o) <= mine'[u][p][o]
<1>0. ASSUME NEW u \in Users, NEW p \in PollIds, NEW o \in Options
      PROVE  /\ N(u, p, o) \in Nat /\ N2(u, p, o) \in Nat
             /\ mine[u][p][o] \in Nat /\ mine'[u][p][o] \in Nat
             /\ N2(u, p, o) + mine[u][p][o] <= N(u, p, o) + mine'[u][p][o]
             /\ ReadMeta(r) /\ job[r].user = u /\ job[r].poll = p /\ job[r].opt = o =>
                  N2(u, p, o) + job[r].n = N(u, p, o)
  BY MineRoom DEF Sum
<1> HIDE DEF N, N2
<1>3. ASSUME NEW x \in Nat, NEW u \in Users, NEW p \in PollIds, NEW o \in Options, Fits(x, u, p, o)
      PROVE  Fits2(x, u, p, o)
  BY <1>0, <1>3
<1>4. \A u \in Users, p \in PollIds, o \in Options : Fits2(0, u, p, o)
  <2>1. ASSUME NEW u \in Users, NEW p \in PollIds, NEW o \in Options
        PROVE  Fits(0, u, p, o)
    BY <1>0 DEF MineInv, N, Sum
  <2> HIDE DEF Fits, Fits2
  <2> QED
    BY <1>3, <2>1
<1>5. \A q \in Requests \ {r} : job[q] # NoJob /\ job[q].pc # "read" =>
         Fits2(job[q].total, job[q].user, job[q].poll, job[q].opt)
  <2> SUFFICES ASSUME NEW q \in Requests \ {r}, job[q] # NoJob, job[q].pc # "read"
               PROVE  Fits2(job[q].total, job[q].user, job[q].poll, job[q].opt)
    OBVIOUS
  <2>1. /\ job[q].user \in Users /\ job[q].poll \in PollIds /\ job[q].opt \in Options
        /\ job[q].total \in Nat
    BY JobGoesOn DEF VoteSteps
  <2>2. Fits(job[q].total, job[q].user, job[q].poll, job[q].opt)
    BY DEF MineInv, N, Sum
  <2> HIDE DEF Fits, Fits2
  <2> QED
    BY <1>3, <2>1, <2>2
<1>6. ASSUME NEW u \in Users, NEW p \in PollIds, meta[u][p] # NoMeta
      PROVE  Fits2(meta[u][p].total, u, p, meta[u][p].opt)
  <2>1. meta[u][p] \in [opt: Options, total: Nat]
    BY <1>1, <1>6
  <2>2. Fits(meta[u][p].total, u, p, meta[u][p].opt)
    BY <1>6 DEF MineInv, N, Sum
  <2>3. meta[u][p].total \in Nat /\ meta[u][p].opt \in Options
    BY <2>1
  <2> HIDE DEF Fits, Fits2
  <2> QED
    BY <1>3, <2>2, <2>3
<1> DEFINE Own  == job'[r] # NoJob /\ job'[r].pc # "read" =>
                     Fits2(job'[r].total, job'[r].user, job'[r].poll, job'[r].opt)
           Meta == \A u \in Users, p \in PollIds : meta'[u][p] # NoMeta =>
                     Fits2(meta'[u][p].total, u, p, meta'[u][p].opt)
<1>7. ASSUME UNCHANGED meta
      PROVE  Meta
  BY <1>6, <1>7
<1> HIDE DEF Fits, Fits2
<1>8. ASSUME NEW v \in Users, NEW q \in PollIds, NEW x \in Options, NEW n \in 1 .. MaxCount,
             BeginVote(r, v, q, x, n)
      PROVE  Own /\ Meta
  <2>1. UNCHANGED meta
    BY <1>8, BeginMoves
  <2>2. PICK k \in Jobs : job' = [job EXCEPT ![r] = k] /\ k.pc = "read"
    BY <1>8, BeginMoves
  <2>3. job'[r].pc = "read"
    BY <1>1, <2>2
  <2> QED
    BY <1>7, <2>1, <2>3
<1>9. ASSUME ReadMeta(r)
      PROVE  Own /\ Meta
  <2>1. /\ job[r] \in Jobs /\ job[r].pc = "read" /\ UNCHANGED <<meta, mine>>
    BY <1>9, ReadMoves
  <2>2. job[r] # NoJob
    BY <2>1 DEF NoJob
  <2>3. PICK u \in Users, p \in PollIds, o \in Options, n \in Nat :
          job[r].user = u /\ job[r].poll = p /\ job[r].opt = o /\ job[r].n = n
    BY <2>2, JobGoesOn DEF VoteSteps
  <2>4. PICK k \in Jobs :
          /\ job' = [job EXCEPT ![r] = k]
          /\ k.pc = "zadd" /\ k.user = u /\ k.poll = p /\ k.opt = o /\ k.n = n
          /\ k.total = n \/ (meta[u][p].opt = o /\ k.total = n + meta[u][p].total)
    BY <1>9, <2>3, ReadMoves
  <2>5. /\ N(u, p, o) \in Nat /\ N2(u, p, o) \in Nat /\ mine[u][p][o] \in Nat
        /\ N2(u, p, o) + n = N(u, p, o)
    BY <1>0, <1>9, <2>3
  <2>6. N(u, p, o) <= mine[u][p][o]
    BY DEF MineInv, N, Sum
  <2>7. meta[u][p].opt = o => /\ meta[u][p].total \in Nat
                              /\ meta[u][p].total + N(u, p, o) <= mine[u][p][o]
    <3>1. meta[u][p] \in [opt: Options, total: Nat] \cup {NoMeta}
      BY <1>1
    <3>2. CASE meta[u][p] = NoMeta
      BY <2>5, <2>6, <3>2 DEF NoMeta
    <3>3. CASE meta[u][p] # NoMeta
      BY <3>1, <3>3 DEF MineInv, N, Sum
    <3> QED
      BY <3>2, <3>3
  <2>8. job'[r] = k
    BY <1>1, <2>4
  <2>9. k.total + N2(u, p, o) <= mine[u][p][o]
    BY <2>3, <2>4, <2>5, <2>6, <2>7
  <2>10. Fits2(k.total, u, p, o)
    BY <2>1, <2>9 DEF Fits2
  <2>11. Own
    BY <2>4, <2>8, <2>10
  <2> QED
    BY <1>7, <2>1, <2>11
<1>10. ASSUME LogPoll(r) \/ LogTotal(r) \/ Count(r) \/ MarkDirty(r)
       PROVE  Own /\ Meta
  <2>1. /\ job[r] \in Jobs /\ job'[r].user = job[r].user /\ job'[r].poll = job[r].poll
        /\ job'[r].opt = job[r].opt /\ job'[r].total = job[r].total /\ job[r].pc # "read"
    BY <1>10, NextFields
  <2>2. job[r] # NoJob
    BY <2>1 DEF NoJob, Jobs, VoteSteps
  <2>3. /\ job[r].user \in Users /\ job[r].poll \in PollIds /\ job[r].opt \in Options
        /\ job[r].total \in Nat
    BY <2>2, JobGoesOn DEF VoteSteps
  <2>4. Fits(job[r].total, job[r].user, job[r].poll, job[r].opt)
    BY <2>1, <2>2 DEF MineInv, Fits, N, Sum
  <2>5. Fits2(job[r].total, job[r].user, job[r].poll, job[r].opt)
    BY <1>3, <2>3, <2>4
  <2>6. ASSUME LogTotal(r)
        PROVE  Meta
    <3> DEFINE x == [opt |-> job[r].opt, total |-> job[r].total]
    <3>1. meta' = [meta EXCEPT ![job[r].user][job[r].poll] = x]
      BY <2>6 DEF LogTotal
    <3>2. x \in [opt: Options, total: Nat] \cup {NoMeta}
      BY <2>3
    <3>3. \A u \in Users, p \in PollIds :
            meta'[u][p] = IF u = job[r].user /\ p = job[r].poll THEN x ELSE meta[u][p]
      <4> HIDE DEF x
      <4> QED
        BY <1>1, <2>3, <3>1, <3>2, Put2
    <3> QED
      BY <1>6, <2>5, <3>3
  <2>7. LogPoll(r) \/ Count(r) \/ MarkDirty(r) => UNCHANGED meta
    BY DEF LogPoll, Count, MarkDirty, logs
  <2> QED
    BY <1>7, <1>10, <2>1, <2>5, <2>6, <2>7
<1>11. ASSUME MarkActive(r) \/ AbortVote(r)
       PROVE  Own /\ Meta
  <2>1. job'[r] = NoJob /\ UNCHANGED meta
    BY <1>1, <1>11 DEF MarkActive, AbortVote, logs
  <2> QED
    BY <1>7, <2>1
<1>12. Own /\ Meta
  <2> HIDE DEF Own, Meta
  <2> QED
    BY <1>8, <1>9, <1>10, <1>11 DEF AddVote
<1>13. \A q \in Requests : job'[q] # NoJob /\ job'[q].pc # "read" =>
          Fits2(job'[q].total, job'[q].user, job'[q].poll, job'[q].opt)
  BY <1>2, <1>5, <1>12
<1>14. \A u \in Users, p \in PollIds, o \in Options : N2(u, p, o) <= mine'[u][p][o]
  BY <1>0, <1>4 DEF Fits2
<1> QED
  BY <1>12, <1>13, <1>14 DEF MineInv, Fits2, N2, Sum

LEMMA MineNext ==
    ASSUME TypeOK, KnownInv, FiniteInv, MineInv, [Next]_vars
    PROVE  MineInv'
<1>1. ASSUME UNCHANGED <<job, mine, meta>>
      PROVE  MineInv'
  <2>1. \A K : Sum(K)' = Sum(K)
    BY <1>1 DEF Sum, Tokens
  <2> QED
    BY <1>1, <2>1 DEF MineInv, Sum, Tokens
<1>2. ASSUME NEW u \in Users, ForgetUser(u)
      PROVE  MineInv'
  <2>1. UNCHANGED <<job, mine>>
    BY <1>2 DEF ForgetUser, history
  <2>2. \A v \in Users, p \in PollIds : meta'[v][p] \in {meta[v][p], NoMeta}
    <3>1. meta \in [Users -> [PollIds -> [opt: Options, total: Nat] \cup {NoMeta}]]
      BY DEF TypeOK
    <3>2. meta' = meta \/ meta' = [meta EXCEPT ![u] = [p \in PollIds |-> NoMeta]]
      BY <1>2 DEF ForgetUser
    <3> QED
      BY <3>1, <3>2
  <2> QED
    BY <2>1, <2>2 DEF MineInv, Sum, Tokens
<1>3. ASSUME NEW p \in PollIds, CreateVote(p)
      PROVE  MineInv'
  BY <1>1, <1>3, CreateMoves
<1>4. ASSUME NEW a \in Admins, CloseOrDelete(a)
      PROVE  MineInv'
  BY <1>1, <1>4, AdminWipes
<1>5. ASSUME Snapshot \/ PopDirtyPolls \/ UNCHANGED vars
      PROVE  MineInv'
  <2>1. UNCHANGED <<job, mine, meta>>
    BY <1>5, SnapMoves DEF Others, PopDirtyPolls, vars, logs, history
  <2> QED
    BY <1>1, <2>1
<1> QED
  BY <1>2, <1>3, <1>4, <1>5, MineVote DEF Next


LEMMA AckVote ==
    ASSUME TypeOK, FiniteInv, AckInv, NEW r \in Requests, AddVote(r)
    PROVE  AckInv'
<1>1. UNCHANGED wiped
  BY VoteMoves
<1>2. /\ counts \in [PollIds -> [Options -> Tally]] /\ acked \in [PollIds -> [Options -> Nat]]
      /\ job \in [Requests -> Jobs \cup {NoJob}]
  BY DEF TypeOK
<1> SUFFICES ASSUME NEW p \in PollIds \ wiped, NEW o \in Options
             PROVE  acked'[p][o] + Sum(Counted(p, o))' <= Votes(counts'[p][o])
  BY <1>1 DEF AckInv
<1> DEFINE K == Counted(p, o)
<1>3. /\ K \in SUBSET Jobs /\ Amount(NoJob, K) = 0
      /\ \A j \in Jobs : Amount(j, K) = IF /\ j.pc \in {"dirty", "active"}
                                           /\ j.poll = p /\ j.opt = o THEN j.n ELSE 0
  BY Amounts DEF Counted, Amount, NoJob, Jobs, VoteSteps
<1>4. /\ counts[p][o] \in Tally /\ acked[p][o] \in Nat /\ Votes(counts[p][o]) \in Nat
      /\ acked[p][o] + Sum(K) <= Votes(counts[p][o])
  BY <1>2, VotesOfTally DEF AckInv
<1>5. PICK j \in Jobs \cup {NoJob} : job' = [job EXCEPT ![r] = j]
  BY VoteMoves
<1>6. job'[r] = j /\ job[r] \in Jobs \cup {NoJob}
  BY <1>2, <1>5
<1>7. /\ Sum(K)' + Amount(job[r], K) = Sum(K) + Amount(j, K) /\ Sum(K)' \in Nat
      /\ Sum(K) \in Nat /\ Amount(job[r], K) \in 0 .. Sum(K)
  BY <1>3, <1>5, SumMoves
<1> HIDE DEF K
<1> DEFINE Goal == acked'[p][o] + Sum(K)' <= Votes(counts'[p][o])
<1>8. ASSUME NEW v \in Users, NEW q \in PollIds, NEW x \in Options, NEW n \in 1 .. MaxCount,
             BeginVote(r, v, q, x, n)
      PROVE  Goal
  <2>1. PICK k \in Jobs : job' = [job EXCEPT ![r] = k] /\ k.pc = "read"
    BY <1>8, BeginMoves
  <2>2. UNCHANGED <<acked, counts>>
    BY <1>8, BeginMoves
  <2>3. j = k
    BY <1>2, <1>6, <2>1
  <2>4. Amount(j, K) = 0
    BY <1>3, <2>1, <2>3
  <2> QED
    BY <1>4, <1>7, <2>2, <2>4
<1>9. ASSUME ReadMeta(r)
      PROVE  Goal
  <2>1. PICK k \in Jobs : job' = [job EXCEPT ![r] = k] /\ k.pc = "zadd"
    BY <1>9, ReadMoves
  <2>2. UNCHANGED <<acked, counts>>
    BY <1>9, ReadMoves
  <2>3. j = k
    BY <1>2, <1>6, <2>1
  <2>4. Amount(j, K) = 0
    BY <1>3, <2>1, <2>3
  <2> QED
    BY <1>4, <1>7, <2>2, <2>4
<1>10. ASSUME LogPoll(r) \/ LogTotal(r) \/ MarkDirty(r)
       PROVE  Goal
  <2>1. /\ job'[r] \in Jobs /\ job[r] \in Jobs /\ job'[r].n = job[r].n
        /\ job'[r].poll = job[r].poll /\ job'[r].opt = job[r].opt
        /\ job'[r].pc \in {"dirty", "active"} => job[r].pc \in {"dirty", "active"}
    BY <1>10, NextFields
  <2>2. Amount(j, K) <= Amount(job[r], K) /\ Amount(j, K) \in Nat
    <3>1. job[r].n \in Nat
      BY <2>1, PollsAssumption DEF Jobs
    <3> QED
      BY <1>3, <1>6, <2>1, <3>1
  <2>3. UNCHANGED <<acked, counts>>
    BY <1>10 DEF LogPoll, LogTotal, MarkDirty, history
  <2> QED
    BY <1>4, <1>7, <2>2, <2>3
<1>11. ASSUME Count(r)
       PROVE  Goal
  <2>1. /\ job'[r] \in Jobs /\ job[r] \in Jobs /\ job'[r].n = job[r].n
        /\ job'[r].poll = job[r].poll /\ job'[r].opt = job[r].opt
        /\ job'[r].pc = "dirty" /\ job[r].pc = "incr"
    BY <1>11, NextFields
  <2>2. /\ counts'[p][o] = IF p = job[r].poll /\ o = job[r].opt
                           THEN HIncrBy(counts[p][o], job[r].n) ELSE counts[p][o]
        /\ job[r].n \in Nat
    BY <1>11, CountMoves
  <2>3. Amount(job[r], K) = 0 /\ Amount(j, K) = IF p = job[r].poll /\ o = job[r].opt THEN job[r].n ELSE 0
    BY <1>3, <1>6, <2>1
  <2>4. Votes(HIncrBy(counts[p][o], job[r].n)) = Votes(counts[p][o]) + job[r].n
    BY <1>4, <2>2 DEF Votes, HIncrBy, Tally, Absent
  <2>5. UNCHANGED acked
    BY <1>11 DEF Count, history
  <2>6. Votes(counts'[p][o]) = IF p = job[r].poll /\ o = job[r].opt
                               THEN Votes(counts[p][o]) + job[r].n ELSE Votes(counts[p][o])
    BY <2>2, <2>4
  <2> QED
    BY <1>4, <1>7, <2>2, <2>3, <2>5, <2>6
<1>12. ASSUME MarkActive(r)
       PROVE  Goal
  <2>1. job[r] \in Jobs /\ job[r].pc = "active" /\ job'[r] = NoJob /\ UNCHANGED counts
    BY <1>2, <1>12, NextJob DEF MarkActive
  <2>2. job[r].poll \in PollIds /\ job[r].opt \in Options /\ job[r].n \in Nat
    BY <2>1, PollsAssumption DEF Jobs
  <2>3. \/ acked' = acked
        \/ acked' = [acked EXCEPT ![job[r].poll][job[r].opt]
                                    = acked[job[r].poll][job[r].opt] + job[r].n]
    BY <1>12 DEF MarkActive
  <2>4. acked'[p][o] = acked[p][o] \/ (p = job[r].poll /\ o = job[r].opt
                                        /\ acked'[p][o] = acked[p][o] + job[r].n)
    BY <1>2, <2>2, <2>3
  <2>5. Amount(j, K) = 0 /\ Amount(job[r], K) = IF p = job[r].poll /\ o = job[r].opt THEN job[r].n ELSE 0
    BY <1>3, <1>6, <2>1
  <2> QED
    BY <1>4, <1>7, <2>1, <2>2, <2>4, <2>5
<1>13. ASSUME AbortVote(r)
       PROVE  Goal
  <2>1. job'[r] = NoJob /\ UNCHANGED <<acked, counts>>
    BY <1>2, <1>13 DEF AbortVote, history
  <2>2. Amount(j, K) = 0
    BY <1>3, <1>6, <2>1
  <2> QED
    BY <1>4, <1>7, <2>1, <2>2
<1>14. Goal
  <2> HIDE DEF Goal
  <2> QED
    BY <1>8, <1>9, <1>10, <1>11, <1>12, <1>13 DEF AddVote
<1> QED
  BY <1>14 DEF K

\* Only the requests for a listed poll hold tokens.
LEMMA NoTokensYet ==
    ASSUME TypeOK, KnownInv, NEW p \in PollIds \ known, NEW o \in Options
    PROVE  Sum(Counted(p, o)) = 0
<1>1. Tokens(job, Counted(p, o)) = {}
  <2> SUFFICES ASSUME NEW t \in Tokens(job, Counted(p, o))
               PROVE  FALSE
    OBVIOUS
  <2>1. t[1] \in Requests /\ job[t[1]] \in Jobs /\ job[t[1]].poll = p
    BY DEF Tokens, Counted
  <2>2. job[t[1]] # NoJob
    BY <2>1 DEF NoJob, Jobs, VoteSteps
  <2> QED
    BY <2>1, <2>2 DEF KnownInv
<1> QED
  BY <1>1, FS_EmptySet DEF Sum

LEMMA AckNext ==
    ASSUME TypeOK, KnownInv, FiniteInv, AckInv, [Next]_vars
    PROVE  AckInv'
<1>1. ASSUME UNCHANGED <<job, acked, wiped, counts>>
      PROVE  AckInv'
  BY <1>1 DEF AckInv, Sum, Tokens
<1>2. ASSUME NEW p \in PollIds, CreateVote(p)
      PROVE  AckInv'
  <2> SUFFICES ASSUME NEW q \in PollIds \ wiped, NEW o \in Options
               PROVE  acked'[q][o] + Sum(Counted(q, o))' <= Votes(counts'[q][o])
    BY <1>2, CreateMoves DEF AckInv
  <2>1. /\ UNCHANGED <<job, acked>>
        /\ counts'[q][o] = counts[q][o] \/ (counts'[q][o] = 0 /\ q \notin known)
    BY <1>2, CreateMoves
  <2>2. Sum(Counted(q, o))' = Sum(Counted(q, o))
    BY <2>1 DEF Sum, Tokens
  <2>3. CASE counts'[q][o] = counts[q][o]
    BY <2>1, <2>2, <2>3 DEF AckInv
  <2>4. CASE counts'[q][o] = 0 /\ q \notin known
    <3>1. Sum(Counted(q, o)) = 0
      BY <2>4, NoTokensYet
    <3>2. acked[q][o] = 0
      BY <2>4 DEF KnownInv
    <3> QED
      BY <2>1, <2>2, <2>4, <3>1, <3>2 DEF Votes, Absent
  <2> QED
    BY <2>1, <2>3, <2>4
<1>3. ASSUME NEW a \in Admins, CloseOrDelete(a)
      PROVE  AckInv'
  <2>1. UNCHANGED <<job, acked>> /\ wiped \subseteq wiped' /\ \A p \in PollIds \ wiped' : counts'[p] = counts[p]
    BY <1>3, AdminWipes
  <2> QED
    BY <2>1 DEF AckInv, Sum, Tokens
<1>4. ASSUME Snapshot \/ (\E u \in Users : ForgetUser(u)) \/ PopDirtyPolls \/ UNCHANGED vars
      PROVE  AckInv'
  <2>1. UNCHANGED <<job, acked, wiped, counts>>
    BY <1>4, SnapMoves DEF Others, ForgetUser, PopDirtyPolls, vars, history
  <2> QED
    BY <1>1, <2>1
<1> QED
  BY <1>2, <1>3, <1>4, AckVote DEF Next

-----------------------------------------------------------------------------
(* The history.                                                            *)

LEMMA HistoryNext ==
    ASSUME TypeOK, KnownInv, HistoryInv, [Next]_vars
    PROVE  HistoryInv'
<1>1. /\ counts \in [PollIds -> [Options -> Tally]] /\ rows \in [PollIds -> [Options -> Tally]]
      /\ worker.got \subseteq Rows
  BY DEF TypeOK
<1>2. \A g \in worker.got : g.poll \in PollIds /\ g.opt \in Options /\ g.count \in Nat
  BY <1>1 DEF Rows
\* Tallies of listed polls that no step wipes only grow.
<1>3. ASSUME UNCHANGED <<rows, worker>>, wiped \subseteq wiped',
             \A p \in PollIds \ wiped', o \in Options :
               counts[p][o] <= counts'[p][o] \/ (counts'[p][o] = 0 /\ p \notin known)
      PROVE  HistoryInv'
  <2>1. counts' \in [PollIds -> [Options -> Tally]]
    BY NextTypes DEF TypeOK
  <2>2. ASSUME NEW p \in PollIds \ wiped', NEW o \in Options
        PROVE  rows[p][o] <= counts'[p][o]
    <3>1. rows[p][o] \in Tally /\ counts[p][o] \in Tally /\ counts'[p][o] \in Tally
      BY <1>1, <2>1
    <3>2. rows[p][o] <= counts[p][o]
      BY <1>3 DEF HistoryInv
    <3>3. p \notin known => rows[p][o] = Absent
      BY DEF KnownInv
    <3> QED
      BY <1>3, <3>1, <3>2, <3>3 DEF Tally, Absent
  <2>3. ASSUME NEW g \in worker.got, g.poll \notin wiped'
        PROVE  rows[g.poll][g.opt] <= g.count /\ g.count <= counts'[g.poll][g.opt]
    <3>1. g.poll \in PollIds \ wiped' /\ g.opt \in Options /\ g.poll \in known /\ g.count \in Nat
      BY <1>2, <2>3 DEF KnownInv
    <3>2. counts[g.poll][g.opt] \in Tally /\ counts'[g.poll][g.opt] \in Tally
      BY <1>1, <2>1, <3>1
    <3>3. rows[g.poll][g.opt] <= g.count /\ g.count <= counts[g.poll][g.opt]
      BY <1>3, <2>3 DEF HistoryInv
    <3>4. counts[g.poll][g.opt] <= counts'[g.poll][g.opt]
      BY <1>3, <3>1
    <3> QED
      BY <3>1, <3>2, <3>3, <3>4 DEF Tally, Absent
  <2> QED
    BY <1>3, <2>2, <2>3 DEF HistoryInv
<1>4. ASSUME NEW p \in PollIds, CreateVote(p)
      PROVE  HistoryInv'
  <2>1. /\ UNCHANGED <<rows, worker, wiped>>
        /\ \A q \in PollIds, o \in Options :
             counts'[q][o] = counts[q][o] \/ (counts'[q][o] = 0 /\ q \notin known)
    BY <1>4, CreateMoves
  <2>2. \A q \in PollIds, o \in Options : counts[q][o] <= counts[q][o]
    BY <1>1 DEF Tally, Absent
  <2> QED
    BY <1>3, <2>1, <2>2
<1>5. ASSUME NEW r \in Requests, AddVote(r)
      PROVE  HistoryInv'
  <2>1. UNCHANGED <<rows, worker, wiped>>
    BY <1>5, VoteMoves
  <2>2. \A q \in PollIds, o \in Options : counts[q][o] <= counts'[q][o]
    <3>1. CASE Count(r)
      BY <1>1, <3>1, CountMoves DEF HIncrBy, Tally, Absent
    <3>2. CASE ~Count(r)
      BY <1>1, <1>5, <3>2, OtherVoteSteps DEF Tally, Absent
    <3> QED
      BY <3>1, <3>2
  <2> QED
    BY <1>3, <2>1, <2>2
<1>6. ASSUME NEW a \in Admins, CloseOrDelete(a)
      PROVE  HistoryInv'
  <2>1. /\ UNCHANGED <<rows, worker>> /\ wiped \subseteq wiped'
        /\ \A p \in PollIds \ wiped' : counts'[p] = counts[p]
    BY <1>6, AdminWipes
  <2>2. \A p \in PollIds \ wiped', o \in Options : counts[p][o] <= counts'[p][o]
    BY <1>1, <2>1 DEF Tally, Absent
  <2> QED
    BY <1>3, <2>1, <2>2
<1>7. ASSUME Snapshot
      PROVE  HistoryInv'
  <2>1. UNCHANGED <<counts, wiped>>
    BY <1>7, SnapMoves DEF Others, history
  <2>2. ASSUME NEW p \in PollIds \ wiped, NEW o \in Options
        PROVE  rows'[p][o] <= counts[p][o]
    <3>1. \/ rows'[p][o] = rows[p][o]
          \/ \E g \in worker.got : g.poll = p /\ g.opt = o /\ rows'[p][o] = g.count
      BY <1>7, SnapMoves
    <3> QED
      BY <3>1 DEF HistoryInv
  <2>3. ASSUME NEW g \in worker'.got, g.poll \notin wiped
        PROVE  rows'[g.poll][g.opt] <= g.count /\ g.count <= counts[g.poll][g.opt]
    <3>1. rows' = rows
      BY <1>7, SnapMoves
    <3>2. CASE g \in worker.got
      BY <2>3, <3>1, <3>2 DEF HistoryInv
    <3>3. CASE \E f \in PollIds \X Options : g.poll = f[1] /\ g.opt = f[2] /\ g.count = counts[f[1]][f[2]]
      <4>1. g.poll \in PollIds \ wiped /\ g.opt \in Options /\ g.count = counts[g.poll][g.opt]
        BY <2>3, <3>3
      <4>2. rows[g.poll][g.opt] <= counts[g.poll][g.opt] /\ counts[g.poll][g.opt] \in Tally
        BY <1>1, <4>1 DEF HistoryInv
      <4> QED
        BY <3>1, <4>1, <4>2 DEF Tally, Absent
    <3> QED
      BY <1>7, <3>2, <3>3, SnapMoves
  <2> QED
    BY <2>1, <2>2, <2>3 DEF HistoryInv
<1>8. ASSUME (\E u \in Users : ForgetUser(u)) \/ PopDirtyPolls \/ UNCHANGED vars
      PROVE  HistoryInv'
  <2>1. UNCHANGED <<counts, wiped, rows, worker>>
    BY <1>8 DEF ForgetUser, PopDirtyPolls, vars, history
  <2> QED
    BY <2>1 DEF HistoryInv
<1> QED
  BY <1>4, <1>5, <1>6, <1>7, <1>8 DEF Next


-----------------------------------------------------------------------------
(* What follows for the specification.                                     *)

LEMMA InitInv == Init => PollsInv
<1> SUFFICES ASSUME Init
             PROVE  PollsInv
  OBVIOUS
<1>1. TypeOK
  BY InitTypes
<1>2. \A K \in SUBSET Jobs : Tokens(job, K) = {}
  <2>1. NoJob \notin Jobs
    BY DEF NoJob, Jobs, VoteSteps
  <2> QED
    BY <2>1 DEF Init, Tokens
<1>3. FiniteInv /\ \A K \in SUBSET Jobs : Sum(K) = 0
  BY <1>2, FS_EmptySet DEF FiniteInv, Sum
<1>4. KnownInv /\ CompleteInv
  BY DEF Init, KnownInv, CompleteInv, Making, Asleep
<1>5. PaidInv
  <2>1. \A p \in PollIds, o \in Options : Uncounted(p, o) \in SUBSET Jobs
    BY DEF Uncounted
  <2> QED
    BY <1>3, <2>1 DEF Init, PaidInv, Votes, Absent, Asleep
<1>6. MineInv
  <2>1. \A u \in Users, p \in PollIds, o \in Options : Unread(u, p, o) \in SUBSET Jobs
    BY DEF Unread
  <2>2. \A u \in Users, p \in PollIds, o \in Options : Sum(Unread(u, p, o)) = 0
    BY <1>3, <2>1
  <2>3. /\ \A u \in Users, p \in PollIds, o \in Options : mine[u][p][o] = 0 /\ meta[u][p] = NoMeta
        /\ \A r \in Requests : job[r] = NoJob
        /\ \A u \in Users, p \in PollIds : meta[u][p] = NoMeta
    BY DEF Init
  <2> QED
    BY <2>2, <2>3 DEF MineInv
<1>7. AckInv
  <2>1. \A p \in PollIds, o \in Options : Counted(p, o) \in SUBSET Jobs
    BY DEF Counted
  <2>2. \A p \in PollIds, o \in Options : Sum(Counted(p, o)) = 0
    BY <1>3, <2>1
  <2>3. \A p \in PollIds, o \in Options : acked[p][o] = 0 /\ counts[p][o] = Absent
    BY DEF Init
  <2> QED
    BY <2>2, <2>3 DEF AckInv, Votes
<1>8. HistoryInv
  BY DEF Init, HistoryInv, Absent, Asleep
<1> QED
  BY <1>1, <1>3, <1>4, <1>5, <1>6, <1>7, <1>8 DEF PollsInv

LEMMA NextInv == PollsInv /\ [Next]_vars => PollsInv'
BY NextTypes, KnownNext, CompleteNext, FiniteNext, PaidNext, MineNext, AckNext, HistoryNext DEF PollsInv

LEMMA SpecInv == Spec => []PollsInv
BY InitInv, NextInv, PTL DEF Spec

\* A live poll has all its options and tallies, wherever CreateVote or its
\* rollback failed.
THEOREM LivePollsAreComplete == Spec => []LivePollIsComplete
<1>1. PollsInv => LivePollIsComplete
  BY DEF PollsInv, CompleteInv, LivePollIsComplete
<1> QED
  BY <1>1, SpecInv, PTL

\* No tally, row or user's record exceeds the tokens that were taken for it.
THEOREM VotesArePaidFor == Spec => []EveryVoteIsPaidFor
<1>1. PollsInv => EveryVoteIsPaidFor
  <2> SUFFICES ASSUME PollsInv
               PROVE  EveryVoteIsPaidFor
    OBVIOUS
  <2>1. TypeOK /\ FiniteInv /\ PaidInv /\ MineInv
    BY DEF PollsInv
  <2>2. ASSUME NEW p \in PollIds, NEW o \in Options
        PROVE  counts[p][o] <= taken[p][o] /\ rows[p][o] <= taken[p][o]
    <3>1. counts[p][o] \in Tally /\ taken[p][o] \in Nat
      BY <2>1 DEF TypeOK
    <3>2. Sum(Uncounted(p, o)) \in Nat
      BY <2>1, SumIsNat DEF Uncounted
    <3>3. Votes(counts[p][o]) + Sum(Uncounted(p, o)) <= taken[p][o] /\ rows[p][o] <= taken[p][o]
      BY <2>1 DEF PaidInv
    <3> QED
      BY <3>1, <3>2, <3>3, VotesOfTally DEF Tally, Absent
  <2>3. ASSUME NEW u \in Users, NEW p \in PollIds, meta[u][p] # NoMeta
        PROVE  meta[u][p].total <= mine[u][p][meta[u][p].opt]
    <3>1. meta[u][p] \in [opt: Options, total: Nat] /\ mine \in [Users -> [PollIds -> [Options -> Nat]]]
      BY <2>1, <2>3 DEF TypeOK
    <3>2. PICK o \in Options, t \in Nat : meta[u][p].opt = o /\ meta[u][p].total = t
      BY <3>1
    <3>3. Sum(Unread(u, p, o)) \in Nat
      BY <2>1, SumIsNat DEF Unread
    <3>4. t + Sum(Unread(u, p, o)) <= mine[u][p][o] /\ mine[u][p][o] \in Nat
      BY <2>1, <2>3, <3>1, <3>2 DEF MineInv
    <3> QED
      BY <3>2, <3>3, <3>4
  <2> QED
    BY <2>2, <2>3 DEF EveryVoteIsPaidFor
<1> QED
  BY <1>1, SpecInv, PTL

\* The votes that were answered with success are in the tally of every poll
\* that no close or delete has wiped.
THEOREM AckedVotesAreCounted == Spec => []AckedVotesCount
<1>1. PollsInv => AckedVotesCount
  <2> SUFFICES ASSUME PollsInv, NEW p \in PollIds, NEW o \in Options, p \notin wiped
               PROVE  acked[p][o] <= counts[p][o] \/ acked[p][o] = 0
    BY DEF AckedVotesCount
  <2>1. counts[p][o] \in Tally /\ acked[p][o] \in Nat
    BY DEF PollsInv, TypeOK
  <2>2. Sum(Counted(p, o)) \in Nat
    BY SumIsNat DEF PollsInv, Counted
  <2>3. acked[p][o] + Sum(Counted(p, o)) <= Votes(counts[p][o])
    BY DEF PollsInv, AckInv
  <2> QED
    BY <2>1, <2>2, <2>3 DEF Votes, Tally, Absent
<1> QED
  BY <1>1, SpecInv, PTL

\* No pass of the snapshot worker writes a row below the one before, while
\* nothing has wiped the poll.
THEOREM HistoriesNeverFall == Spec => HistoryNeverFalls
<1>1. PollsInv /\ [Next]_vars =>
        [\A p \in PollIds, o \in Options : p \notin wiped => rows'[p][o] >= rows[p][o]]_vars
  <2> SUFFICES ASSUME PollsInv, Next, NEW p \in PollIds, NEW o \in Options, p \notin wiped
               PROVE  rows'[p][o] >= rows[p][o]
    OBVIOUS
  <2>1. rows[p][o] \in Tally /\ worker.got \subseteq Rows
    BY DEF PollsInv, TypeOK
  <2>2. CASE UNCHANGED rows
    BY <2>1, <2>2 DEF Tally, Absent
  <2>3. CASE Snapshot
    <3>1. \/ rows'[p][o] = rows[p][o]
          \/ \E g \in worker.got : g.poll = p /\ g.opt = o /\ rows'[p][o] = g.count
      BY <2>3, SnapMoves DEF PollsInv
    <3> QED
      BY <2>1, <3>1 DEF PollsInv, HistoryInv, Tally, Absent, Rows
  <2>4. ASSUME ~Snapshot
        PROVE  UNCHANGED rows
    BY <2>4, CreateMoves, VoteMoves, AdminWipes DEF Next, PollsInv, ForgetUser, PopDirtyPolls
  <2> QED
    BY <2>2, <2>3, <2>4
<1> QED
  BY <1>1, SpecInv, PTL DEF Spec, HistoryNeverFalls

\* A deleted poll stays deleted: only the first write of CreateVote makes a
\* document, and the poll is not listed yet when that is made.
THEOREM DeletedPollsStayDeleted == Spec => DeletedStaysDeleted
<1>1. PollsInv /\ [Next]_vars =>
        [\A p \in PollIds : p \in known /\ status[p] = "none" => status'[p] = "none"]_vars
  <2> SUFFICES ASSUME PollsInv, Next, NEW p \in PollIds, p \in known, status[p] = "none"
               PROVE  status'[p] = "none"
    OBVIOUS
  <2>1. /\ status \in [PollIds -> {"none", "created", "live", "closed"}]
        /\ creation[p] \notin Making /\ TypeOK
    BY DEF PollsInv, TypeOK, KnownInv
  <2>2. ASSUME NEW q \in PollIds, CreateVote(q)
        PROVE  status'[p] = "none"
    <3>1. CreateVoteInMongo(q) => q # p
      BY <2>1 DEF CreateVoteInMongo, Making
    <3> QED
      BY <2>1, <2>2, <3>1 DEF CreateVote, CreateVoteInMongo, AddOptionsInMongo, InitVoteInRedis,
           UpdateStatus, SetStatus, Rollback, mongo
  <2>3. ASSUME NEW a \in Admins, CloseOrDelete(a)
        PROVE  status'[p] = "none"
    BY <2>1, <2>3, AdminWipes
  <2>4. ASSUME NEW r \in Requests, AddVote(r)
        PROVE  status'[p] = "none"
    BY <2>1, <2>4, VoteMoves DEF mongo
  <2>5. ASSUME Snapshot \/ (\E u \in Users : ForgetUser(u)) \/ PopDirtyPolls
        PROVE  status'[p] = "none"
    BY <2>1, <2>5, SnapMoves DEF Others, ForgetUser, PopDirtyPolls, mongo
  <2> QED
    BY <2>2, <2>3, <2>4, <2>5 DEF Next
<1> QED
  BY <1>1, SpecInv, PTL DEF Spec, DeletedStaysDeleted
=============================================================================
