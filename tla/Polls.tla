------------------------------- MODULE Polls --------------------------------
(***************************************************************************)
(* The life of a poll across the three stores (pkg/vote): the vote and     *)
(* option documents in MongoDB, the tallies and the per-user records in    *)
(* Redis, the history rows in TimescaleDB.  No operation is a transaction: *)
(* each step below is one command or one write of                          *)
(*   - CreateVote (service.go), with its rollback;                         *)
(*   - AddVote (repository.go), after tokenBucketScript took its tokens    *)
(*     (VoteBudget models that script);                                    *)
(*   - CloseVote and DeleteVote (service.go);                              *)
(*   - the snapshot worker (snapshot_worker.go);                           *)
(* and any of them may fail between two steps.  A command whose reply is   *)
(* lost has been executed, and its caller sees an error all the same.      *)
(*                                                                         *)
(* "taken", "mine", "acked" and "wiped" are history variables, "known" is  *)
(* what the clients have seen.                                             *)
(***************************************************************************)
EXTENDS Integers, FiniteSets, Functions

CONSTANTS
    PollIds,      \* polls, each with the same set of options
    Options,
    Users,
    Requests,     \* concurrent AddVote requests
    Admins,       \* concurrent CloseVote and DeleteVote requests
    MaxCount,     \* bound: tokens of one AddVote
    MaxTaken      \* bound: tokens taken for one poll

ASSUME PollsAssumption ==
    /\ IsFiniteSet(Options) /\ Options # {}
    /\ MaxCount \in Nat /\ MaxTaken \in Nat

VARIABLES
    status,       \* MongoDB: status of the vote document, "none" without one
    opts,         \* MongoDB: the option documents of the poll
    counts,       \* Redis: the tally hash vote:<id>, a field per option
    active,       \* Redis: the set active_polls
    dirty,        \* Redis: the set ws:dirty:polls
    voted,        \* Redis: per user, the sorted set of polls voted in
    meta,         \* Redis: per user, the hash poll -> "option|total"
    rows,         \* TimescaleDB: the last row of each option in vote_snapshots
    creation,     \* CreateVote of each poll: its next step
    job,          \* AddVote requests
    admin,        \* CloseVote and DeleteVote requests
    worker,       \* the snapshot worker
    known, taken, mine, acked, wiped

mongo   == <<status, opts>>
logs    == <<voted, meta>>
history == <<known, taken, mine, acked, wiped>>
vars == <<mongo, counts, active, dirty, logs, rows, creation, job, admin, worker, history>>

Absent == -1      \* a field that the hash does not have
Tally  == Nat \cup {Absent}
NoMeta == [opt |-> Absent, total |-> 0]
NoJob  == [pc |-> "idle"]
NoTask == [pc |-> "idle"]
Asleep == [pc |-> "idle", polls |-> {}, fields |-> {}, got |-> {}]

CreateSteps == {"insert", "options", "redis", "status", "rollback", "ok", "failed"}
VoteSteps   == {"read", "zadd", "hset", "incr", "dirty", "active"}

Jobs == [pc: VoteSteps, user: Users, poll: PollIds, opt: Options,
         n: 1 .. MaxCount, total: Nat, late: BOOLEAN]
Rows == [poll: PollIds, opt: Options, count: Nat]

TypeOK ==
    /\ status \in [PollIds -> {"none", "created", "live", "closed"}]
    /\ opts \in [PollIds -> SUBSET Options]
    /\ counts \in [PollIds -> [Options -> Tally]]
    /\ active \subseteq PollIds /\ dirty \subseteq PollIds
    /\ voted \in [Users -> SUBSET PollIds]
    /\ meta \in [Users -> [PollIds -> [opt: Options, total: Nat] \cup {NoMeta}]]
    /\ rows \in [PollIds -> [Options -> Tally]]
    /\ creation \in [PollIds -> CreateSteps]
    /\ job \in [Requests -> Jobs \cup {NoJob}]
    /\ admin \in [Admins -> [pc: {"close", "closeDel", "load", "del", "remove"},
                             poll: PollIds] \cup {NoTask}]
    /\ worker \in [pc: {"idle", "pick", "get"}, polls: SUBSET PollIds,
                   fields: SUBSET (PollIds \X Options), got: SUBSET Rows]
    /\ known \subseteq PollIds /\ wiped \subseteq PollIds
    /\ taken \in [PollIds -> [Options -> Nat]]
    /\ acked \in [PollIds -> [Options -> Nat]]
    /\ mine \in [Users -> [PollIds -> [Options -> Nat]]]

Init ==
    /\ status = [p \in PollIds |-> "none"]
    /\ opts = [p \in PollIds |-> {}]
    /\ counts = [p \in PollIds |-> [o \in Options |-> Absent]]
    /\ active = {} /\ dirty = {}
    /\ voted = [u \in Users |-> {}]
    /\ meta = [u \in Users |-> [p \in PollIds |-> NoMeta]]
    /\ rows = [p \in PollIds |-> [o \in Options |-> Absent]]
    /\ creation = [p \in PollIds |-> "insert"]
    /\ job = [r \in Requests |-> NoJob]
    /\ admin = [a \in Admins |-> NoTask]
    /\ worker = Asleep
    /\ known = {} /\ wiped = {}
    /\ taken = [p \in PollIds |-> [o \in Options |-> 0]]
    /\ acked = [p \in PollIds |-> [o \in Options |-> 0]]
    /\ mine = [u \in Users |-> [p \in PollIds |-> [o \in Options |-> 0]]]

-----------------------------------------------------------------------------
(* CreateVote.  A step that returns an error may have been executed; the   *)
(* rollback uses the same context and its own error is ignored.            *)

\* The step moves on, or its error sends CreateVote to "onError".
Goes(p, next, onError) ==
    \E pc \in {next, onError} : creation' = [creation EXCEPT ![p] = pc]

Succeeds(p) == creation'[p] \notin {"rollback", "failed"}

CreateVoteInMongo(p) ==
    /\ creation[p] = "insert"
    /\ Goes(p, "options", "failed")
    /\ \/ status' = [status EXCEPT ![p] = "created"]
       \/ ~Succeeds(p) /\ UNCHANGED status
    /\ UNCHANGED <<opts, counts, active, dirty, logs, rows, job, admin, worker, history>>

\* A slip: the error of AddOptionsInMongo is ignored.
AddOptionsUnchecked(p) ==
    /\ creation[p] = "options"
    /\ creation' = [creation EXCEPT ![p] = "redis"]
    /\ \E S \in SUBSET Options : opts' = [opts EXCEPT ![p] = S]
    /\ UNCHANGED <<status, counts, active, dirty, logs, rows, job, admin, worker, history>>

\* InsertMany inserts in order: an error may leave some of the documents.
AddOptionsInMongo(p) ==
    /\ creation[p] = "options"
    /\ Goes(p, "redis", "rollback")
    /\ \E S \in SUBSET Options :
          /\ Succeeds(p) => S = Options
          /\ opts' = [opts EXCEPT ![p] = S]
    /\ UNCHANGED <<status, counts, active, dirty, logs, rows, job, admin, worker, history>>

\* One HSET of 0 per option in a pipeline: an error may leave some of them.
InitVoteInRedis(p) ==
    /\ creation[p] = "redis"
    /\ Goes(p, "status", "rollback")
    /\ \E S \in SUBSET Options :
          /\ Succeeds(p) => S = Options
          /\ counts' = [counts EXCEPT ![p] = [o \in Options |-> IF o \in S THEN 0 ELSE @[o]]]
    /\ UNCHANGED <<mongo, active, dirty, logs, rows, job, admin, worker, history>>

\* UpdateOne by _id: without a document it changes nothing and is no error.
SetStatus(p, s) ==
    status' = IF status[p] = "none" THEN status ELSE [status EXCEPT ![p] = s]

\* The poll is listed from here on, whether or not its creator hears so.
UpdateStatus(p) ==
    /\ creation[p] = "status"
    /\ Goes(p, "ok", "rollback")
    /\ \/ SetStatus(p, "live") /\ known' = known \cup {p}
       \/ ~Succeeds(p) /\ UNCHANGED <<status, known>>
    /\ UNCHANGED <<opts, counts, active, dirty, logs, rows, job, admin, worker,
                   taken, mine, acked, wiped>>

\* HardDeleteVote removes the vote document only.
Rollback(p) ==
    /\ creation[p] = "rollback"
    /\ creation' = [creation EXCEPT ![p] = "failed"]
    /\ \/ status' = [status EXCEPT ![p] = "none"]
       \/ UNCHANGED status
    /\ UNCHANGED <<opts, counts, active, dirty, logs, rows, job, admin, worker, history>>

CreateVote(p) ==
    \/ CreateVoteInMongo(p)
    \/ AddOptionsInMongo(p)
    \/ InitVoteInRedis(p)
    \/ UpdateStatus(p)
    \/ Rollback(p)

-----------------------------------------------------------------------------
(* AddVote.  Neither the status of the poll nor its existence is read.     *)

\* The script has taken n tokens for a vote on a poll the client knows.
BeginVote(r, u, p, o, n) ==
    /\ job[r] = NoJob
    /\ p \in known
    /\ FoldFunction(+, n, taken[p]) <= MaxTaken
    /\ job' = [job EXCEPT ![r] = [pc |-> "read", user |-> u, poll |-> p, opt |-> o,
                                  n |-> n, total |-> 0, late |-> status[p] = "closed"]]
    /\ taken' = [taken EXCEPT ![p][o] = @ + n]
    /\ mine' = [mine EXCEPT ![u][p][o] = @ + n]
    /\ UNCHANGED <<mongo, counts, active, dirty, logs, rows, creation, admin, worker,
                   known, acked, wiped>>

\* A slip: the old total is added whatever option it was for.
NewTotalAnyOption(m, o, n) == n + m.total

\* newTotalCount: the old total counts only if it was for the same option.
NewTotal(m, o, n) == IF m.opt = o THEN n + m.total ELSE n

\* HGET of the user's record; an error is taken for "no record".
ReadMeta(r) ==
    LET j == job[r]
    IN  /\ j.pc = "read"
        /\ \E t \in {NewTotal(meta[j.user][j.poll], j.opt, j.n), j.n} :
              job' = [job EXCEPT ![r] = [j EXCEPT !.pc = "zadd", !.total = t]]
        /\ UNCHANGED <<mongo, counts, active, dirty, logs, rows, creation, admin, worker, history>>

\* ZADD, and ZREMRANGEBYSCORE of whatever entries are older than 48 hours.
LogPoll(r) ==
    LET j == job[r]
    IN  /\ j.pc = "zadd"
        /\ \E old \in SUBSET (voted[j.user] \ {j.poll}) :
              voted' = [voted EXCEPT ![j.user] = (@ \cup {j.poll}) \ old]
        /\ job' = [job EXCEPT ![r].pc = "hset"]
        /\ UNCHANGED <<mongo, counts, active, dirty, meta, rows, creation, admin, worker, history>>

LogTotal(r) ==
    LET j == job[r]
    IN  /\ j.pc = "hset"
        /\ meta' = [meta EXCEPT ![j.user][j.poll] = [opt |-> j.opt, total |-> j.total]]
        /\ job' = [job EXCEPT ![r].pc = "incr"]
        /\ UNCHANGED <<mongo, counts, active, dirty, voted, rows, creation, admin, worker, history>>

\* HINCRBY creates the hash and the field it does not find.
HIncrBy(c, n) == IF c = Absent THEN n ELSE c + n

\* Slips: the user's total in place of the count of the request.
CountTotal(r) ==
    LET j == job[r]
    IN  /\ j.pc = "incr"
        /\ counts' = [counts EXCEPT ![j.poll][j.opt] = HIncrBy(@, j.total)]
        /\ job' = [job EXCEPT ![r].pc = "dirty"]
        /\ UNCHANGED <<mongo, active, dirty, logs, rows, creation, admin, worker, history>>
SetTotal(r) ==
    LET j == job[r]
    IN  /\ j.pc = "incr"
        /\ counts' = [counts EXCEPT ![j.poll][j.opt] = j.total]
        /\ job' = [job EXCEPT ![r].pc = "dirty"]
        /\ UNCHANGED <<mongo, active, dirty, logs, rows, creation, admin, worker, history>>

Count(r) ==
    LET j == job[r]
    IN  /\ j.pc = "incr"
        /\ counts' = [counts EXCEPT ![j.poll][j.opt] = HIncrBy(@, j.n)]
        /\ job' = [job EXCEPT ![r].pc = "dirty"]
        /\ UNCHANGED <<mongo, active, dirty, logs, rows, creation, admin, worker, history>>

MarkDirty(r) ==
    /\ job[r].pc = "dirty"
    /\ dirty' = dirty \cup {job[r].poll}
    /\ job' = [job EXCEPT ![r].pc = "active"]
    /\ UNCHANGED <<mongo, counts, active, logs, rows, creation, admin, worker, history>>

\* The last command of the pipeline; the answer is 200 unless its reply is lost.
MarkActive(r) ==
    LET j == job[r]
    IN  /\ j.pc = "active"
        /\ active' = active \cup {j.poll}
        /\ \/ acked' = [acked EXCEPT ![j.poll][j.opt] = @ + j.n]
           \/ UNCHANGED acked
        /\ job' = [job EXCEPT ![r] = NoJob]
        /\ UNCHANGED <<mongo, counts, dirty, logs, rows, creation, admin, worker,
                       known, taken, mine, wiped>>

\* The connection or the context ends: the commands not yet executed never
\* are, and the tokens are not given back.
AbortVote(r) ==
    /\ job[r] # NoJob
    /\ job' = [job EXCEPT ![r] = NoJob]
    /\ UNCHANGED <<mongo, counts, active, dirty, logs, rows, creation, admin, worker, history>>

AddVote(r) ==
    \/ \E u \in Users, p \in PollIds, o \in Options, n \in 1 .. MaxCount : BeginVote(r, u, p, o, n)
    \/ ReadMeta(r)
    \/ LogPoll(r)
    \/ LogTotal(r)
    \/ Count(r)
    \/ MarkDirty(r)
    \/ MarkActive(r)
    \/ AbortVote(r)

\* Both keys of a user expire 48 hours after the last vote.
ForgetUser(u) ==
    /\ voted[u] # {}
    /\ \/ voted' = [voted EXCEPT ![u] = {}] /\ UNCHANGED meta
       \/ meta' = [meta EXCEPT ![u] = [p \in PollIds |-> NoMeta]] /\ UNCHANGED voted
    /\ UNCHANGED <<mongo, counts, active, dirty, rows, creation, job, admin, worker, history>>

-----------------------------------------------------------------------------
(* CloseVote and DeleteVote of a poll the client knows.                    *)

Ask(a, p, pc) ==
    /\ admin[a] = NoTask
    /\ p \in known
    /\ admin' = [admin EXCEPT ![a] = [pc |-> pc, poll |-> p]]
    /\ UNCHANGED <<mongo, counts, active, dirty, logs, rows, creation, job, worker, history>>

To(a, pc) == admin' = [admin EXCEPT ![a].pc = pc]
Ends(a)   == admin' = [admin EXCEPT ![a] = NoTask]

\* A slip: the close creates the document that a delete has removed.
CloseVoteUpsert(a) ==
    /\ admin[a].pc = "close"
    /\ status' = [status EXCEPT ![admin[a].poll] = "closed"]
    /\ To(a, "closeDel")
    /\ UNCHANGED <<opts, counts, active, dirty, logs, rows, creation, job, worker, history>>

CloseVoteInMongo(a) ==
    /\ admin[a].pc = "close"
    /\ \/ SetStatus(admin[a].poll, "closed") /\ (To(a, "closeDel") \/ Ends(a))
       \/ UNCHANGED status /\ Ends(a)
    /\ UNCHANGED <<opts, counts, active, dirty, logs, rows, creation, job, worker, history>>

\* DEL of the tally hash: the counts of the poll are gone.
Wipe(p) ==
    /\ counts' = [counts EXCEPT ![p] = [o \in Options |-> Absent]]
    /\ wiped' = wiped \cup {p}

CloseDeleteInRedis(a) ==
    LET p == admin[a].poll
    IN  /\ admin[a].pc = "closeDel"
        /\ Wipe(p) \/ UNCHANGED <<counts, wiped>>
        /\ Ends(a)
        /\ UNCHANGED <<mongo, active, dirty, logs, rows, creation, job, worker,
                       known, taken, mine, acked>>

\* The handler loads the poll: it needs the document.
LoadForDelete(a) ==
    /\ admin[a].pc = "load"
    /\ \/ status[admin[a].poll] # "none" /\ To(a, "del")
       \/ Ends(a)
    /\ UNCHANGED <<mongo, counts, active, dirty, logs, rows, creation, job, worker, history>>

\* An error of the DEL is ignored.
DeleteVoteInRedis(a) ==
    /\ admin[a].pc = "del"
    /\ Wipe(admin[a].poll) \/ UNCHANGED <<counts, wiped>>
    /\ To(a, "remove")
    /\ UNCHANGED <<mongo, active, dirty, logs, rows, creation, job, worker,
                   known, taken, mine, acked>>

HardDeleteVote(a) ==
    /\ admin[a].pc = "remove"
    /\ \/ status' = [status EXCEPT ![admin[a].poll] = "none"]
       \/ UNCHANGED status
    /\ Ends(a)
    /\ UNCHANGED <<opts, counts, active, dirty, logs, rows, creation, job, worker, history>>

CloseOrDelete(a) ==
    \/ \E p \in PollIds, pc \in {"close", "load"} : Ask(a, p, pc)
    \/ CloseVoteInMongo(a)
    \/ CloseDeleteInRedis(a)
    \/ LoadForDelete(a)
    \/ DeleteVoteInRedis(a)
    \/ HardDeleteVote(a)

-----------------------------------------------------------------------------
(* The snapshot worker: one pass reads every active poll option by option  *)
(* and inserts all it has read as one statement.                           *)

Others == <<mongo, counts, active, dirty, logs, creation, job, admin, history>>

SnapStart ==
    /\ worker.pc = "idle"
    /\ active # {}
    /\ worker' = [pc |-> "pick", polls |-> active, fields |-> {}, got |-> {}]
    /\ UNCHANGED <<Others, rows>>

\* getVoteCount: HGETALL names the fields; on an error the poll is skipped.
SnapFields(p) ==
    /\ worker.pc = "pick" /\ p \in worker.polls
    /\ \E F \in {{}, {o \in Options : counts[p][o] # Absent}} :
          worker' = [worker EXCEPT !.pc = IF F = {} THEN "pick" ELSE "get",
                                   !.polls = @ \ {p}, !.fields = {p} \X F]
    /\ UNCHANGED <<Others, rows>>

\* Slips: a failed HGET is recorded as no votes, a missing field as it is.
SnapGetAsZero(p, o) ==
    /\ worker.pc = "get" /\ <<p, o>> \in worker.fields
    /\ LET left == worker.fields \ {<<p, o>>}
       IN  \E n \in {0, counts[p][o]} \ {Absent} :
             worker' = [worker EXCEPT !.pc = IF left = {} THEN "pick" ELSE "get",
                                      !.fields = left,
                                      !.got = @ \cup {[poll |-> p, opt |-> o, count |-> n]}]
    /\ UNCHANGED <<Others, rows>>

\* An HGET that finds no field, or fails, skips the option.
SnapGet(p, o) ==
    /\ worker.pc = "get" /\ <<p, o>> \in worker.fields
    /\ LET left == worker.fields \ {<<p, o>>}
           row  == [poll |-> p, opt |-> o, count |-> counts[p][o]]
       IN  \E G \in {{}, IF counts[p][o] = Absent THEN {} ELSE {row}} :
             worker' = [worker EXCEPT !.pc = IF left = {} THEN "pick" ELSE "get",
                                      !.fields = left, !.got = @ \cup G]
    /\ UNCHANGED <<Others, rows>>

\* The batch is inserted and committed, or its transaction rolled back.
SnapInsert ==
    /\ worker.pc = "pick" /\ worker.polls = {}
    /\ \/ rows' = [p \in PollIds |-> [o \in Options |->
                     IF \E g \in worker.got : g.poll = p /\ g.opt = o
                     THEN (CHOOSE g \in worker.got : g.poll = p /\ g.opt = o).count
                     ELSE rows[p][o]]]
       \/ UNCHANGED rows
    /\ worker' = Asleep
    /\ UNCHANGED Others

Snapshot ==
    \/ SnapStart
    \/ \E p \in PollIds : SnapFields(p)
    \/ \E p \in PollIds, o \in Options : SnapGet(p, o)
    \/ SnapInsert

\* The hub takes the dirty marks (LiveHub models what it does with them).
PopDirtyPolls ==
    /\ dirty # {}
    /\ dirty' = {}
    /\ UNCHANGED <<mongo, counts, active, logs, rows, creation, job, admin, worker, history>>

Next ==
    \/ \E p \in PollIds : CreateVote(p)
    \/ \E r \in Requests : AddVote(r)
    \/ \E u \in Users : ForgetUser(u)
    \/ \E a \in Admins : CloseOrDelete(a)
    \/ Snapshot
    \/ PopDirtyPolls

Spec == Init /\ [][Next]_vars

-----------------------------------------------------------------------------
(* Properties.                                                             *)

\* A live poll is one CreateVote finished, whatever its creator was told:
\* whoever sees it finds every option document, and every option is in the
\* tally hash unless a close or a delete has dropped that hash.
LivePollIsComplete ==
    \A p \in PollIds : status[p] = "live" =>
        /\ opts[p] = Options
        /\ p \in wiped \/ \A o \in Options : counts[p][o] # Absent

\* No vote is counted, recorded for the history or shown to its user that was
\* not paid for with a token: tallies, rows and a user's own record never
\* exceed the tokens taken, whatever fails, races or is lost in between.
EveryVoteIsPaidFor ==
    /\ \A p \in PollIds, o \in Options :
          counts[p][o] <= taken[p][o] /\ rows[p][o] <= taken[p][o]
    /\ \A u \in Users, p \in PollIds : meta[u][p] # NoMeta =>
          meta[u][p].total <= mine[u][p][meta[u][p].opt]

\* A vote answered with success is in the tally until the poll is closed or
\* deleted: concurrent votes do not overwrite one another.
AckedVotesCount ==
    \A p \in PollIds, o \in Options :
        p \notin wiped => acked[p][o] <= counts[p][o] \/ acked[p][o] = 0

\* The history of an option never falls while its poll is neither closed nor
\* deleted, however the passes of the worker interleave with the votes.
HistoryNeverFalls ==
    [][ \A p \in PollIds, o \in Options :
            p \notin wiped => rows'[p][o] >= rows[p][o] ]_vars

\* A poll that was listed and then deleted does not come back, whichever
\* close, delete or vote was under way.
DeletedStaysDeleted ==
    [][ \A p \in PollIds :
            p \in known /\ status[p] = "none" => status'[p] = "none" ]_vars

\* "Once closed, users will no longer be able to vote on this poll": a vote
\* that begins when the document already says closed is not counted.
ClosedPollTakesNoVotes ==
    \A r \in Requests : job[r].pc \in {"dirty", "active"} => ~job[r].late
=============================================================================
