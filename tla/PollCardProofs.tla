---------------------------- MODULE PollCardProofs ----------------------------
(***************************************************************************)
(* Proofs about the card of a poll (PollCard) and its history (Timeline).  *)
(* Every step of the card is one of eight kinds for its history            *)
(* (TimelineMoves); what the history promises is proved over these kinds,  *)
(* and the counts and the balance over the actions of the card.            *)
(***************************************************************************)
EXTENDS PollCard, FiniteSetTheorems, TLAPS

-----------------------------------------------------------------------------
(* The invariants.                                                         *)

Budgets == [stage: {"sent", "none"}] \cup [stage: {"served"}, left: 0..MaxVotes \cup {None}]
Lists   == [stage: {"sent", "shown"}] \cup [stage: {"served"}, tally: Tallies]

\* A vote that is being sent names an option and the counts that were shown.
TypeInv ==
    /\ TypeOK
    /\ budget \in Budgets /\ list \in Lists
    /\ vote # None => vote.option \in Options /\ vote.seen \in Tallies

\* One request of the history, or the timer of one, at a time.
OneAtATime ==
    /\ latest # None => timer = None /\ fetch = None
    /\ timer # None => fetch = None

\* The cursor of a request for older rows, or of its timer: the oldest row
\* there is, or, before any has arrived, the oldest update.
CursorOK(c) ==
    /\ older /\ c <= now /\ \A h \in live : c <= h
    /\ top # None => hist # {} /\ c = Low(hist)

\* The rows a request has read are all there were in the day before its cursor.
ServedOK(r) ==
    /\ \A h \in r.rows : h \in snaps /\ h <= r.cursor
    /\ \A h \in snaps : h < r.cursor /\ h \notin r.rows =>
          /\ h < r.cursor - Day \/ h <= now - Week \/ h <= Created
          /\ \A g \in r.rows : h < g

\* Before the first answer there are no rows; after it the rows end where it
\* began, and only updates are later.
ReadBackwards ==
    /\ Created < now
    /\ \A h \in live : h <= now
    /\ top = None => hist = {}
    /\ latest # None => top = None /\ older /\ latest.cursor <= now
                        /\ \A h \in live : latest.cursor <= h
    /\ top # None => /\ top <= now
                     /\ \A h \in live : top <= h
                     /\ \A h \in hist : h <= top
                     /\ older => hist # {}

RequestsOK ==
    /\ timer # None => CursorOK(timer)
    /\ fetch # None => CursorOK(fetch.cursor)
    /\ latest # None /\ latest.stage = "served" => ServedOK(latest)
    /\ fetch # None /\ fetch.stage = "served" => ServedOK(fetch)

TimelineInv == OneAtATime /\ ReadBackwards /\ RequestsOK /\ TimelineIsWhole

\* The chart begins within the entries; while older rows are asked for it is
\* not nearer to their end than the strip is wide.
ChartInv ==
    /\ start = 0 \/ start < Length
    /\ timer # None \/ fetch # None => Length > Tiles /\ start + Tiles <= Length

AtMost(s, t) == \A o \in Options : s[o] <= t[o]

\* Nothing that is shown, sent or on its way is ahead of the tally.
NothingAhead ==
    /\ HasSocket => AtMost(localVotes, tally)
    /\ list.stage = "served" => AtMost(list.tally, tally)
    /\ \A i \in DOMAIN feed : AtMost(feed[i], tally)
    /\ vote # None => AtMost(vote.seen, tally)
    /\ vote # None /\ vote.stage = "done" => vote.seen[vote.option] + vote.count <= tally[vote.option]

PagesDiffer ==
    /\ link # "opening" => HasSocket
    /\ feed # <<>> => link = "open"
    /\ selected # None => HasForm
    /\ vote # None => page = "home"
    /\ budget.stage # "none" \/ other # None => page = "home"

\* What the page has still to hear of: the last tally that is on its way, or
\* else the one it has, is the server's unless the hub has yet to send it.
NewsComes ==
    ~dirty =>
        /\ feed # <<>> => feed[Len(feed)] = tally
        /\ feed = <<>> /\ link # "broken" /\ ~behind /\ list.stage = "served" => list.tally = tally
        /\ feed = <<>> /\ link # "broken" /\ ~behind /\ HasSocket /\ Shown => localVotes = tally

CountsInv == PagesDiffer /\ NothingAhead /\ NewsComes

\* The balance that was read is as honest as the one that is shown.
BalanceInv ==
    /\ BalanceIsHonest
    /\ budget.stage = "served" /\ ~guessed =>
          /\ budget.left # None
          /\ budget.left <= balance + Spending(vote) + Spending(other) + unknown

CardInv == TypeInv /\ TimelineInv /\ ChartInv /\ CountsInv /\ BalanceInv

-----------------------------------------------------------------------------
(* Hours and entries.                                                      *)

\* A set of natural numbers that is not empty has a least one.
LEMMA LeastOfNats ==
  ASSUME NEW S \in SUBSET Nat, S # {}
  PROVE  \E x \in S : \A y \in S : x <= y
<1>1. PICK x \in S : \A y \in S : ~ (<<y, x>> \in OpToRel(<, Nat))
  BY NatLessThanWellFounded, WFMin
<1>2. \A y \in S : ~ (y < x)
  BY <1>1, Zenon DEF OpToRel
<1>3. \A y \in S : x <= y
  BY <1>2
<1>. QED  BY <1>3

\* The oldest of some hours.
LEMMA LowIs ==
  ASSUME NEW S \in SUBSET Hours, S # {}
  PROVE  Low(S) \in S /\ \A h \in S : Low(S) <= h
<1>1. S \in SUBSET Nat
  BY TimelineAssumption DEF Hours
<1>2. \E x \in S : \A y \in S : x <= y
  BY <1>1, LeastOfNats
<1>. QED  BY <1>2 DEF Low, Min

LEMMA HoursFinite ==
  ASSUME NEW S \in SUBSET Hours
  PROVE  IsFiniteSet(S) /\ Cardinality(S) \in Nat
<1>1. IsFiniteSet(Hours)
  BY FS_Interval, TimelineAssumption DEF Hours
<1>2. IsFiniteSet(S)
  BY <1>1, FS_Subset
<1>. QED  BY <1>2, FS_CardinalityType

\* The hours of the rows, or of the updates, each make an entry.
LEMMA EntriesOf ==
  ASSUME NEW S \in SUBSET Hours, NEW b \in BOOLEAN
  PROVE  /\ IsFiniteSet([at: S, live: {b}])
         /\ Cardinality([at: S, live: {b}]) = Cardinality(S)
<1>. DEFINE f == [h \in S |-> [at |-> h, live |-> b]]
            T == [at: S, live: {b}]
<1>1. f \in [S -> T]
  OBVIOUS
<1>2. \A x, y \in S : f[x] = f[y] => x = y
  OBVIOUS
<1>3. \A e \in T : \E h \in S : f[h] = e
  OBVIOUS
<1>4. f \in Bijection(S, T)
  <2>. HIDE DEF f, T
  <2>. QED  BY <1>1, <1>2, <1>3 DEF Bijection, Injection, Surjection, IsInjective
<1>5. ExistsBijection(S, T)
  <2>. HIDE DEF f, T
  <2>. QED  BY <1>4 DEF ExistsBijection
<1>. QED  BY <1>5, HoursFinite, FS_Bijection

\* The number of entries.
LEMMA EntriesAre ==
  ASSUME NEW R \in SUBSET Hours, NEW U \in SUBSET Hours
  PROVE  /\ Cardinality([at: R, live: {FALSE}] \cup [at: U, live: {TRUE}])
                = Cardinality(R) + Cardinality(U)
         /\ Cardinality(R) \in Nat /\ Cardinality(U) \in Nat
<1>. DEFINE H == [at: R, live: {FALSE}]
            L == [at: U, live: {TRUE}]
<1>1. IsFiniteSet(H) /\ Cardinality(H) = Cardinality(R)
  BY EntriesOf
<1>2. IsFiniteSet(L) /\ Cardinality(L) = Cardinality(U)
  BY EntriesOf
<1>3. H \cap L = {}
  OBVIOUS
<1>4. Cardinality(H \cup L) = Cardinality(H) + Cardinality(L) - Cardinality({})
  <2>. HIDE DEF H, L
  <2>. QED  BY <1>1, <1>2, <1>3, FS_Union
<1>5. Cardinality(R) \in Nat /\ Cardinality(U) \in Nat
  BY HoursFinite
<1>. QED  BY <1>1, <1>2, <1>4, <1>5, FS_EmptySet

LEMMA LengthIs ==
  ASSUME hist \in SUBSET Hours, live \in SUBSET Hours
  PROVE  /\ Length = Cardinality(hist) + Cardinality(live)
         /\ Length \in Nat /\ Cardinality(hist) \in Nat /\ Cardinality(live) \in Nat
<1>. DEFINE E == [at: hist, live: {FALSE}] \cup [at: live, live: {TRUE}]
<1>1. Length = Cardinality(E)
  BY Zenon DEF Length, mergedHistory
<1>2. /\ Cardinality(E) = Cardinality(hist) + Cardinality(live)
      /\ Cardinality(hist) \in Nat /\ Cardinality(live) \in Nat
  BY EntriesAre
<1>. HIDE DEF E
<1>. QED  BY <1>1, <1>2

LEMMA LengthIsNext ==
  ASSUME hist' \in SUBSET Hours, live' \in SUBSET Hours
  PROVE  /\ Length' = Cardinality(hist') + Cardinality(live')
         /\ Length' \in Nat /\ Cardinality(hist') \in Nat /\ Cardinality(live') \in Nat
<1>. DEFINE E == [at: hist', live: {FALSE}] \cup [at: live', live: {TRUE}]
<1>1. Length' = Cardinality(E)
  BY Zenon DEF Length, mergedHistory
<1>2. /\ Cardinality(E) = Cardinality(hist') + Cardinality(live')
      /\ Cardinality(hist') \in Nat /\ Cardinality(live') \in Nat
  BY EntriesAre
<1>. HIDE DEF E
<1>. QED  BY <1>1, <1>2

\* A strip that scrolls has entries.
LEMMA SomeEntries ==
  ASSUME hist \in SUBSET Hours, live \in SUBSET Hours, NEW s, Scrollable(s)
  PROVE  hist \cup live # {}
<1>1. SUFFICES ASSUME hist = {}, live = {} PROVE FALSE
  OBVIOUS
<1>2. Cardinality(hist) = 0 /\ Cardinality(live) = 0
  BY <1>1, FS_EmptySet
<1>3. Length = 0
  BY <1>2, LengthIs
<1>. QED  BY <1>3, TimelineAssumption DEF Scrollable

\* More hours, more entries; as many only if they are the same.
LEMMA MoreHours ==
  ASSUME NEW S \in SUBSET Hours, NEW T \in SUBSET S
  PROVE  /\ Cardinality(S) \in Nat /\ Cardinality(T) \in Nat
         /\ Cardinality(T) <= Cardinality(S)
         /\ Cardinality(S) = Cardinality(T) => S = T
  BY HoursFinite, FS_Subset

\* Where the chart begins.
LEMMA VisibleStartIs ==
  ASSUME windowSize' \in Windows, NEW len \in Nat, NEW s \in Nat
  PROVE  /\ VisibleStart(len, s) \in Nat
         /\ VisibleStart(len, s) = 0 \/ VisibleStart(len, s) + Tiles <= len
<1>. DEFINE w == windowSize'
            r == VisibleStart(len, s)
<1>1. w \in Nat /\ w >= Tiles /\ Tiles \in Nat
  BY TimelineAssumption
<1>2. r = MaxOf(0, len - w) \/ r = MinOf(s, MaxOf(0, len - w))
  BY DEF VisibleStart
<1>. HIDE DEF w, r
<1>3. r \in Nat /\ (r = 0 \/ r + Tiles <= len)
  BY <1>1, <1>2 DEF MaxOf, MinOf
<1>. QED  BY <1>3 DEF r

LEMMA SettleIs ==
  ASSUME windowSize' \in Windows, NEW len \in Nat, NEW s \in Nat, Settle(len, s)
  PROVE  /\ start' \in Nat
         /\ (start' = s /\ len = Length) \/ start' = 0 \/ start' + Tiles <= len
  BY VisibleStartIs DEF Settle

-----------------------------------------------------------------------------
(* The steps of the history.                                               *)

Kept == timelineVars' = timelineVars
Counting == snaps' = snaps \cup {now} /\ UNCHANGED <<now, windowSize, strip>>

TimelineMoves ==
    \/ Kept \/ Counting \/ Tick \/ Blank(now)
    \/ LivePoint /\ UNCHANGED snaps
    \/ TimelineStep
    \/ \E s \in Nat : handleTimelineScroll(s)
    \/ updateWindowSize

\* Every step of the card is one of them.
LEMMA CardMoves == ASSUME [Next]_vars PROVE TimelineMoves
<1>. USE DEF Kept
<1>1. CASE UNCHANGED vars
  BY <1>1 DEF vars, TimelineMoves
<1>2. CASE ListServed \/ SocketOpens \/ SocketBreaks \/ HubSends
  BY <1>2 DEF ListServed, SocketOpens, SocketBreaks, HubSends, TimelineMoves
<1>3. CASE ListArrives \/ Remount
  BY <1>3 DEF ListArrives, Remount, TimelineMoves
<1>4. CASE SocketMessage
  BY <1>4 DEF SocketMessage, TimelineMoves
<1>5. CASE VoteServed \/ \E o \in Options : OthersVote(o)
  BY <1>5 DEF VoteServed, OthersVote, Counted, Counting, TimelineMoves
<1>6. CASE BalanceServed \/ BalanceArrives \/ BalanceChanges
  BY <1>6 DEF BalanceServed, BalanceArrives, BalanceChanges, TimelineMoves
<1>7. CASE \/ \E o \in Options : Select(o)
           \/ \E delta \in {-1, 1} : handleVoteCountChange(delta)
           \/ handleVote \/ OtherCardVotes \/ OtherServed
  BY <1>7 DEF Select, handleVoteCountChange, handleVote, OtherCardVotes, OtherServed, TimelineMoves
<1>8. CASE VoteAnswers \/ VoteFails \/ OtherAnswers \/ handleDoubleClick
  BY <1>8 DEF VoteAnswers, VoteFails, OtherAnswers, handleDoubleClick, TimelineMoves
<1>9. CASE TimelineAnswers \/ Resize \/ HourPasses
  BY <1>9 DEF TimelineAnswers, Resize, HourPasses, TimelineMoves
<1>10. CASE \E s \in 0..Cardinality(Hours) * 2 : Scroll(s)
  BY <1>10 DEF Scroll, TimelineMoves
<1>. QED
  BY <1>1, <1>2, <1>3, <1>4, <1>5, <1>6, <1>7, <1>8, <1>9, <1>10 DEF Next

\* What a step of the history leaves well-typed.
LEMMA TimelineTypes ==
  ASSUME TimelineTypeOK, TimelineMoves
  PROVE  TimelineTypeOK'
<1>. USE DEF TimelineTypeOK
<1>0. /\ hist \in SUBSET Hours /\ live \in SUBSET Hours
      /\ Length \in Nat /\ Cardinality(hist) \in Nat /\ Cardinality(live) \in Nat
  BY LengthIs
<1>1. CASE Kept
  BY <1>1 DEF Kept, timelineVars, strip
<1>2. CASE Counting
  BY <1>2 DEF Counting, strip
<1>3. CASE Tick
  BY <1>3, TimelineAssumption DEF Tick, strip, Hours
<1>4. CASE Blank(now)
  <2>1. Asked(now) \in Requests
    BY DEF Asked, Requests
  <2>. QED  BY <1>4, <2>1 DEF Blank
<1>5. CASE LivePoint /\ UNCHANGED snaps
  <2>1. live' \in SUBSET Hours /\ windowSize' \in Windows
    BY <1>5 DEF LivePoint
  <2>2. Cardinality(live') \in Nat
    BY <2>1, HoursFinite
  <2>3. start' \in Nat
    BY <1>0, <1>5, <2>1, <2>2, SettleIs DEF LivePoint
  <2>. QED  BY <1>5, <2>1, <2>3 DEF LivePoint
<1>6. CASE HistoryServed
  <2>1. \A r \in Requests : Served(r) \subseteq Requests
    <3>. SUFFICES ASSUME NEW r \in Requests PROVE Served(r) \subseteq Requests
      OBVIOUS
    <3>1. GetPollHistory(r.cursor) \in SUBSET Hours
      BY DEF GetPollHistory, Requests
    <3>. QED  BY <3>1 DEF Served, Requests
  <2>. QED  BY <1>6, <2>1 DEF HistoryServed
<1>7. CASE LatestArrives
  <2>1. latest \in Requests /\ latest.rows \in SUBSET Hours /\ latest.cursor \in Hours
    BY <1>7 DEF LatestArrives, Requests
  <2>2. Cardinality(latest.rows) \in Nat
    BY <2>1, HoursFinite
  <2>3. windowSize' \in Windows
    BY <1>7 DEF LatestArrives
  <2>4. start' \in Nat
    BY <1>0, <1>7, <2>2, <2>3, SettleIs DEF LatestArrives
  <2>. QED  BY <1>7, <2>1, <2>3, <2>4 DEF LatestArrives, From
<1>8. CASE OlderTimerFires
  <2>1. timer \in Hours
    BY <1>8 DEF OlderTimerFires
  <2>2. Asked(timer) \in Requests
    BY <2>1 DEF Asked, Requests
  <2>. QED  BY <1>8, <2>2 DEF OlderTimerFires
<1>9. CASE OlderArrives
  <2>1. fetch \in Requests /\ fetch.rows \in SUBSET Hours /\ fetch.cursor \in Hours
    BY <1>9 DEF OlderArrives, Requests
  <2>2. Cardinality(fetch.rows) \in Nat
    BY <2>1, HoursFinite
  <2>3. hist' \in SUBSET Hours /\ windowSize' \in Windows
    BY <1>9, <2>1 DEF OlderArrives
  <2>4. Cardinality(hist') \in Nat /\ start + NumOptions * Cardinality(fetch.rows) \in Nat
    BY <2>2, <2>3, HoursFinite, TimelineAssumption
  <2>5. start' \in Nat
    BY <1>0, <1>9, <2>3, <2>4, SettleIs DEF OlderArrives
  <2>. QED  BY <1>9, <2>1, <2>3, <2>5 DEF OlderArrives, From
<1>10. CASE \E s \in Nat : handleTimelineScroll(s)
  <2>1. PICK s \in Nat : handleTimelineScroll(s)
    BY <1>10
  <2>2. windowSize' \in Windows
    BY <2>1 DEF handleTimelineScroll
  <2>3. start' \in Nat
    BY <1>0, <2>1, <2>2, SettleIs DEF handleTimelineScroll
  <2>4. Low(hist \cup live) \in Hours
    <3>1. hist \cup live # {}
      BY <1>0, <2>1, SomeEntries DEF handleTimelineScroll
    <3>. QED  BY <1>0, <3>1, LowIs
  <2>5. timer' \in Hours \cup {None} /\ edge' \in BOOLEAN
    BY <2>1, <2>4 DEF handleTimelineScroll
  <2>. QED  BY <2>1, <2>2, <2>3, <2>5 DEF handleTimelineScroll
<1>11. CASE updateWindowSize
  <2>1. windowSize' \in Windows
    BY <1>11 DEF updateWindowSize
  <2>2. start' \in Nat
    BY <1>0, <1>11, <2>1, SettleIs DEF updateWindowSize
  <2>. QED  BY <1>11, <2>1, <2>2 DEF updateWindowSize
<1>. QED
  BY <1>1, <1>2, <1>3, <1>4, <1>5, <1>6, <1>7, <1>8, <1>9, <1>10, <1>11
     DEF TimelineMoves, TimelineStep

-----------------------------------------------------------------------------
(* The rows of the history.                                                *)

\* The hours of the state are numbers.
LEMMA Numbers ==
  ASSUME TimelineTypeOK
  PROVE  /\ now \in Nat /\ Week \in Nat /\ Day \in Nat /\ Created \in Nat
         /\ \A h \in Hours : h \in Nat
         /\ \A h \in snaps : h \in Nat
         /\ \A h \in hist : h \in Nat
         /\ \A h \in live : h \in Nat
         /\ \A r \in Requests : r.cursor \in Nat /\ \A h \in r.rows : h \in Nat
         /\ latest # None => latest \in Requests /\ latest.cursor \in Nat
         /\ fetch # None => fetch \in Requests /\ fetch.cursor \in Nat
         /\ timer # None => timer \in Nat
         /\ top # None => top \in Nat
         /\ hist # {} => Low(hist) \in hist /\ \A h \in hist : Low(hist) <= h
<1>1. \A h \in Hours : h \in Nat
  BY TimelineAssumption DEF Hours
<1>2. \A r \in Requests : r.cursor \in Nat /\ \A h \in r.rows : h \in Nat
  BY <1>1 DEF Requests
<1>3. hist # {} => Low(hist) \in hist /\ \A h \in hist : Low(hist) <= h
  BY LowIs DEF TimelineTypeOK
<1>. QED  BY <1>1, <1>2, <1>3, TimelineAssumption DEF TimelineTypeOK

\* What the server answers for a cursor.
LEMMA ServedIs ==
  ASSUME TimelineTypeOK, NEW r \in Requests, r.rows = GetPollHistory(r.cursor), r.cursor <= now
  PROVE  ServedOK(r)
<1>. DEFINE c == r.cursor
            from == MaxOf(MaxOf(c - Day, now - Week), Created + 1)
            to == IF from = Created + 1 /\ from = c THEN c + 1 ELSE c
<1>0. /\ c \in Nat /\ now \in Nat /\ Day \in Nat /\ Week \in Nat /\ Created \in Nat
      /\ \A h \in snaps : h \in Nat
  BY Numbers
<1>. HIDE DEF c
<1>1. CASE c <= now - Week \/ Created >= c
  <2>1. r.rows = {}
    BY <1>1 DEF GetPollHistory, c
  <2>2. \A h \in snaps : h < c => h <= now - Week \/ h <= Created
    BY <1>0, <1>1
  <2>. QED  BY <2>1, <2>2 DEF ServedOK, c
<1>2. CASE ~(c <= now - Week \/ Created >= c)
  <2>1. r.rows = snaps \cap (from..to - 1)
    BY <1>2 DEF GetPollHistory, c
  <2>2. from \in Int /\ from >= c - Day /\ from >= now - Week /\ from >= Created + 1
    BY <1>0 DEF MaxOf
  <2>3. from = c - Day \/ from = now - Week \/ from = Created + 1
    BY <1>0 DEF MaxOf
  <2>4. to \in Int /\ to >= c /\ to <= c + 1
    BY <1>0
  <2>. HIDE DEF from, to
  <2>5. \A h \in r.rows : h \in snaps /\ h <= c /\ from <= h
    BY <1>0, <2>1, <2>2, <2>4
  <2>6. \A h \in snaps : h < c /\ h \notin r.rows => h < from
    BY <1>0, <2>1, <2>2, <2>4
  <2>7. \A h \in snaps : h < c /\ h \notin r.rows =>
          (h < c - Day \/ h <= now - Week \/ h <= Created) /\ \A g \in r.rows : h < g
    BY <1>0, <2>2, <2>3, <2>5, <2>6
  <2>. QED  BY <2>5, <2>7 DEF ServedOK, c
<1>. QED  BY <1>1, <1>2

\* As time passes and snapshots are added.
LEMMA ServedStays ==
  ASSUME TimelineTypeOK, NEW r \in Requests, ServedOK(r), r.cursor <= now,
         now' \in Nat, now <= now', snaps \subseteq snaps', snaps' \subseteq snaps \cup {now}
  PROVE  ServedOK(r)'
<1>1. /\ now \in Nat /\ r.cursor \in Nat /\ Week \in Nat
      /\ \A h \in snaps : h \in Nat
      /\ \A h \in snaps' : h \in snaps \/ h = now
  BY Numbers
<1>2. \A h \in r.rows : h \in snaps' /\ h <= r.cursor
  BY DEF ServedOK
<1>3. \A h \in snaps' : h < r.cursor => h \in snaps
  BY <1>1
<1>4. \A h \in snaps : h <= now - Week => h <= now' - Week
  BY <1>1
<1>. QED  BY <1>2, <1>3, <1>4 DEF ServedOK

\* Nothing but the clock and the server's snapshots changes.
LEMMA TimePasses ==
  ASSUME TimelineTypeOK, TimelineInv, UNCHANGED strip,
         now' \in Hours, now <= now', snaps \subseteq snaps', snaps' \subseteq snaps \cup {now}
  PROVE  TimelineInv'
<1>0. now' \in Nat
  BY Numbers
<1>1. OneAtATime'
  BY DEF TimelineInv, OneAtATime, strip
<1>2. ReadBackwards'
  BY <1>0, Numbers DEF TimelineInv, ReadBackwards, strip
<1>3. RequestsOK'
  <2>1. timer' # None => CursorOK(timer)'
    BY <1>0, Numbers DEF TimelineInv, RequestsOK, CursorOK, strip
  <2>2. fetch' # None => CursorOK(fetch.cursor)'
    BY <1>0, Numbers DEF TimelineInv, RequestsOK, CursorOK, strip
  <2>3. latest' # None /\ latest'.stage = "served" => ServedOK(latest)'
    BY ServedStays, Numbers DEF TimelineInv, RequestsOK, ReadBackwards, strip
  <2>4. fetch' # None /\ fetch'.stage = "served" => ServedOK(fetch)'
    BY ServedStays, Numbers DEF TimelineInv, RequestsOK, CursorOK, strip
  <2>. QED  BY <2>1, <2>2, <2>3, <2>4 DEF RequestsOK
<1>4. TimelineIsWhole'
  BY <1>0, Numbers DEF TimelineInv, TimelineIsWhole, ReadBackwards, strip
<1>. QED  BY <1>1, <1>2, <1>3, <1>4 DEF TimelineInv

\* The card is mounted.
LEMMA Blanked ==
  ASSUME TimelineTypeOK, TimelineInv, Blank(now)
  PROVE  TimelineInv'
<1>1. latest'.stage = "sent" /\ latest'.cursor = now
  BY DEF Blank, Asked
<1>2. OneAtATime'
  BY DEF OneAtATime, Blank
<1>3. ReadBackwards'
  BY <1>1, Numbers DEF ReadBackwards, TimelineInv, Blank
<1>4. RequestsOK'
  BY <1>1 DEF RequestsOK, Blank
<1>5. TimelineIsWhole'
  BY DEF TimelineIsWhole, Blank
<1>. QED  BY <1>2, <1>3, <1>4, <1>5 DEF TimelineInv

\* Neither the rows nor what is asked for changes.
LEMMA RowsStay ==
  ASSUME TimelineTypeOK, TimelineInv,
         UNCHANGED <<now, snaps, hist, older, latest, fetch, timer, top>>,
         live' = live \/ live' = live \cup {now}
  PROVE  TimelineInv'
<1>1. OneAtATime'
  BY DEF TimelineInv, OneAtATime
<1>2. \A h \in live' : h \in live \/ h = now
  OBVIOUS
<1>3. ReadBackwards'
  BY <1>2, Numbers DEF TimelineInv, ReadBackwards
<1>4. RequestsOK'
  <2>1. timer' # None => CursorOK(timer)'
    BY <1>2 DEF TimelineInv, RequestsOK, CursorOK
  <2>2. fetch' # None => CursorOK(fetch.cursor)'
    BY <1>2 DEF TimelineInv, RequestsOK, CursorOK
  <2>. QED  BY <2>1, <2>2 DEF TimelineInv, RequestsOK, ServedOK
<1>5. TimelineIsWhole'
  BY DEF TimelineInv, TimelineIsWhole
<1>. QED  BY <1>1, <1>3, <1>4, <1>5 DEF TimelineInv

\* The strip asks for the rows before the oldest entry it has.
LEMMA Scrolled ==
  ASSUME TimelineTypeOK, TimelineInv, NEW s \in Nat, handleTimelineScroll(s)
  PROVE  TimelineInv'
<1>1. CASE timer' = timer
  BY <1>1, RowsStay DEF handleTimelineScroll
<1>2. CASE timer' # timer
  <2>1. /\ timer' = Low(hist \cup live) /\ older /\ latest = None /\ fetch = None
        /\ UNCHANGED <<now, snaps, hist, live, older, latest, fetch, top>>
    BY <1>2 DEF handleTimelineScroll, isFetchingOlderHistory
  <2>2. hist \cup live # {} /\ hist \cup live \in SUBSET Hours
    BY SomeEntries DEF handleTimelineScroll, TimelineTypeOK
  <2>3. timer' \in hist \cup live /\ \A h \in hist \cup live : timer' <= h
    BY <2>1, <2>2, LowIs
  <2>4. OneAtATime'
    BY <2>1 DEF OneAtATime
  <2>5. ReadBackwards'
    BY <2>1 DEF TimelineInv, ReadBackwards
  <2>6. CursorOK(timer)'
    <3>1. timer' \in Nat /\ timer' <= now /\ \A h \in live : timer' <= h
      <4>1. \A h \in hist : top # None /\ h <= top /\ top <= now
        BY DEF TimelineInv, ReadBackwards
      <4>2. \A h \in hist \cup live : h \in Nat /\ h <= now
        BY <4>1, Numbers DEF TimelineInv, ReadBackwards
      <4>. QED  BY <2>3, <4>2
    <3>2. top # None => hist # {} /\ timer' = Low(hist)
      <4>1. SUFFICES ASSUME top # None PROVE hist # {} /\ timer' = Low(hist)
        OBVIOUS
      <4>2. hist # {} /\ Low(hist) \in hist /\ \A h \in hist : Low(hist) <= h
        BY <2>1, <4>1, Numbers DEF TimelineInv, ReadBackwards
      <4>3. \A h \in live : Low(hist) <= h
        BY <4>1, <4>2, Numbers DEF TimelineInv, ReadBackwards
      <4>4. timer' <= Low(hist) /\ Low(hist) <= timer'
        BY <2>3, <4>2, <4>3
      <4>. QED  BY <3>1, <4>2, <4>4, Numbers
    <3>. QED  BY <2>1, <3>1, <3>2 DEF CursorOK
  <2>7. RequestsOK'
    BY <2>1, <2>6 DEF RequestsOK
  <2>8. TimelineIsWhole'
    BY <2>1 DEF TimelineInv, TimelineIsWhole
  <2>. QED  BY <2>4, <2>5, <2>7, <2>8 DEF TimelineInv
<1>. QED  BY <1>1, <1>2

LEMMA TimerFired ==
  ASSUME TimelineTypeOK, TimelineInv, OlderTimerFires
  PROVE  TimelineInv'
<1>1. /\ fetch' # None /\ fetch'.cursor = timer /\ fetch'.stage = "sent"
      /\ timer # None /\ timer' = None /\ latest = None
      /\ UNCHANGED <<now, snaps, windowSize, hist, live, start, edge, older, latest, top>>
  <2>1. Asked(timer) \in Requests
    BY DEF OlderTimerFires, Asked, Requests, TimelineTypeOK
  <2>. QED  BY <2>1, TimelineAssumption DEF OlderTimerFires, Asked, TimelineInv, OneAtATime
<1>2. OneAtATime'
  BY <1>1 DEF OneAtATime
<1>3. ReadBackwards'
  BY <1>1 DEF TimelineInv, ReadBackwards
<1>4. RequestsOK'
  BY <1>1 DEF TimelineInv, RequestsOK, CursorOK
<1>5. TimelineIsWhole'
  BY <1>1 DEF TimelineInv, TimelineIsWhole
<1>. QED  BY <1>2, <1>3, <1>4, <1>5 DEF TimelineInv

LEMMA Answered ==
  ASSUME TimelineTypeOK, TimelineInv, HistoryServed
  PROVE  TimelineInv'
<1>0. /\ latest' # None => latest # None /\ latest'.cursor = latest.cursor
      /\ fetch' # None => fetch # None /\ fetch'.cursor = fetch.cursor
      /\ latest # None => latest' # None
      /\ fetch # None => fetch' # None
      /\ UNCHANGED <<now, snaps, windowSize, hist, live, start, edge, older, timer, top>>
  <2>1. \A r \in Requests : \A q \in Served(r) : q.cursor = r.cursor /\ q # None
    <3>. SUFFICES ASSUME NEW r \in Requests, NEW q \in Served(r) PROVE q.cursor = r.cursor /\ q # None
      OBVIOUS
    <3>1. GetPollHistory(r.cursor) \in SUBSET Hours
      BY DEF GetPollHistory, TimelineTypeOK
    <3>2. q \in Requests
      BY <3>1 DEF Served, Requests
    <3>. QED  BY <3>2, TimelineAssumption DEF Served, Requests
  <2>. QED  BY <2>1, Numbers DEF HistoryServed
<1>1. OneAtATime'
  BY <1>0 DEF TimelineInv, OneAtATime
<1>2. ReadBackwards'
  BY <1>0 DEF TimelineInv, ReadBackwards
<1>3. \A r \in Requests : r.cursor <= now =>
        \A q \in Served(r) : q.stage = "served" => ServedOK(q)
  <2>. SUFFICES ASSUME NEW r \in Requests, r.cursor <= now, NEW q \in Served(r), q.stage = "served"
                PROVE  ServedOK(q)
    OBVIOUS
  <2>1. GetPollHistory(r.cursor) \in SUBSET Hours
    BY DEF GetPollHistory, TimelineTypeOK
  <2>2. q = [r EXCEPT !.stage = "served", !.rows = GetPollHistory(r.cursor)]
    BY DEF Served, Requests
  <2>3. q \in Requests /\ q.cursor = r.cursor /\ q.rows = GetPollHistory(q.cursor)
    BY <2>1, <2>2 DEF Requests
  <2>. QED  BY <2>3, ServedIs
<1>4. \A q : ServedOK(q) => ServedOK(q)'
  BY <1>0 DEF ServedOK
<1>5. RequestsOK'
  <2>1. timer' # None => CursorOK(timer)'
    BY <1>0 DEF TimelineInv, RequestsOK, CursorOK
  <2>2. fetch' # None => CursorOK(fetch.cursor)'
    BY <1>0 DEF TimelineInv, RequestsOK, CursorOK
  <2>3. latest' # None /\ latest'.stage = "served" => ServedOK(latest')
    BY <1>0, <1>3, Numbers DEF TimelineInv, RequestsOK, ReadBackwards, HistoryServed
  <2>4. fetch' # None /\ fetch'.stage = "served" => ServedOK(fetch')
    BY <1>0, <1>3, Numbers DEF TimelineInv, RequestsOK, CursorOK, HistoryServed
  <2>. QED  BY <1>4, <2>1, <2>2, <2>3, <2>4 DEF RequestsOK
<1>6. TimelineIsWhole'
  BY <1>0 DEF TimelineInv, TimelineIsWhole
<1>. QED  BY <1>1, <1>2, <1>5, <1>6 DEF TimelineInv

\* The first rows.  (From is the hour from which they were read.)
LEMMA FirstRows ==
  ASSUME TimelineTypeOK, TimelineInv, LatestArrives
  PROVE  TimelineInv'
<1>0. /\ latest # None /\ latest' = None /\ timer = None /\ fetch = None
      /\ hist = {} /\ top = None /\ older
      /\ UNCHANGED <<now, snaps, live, fetch, timer>>
  BY DEF LatestArrives, TimelineInv, OneAtATime, ReadBackwards
<1>1. CASE latest.stage = "failed"
  <2>1. UNCHANGED <<hist, older, top>>
    BY <1>1 DEF LatestArrives
  <2>2. OneAtATime'
    BY <1>0 DEF OneAtATime
  <2>3. ReadBackwards'
    BY <1>0, <2>1 DEF TimelineInv, ReadBackwards
  <2>4. RequestsOK'
    BY <1>0 DEF RequestsOK
  <2>5. TimelineIsWhole'
    BY <1>0, <2>1 DEF TimelineIsWhole
  <2>. QED  BY <2>2, <2>3, <2>4, <2>5 DEF TimelineInv
<1>2. CASE latest.stage # "failed"
  <2>0. latest \in Requests /\ latest.stage = "served"
    BY <1>0, <1>2, Numbers DEF LatestArrives, Requests
  <2>1. hist' = latest.rows /\ older' = (latest.rows # {}) /\ top' = latest.cursor
    BY <1>0, <1>2 DEF LatestArrives, From
  <2>2. ServedOK(latest) /\ latest.cursor <= now /\ \A h \in live : latest.cursor <= h
    BY <1>0, <2>0 DEF TimelineInv, RequestsOK, ReadBackwards
  <2>3. top' # None /\ top' \in Nat
    BY <2>0, <2>1, Numbers, TimelineAssumption DEF Requests
  <2>4. OneAtATime'
    BY <1>0 DEF OneAtATime
  <2>5. ReadBackwards'
    BY <1>0, <2>1, <2>2, <2>3 DEF TimelineInv, ReadBackwards, ServedOK
  <2>6. RequestsOK'
    BY <1>0 DEF RequestsOK
  <2>7. TimelineIsWhole'
    <3>1. hist' # {} => Low(hist') \in hist' /\ \A h \in hist' : Low(hist') <= h
      <4>1. hist' \in SUBSET Hours
        BY <2>0, <2>1 DEF Requests
      <4>. QED  BY <4>1, LowIs
    <3>2. CASE hist' = {}
      BY <1>0, <2>1, <2>2, <3>2, Numbers DEF TimelineIsWhole, ServedOK
    <3>3. CASE hist' # {}
      <4>1. older' /\ top' = latest.cursor
        BY <2>1, <3>3
      <4>2. ASSUME NEW h \in snaps, Low(hist') <= h, h < top' PROVE h \in hist'
        <5>1. SUFFICES ASSUME h \notin latest.rows PROVE FALSE
          BY <2>1
        <5>2. h < Low(hist')
          BY <2>1, <2>2, <3>1, <3>3, <4>1, <4>2, <5>1 DEF ServedOK
        <5>3. h \in Nat /\ Low(hist') \in Nat
          BY <2>0, <2>1, <3>1, <3>3, Numbers
        <5>. QED  BY <4>2, <5>2, <5>3
      <4>. QED  BY <1>0, <3>3, <4>1, <4>2 DEF TimelineIsWhole
    <3>. QED  BY <3>2, <3>3
  <2>. QED  BY <2>4, <2>5, <2>6, <2>7 DEF TimelineInv
<1>. QED  BY <1>1, <1>2

\* Older rows, before those that are there.
LEMMA MoreRows ==
  ASSUME TimelineTypeOK, TimelineInv, OlderArrives
  PROVE  TimelineInv'
<1>0. /\ fetch # None /\ fetch' = None /\ timer = None /\ latest = None
      /\ UNCHANGED <<now, snaps, live, latest, timer>>
  BY DEF OlderArrives, TimelineInv, OneAtATime
<1>1. OneAtATime' /\ RequestsOK'
  BY <1>0 DEF OneAtATime, RequestsOK
<1>2. CASE fetch.stage = "failed"
  <2>1. UNCHANGED <<hist, older, top>>
    BY <1>2 DEF OlderArrives
  <2>2. ReadBackwards' /\ TimelineIsWhole'
    BY <1>0, <2>1 DEF TimelineInv, ReadBackwards, TimelineIsWhole
  <2>. QED  BY <1>1, <2>2 DEF TimelineInv
<1>3. CASE fetch.stage # "failed"
  <2>. DEFINE c == fetch.cursor
              rows == fetch.rows
  <2>0. fetch \in Requests /\ fetch.stage = "served" /\ c \in Nat /\ rows \in SUBSET Hours
        /\ c # None
    BY <1>0, <1>3, Numbers, TimelineAssumption DEF OlderArrives, Requests
  <2>1. hist' = hist \cup rows /\ older' = (rows # {}) /\ top' = IF top = None THEN c ELSE top
    BY <1>0, <1>3 DEF OlderArrives, From, TimelineInv, RequestsOK, CursorOK
  <2>2. /\ \A h \in rows : h \in snaps /\ h <= c
        /\ \A h \in snaps : h < c /\ h \notin rows =>
              /\ h < c - Day \/ h <= now - Week \/ h <= Created
              /\ \A g \in rows : h < g
    BY <1>0, <2>0 DEF TimelineInv, RequestsOK, ServedOK
  <2>3. /\ c <= now /\ \A h \in live : c <= h
        /\ top = None => hist = {}
        /\ top # None => hist # {} /\ c = Low(hist) /\ Low(hist) \in hist
        /\ \A h \in hist : c <= h
    BY <1>0, Numbers DEF TimelineInv, RequestsOK, CursorOK, ReadBackwards
  <2>4. hist' # {} => Low(hist') \in hist' /\ \A h \in hist' : Low(hist') <= h
    <3>1. hist' \in SUBSET Hours
      BY <2>0, <2>1 DEF TimelineTypeOK
    <3>. QED  BY <3>1, LowIs
  <2>5. top' # None /\ top' \in Nat /\ c <= top' /\ top' <= now
        /\ (\A h \in live : top' <= h) /\ (\A h \in hist : h <= top')
    BY <1>0, <2>0, <2>1, <2>3, Numbers DEF TimelineInv, ReadBackwards
  <2>. HIDE DEF c, rows
  <2>6. \A h \in hist' : h <= top'
    BY <1>0, <2>0, <2>1, <2>2, <2>5, Numbers DEF TimelineTypeOK
  <2>7. ReadBackwards'
    <3>1. older' => hist' # {}
      BY <2>1
    <3>2. Created < now' /\ \A h \in live' : h <= now'
      BY <1>0 DEF TimelineInv, ReadBackwards
    <3>. QED  BY <1>0, <2>5, <2>6, <3>1, <3>2 DEF ReadBackwards
  <2>8. TimelineIsWhole'
    <3>0. /\ \A h \in snaps : h \in Nat
          /\ \A h \in hist' : h \in Nat
          /\ \A h \in rows : h \in Nat
      BY <2>0, <2>1, Numbers
    <3>1. CASE hist' = {}
      <4>1. top' = c /\ rows = {}
        BY <2>1, <2>3, <3>1
      <4>. QED  BY <1>0, <2>0, <2>2, <3>0, <3>1, <4>1 DEF TimelineIsWhole
    <3>2. CASE hist' # {}
      <4>1. ASSUME NEW h \in snaps, Low(hist') <= h, h < top' PROVE h \in hist'
        <5>1. CASE h < c
          <6>1. SUFFICES ASSUME h \notin rows PROVE FALSE
            BY <2>1
          <6>2. \A g \in hist' : h < g
            BY <2>0, <2>1, <2>2, <2>3, <3>0, <5>1, <6>1
          <6>. QED  BY <2>4, <3>0, <3>2, <4>1, <6>2
        <5>2. CASE ~(h < c)
          <6>1. top # None /\ top' = top /\ Low(hist) <= h
            BY <2>0, <2>1, <2>3, <3>0, <4>1, <5>2
          <6>. QED  BY <2>1, <2>3, <4>1, <6>1 DEF TimelineInv, TimelineIsWhole
        <5>. QED  BY <5>1, <5>2
      <4>2. ASSUME ~older', NEW h \in snaps, h < Low(hist')
            PROVE  h < Low(hist') - Day \/ h <= now - Week \/ h <= Created
        <5>1. rows = {} /\ hist' = hist /\ top # None /\ Low(hist') = c
          BY <2>1, <2>3, <3>2, <4>2
        <5>. QED  BY <2>2, <4>2, <5>1
      <4>. QED  BY <1>0, <3>2, <4>1, <4>2 DEF TimelineIsWhole
    <3>. QED  BY <3>1, <3>2
  <2>. QED  BY <1>1, <2>7, <2>8 DEF TimelineInv
<1>. QED  BY <1>2, <1>3

LEMMA TimelineKept ==
  ASSUME TimelineTypeOK, TimelineInv, TimelineMoves
  PROVE  TimelineInv'
<1>0. now \in Hours /\ now \in Nat /\ TimelineTypeOK'
  BY Numbers, TimelineTypes DEF TimelineTypeOK
<1>1. CASE Kept
  BY <1>0, <1>1, TimePasses DEF Kept, timelineVars
<1>2. CASE Counting
  BY <1>0, <1>2, TimePasses DEF Counting
<1>3. CASE Tick
  <2>1. now' \in Hours /\ now <= now'
    BY <1>0, <1>3 DEF Tick, TimelineTypeOK
  <2>. QED  BY <1>3, <2>1, TimePasses DEF Tick
<1>4. CASE Blank(now)
  BY <1>4, Blanked
<1>5. CASE LivePoint /\ UNCHANGED snaps
  BY <1>5, RowsStay DEF LivePoint
<1>6. CASE TimelineStep
  BY <1>6, Answered, FirstRows, TimerFired, MoreRows DEF TimelineStep
<1>7. CASE \E s \in Nat : handleTimelineScroll(s)
  BY <1>7, Scrolled
<1>8. CASE updateWindowSize
  BY <1>8, RowsStay DEF updateWindowSize
<1>. QED
  BY <1>1, <1>2, <1>3, <1>4, <1>5, <1>6, <1>7, <1>8 DEF TimelineMoves

-----------------------------------------------------------------------------
(* The chart.                                                              *)

\* An answer that brings nothing new has one row at most.
LEMMA NothingNew ==
  ASSUME TimelineTypeOK, TimelineInv, OlderArrives, fetch.stage # "failed",
         Cardinality(hist') + Cardinality(live) = Length
  PROVE  Cardinality(fetch.rows) \in Nat /\ Cardinality(fetch.rows) <= 1
<1>. DEFINE c == fetch.cursor
            rows == fetch.rows
<1>0. fetch # None /\ fetch.stage = "served" /\ rows \in SUBSET Hours /\ c \in Nat
      /\ hist' = hist \cup rows
  BY Numbers DEF OlderArrives, Requests
<1>1. hist \in SUBSET Hours /\ hist' \in SUBSET Hours /\ live \in SUBSET Hours
  BY <1>0 DEF TimelineTypeOK
<1>2. Cardinality(hist') = Cardinality(hist)
  <2>1. Cardinality(hist') \in Nat
    BY <1>1, HoursFinite
  <2>. QED  BY <1>1, <2>1, LengthIs
<1>3. rows \subseteq hist
  <2>1. hist' = hist
    BY <1>0, <1>1, <1>2, MoreHours
  <2>. QED  BY <1>0, <2>1
<1>4. (top = None => hist = {}) /\ (top # None => hist # {} /\ c = Low(hist))
      /\ \A h \in rows : h <= c
  BY <1>0 DEF TimelineInv, RequestsOK, CursorOK, ServedOK, ReadBackwards
<1>5. \A h \in hist : c <= h /\ h \in Nat
  BY <1>4, Numbers
<1>. HIDE DEF c, rows
<1>6. rows \subseteq {c}
  BY <1>0, <1>3, <1>4, <1>5
<1>7. Cardinality({c}) = 1 /\ IsFiniteSet({c})
  BY FS_Singleton
<1>8. Cardinality(rows) <= 1 /\ Cardinality(rows) \in Nat
  BY <1>0, <1>6, <1>7, FS_Subset, HoursFinite
<1>. QED  BY <1>8 DEF rows

LEMMA ChartKept ==
  ASSUME TimelineTypeOK, TimelineInv, ChartInv, TimelineMoves
  PROVE  ChartInv'
<1>0. /\ TimelineTypeOK' /\ start \in Nat /\ start' \in Nat /\ Tiles \in Nat \ {0}
      /\ hist \in SUBSET Hours /\ live \in SUBSET Hours
      /\ hist' \in SUBSET Hours /\ live' \in SUBSET Hours
      /\ windowSize' \in Windows
      /\ NumOptions \in Nat /\ NumOptions < Tiles
  BY TimelineTypes, TimelineAssumption DEF TimelineTypeOK
<1>a. /\ Length = Cardinality(hist) + Cardinality(live)
      /\ Length \in Nat /\ Cardinality(hist) \in Nat /\ Cardinality(live) \in Nat
  BY <1>0, LengthIs
<1>b. /\ Length' = Cardinality(hist') + Cardinality(live')
      /\ Length' \in Nat /\ Cardinality(hist') \in Nat /\ Cardinality(live') \in Nat
  BY <1>0, LengthIsNext
<1>1. CASE Kept \/ Counting \/ Tick
  <2>1. UNCHANGED strip
    BY <1>1 DEF Kept, Counting, Tick, timelineVars
  <2>. QED  BY <1>a, <1>b, <2>1 DEF ChartInv, strip
<1>2. CASE Blank(now)
  BY <1>2 DEF Blank, ChartInv
<1>3. CASE LivePoint /\ UNCHANGED snaps
  <2>1. Settle(Length', start) /\ UNCHANGED <<hist, timer, fetch>>
    BY <1>3, <1>b DEF LivePoint
  <2>2. Length <= Length'
    <3>1. Cardinality(live) <= Cardinality(live')
      BY <1>0, <1>3, MoreHours DEF LivePoint
    <3>. QED  BY <1>a, <1>b, <2>1, <3>1
  <2>3. start' = start \/ start' = 0 \/ start' + Tiles <= Length'
    BY <1>0, <1>b, <2>1, SettleIs
  <2>. QED  BY <1>0, <1>a, <1>b, <2>1, <2>2, <2>3 DEF ChartInv
<1>4. CASE HistoryServed
  <2>1. UNCHANGED <<hist, live, start, timer>> /\ (fetch' # None => fetch # None)
    BY <1>4 DEF HistoryServed
  <2>. QED  BY <1>a, <1>b, <2>1 DEF ChartInv
<1>5. CASE LatestArrives
  <2>1. timer' = None /\ fetch' = None /\ live' = live
    BY <1>5 DEF LatestArrives, TimelineInv, OneAtATime
  <2>2. CASE latest.stage = "failed"
    <3>1. UNCHANGED <<hist, start>>
      BY <1>5, <2>2 DEF LatestArrives
    <3>. QED  BY <1>a, <1>b, <2>1, <3>1 DEF ChartInv
  <2>3. CASE latest.stage # "failed"
    <3>1. Settle(Length', start)
      BY <1>5, <1>b, <2>1, <2>3 DEF LatestArrives
    <3>2. (start' = start /\ Length' = Length) \/ start' = 0 \/ start' + Tiles <= Length'
      BY <1>0, <1>b, <3>1, SettleIs
    <3>. QED  BY <1>0, <1>a, <1>b, <2>1, <3>2 DEF ChartInv
  <2>. QED  BY <2>2, <2>3
<1>6. CASE OlderTimerFires
  <2>1. UNCHANGED <<hist, live, start>> /\ timer # None
    BY <1>6 DEF OlderTimerFires
  <2>. QED  BY <1>a, <1>b, <2>1 DEF ChartInv
<1>7. CASE OlderArrives
  <2>1. timer' = None /\ fetch' = None /\ live' = live /\ fetch # None
    BY <1>7 DEF OlderArrives, TimelineInv, OneAtATime
  <2>2. CASE fetch.stage = "failed"
    <3>1. UNCHANGED <<hist, start>>
      BY <1>7, <2>2 DEF OlderArrives
    <3>. QED  BY <1>a, <1>b, <2>1, <3>1 DEF ChartInv
  <2>3. CASE fetch.stage # "failed"
    <3>. DEFINE s == start + NumOptions * Cardinality(fetch.rows)
    <3>1. Settle(Length', s)
      BY <1>7, <1>b, <2>1, <2>3 DEF OlderArrives
    <3>2. Cardinality(fetch.rows) \in Nat /\ s \in Nat
      <4>1. fetch.rows \in SUBSET Hours
        BY <2>1, Numbers DEF Requests
      <4>. QED  BY <1>0, <4>1, HoursFinite
    <3>3. (start' = s /\ Length' = Length) \/ start' = 0 \/ start' + Tiles <= Length'
      <4>. HIDE DEF s
      <4>. QED  BY <1>0, <1>b, <3>1, <3>2, SettleIs
    <3>4. CASE start' = s /\ Length' = Length
      <4>1. Cardinality(fetch.rows) <= 1
        BY <1>7, <1>a, <1>b, <2>1, <2>3, <3>4, NothingNew
      <4>2. Cardinality(fetch.rows) = 0 \/ Cardinality(fetch.rows) = 1
        BY <3>2, <4>1
      <4>3. s <= start + NumOptions
        BY <1>0, <4>2
      <4>4. start + Tiles <= Length
        BY <2>1 DEF ChartInv
      <4>5. s \in Nat
        BY <3>2
      <4>. HIDE DEF s
      <4>6. start' < Length'
        BY <1>0, <1>a, <1>b, <3>4, <4>3, <4>4, <4>5
      <4>. QED  BY <2>1, <4>6 DEF ChartInv
    <3>. QED  BY <1>0, <1>b, <2>1, <3>3, <3>4 DEF ChartInv
  <2>. QED  BY <2>2, <2>3
<1>8. CASE \E s \in Nat : handleTimelineScroll(s)
  <2>1. PICK s \in Nat : handleTimelineScroll(s)
    BY <1>8
  <2>2. Length' = Length
    BY <1>a, <1>b, <2>1 DEF handleTimelineScroll
  <2>3. Settle(Length', s) /\ Length > Tiles /\ s + Tiles <= Length
    BY <1>0, <1>a, <2>1, <2>2 DEF handleTimelineScroll, Scrollable
  <2>4. start' = s \/ start' = 0 \/ start' + Tiles <= Length'
    BY <1>0, <1>b, <2>3, SettleIs
  <2>. QED  BY <1>0, <1>a, <2>2, <2>3, <2>4 DEF ChartInv
<1>9. CASE updateWindowSize
  <2>1. UNCHANGED <<hist, live, timer, fetch>>
    BY <1>9 DEF updateWindowSize
  <2>2. Length' = Length
    BY <1>a, <1>b, <2>1
  <2>3. start' = start \/ start' = 0 \/ start' + Tiles <= Length'
    BY <1>0, <1>9, <1>b, <2>2, SettleIs DEF updateWindowSize
  <2>. QED  BY <1>0, <1>a, <2>1, <2>2, <2>3 DEF ChartInv
<1>. QED
  BY <1>1, <1>2, <1>3, <1>4, <1>5, <1>6, <1>7, <1>8, <1>9 DEF TimelineMoves, TimelineStep

LEMMA ChartFollows ==
  ASSUME TimelineTypeOK, ChartInv
  PROVE  ChartShowsData
<1>0. Length \in Nat /\ start \in Nat /\ windowSize \in Nat \ {0}
  BY LengthIs, TimelineAssumption DEF TimelineTypeOK
<1>. SUFFICES ASSUME Length > 0 PROVE visibleHistory # {}
  BY DEF ChartShowsData
<1>1. CASE Length <= windowSize
  BY <1>0, <1>1 DEF visibleHistory
<1>2. CASE ~(Length <= windowSize)
  <2>1. start + 1 <= Length /\ start + 1 <= start + windowSize
    BY <1>0 DEF ChartInv
  <2>2. start + 1 \in (start + 1)..MinOf(Length, start + windowSize)
    BY <1>0, <2>1 DEF MinOf
  <2>. QED  BY <1>2, <2>2 DEF visibleHistory
<1>. QED  BY <1>1, <1>2

-----------------------------------------------------------------------------
(* The types of the card.                                                  *)

LEMMA VoteTypes ==
  ASSUME NEW v \in Votes
  PROVE  /\ v # None
         /\ v.option \in Options \cup {None} /\ v.count \in 1..MaxVotes /\ v.count \in Nat
         /\ v.seen \in Tallies \cup {None} /\ v.left \in Int /\ v.stage \in {"sent", "done", "failed"}
  BY CardAssumption DEF Votes

LEMMA VoteStaged ==
  ASSUME NEW v \in Votes, NEW st \in {"sent", "done", "failed"}, NEW w, w = [v EXCEPT !.stage = st]
  PROVE  /\ w \in Votes /\ w.stage = st
         /\ w.option = v.option /\ w.count = v.count /\ w.seen = v.seen
  BY DEF Votes

LEMMA TallyTypes ==
  ASSUME NEW t \in Tallies, NEW o \in Options, NEW n \in Nat
  PROVE  [t EXCEPT ![o] = @ + n] \in Tallies
  BY DEF Tallies

LEMMA CountedTypes ==
  ASSUME tally \in Tallies, NEW o \in Options, NEW n \in Nat, Counted(o, n)
  PROVE  /\ tally' \in Tallies /\ dirty' = TRUE
         /\ tally'[o] = tally[o] + n
         /\ \A p \in Options : tally[p] <= tally'[p]
  BY DEF Counted, Tallies

\* What the card sends is well-formed.
LEMMA SentTypes ==
  ASSUME TypeOK, NEW n \in 1..MaxVotes
  PROVE  /\ \A o \in Options : /\ Sent(o, n) \in Votes /\ Sent(o, n).option = o
                               /\ Sent(o, n).seen = localVotes
                               /\ Sent(o, n).stage = "sent" /\ Sent(o, n).count = n
         /\ Sent(None, n) \in Votes /\ Sent(None, n).stage = "sent"
  BY CardAssumption DEF TypeOK, Sent, Votes

LEMMA FormTypes ==
  ASSUME TypeInv, [Next]_vars
  PROVE  /\ page' = page
         /\ selected' \in Options \cup {None} /\ voteCount' \in 1..MaxVotes
         /\ vote' \in Votes \cup {None} /\ other' \in Votes \cup {None}
         /\ vote' # None => vote'.option \in Options /\ vote'.seen \in Tallies
<1>. USE DEF TypeInv, TypeOK, form
<1>0. MaxVotes \in Nat \ {0} /\ None \notin Options \cup Votes \cup Int
  BY CardAssumption
<1>1. CASE UNCHANGED vars
  BY <1>1 DEF vars
<1>2. CASE ListServed \/ ListArrives \/ SocketOpens \/ SocketBreaks \/ HubSends \/ SocketMessage
  BY <1>2 DEF ListServed, ListArrives, SocketOpens, SocketBreaks, HubSends, SocketMessage
<1>3. CASE \E o \in Options : OthersVote(o) \/ Select(o)
  BY <1>3 DEF OthersVote, Select
<1>4. CASE BalanceServed \/ BalanceArrives \/ BalanceChanges
  BY <1>4 DEF BalanceServed, BalanceArrives, BalanceChanges
<1>5. CASE \E delta \in {-1, 1} : handleVoteCountChange(delta)
  <2>1. PICK delta \in {-1, 1} : handleVoteCountChange(delta)
    BY <1>5
  <2>2. Offered \in Int /\ voteCount + delta \in Int
    BY <1>0 DEF Offered
  <2>3. \A n \in Int : Within(n) \in 1..MaxVotes
    BY <1>0, <2>2 DEF Within, MaxOf, MinOf
  <2>4. voteCount' \in 1..MaxVotes
    BY <2>1, <2>2, <2>3 DEF handleVoteCountChange
  <2>. QED  BY <2>1, <2>4 DEF handleVoteCountChange
<1>6. CASE handleVote
  <2>1. selected \in Options
    BY <1>6 DEF handleVote
  <2>2. CASE page = "home"
    <3>1. vote' = Sent(selected, voteCount) /\ UNCHANGED <<page, selected, voteCount, other>>
      BY <1>6, <2>2 DEF handleVote
    <3>. QED  BY <2>1, <3>1, SentTypes
  <2>3. CASE page # "home"
    BY <1>0, <1>6, <2>3 DEF handleVote
  <2>. QED  BY <2>2, <2>3
<1>7. CASE OtherCardVotes
  <2>1. other' = Sent(None, 1) /\ UNCHANGED <<page, selected, voteCount, vote>>
    BY <1>7 DEF OtherCardVotes
  <2>. QED  BY <1>0, <2>1, SentTypes
<1>8. CASE VoteServed
  <2>1. vote \in Votes /\ vote # None /\ UNCHANGED <<page, selected, voteCount, other>>
    BY <1>8 DEF VoteServed
  <2>2. PICK st \in {"sent", "done", "failed"} : vote' = [vote EXCEPT !.stage = st]
    BY <1>8 DEF VoteServed
  <2>3. vote' \in Votes /\ vote'.option = vote.option /\ vote'.seen = vote.seen
    BY <2>1, <2>2, VoteStaged
  <2>. QED  BY <2>1, <2>3
<1>9. CASE OtherServed
  <2>1. other \in Votes /\ other # None /\ UNCHANGED <<page, selected, voteCount, vote>>
    BY <1>9 DEF OtherServed
  <2>2. PICK st \in {"sent", "done", "failed"} : other' = [other EXCEPT !.stage = st]
    BY <1>9 DEF OtherServed
  <2>3. other' \in Votes /\ other'.option = other.option /\ other'.seen = other.seen
    BY <2>1, <2>2, VoteStaged
  <2>. QED  BY <2>1, <2>3
<1>10. CASE VoteAnswers \/ VoteFails \/ OtherAnswers
  BY <1>0, <1>10 DEF VoteAnswers, VoteFails, OtherAnswers
<1>11. CASE Remount
  BY <1>0, <1>11 DEF Remount
<1>12. CASE TimelineAnswers \/ handleDoubleClick \/ Resize \/ HourPasses
  BY <1>12 DEF TimelineAnswers, handleDoubleClick, Resize, HourPasses
<1>13. CASE \E s \in 0..Cardinality(Hours) * 2 : Scroll(s)
  BY <1>13 DEF Scroll
<1>. QED
  BY <1>1, <1>2, <1>3, <1>4, <1>5, <1>6, <1>7, <1>8, <1>9, <1>10, <1>11, <1>12, <1>13 DEF Next

LEMMA CountsTypes ==
  ASSUME TypeInv, [Next]_vars
  PROVE  /\ tally' \in Tallies /\ localVotes' \in Tallies /\ dirty' \in BOOLEAN
         /\ link' \in {"opening", "open", "broken"} /\ feed' \in Seq(Tallies)
         /\ list' \in Lists /\ behind' \in BOOLEAN
<1>. USE DEF TypeInv, TypeOK, counts
<1>0. NoVotes \in Tallies
  BY DEF NoVotes, Tallies
<1>1. CASE UNCHANGED vars
  BY <1>1 DEF vars
<1>2. CASE ListServed
  <2>1. list' \in Lists
    BY <1>2 DEF ListServed, Lists
  <2>. QED  BY <1>2, <2>1 DEF ListServed
<1>3. CASE ListArrives
  <2>1. list' \in Lists /\ list.tally \in Tallies
    BY <1>3 DEF ListArrives, Lists
  <2>. QED  BY <1>3, <2>1 DEF ListArrives
<1>4. CASE SocketOpens \/ SocketBreaks \/ HubSends
  <2>1. Append(feed, tally) \in Seq(Tallies) /\ <<>> \in Seq(Tallies)
    OBVIOUS
  <2>. QED  BY <1>4, <2>1 DEF SocketOpens, SocketBreaks, HubSends
<1>5. CASE SocketMessage
  <2>1. feed # <<>>
    BY <1>5 DEF SocketMessage
  <2>2. Head(feed) \in Tallies /\ Tail(feed) \in Seq(Tallies)
    BY <2>1
  <2>. QED  BY <1>5, <2>2 DEF SocketMessage
<1>6. CASE \E o \in Options : OthersVote(o)
  BY <1>6, CountedTypes DEF OthersVote
<1>7. CASE \E o \in Options : Select(o)
  BY <1>7 DEF Select
<1>8. CASE BalanceServed \/ BalanceArrives \/ BalanceChanges
  BY <1>8 DEF BalanceServed, BalanceArrives, BalanceChanges
<1>9. CASE \E delta \in {-1, 1} : handleVoteCountChange(delta)
  BY <1>9 DEF handleVoteCountChange
<1>10. CASE handleVote
  <2>1. selected \in Options /\ voteCount \in Nat
    BY <1>10, CardAssumption DEF handleVote
  <2>2. localVotes' \in Tallies
    BY <1>10, <2>1, TallyTypes DEF handleVote
  <2>. QED  BY <1>10, <2>2 DEF handleVote
<1>11. CASE OtherCardVotes \/ OtherServed
  BY <1>11 DEF OtherCardVotes, OtherServed
<1>12. CASE VoteServed
  <2>1. vote.option \in Options /\ vote.count \in Nat
    BY <1>12, VoteTypes DEF VoteServed
  <2>2. tally' \in Tallies /\ dirty' \in BOOLEAN
    <3>1. CASE Counted(vote.option, vote.count)
      BY <2>1, <3>1, CountedTypes
    <3>2. CASE UNCHANGED <<tally, dirty>>
      BY <3>2
    <3>. QED  BY <1>12, <3>1, <3>2 DEF VoteServed
  <2>. QED  BY <1>12, <2>2 DEF VoteServed
<1>13. CASE VoteAnswers
  <2>1. vote.option \in Options /\ vote.count \in Nat /\ vote.seen \in Tallies
    BY <1>13, VoteTypes DEF VoteAnswers
  <2>2. localVotes' \in Tallies
    BY <1>13, <2>1, TallyTypes DEF VoteAnswers, AddedTo
  <2>. QED  BY <1>13, <2>2 DEF VoteAnswers
<1>14. CASE VoteFails \/ OtherAnswers
  BY <1>14 DEF VoteFails, OtherAnswers
<1>15. CASE Remount
  <2>1. list' \in Lists /\ <<>> \in Seq(Tallies)
    BY <1>15 DEF Remount, Lists, ListAsked
  <2>. QED  BY <1>0, <1>15, <2>1 DEF Remount
<1>16. CASE TimelineAnswers \/ handleDoubleClick \/ Resize \/ HourPasses
  BY <1>16 DEF TimelineAnswers, handleDoubleClick, Resize, HourPasses
<1>17. CASE \E s \in 0..Cardinality(Hours) * 2 : Scroll(s)
  BY <1>17 DEF Scroll
<1>. QED
  BY <1>1, <1>2, <1>3, <1>4, <1>5, <1>6, <1>7, <1>8, <1>9, <1>10, <1>11, <1>12, <1>13, <1>14,
     <1>15, <1>16, <1>17 DEF Next

LEMMA PurseTypes ==
  ASSUME TypeInv, [Next]_vars
  PROVE  /\ balance' \in 0..MaxVotes /\ availableVotes' \in Int /\ availableVotes' <= MaxVotes
         /\ budget' \in Budgets /\ unknown' \in Nat /\ guessed' \in BOOLEAN
         /\ byDefault' \in BOOLEAN /\ isDataRevealed' \in BOOLEAN /\ events' \in 0..MaxEvents
<1>. USE DEF TypeInv, TypeOK, purse, reveal
<1>0. MaxVotes \in Nat \ {0} /\ MaxEvents \in Nat
  BY CardAssumption
<1>e. Event => events' \in 0..MaxEvents
  BY <1>0 DEF Event
<1>s. /\ vote # None => vote.count \in 1..MaxVotes
      /\ other # None => other.count \in 1..MaxVotes
      /\ Spending(vote) \in Nat /\ Spending(other) \in Nat
  BY <1>0, VoteTypes DEF Spending
<1>1. CASE UNCHANGED vars
  BY <1>1 DEF vars
<1>2. CASE ListServed \/ ListArrives \/ SocketOpens \/ HubSends \/ SocketMessage
  BY <1>2 DEF ListServed, ListArrives, SocketOpens, HubSends, SocketMessage
<1>3. CASE SocketBreaks \/ \E o \in Options : OthersVote(o) \/ Select(o)
  BY <1>3, <1>e DEF SocketBreaks, OthersVote, Select
<1>4. CASE BalanceServed
  <2>1. budget' \in Budgets
    BY <1>4 DEF BalanceServed, Budgets
  <2>. QED  BY <1>4, <2>1 DEF BalanceServed
<1>5. CASE BalanceArrives
  <2>1. budget' \in Budgets /\ budget.left \in 0..MaxVotes \cup {None}
    BY <1>5 DEF BalanceArrives, Budgets
  <2>2. availableVotes' \in Int /\ availableVotes' <= MaxVotes
    BY <1>0, <1>5, <2>1 DEF BalanceArrives
  <2>. QED  BY <1>5, <2>1, <2>2 DEF BalanceArrives
<1>6. CASE BalanceChanges
  BY <1>0, <1>6, <1>e DEF BalanceChanges
<1>7. CASE \E delta \in {-1, 1} : handleVoteCountChange(delta)
  BY <1>7 DEF handleVoteCountChange
<1>8. CASE handleVote \/ OtherCardVotes
  BY <1>8, <1>e DEF handleVote, OtherCardVotes
<1>9. CASE VoteServed
  BY <1>0, <1>9, <1>s DEF VoteServed
<1>10. CASE OtherServed
  BY <1>0, <1>10 DEF OtherServed
<1>11. CASE VoteAnswers
  BY <1>0, <1>11, <1>s DEF VoteAnswers, Spend
<1>12. CASE VoteFails \/ OtherAnswers
  <2>1. CASE VoteFails
    BY <1>s, <2>1 DEF VoteFails
  <2>2. CASE OtherAnswers
    <3>1. other # None /\ other.count \in Nat
      BY <1>0, <1>s, <2>2 DEF OtherAnswers
    <3>2. CASE Spend(other) /\ guessed' = (guessed \/ budget.stage # "none") /\ UNCHANGED unknown
      <4>1. availableVotes' \in Int /\ availableVotes' <= MaxVotes
        BY <1>0, <3>1, <3>2 DEF Spend
      <4>2. guessed' \in BOOLEAN
        BY <3>2
      <4>. QED  BY <2>2, <3>2, <4>1, <4>2 DEF OtherAnswers
    <3>3. CASE unknown' = unknown + Spending(other) /\ UNCHANGED <<availableVotes, guessed>>
      BY <1>s, <2>2, <3>3 DEF OtherAnswers
    <3>. QED  BY <2>2, <3>2, <3>3 DEF OtherAnswers
  <2>. QED  BY <1>12, <2>1, <2>2
<1>13. CASE Remount \/ handleDoubleClick \/ Resize \/ HourPasses
  BY <1>13, <1>e DEF Remount, handleDoubleClick, Resize, HourPasses
<1>14. CASE TimelineAnswers \/ \E s \in 0..Cardinality(Hours) * 2 : Scroll(s)
  BY <1>14 DEF TimelineAnswers, Scroll
<1>. QED
  BY <1>1, <1>2, <1>3, <1>4, <1>5, <1>6, <1>7, <1>8, <1>9, <1>10, <1>11, <1>12, <1>13, <1>14 DEF Next

LEMMA CardTypesKept ==
  ASSUME TypeInv, [Next]_vars
  PROVE  TypeInv'
<1>1. TimelineTypeOK'
  BY CardMoves, TimelineTypes DEF TypeInv, TypeOK
<1>2. page' \in Pages
  BY FormTypes DEF TypeInv, TypeOK
<1>3. list'.stage \in {"sent", "served", "shown"}
  BY CountsTypes DEF Lists
<1>. QED  BY <1>1, <1>2, <1>3, FormTypes, CountsTypes, PurseTypes DEF TypeInv, TypeOK

-----------------------------------------------------------------------------
(* The counts.                                                             *)

LEMMA PagesKept ==
  ASSUME TypeInv, PagesDiffer, [Next]_vars
  PROVE  PagesDiffer'
<1>. USE DEF PagesDiffer, HasSocket, HasForm, form, counts, purse
<1>0. page' = page
  BY FormTypes
<1>1. CASE UNCHANGED vars
  BY <1>1 DEF vars
<1>2. CASE ListServed \/ ListArrives \/ SocketOpens \/ SocketBreaks
  BY <1>0, <1>2 DEF ListServed, ListArrives, SocketOpens, SocketBreaks
<1>3. CASE HubSends
  BY <1>0, <1>3 DEF HubSends
<1>4. CASE SocketMessage
  BY <1>0, <1>4 DEF SocketMessage
<1>5. CASE \E o \in Options : OthersVote(o) \/ Select(o)
  BY <1>0, <1>5 DEF OthersVote, Select
<1>6. CASE BalanceServed \/ BalanceArrives \/ BalanceChanges
  <2>1. budget.stage = "none" => budget'.stage = "none"
    BY <1>6 DEF BalanceServed, BalanceArrives, BalanceChanges
  <2>. QED  BY <1>0, <1>6, <2>1 DEF BalanceServed, BalanceArrives, BalanceChanges
<1>7. CASE \E delta \in {-1, 1} : handleVoteCountChange(delta)
  BY <1>0, <1>7 DEF handleVoteCountChange
<1>8. CASE handleVote \/ OtherCardVotes
  BY <1>0, <1>8 DEF handleVote, OtherCardVotes
<1>9. CASE VoteServed \/ OtherServed
  BY <1>0, <1>9 DEF VoteServed, OtherServed
<1>10. CASE VoteAnswers \/ VoteFails \/ OtherAnswers
  BY <1>0, <1>10 DEF VoteAnswers, VoteFails, OtherAnswers
<1>11. CASE Remount
  BY <1>0, <1>11 DEF Remount
<1>12. CASE TimelineAnswers \/ handleDoubleClick \/ Resize \/ HourPasses
  BY <1>0, <1>12 DEF TimelineAnswers, handleDoubleClick, Resize, HourPasses
<1>13. CASE \E s \in 0..Cardinality(Hours) * 2 : Scroll(s)
  BY <1>0, <1>13 DEF Scroll
<1>. QED
  BY <1>1, <1>2, <1>3, <1>4, <1>5, <1>6, <1>7, <1>8, <1>9, <1>10, <1>11, <1>12, <1>13 DEF Next

LEMMA StillAtMost ==
  ASSUME NEW r \in Tallies, NEW s \in Tallies, NEW t \in Tallies, AtMost(r, s), AtMost(s, t)
  PROVE  AtMost(r, t)
  BY DEF AtMost, Tallies

LEMMA AtMostItself ==
  ASSUME NEW t \in Tallies
  PROVE  AtMost(t, t) /\ AtMost(NoVotes, t)
  BY DEF AtMost, Tallies, NoVotes

\* When the tally has grown and nothing else has changed.
LEMMA TallyGrows ==
  ASSUME TypeInv, NothingAhead, tally' \in Tallies, AtMost(tally, tally'),
         UNCHANGED <<page, list, feed, localVotes>>,
         vote' # None => /\ vote # None /\ vote'.seen = vote.seen
                         /\ vote'.option = vote.option /\ vote'.count = vote.count,
         vote' # None /\ vote'.stage = "done" =>
            vote.stage = "done" \/ vote.seen[vote.option] + vote.count <= tally'[vote.option]
  PROVE  NothingAhead'
<1>. USE DEF TypeInv, TypeOK
<1>1. HasSocket' => AtMost(localVotes', tally')
  BY StillAtMost DEF NothingAhead, HasSocket
<1>2. list'.stage = "served" => AtMost(list'.tally, tally')
  BY StillAtMost DEF NothingAhead, Lists
<1>3. ASSUME NEW i \in DOMAIN feed PROVE AtMost(feed[i], tally')
  BY StillAtMost DEF NothingAhead
<1>4. vote' # None => AtMost(vote'.seen, tally')
  BY StillAtMost DEF NothingAhead
<1>5. vote' # None /\ vote'.stage = "done" =>
        vote'.seen[vote'.option] + vote'.count <= tally'[vote'.option]
  <2>1. SUFFICES ASSUME vote' # None, vote'.stage = "done", vote.stage = "done"
                 PROVE  vote.seen[vote.option] + vote.count <= tally'[vote.option]
    OBVIOUS
  <2>2. vote.seen[vote.option] + vote.count <= tally[vote.option]
    BY <2>1 DEF NothingAhead
  <2>3. /\ vote.option \in Options /\ vote.count \in Nat /\ vote.seen[vote.option] \in Nat
        /\ tally[vote.option] \in Nat /\ tally'[vote.option] \in Nat
    BY <2>1, VoteTypes DEF Tallies
  <2>4. tally[vote.option] <= tally'[vote.option]
    BY <2>3 DEF AtMost
  <2>. QED  BY <2>2, <2>3, <2>4
<1>. QED  BY <1>1, <1>2, <1>3, <1>4, <1>5 DEF NothingAhead

LEMMA AheadKept ==
  ASSUME TypeInv, PagesDiffer, NothingAhead, [Next]_vars
  PROVE  NothingAhead'
<1>. USE DEF TypeInv, TypeOK
<1>0. /\ page' = page
      /\ tally' \in Tallies /\ localVotes' \in Tallies /\ feed' \in Seq(Tallies) /\ list' \in Lists
      /\ vote' # None => vote' \in Votes /\ vote'.option \in Options /\ vote'.seen \in Tallies
  BY FormTypes, CountsTypes
<1>a. ASSUME UNCHANGED <<counts, vote>> PROVE NothingAhead'
  BY <1>0, <1>a DEF NothingAhead, HasSocket, counts
<1>1. CASE UNCHANGED vars
  BY <1>1, <1>a DEF vars, form
<1>2. CASE ListServed
  <2>1. list'.tally = tally
    BY <1>2 DEF ListServed
  <2>. QED  BY <1>0, <1>2, <2>1, AtMostItself DEF ListServed, NothingAhead, HasSocket, form
<1>3. CASE ListArrives
  <2>1. list'.stage = "shown" /\ localVotes' = list.tally /\ AtMost(list.tally, tally)
    BY <1>3 DEF ListArrives, NothingAhead
  <2>. QED  BY <1>0, <1>3, <2>1 DEF ListArrives, NothingAhead, HasSocket, form
<1>4. CASE SocketOpens \/ SocketBreaks
  BY <1>0, <1>4 DEF SocketOpens, SocketBreaks, NothingAhead, HasSocket, form
<1>5. CASE HubSends
  <2>1. \A i \in DOMAIN feed' : AtMost(feed'[i], tally)
    BY <1>5, AtMostItself DEF HubSends, NothingAhead
  <2>. QED  BY <1>0, <1>5, <2>1 DEF HubSends, NothingAhead, HasSocket, form
<1>6. CASE SocketMessage
  <2>1. feed # <<>> /\ feed' = Tail(feed) /\ UNCHANGED <<tally, list, vote>>
    BY <1>6 DEF SocketMessage, form
  <2>2. AtMost(Head(feed), tally) /\ \A i \in DOMAIN Tail(feed) : AtMost(Tail(feed)[i], tally)
    BY <2>1 DEF NothingAhead
  <2>3. localVotes' = localVotes \/ localVotes' = Head(feed)
    BY <1>6 DEF SocketMessage
  <2>. QED  BY <1>0, <2>1, <2>2, <2>3 DEF NothingAhead, HasSocket
<1>7. CASE \E o \in Options : OthersVote(o)
  <2>1. AtMost(tally, tally')
    BY <1>7, CountedTypes DEF OthersVote, AtMost
  <2>2. UNCHANGED <<page, list, feed, localVotes, vote>>
    BY <1>7 DEF OthersVote, form
  <2>. QED  BY <1>0, <2>1, <2>2, TallyGrows
<1>8. CASE \E o \in Options : Select(o)
  BY <1>8, <1>a DEF Select
<1>9. CASE BalanceServed \/ BalanceArrives \/ BalanceChanges
  BY <1>9, <1>a DEF BalanceServed, BalanceArrives, BalanceChanges, form
<1>10. CASE \E delta \in {-1, 1} : handleVoteCountChange(delta)
  BY <1>10, <1>a DEF handleVoteCountChange
<1>11. CASE handleVote
  <2>1. CASE page = "home"
    <3>1. selected \in Options /\ HasSocket
      BY <1>11, <2>1 DEF handleVote, HasSocket
    <3>2. vote'.seen = localVotes /\ vote'.stage = "sent"
      BY <1>11, <2>1, <3>1, SentTypes DEF handleVote
    <3>. QED  BY <1>0, <1>11, <2>1, <3>1, <3>2 DEF handleVote, NothingAhead, HasSocket
  <2>2. CASE page # "home"
    <3>1. ~HasSocket /\ UNCHANGED <<vote, list, feed, tally>>
      BY <1>11, <2>2 DEF handleVote, PagesDiffer, HasForm, HasSocket, Pages
    <3>. QED  BY <1>0, <3>1 DEF NothingAhead, HasSocket
  <2>. QED  BY <2>1, <2>2
<1>12. CASE OtherCardVotes \/ OtherServed
  BY <1>12, <1>a DEF OtherCardVotes, OtherServed
<1>13. CASE VoteServed
  <2>1. vote \in Votes /\ vote # None /\ UNCHANGED <<page, list, feed, localVotes>>
        /\ vote.option \in Options /\ vote.count \in Nat /\ vote.seen \in Tallies
    BY <1>13, VoteTypes DEF VoteServed
  <2>2. CASE vote' = [vote EXCEPT !.stage = "done"] /\ Counted(vote.option, vote.count)
    <3>1. vote'.option = vote.option /\ vote'.count = vote.count /\ vote'.seen = vote.seen
      BY <2>1, <2>2, VoteStaged
    <3>2. AtMost(tally, tally') /\ tally'[vote.option] = tally[vote.option] + vote.count
      BY <2>1, <2>2, CountedTypes DEF AtMost
    <3>3. vote.seen[vote.option] + vote.count <= tally'[vote.option]
      <4>1. vote.seen[vote.option] <= tally[vote.option]
        BY <2>1 DEF NothingAhead, AtMost
      <4>2. vote.seen[vote.option] \in Nat /\ tally[vote.option] \in Nat
        BY <2>1 DEF Tallies
      <4>. QED  BY <2>1, <3>2, <4>1, <4>2
    <3>. QED  BY <1>0, <2>1, <3>1, <3>2, <3>3, TallyGrows
  <2>3. CASE vote' = [vote EXCEPT !.stage = "failed"] /\ UNCHANGED tally
    <3>1. /\ vote'.option = vote.option /\ vote'.count = vote.count /\ vote'.seen = vote.seen
          /\ vote'.stage = "failed"
      BY <2>1, <2>3, VoteStaged
    <3>. QED  BY <1>0, <2>1, <2>3, <3>1, AtMostItself, TallyGrows
  <2>. QED  BY <1>13, <2>2, <2>3 DEF VoteServed
<1>14. CASE VoteAnswers
  <2>1. vote' = None /\ localVotes' = AddedTo(vote) /\ UNCHANGED <<tally, list, feed>>
    BY <1>14 DEF VoteAnswers
  <2>2. AtMost(localVotes', tally)
    <3>1. /\ vote.option \in Options /\ vote.seen \in Tallies /\ AtMost(vote.seen, tally)
          /\ vote.seen[vote.option] + vote.count <= tally[vote.option]
      BY <1>14 DEF VoteAnswers, NothingAhead
    <3>. QED  BY <2>1, <3>1 DEF AddedTo, AtMost, Tallies
  <2>. QED  BY <1>0, <2>1, <2>2 DEF NothingAhead, HasSocket
<1>15. CASE VoteFails
  BY <1>0, <1>15 DEF VoteFails, NothingAhead, HasSocket, counts
<1>16. CASE OtherAnswers
  BY <1>16, <1>a DEF OtherAnswers
<1>17. CASE Remount
  <2>1. list'.stage = "sent" /\ feed' = <<>> /\ localVotes' = NoVotes /\ vote' = None /\ tally' = tally
    BY <1>17 DEF Remount, ListAsked
  <2>. QED  BY <1>0, <2>1, AtMostItself DEF NothingAhead
<1>18. CASE TimelineAnswers \/ handleDoubleClick \/ Resize \/ HourPasses
  BY <1>18, <1>a DEF TimelineAnswers, handleDoubleClick, Resize, HourPasses, form
<1>19. CASE \E s \in 0..Cardinality(Hours) * 2 : Scroll(s)
  BY <1>19, <1>a DEF Scroll, form
<1>. QED
  BY <1>1, <1>2, <1>3, <1>4, <1>5, <1>6, <1>7, <1>8, <1>9, <1>10, <1>11, <1>12, <1>13, <1>14,
     <1>15, <1>16, <1>17, <1>18, <1>19 DEF Next

\* What is left to be told.
LEMMA NewsKept ==
  ASSUME TypeInv, CountsInv, [Next]_vars
  PROVE  NewsComes'
<1>. USE DEF TypeInv, TypeOK, CountsInv, NewsComes
<1>0. page' = page
  BY FormTypes
<1>a. ASSUME UNCHANGED counts PROVE NewsComes'
  BY <1>0, <1>a DEF counts, HasSocket, Shown
<1>b. ASSUME dirty' = TRUE PROVE NewsComes'
  BY <1>b
<1>1. CASE UNCHANGED vars
  BY <1>1, <1>a DEF vars
<1>2. CASE ListServed
  <2>1. list'.tally = tally /\ list'.stage = "served" /\ UNCHANGED <<tally, dirty, feed>>
    BY <1>2 DEF ListServed
  <2>. QED  BY <2>1 DEF Shown
<1>3. CASE ListArrives
  <2>1. /\ list.stage = "served" /\ list'.stage = "shown" /\ localVotes' = list.tally
        /\ UNCHANGED <<tally, dirty, feed, link, behind>>
    BY <1>3 DEF ListArrives
  <2>. QED  BY <2>1 DEF Shown
<1>4. CASE SocketOpens
  <2>1. link = "opening" /\ UNCHANGED <<tally, dirty, feed, list, localVotes, behind>>
    BY <1>4 DEF SocketOpens
  <2>. QED  BY <1>0, <2>1 DEF Shown, HasSocket
<1>5. CASE SocketBreaks
  BY <1>5 DEF SocketBreaks
<1>6. CASE HubSends
  <2>1. CASE link = "open"
    <3>1. feed' = Append(feed, tally) /\ tally' = tally
      BY <1>6, <2>1 DEF HubSends
    <3>2. feed' # <<>> /\ feed'[Len(feed')] = tally'
      BY <3>1
    <3>. QED  BY <3>2
  <2>2. CASE link # "open"
    <3>1. feed' = <<>> /\ list' = list /\ (~behind' => list.stage = "sent")
      BY <1>6, <2>2 DEF HubSends, PagesDiffer
    <3>. QED  BY <3>1 DEF Shown
  <2>. QED  BY <2>1, <2>2
<1>7. CASE SocketMessage
  <2>1. feed # <<>> /\ feed' = Tail(feed) /\ UNCHANGED <<tally, dirty, link, list>>
    BY <1>7 DEF SocketMessage
  <2>2. SUFFICES ASSUME ~dirty PROVE NewsComes'
    BY <2>1
  <2>3. feed[Len(feed)] = tally
    BY <2>1, <2>2
  <2>4. feed' # <<>> => feed'[Len(feed')] = tally'
    BY <2>1, <2>3
  <2>5. ASSUME feed' = <<>> PROVE Head(feed) = tally
    <3>1. Len(Tail(feed)) = Len(feed) - 1 /\ Len(feed) \in Nat
      BY <2>1
    <3>2. Len(Tail(feed)) = 0
      <4>1. Tail(feed) = <<>> /\ Len(<<>>) = 0
        BY <2>1, <2>5
      <4>. QED  BY <4>1, Zenon
    <3>3. Len(feed) = 1
      BY <3>1, <3>2
    <3>. QED  BY <2>1, <2>3, <3>3
  <2>6. CASE Shown
    <3>1. localVotes' = Head(feed)
      BY <1>7, <2>6 DEF SocketMessage, TakesUpdates
    <3>. QED  BY <2>1, <2>4, <2>5, <2>6, <3>1 DEF Shown
  <2>7. CASE ~Shown
    <3>1. behind' \/ list'.stage # "served"
      BY <1>7, <2>1, <2>7 DEF SocketMessage, TakesUpdates
    <3>. QED  BY <2>1, <2>4, <2>7, <3>1 DEF Shown
  <2>. QED  BY <2>6, <2>7
<1>8. CASE \E o \in Options : OthersVote(o)
  BY <1>8, <1>b DEF OthersVote, Counted
<1>9. CASE \E o \in Options : Select(o)
  BY <1>9, <1>a DEF Select
<1>10. CASE BalanceServed \/ BalanceArrives \/ BalanceChanges
  BY <1>10, <1>a DEF BalanceServed, BalanceArrives, BalanceChanges
<1>11. CASE \E delta \in {-1, 1} : handleVoteCountChange(delta)
  BY <1>11, <1>a DEF handleVoteCountChange
<1>12. CASE handleVote
  <2>1. CASE page = "home"
    BY <1>12, <1>a, <2>1 DEF handleVote, counts
  <2>2. CASE page # "home"
    <3>1. ~HasSocket /\ Shown /\ UNCHANGED <<list, feed, tally, dirty, link, behind>>
      BY <1>12, <2>2 DEF handleVote, PagesDiffer, HasForm, HasSocket, Pages
    <3>. QED  BY <1>0, <3>1 DEF HasSocket, Shown
  <2>. QED  BY <2>1, <2>2
<1>13. CASE OtherCardVotes \/ OtherServed
  BY <1>13, <1>a DEF OtherCardVotes, OtherServed
<1>14. CASE VoteServed
  <2>1. CASE dirty' = TRUE
    BY <1>b, <2>1
  <2>2. CASE UNCHANGED <<tally, dirty>>
    BY <1>14, <1>a, <2>2 DEF VoteServed, counts
  <2>. QED  BY <1>14, <2>1, <2>2 DEF VoteServed, Counted
<1>15. CASE VoteAnswers
  <2>1. UNCHANGED <<tally, dirty, link, feed, list>> /\ behind' = (behind \/ localVotes # vote.seen)
    BY <1>15 DEF VoteAnswers
  <2>2. ASSUME localVotes = tally, localVotes = vote.seen PROVE FALSE
    <3>1. vote.seen[vote.option] + vote.count <= tally[vote.option]
      BY <1>15 DEF VoteAnswers, NothingAhead
    <3>2. vote.count \in 1..MaxVotes /\ MaxVotes \in Nat /\ tally[vote.option] \in Nat
      BY <1>15, VoteTypes, CardAssumption DEF VoteAnswers, Tallies
    <3>. QED  BY <2>2, <3>1, <3>2
  <2>. QED  BY <1>0, <2>1, <2>2 DEF Shown, HasSocket
<1>16. CASE VoteFails \/ OtherAnswers
  BY <1>16, <1>a DEF VoteFails, OtherAnswers
<1>17. CASE Remount
  <2>1. list'.stage = "sent" /\ feed' = <<>>
    BY <1>17 DEF Remount, ListAsked
  <2>. QED  BY <2>1 DEF Shown
<1>18. CASE TimelineAnswers \/ handleDoubleClick \/ Resize \/ HourPasses
  BY <1>18, <1>a DEF TimelineAnswers, handleDoubleClick, Resize, HourPasses
<1>19. CASE \E s \in 0..Cardinality(Hours) * 2 : Scroll(s)
  BY <1>19, <1>a DEF Scroll
<1>. QED
  BY <1>1, <1>2, <1>3, <1>4, <1>5, <1>6, <1>7, <1>8, <1>9, <1>10, <1>11, <1>12, <1>13, <1>14,
     <1>15, <1>16, <1>17, <1>18, <1>19 DEF Next

-----------------------------------------------------------------------------
(* The balance.                                                            *)

\* What the page shows, and what it has read, is covered.
Covered(a) == a <= balance + Spending(vote) + Spending(other) + unknown

LEMMA BalanceKept ==
  ASSUME TypeInv, PagesDiffer, BalanceInv, [Next]_vars
  PROVE  BalanceInv'
<1>. USE DEF TypeInv, TypeOK
<1>0. /\ balance \in Nat /\ unknown \in Nat /\ availableVotes \in Int /\ guessed \in BOOLEAN
      /\ vote # None => vote \in Votes /\ vote.count \in Nat
      /\ other # None => other \in Votes /\ other.count \in Nat
      /\ Spending(vote) \in Nat /\ Spending(other) \in Nat
      /\ None \notin Int
  BY VoteTypes, CardAssumption DEF Spending
<1>i. /\ budget.stage = "none" /\ ~guessed => Covered(availableVotes)
      /\ budget.stage = "served" /\ ~guessed => budget.left \in 0..MaxVotes /\ Covered(budget.left)
  BY <1>0 DEF BalanceInv, BalanceIsHonest, Covered, Budgets
\* Nothing of it changes but how much is being spent.
<1>a. ASSUME UNCHANGED purse, Spending(vote)' = Spending(vote), Spending(other)' = Spending(other)
      PROVE  BalanceInv'
  BY <1>a DEF BalanceInv, BalanceIsHonest, purse
<1>b. ASSUME UNCHANGED <<purse, vote, other>> PROVE BalanceInv'
  BY <1>b DEF BalanceInv, BalanceIsHonest, Spending, purse
<1>1. CASE UNCHANGED vars
  BY <1>1, <1>b DEF vars, form
<1>2. CASE ListServed \/ ListArrives \/ SocketOpens \/ SocketBreaks \/ HubSends \/ SocketMessage
  BY <1>2, <1>b DEF ListServed, ListArrives, SocketOpens, SocketBreaks, HubSends, SocketMessage, form
<1>3. CASE \E o \in Options : OthersVote(o) \/ Select(o)
  BY <1>3, <1>b DEF OthersVote, Select, form
<1>4. CASE BalanceServed
  <2>1. UNCHANGED <<balance, availableVotes, unknown, vote, other>> /\ budget'.stage = "served"
        /\ (~guessed' => budget'.left = balance)
    <3>1. CASE budget' = [stage |-> "served", left |-> balance]
      BY <1>4, <3>1 DEF BalanceServed, form
    <3>2. CASE budget' = [stage |-> "served", left |-> None]
      BY <1>4, <3>2 DEF BalanceServed, form
    <3>. QED  BY <1>4, <3>1, <3>2 DEF BalanceServed
  <2>. QED  BY <1>0, <2>1 DEF BalanceInv, BalanceIsHonest, Spending
<1>5. CASE BalanceArrives
  <2>1. UNCHANGED <<balance, unknown, guessed, vote, other>> /\ budget.stage = "served"
        /\ budget'.stage = "none"
        /\ (~guessed => availableVotes' = budget.left)
    BY <1>0, <1>5, <1>i DEF BalanceArrives, form
  <2>. QED  BY <1>i, <2>1 DEF BalanceInv, BalanceIsHonest, Spending, Covered
<1>6. CASE BalanceChanges
  <2>1. UNCHANGED <<budget, availableVotes, guessed, vote, other>>
    BY <1>6 DEF BalanceChanges, form
  <2>2. \/ balance' = balance + 1 /\ unknown' = unknown
        \/ balance' = balance - 1 /\ unknown' = unknown + 1
    BY <1>6 DEF BalanceChanges
  <2>3. Spending(vote)' = Spending(vote) /\ Spending(other)' = Spending(other)
    BY <2>1 DEF Spending
  <2>4. \A a \in Int : Covered(a) => a <= balance' + Spending(vote) + Spending(other) + unknown'
    BY <1>0, <2>2 DEF Covered
  <2>. QED  BY <1>0, <1>i, <2>1, <2>3, <2>4 DEF BalanceInv, BalanceIsHonest
<1>7. CASE \E delta \in {-1, 1} : handleVoteCountChange(delta)
  BY <1>7, <1>b DEF handleVoteCountChange
<1>8. CASE handleVote
  <2>1. UNCHANGED <<purse, other>> /\ vote = None
    BY <1>8 DEF handleVote, isLoading
  <2>2. Spending(vote)' = 0
    BY <1>8, <2>1, SentTypes DEF handleVote, Spending
  <2>. QED  BY <1>a, <2>1, <2>2 DEF Spending
<1>9. CASE OtherCardVotes
  <2>1. UNCHANGED <<purse, vote>> /\ other = None /\ other' = Sent(None, 1)
    BY <1>9 DEF OtherCardVotes
  <2>2. Spending(other)' = 0
    BY <2>1, SentTypes, CardAssumption DEF Spending
  <2>. QED  BY <1>a, <2>1, <2>2 DEF Spending
<1>10. CASE VoteServed
  <2>1. vote \in Votes /\ vote # None /\ Spending(vote) = 0
        /\ UNCHANGED <<other, availableVotes, budget, unknown, guessed>>
    BY <1>10 DEF VoteServed, Spending
  <2>2. CASE balance' = balance - vote.count /\ vote' = [vote EXCEPT !.stage = "done"]
    <3>1. Spending(vote)' = vote.count /\ Spending(other)' = Spending(other)
      BY <2>1, <2>2, VoteStaged, VoteTypes DEF Spending
    <3>2. \A a \in Int : Covered(a) => a <= balance' + vote.count + Spending(other) + unknown
      BY <1>0, <2>1, <2>2 DEF Covered
    <3>. QED  BY <1>0, <1>i, <2>1, <3>1, <3>2 DEF BalanceInv, BalanceIsHonest
  <2>3. CASE UNCHANGED balance /\ vote' = [vote EXCEPT !.stage = "failed"]
    <3>1. Spending(vote)' = 0 /\ Spending(other)' = Spending(other)
      BY <2>1, <2>3, VoteStaged, VoteTypes DEF Spending
    <3>. QED  BY <1>a, <2>1, <2>3, <3>1 DEF purse
  <2>. QED  BY <1>10, <2>2, <2>3 DEF VoteServed
<1>11. CASE OtherServed
  <2>1. other \in Votes /\ other # None /\ Spending(other) = 0
        /\ UNCHANGED <<vote, availableVotes, budget, unknown, guessed>>
    BY <1>11 DEF OtherServed, Spending
  <2>2. CASE balance' = balance - 1 /\ other' = [other EXCEPT !.stage = "done"]
    <3>1. Spending(other)' = other.count /\ Spending(vote)' = Spending(vote)
      BY <2>1, <2>2, VoteStaged, VoteTypes DEF Spending
    <3>2. other.count >= 1 /\ other.count \in Nat
      BY <2>1, VoteTypes, CardAssumption
    <3>3. \A a \in Int : Covered(a) => a <= balance' + Spending(vote) + other.count + unknown
      BY <1>0, <2>1, <2>2, <3>2 DEF Covered
    <3>. QED  BY <1>0, <1>i, <2>1, <3>1, <3>3 DEF BalanceInv, BalanceIsHonest
  <2>3. CASE UNCHANGED balance /\ other' = [other EXCEPT !.stage = "failed"]
    <3>1. Spending(other)' = 0 /\ Spending(vote)' = Spending(vote)
      BY <2>1, <2>3, VoteStaged, VoteTypes DEF Spending
    <3>. QED  BY <1>a, <2>1, <2>3, <3>1 DEF purse
  <2>. QED  BY <1>11, <2>2, <2>3 DEF OtherServed
<1>12. CASE VoteAnswers
  <2>1. /\ vote # None /\ Spending(vote) = vote.count /\ Spending(vote)' = 0
        /\ Spending(other)' = Spending(other)
        /\ availableVotes' = availableVotes - vote.count
        /\ guessed' = (guessed \/ budget.stage # "none")
        /\ UNCHANGED <<balance, budget, unknown>>
    BY <1>12 DEF VoteAnswers, Spend, Spending
  <2>2. Covered(availableVotes) => availableVotes' <= balance + 0 + Spending(other) + unknown
    BY <1>0, <2>1 DEF Covered
  <2>. QED  BY <1>i, <2>1, <2>2 DEF BalanceInv, BalanceIsHonest
<1>13. CASE VoteFails
  <2>1. /\ Spending(vote)' = 0 /\ Spending(other)' = Spending(other)
        /\ unknown' = unknown + Spending(vote)
        /\ UNCHANGED <<balance, budget, availableVotes, guessed>>
    BY <1>13 DEF VoteFails, Spending
  <2>2. \A a \in Int : Covered(a) => a <= balance + 0 + Spending(other) + unknown'
    BY <1>0, <2>1 DEF Covered
  <2>. QED  BY <1>0, <1>i, <2>1, <2>2 DEF BalanceInv, BalanceIsHonest
<1>14. CASE OtherAnswers
  <2>1. /\ Spending(other)' = 0 /\ Spending(vote)' = Spending(vote)
        /\ UNCHANGED <<balance, budget>>
    BY <1>14 DEF OtherAnswers, Spending
  <2>2. CASE /\ other.stage = "done" /\ Spend(other)
             /\ guessed' = (guessed \/ budget.stage # "none") /\ UNCHANGED unknown
    <3>1. Spending(other) = other.count /\ availableVotes' = availableVotes - other.count
      BY <1>14, <2>2 DEF OtherAnswers, Spend, Spending
    <3>2. Covered(availableVotes) => availableVotes' <= balance + Spending(vote) + 0 + unknown
      BY <1>0, <3>1 DEF Covered
    <3>. QED  BY <1>i, <2>1, <2>2, <3>2 DEF BalanceInv, BalanceIsHonest
  <2>3. CASE unknown' = unknown + Spending(other) /\ UNCHANGED <<availableVotes, guessed>>
    <3>1. \A a \in Int : Covered(a) => a <= balance + Spending(vote) + 0 + unknown'
      BY <1>0, <2>3 DEF Covered
    <3>. QED  BY <1>0, <1>i, <2>1, <2>3, <3>1 DEF BalanceInv, BalanceIsHonest
  <2>. QED  BY <1>14, <2>2, <2>3 DEF OtherAnswers
<1>15. CASE Remount
  BY <1>15, <1>b DEF Remount
<1>16. CASE TimelineAnswers \/ handleDoubleClick \/ Resize \/ HourPasses
  BY <1>16, <1>b DEF TimelineAnswers, handleDoubleClick, Resize, HourPasses, form
<1>17. CASE \E s \in 0..Cardinality(Hours) * 2 : Scroll(s)
  BY <1>17, <1>b DEF Scroll, form
<1>. QED
  BY <1>1, <1>2, <1>3, <1>4, <1>5, <1>6, <1>7, <1>8, <1>9, <1>10, <1>11, <1>12, <1>13, <1>14,
     <1>15, <1>16, <1>17 DEF Next

-----------------------------------------------------------------------------
(* The specification.                                                      *)

LEMMA CardStarts == ASSUME Init PROVE CardInv
<1>. USE DEF Init
<1>0. /\ MaxVotes \in Nat \ {0} /\ MaxEvents \in Nat /\ NoVotes \in Tallies
      /\ None \notin Options \cup Votes \cup Int
  BY CardAssumption DEF NoVotes, Tallies
<1>1. TimelineTypeOK /\ OneAtATime /\ ReadBackwards /\ RequestsOK /\ TimelineIsWhole /\ ChartInv
  <2>1. snaps \subseteq Hours /\ now \in Hours /\ now \in Nat /\ Created < now
    BY TimelineAssumption DEF TimelineInit, Hours
  <2>2. Asked(now) \in Requests /\ Asked(now) # None /\ Asked(now).cursor = now
        /\ Asked(now).stage = "sent"
    BY <2>1, TimelineAssumption DEF Asked, Requests
  <2>3. TimelineTypeOK
    BY <2>1, <2>2 DEF TimelineInit, TimelineTypeOK
  <2>4. OneAtATime /\ ReadBackwards /\ RequestsOK
    BY <2>1, <2>2 DEF TimelineInit, OneAtATime, ReadBackwards, RequestsOK
  <2>5. TimelineIsWhole /\ ChartInv
    BY DEF TimelineInit, TimelineIsWhole, ChartInv
  <2>. QED  BY <2>3, <2>4, <2>5
<1>2. TypeInv
  <2>1. budget \in Budgets /\ list \in Lists /\ list.stage = "sent"
    BY DEF Budgets, Lists, ListAsked
  <2>2. balance \in 0..MaxVotes /\ availableVotes \in Int /\ availableVotes <= MaxVotes
    BY <1>0
  <2>3. /\ page \in Pages /\ tally \in Tallies /\ localVotes \in Tallies /\ feed \in Seq(Tallies)
        /\ voteCount \in 1..MaxVotes /\ events \in 0..MaxEvents /\ byDefault \in BOOLEAN
    BY <1>0 DEF HasForm
  <2>. QED  BY <1>1, <2>1, <2>2, <2>3 DEF TypeInv, TypeOK
<1>3. CountsInv
  <2>1. AtMost(localVotes, tally)
    BY <1>0, AtMostItself
  <2>2. list.stage = "sent"
    BY DEF ListAsked
  <2>3. budget.stage # "none" => page = "home"
    OBVIOUS
  <2>4. PagesDiffer
    BY <2>3 DEF PagesDiffer
  <2>5. NothingAhead
    BY <2>1, <2>2 DEF NothingAhead
  <2>6. NewsComes
    BY <2>2 DEF NewsComes, Shown
  <2>. QED  BY <2>4, <2>5, <2>6 DEF CountsInv
<1>4. BalanceInv
  <2>1. budget.stage = "none" => availableVotes = balance
    OBVIOUS
  <2>2. budget.stage # "served"
    OBVIOUS
  <2>3. Spending(vote) = 0 /\ Spending(other) = 0 /\ unknown = 0 /\ balance \in Int
    BY <1>0 DEF Spending
  <2>. QED  BY <2>1, <2>2, <2>3 DEF BalanceInv, BalanceIsHonest
<1>. QED  BY <1>1, <1>2, <1>3, <1>4 DEF CardInv, TimelineInv

\* Every step keeps what the card needs to keep its promises.
THEOREM CardInvariant == Spec => []CardInv
<1>1. ASSUME CardInv, [Next]_vars PROVE CardInv'
  <2>1. TimelineTypeOK /\ TimelineMoves
    BY <1>1, CardMoves DEF CardInv, TypeInv, TypeOK
  <2>2. TypeInv'
    BY <1>1, CardTypesKept DEF CardInv
  <2>3. TimelineInv' /\ ChartInv'
    BY <1>1, <2>1, TimelineKept, ChartKept DEF CardInv
  <2>4. CountsInv'
    BY <1>1, PagesKept, AheadKept, NewsKept DEF CardInv, CountsInv
  <2>5. BalanceInv'
    BY <1>1, BalanceKept DEF CardInv, CountsInv
  <2>. QED  BY <2>2, <2>3, <2>4, <2>5 DEF CardInv
<1>. QED  BY CardStarts, <1>1, PTL DEF Spec

\* The types of the card, its form, its balance and its history.
THEOREM CardTypeCorrect == Spec => []TypeOK
<1>1. CardInv => TypeOK
  BY DEF CardInv, TypeInv
<1>. QED  BY <1>1, CardInvariant, PTL

\* The counts of a card become the server's, its own votes counted once, in
\* whatever order the list, the updates of the socket and the answers come.
THEOREM CardCatchesUp == Spec => []CountsCatchUp
<1>1. CardInv => CountsCatchUp
  BY DEF CardInv, CountsInv, NewsComes, PagesDiffer, CountsCatchUp, Shown, HasSocket
<1>. QED  BY <1>1, CardInvariant, PTL

\* The balance that is shown never promises more than the server would take,
\* whichever votes are on their way.
THEOREM CardIsHonest == Spec => []BalanceIsHonest
<1>1. CardInv => BalanceIsHonest
  BY DEF CardInv, BalanceInv
<1>. QED  BY <1>1, CardInvariant, PTL

\* The history of a card has no gaps, and claims to have begun only where it
\* does.
THEOREM CardHistoryIsWhole == Spec => []TimelineIsWhole
<1>1. CardInv => TimelineIsWhole
  BY DEF CardInv, TimelineInv
<1>. QED  BY <1>1, CardInvariant, PTL

\* The chart never scrolls beyond its entries.
THEOREM CardChartShowsData == Spec => []ChartShowsData
<1>1. CardInv => ChartShowsData
  BY ChartFollows DEF CardInv, TypeInv, TypeOK
<1>. QED  BY <1>1, CardInvariant, PTL
=============================================================================
