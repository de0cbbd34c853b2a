------------------------------ MODULE Timeline ------------------------------
(***************************************************************************)
(* The history of one poll as its card shows it (frontend: the timeline    *)
(* and the chart of PollCard, getPollHistory of lib/api; backend:          *)
(* GetPollHistory).  The history is read backwards, a day at a time, from  *)
(* the oldest row that is shown; live updates are appended.                *)
(*   - Time is counted in hours.  A row of the history stands for an hour; *)
(*     the poll was created within the hour Created, not at its beginning. *)
(*   - The strip under the card shows Tiles entries at a time and scrolls  *)
(*     by entries; the chart shows windowSize of them, from visibleStart   *)
(*     on.                                                                 *)
(* A card is the same poll's as long as it is mounted (its key).           *)
(***************************************************************************)
EXTENDS Integers, FiniteSetsExt

CONSTANTS
    LastHour,     \* bound: when the clock stops
    Created,
    Pasts,        \* bound: the hours that have snapshots in the beginning, one set of them
    Day, Week,    \* hours of one page of the history, and of all that is kept
    NumOptions,   \* rows of one hour
    Windows,      \* entries of the chart, for the widths of the browser's window
    Tiles,
    Near,         \* how near to its beginning the strip asks for older rows
    None

Hours      == Created..LastHour
Requests   == [cursor: Hours, stage: {"sent", "served", "failed"}, rows: SUBSET Hours]

ASSUME TimelineAssumption ==
    /\ Created \in Nat /\ LastHour \in Nat /\ Created < LastHour
    /\ \A P \in Pasts : P \subseteq Created..LastHour - 1
    /\ None \notin Hours \cup Requests
    /\ Day \in Nat \ {0} /\ Week \in Nat \ {0} /\ NumOptions \in Nat \ {0}
    /\ Windows \subseteq Nat /\ Tiles \in Nat /\ Tiles > NumOptions /\ Near \in Nat
    /\ \A w \in Windows : w >= Tiles

VARIABLES
    now,
    snaps,        \* server: the hours that have snapshots
    hist,         \* historicalData: the hours of its rows
    live,         \* liveData: the hours in which updates arrived
    windowSize,
    start,        \* visibleStartIndex
    edge,         \* isAtLiveEdge
    older,        \* hasOlderHistory
    latest,       \* the request of the mount
    fetch,        \* the request of fetchOlderHistory
    timer,        \* the debounced fetch: the cursor its closure holds
    top           \* history: the hour from which the rows were read backwards

strip == <<hist, live, start, edge, older, latest, fetch, timer, top>>
timelineVars == <<now, snaps, windowSize, strip>>

Low(S)     == Min(S)
MaxOf(a, b) == IF a > b THEN a ELSE b
MinOf(a, b) == IF a < b THEN a ELSE b
\* The entries: the rows of an hour are one, and apart from those of updates.
mergedHistory == [at: hist, live: {FALSE}] \cup [at: live, live: {TRUE}]
Length     == Cardinality(mergedHistory)
isFetchingOlderHistory == latest # None \/ fetch # None
Asked(c)   == [cursor |-> c, stage |-> "sent", rows |-> {}]

TimelineTypeOK ==
    /\ now \in Hours /\ snaps \subseteq Hours /\ hist \subseteq Hours /\ live \subseteq Hours
    /\ windowSize \in Windows /\ start \in Nat /\ edge \in BOOLEAN /\ older \in BOOLEAN
    /\ latest \in Requests \cup {None} /\ fetch \in Requests \cup {None}
    /\ timer \in Hours \cup {None} /\ top \in Hours \cup {None}

TimelineInit ==
    /\ snaps \in Pasts /\ windowSize \in Windows
    /\ now \in {h \in Hours : (\A s \in snaps : s <= h) /\ h > Created}
    /\ hist = {} /\ live = {} /\ start = 0 /\ edge = TRUE /\ older = TRUE
    /\ latest = Asked(now) /\ fetch = None /\ timer = None /\ top = None

-----------------------------------------------------------------------------
(* The server.                                                             *)

\* (A slip: the hour of the cursor's predecessor is left out, too.)
GetPollHistoryShort(c) ==
    IF c <= now - Week THEN {}
    ELSE snaps \cap (MaxOf(MaxOf(c - Day, now - Week), Created + 1)..c - 2)

\* The hours of a day before the cursor, not before the first full hour of the
\* poll; a cursor in that hour yields the hour itself.
GetPollHistory(c) ==
    IF c <= now - Week \/ Created >= c THEN {}
    ELSE LET from == MaxOf(MaxOf(c - Day, now - Week), Created + 1)
             to   == IF from = Created + 1 /\ from = c THEN c + 1 ELSE c
         IN snaps \cap (from..to - 1)

Served(r) == {[r EXCEPT !.stage = "served", !.rows = GetPollHistory(r.cursor)],
              [r EXCEPT !.stage = "failed"]}

HistoryServed ==
    /\ \/ /\ latest # None /\ latest.stage = "sent"
          /\ latest' \in Served(latest) /\ UNCHANGED fetch
       \/ /\ fetch # None /\ fetch.stage = "sent"
          /\ fetch' \in Served(fetch) /\ UNCHANGED latest
    /\ UNCHANGED <<now, snaps, windowSize, hist, live, start, edge, older, timer, top>>

Tick ==
    /\ now < LastHour /\ now' = now + 1
    /\ UNCHANGED <<snaps, windowSize, strip>>

-----------------------------------------------------------------------------
(* The card.                                                               *)

\* (A slip: the beginning of the chart is not held within the entries.)
VisibleStartLoose(len, s) == IF edge' THEN MaxOf(0, len - windowSize') ELSE s

\* The entries of the chart.
visibleHistory ==
    IF Length <= windowSize THEN 1..Length
    ELSE (start + 1)..MinOf(Length, start + windowSize)

\* The effect that runs when the number of entries, the width or being at the
\* end has changed.
VisibleStart(len, s) ==
    IF edge' THEN MaxOf(0, len - windowSize') ELSE MinOf(s, MaxOf(0, len - windowSize'))
Settle(len, s) ==
    start' = IF len = Length /\ edge' = edge /\ windowSize' = windowSize THEN s ELSE VisibleStart(len, s)

Blank(c) ==
    /\ hist' = {} /\ live' = {} /\ start' = 0 /\ edge' = TRUE /\ older' = TRUE
    /\ latest' = Asked(c) /\ fetch' = None /\ timer' = None /\ top' = None
    /\ UNCHANGED <<now, snaps, windowSize>>

From(r) == top' = IF top = None THEN r.cursor ELSE top

LatestArrives ==
    /\ latest # None /\ latest.stage # "sent"
    /\ latest' = None /\ UNCHANGED <<edge, windowSize>>
    /\ IF latest.stage = "failed" THEN UNCHANGED <<hist, older, start, top>>
       ELSE /\ hist' = latest.rows /\ older' = (older /\ latest.rows # {})
            /\ Settle(Cardinality(latest.rows) + Cardinality(live), start)
            /\ From(latest)
    /\ UNCHANGED <<now, snaps, live, fetch, timer>>

\* The strip has an entry for each of mergedHistory and shows Tiles of them.
Scrollable(s) == Length > Tiles /\ s \in 0..Length - Tiles

\* Of the user, or the one that follows a click on an entry or an answer.
handleTimelineScroll(s) ==
    /\ Scrollable(s)
    /\ edge' = (s + Tiles >= Length - 1) /\ UNCHANGED windowSize
    /\ Settle(Length, s)
    /\ timer' = IF s <= Near /\ older /\ ~isFetchingOlderHistory THEN Low(hist \cup live) ELSE timer
    /\ UNCHANGED <<now, snaps, hist, live, older, latest, fetch, top>>

\* fetchOlderHistory of the render in which the timer was set.
OlderTimerFires ==
    /\ timer # None /\ timer' = None
    /\ fetch' = Asked(timer)
    /\ UNCHANGED <<now, snaps, windowSize, hist, live, start, edge, older, latest, top>>

\* Rows are counted, not hours: the chart moves on by more than is new, and
\* the effect holds it back, if anything is new.
OlderArrives ==
    /\ fetch # None /\ fetch.stage # "sent"
    /\ fetch' = None /\ UNCHANGED <<edge, windowSize>>
    /\ IF fetch.stage = "failed" THEN UNCHANGED <<hist, older, start, top>>
       ELSE /\ hist' = hist \cup fetch.rows /\ older' = (older /\ fetch.rows # {})
            /\ Settle(Cardinality(hist') + Cardinality(live),
                      start + NumOptions * Cardinality(fetch.rows))
            /\ From(fetch)
    /\ UNCHANGED <<now, snaps, live, latest, timer>>

\* An update of the counts adds an entry; those of one hour are one here.
LivePoint ==
    /\ live' = live \cup {now} /\ UNCHANGED <<edge, windowSize>>
    /\ Settle(Cardinality(hist) + Cardinality(live'), start)
    /\ UNCHANGED <<now, hist, older, latest, fetch, timer, top>>

\* The browser's window becomes wider or narrower.
updateWindowSize ==
    /\ windowSize' \in Windows \ {windowSize} /\ edge' = edge
    /\ Settle(Length, start)
    /\ UNCHANGED <<now, snaps, hist, live, older, latest, fetch, timer, top>>

TimelineStep == HistoryServed \/ LatestArrives \/ OlderTimerFires \/ OlderArrives

-----------------------------------------------------------------------------
\* The rows that were read are all there are between the oldest and the hour
\* from which they were read, however requests failed and live updates came
\* between; and the card says that there is nothing older only when a whole
\* day before the oldest has none, or the poll or what is kept of it begins.
TimelineIsWhole ==
    LET oldest == IF hist = {} THEN top ELSE Low(hist)
    IN top # None =>
          /\ \A h \in snaps : oldest <= h /\ h < top => h \in hist
          /\ ~older => \A h \in snaps :
                h < oldest => h < oldest - Day \/ h <= now - Week \/ h <= Created

\* The chart shows something whenever there is something to show, although an
\* answer moves it on by rows and not by entries and one that repeats what was
\* there runs no effect.
ChartShowsData == Length > 0 => visibleHistory # {}
=============================================================================
