------------------------------ MODULE PollCard ------------------------------
(***************************************************************************)
(* One poll as its card shows it, with the vote form, and the balance in   *)
(* the header (frontend: PollCard, the socket and handleVoteSubmit of      *)
(* HomePage, AppLayout); the timeline of the card is in Timeline.          *)
(*   - The counts come with the list; afterwards the socket sends the      *)
(*     tally whenever it has changed (LiveHub).  It is opened as the page  *)
(*     is mounted and not opened again when it breaks.                     *)
(*   - A vote is added to the counts that were shown when it was sent.     *)
(* The card of another poll of the page spends the same balance.  The      *)
(* server's side of a vote is in VoteBudget and Polls; here it is a step.  *)
(* On Bookmarks there is neither a socket nor anything a vote is sent to;  *)
(* on Past Votes the card has no form.                                     *)
(***************************************************************************)
EXTENDS Timeline, Sequences

CONSTANTS
    Options,
    MaxVotes,     \* maxVotes, and the largest number of votes of one submission
    MaxEvents     \* bound: votes, hours, mounts and what breaks

Tallies   == [Options -> Nat]
Votes     == [option: Options \cup {None}, count: 1..MaxVotes, seen: Tallies \cup {None},
              left: Int, stage: {"sent", "done", "failed"}]

ASSUME CardAssumption ==
    MaxVotes \in Nat \ {0} /\ MaxEvents \in Nat /\ None \notin Options \cup Votes \cup Int

VARIABLES
    page,
    tally,        \* server: the votes of each option
    balance,      \* server: what the user has left
    dirty,        \* server: the poll is to be sent to the sockets
    link,         \* the socket: "opening", "open" or "broken"
    feed,         \* tallies on their way to the page
    list,         \* the load of the list: "sent", the tally it read, or None
    localVotes,
    selected, voteCount, vote,   \* the form, and the vote that is being sent
    other,        \* the vote of the other card
    byDefault, isDataRevealed,   \* the timeline is always shown, or for now
    availableVotes,
    budget,       \* the load of the balance: "sent", what it read, or None
    behind,       \* history: a newer tally has been dropped or overwritten
    unknown,      \* history: votes the page was not told of
    guessed,      \* history: the balance was made up, or read before a vote
    events

counts    == <<tally, dirty, link, feed, list, localVotes, behind>>
form      == <<selected, voteCount, vote, other>>
reveal    == <<byDefault, isDataRevealed>>
purse     == <<balance, availableVotes, budget, unknown, guessed>>
vars      == <<page, counts, form, reveal, purse, events, timelineVars>>

isLoading == vote # None
Pages     == {"home", "bookmarks", "past_votes"}
HasForm   == page # "past_votes"
HasSocket == page # "bookmarks"
Spending(v) == IF v # None /\ v.stage = "done" THEN v.count ELSE 0

TypeOK ==
    /\ page \in Pages /\ tally \in Tallies /\ balance \in 0..MaxVotes
    /\ dirty \in BOOLEAN /\ link \in {"opening", "open", "broken"} /\ feed \in Seq(Tallies)
    /\ list.stage \in {"sent", "served", "shown"} /\ localVotes \in Tallies
    /\ selected \in Options \cup {None} /\ voteCount \in 1..MaxVotes
    /\ vote \in Votes \cup {None} /\ other \in Votes \cup {None}
    /\ availableVotes \in Int /\ availableVotes <= MaxVotes
    /\ byDefault \in BOOLEAN /\ isDataRevealed \in BOOLEAN
    /\ behind \in BOOLEAN /\ unknown \in Nat /\ guessed \in BOOLEAN /\ events \in 0..MaxEvents
    /\ TimelineTypeOK

\* The load of a page that is mounted.
ListAsked == [stage |-> "sent"]

\* What the page hands to the card; 24 unless it says something else.
Offered == IF page = "home" THEN availableVotes ELSE MaxVotes

shouldShowData == byDefault \/ isDataRevealed

NoVotes == [o \in Options |-> 0]

\* Bounds: the balance has been loaded when the other pages are opened, and on
\* Home the history of the poll begins now, in a narrow window.
Init ==
    /\ page \in Pages /\ tally = NoVotes /\ balance = MaxVotes - 1
    /\ dirty = FALSE /\ link = "opening" /\ feed = <<>> /\ list = ListAsked
    /\ localVotes = NoVotes /\ selected = None /\ voteCount = 1 /\ vote = None /\ other = None
    /\ availableVotes = IF page = "home" THEN MaxVotes ELSE balance
    /\ budget = [stage |-> IF page = "home" THEN "sent" ELSE "none"]
    /\ behind = FALSE /\ unknown = 0 /\ guessed = FALSE /\ events = 0
    /\ byDefault = ~HasForm /\ isDataRevealed = FALSE
    /\ TimelineInit
    /\ page = "home" => snaps = {} /\ now = Created + 1 /\ windowSize = Min(Windows)

Event == events < MaxEvents /\ events' = events + 1
Shown == list.stage = "shown"

-----------------------------------------------------------------------------
(* The counts.                                                             *)

ListServed ==
    /\ list.stage = "sent"
    /\ list' = [stage |-> "served", tally |-> tally]
    /\ UNCHANGED <<page, reveal, tally, dirty, link, feed, localVotes, behind, form, purse, events, timelineVars>>

\* The card is mounted with the counts of the list.
ListArrives ==
    /\ list.stage = "served"
    /\ list' = [stage |-> "shown"] /\ localVotes' = list.tally
    /\ Blank(now)
    /\ UNCHANGED <<page, reveal, tally, dirty, link, feed, behind, form, purse, events>>

SocketOpens ==
    /\ HasSocket /\ link = "opening" /\ link' = "open"
    /\ UNCHANGED <<page, reveal, tally, dirty, feed, list, localVotes, behind, form, purse, events, timelineVars>>

SocketBreaks ==
    /\ link = "open" /\ Event
    /\ link' = "broken" /\ feed' = <<>>
    /\ UNCHANGED <<page, reveal, tally, dirty, list, localVotes, behind, form, purse, timelineVars>>

\* The hub reads the tallies of the polls that changed and sends them.
HubSends ==
    /\ dirty /\ dirty' = FALSE
    /\ feed' = IF link = "open" THEN Append(feed, tally) ELSE feed
    /\ behind' = (behind \/ (link # "open" /\ list.stage # "sent"))
    /\ UNCHANGED <<page, reveal, tally, link, list, localVotes, form, purse, events, timelineVars>>

\* (A slip: updates are left out while a vote is being sent.)
TakesUpdatesIdle == Shown /\ ~isLoading
TakesUpdates == Shown

\* ws.onmessage: replaces the counts, and the effect on poll.options the local
\* ones; a page whose list has not arrived has nothing to replace.
SocketMessage ==
    /\ feed # <<>> /\ feed' = Tail(feed)
    /\ IF TakesUpdates
       THEN /\ localVotes' = Head(feed) /\ behind' = FALSE /\ LivePoint /\ UNCHANGED snaps
       ELSE /\ behind' = (behind \/ list.stage = "served")
            /\ UNCHANGED <<localVotes, timelineVars>>
    /\ UNCHANGED <<page, reveal, tally, dirty, link, list, form, purse, events>>

\* The votes of others; each leaves a snapshot of the hour.
Counted(o, n) ==
    /\ tally' = [tally EXCEPT ![o] = @ + n] /\ dirty' = TRUE
    /\ snaps' = snaps \cup {now} /\ UNCHANGED <<now, windowSize, strip>>

OthersVote(o) ==
    /\ Event /\ Counted(o, 1)
    /\ UNCHANGED <<page, reveal, link, feed, list, localVotes, behind, form, purse>>

-----------------------------------------------------------------------------
(* The balance.                                                            *)

\* getRemainingVotes at the mount of AppLayout; 24 when it fails.
BalanceServed ==
    /\ budget.stage = "sent"
    /\ budget' \in {[stage |-> "served", left |-> balance], [stage |-> "served", left |-> None]}
    /\ guessed' = (guessed \/ budget'.left = None)
    /\ UNCHANGED <<page, counts, form, reveal, balance, availableVotes, unknown, events, timelineVars>>

BalanceArrives ==
    /\ budget.stage = "served"
    /\ budget' = [stage |-> "none"]
    /\ availableVotes' = IF budget.left = None THEN MaxVotes ELSE budget.left
    /\ UNCHANGED <<page, counts, form, reveal, balance, unknown, guessed, events, timelineVars>>

\* The page is told neither of the vote an hour brings nor of those the user
\* casts elsewhere.  (A bound: only where votes are sent.)
BalanceChanges ==
    /\ page = "home" /\ Event
    /\ \/ balance < MaxVotes /\ balance' = balance + 1 /\ UNCHANGED unknown
       \/ balance > 0 /\ balance' = balance - 1 /\ unknown' = unknown + 1
    /\ UNCHANGED <<page, counts, form, reveal, availableVotes, budget, guessed, timelineVars>>

-----------------------------------------------------------------------------
(* The form.                                                               *)

Select(o) ==
    /\ Shown /\ HasForm /\ selected # o /\ selected' = o
    /\ UNCHANGED <<page, reveal, counts, voteCount, vote, other, purse, events, timelineVars>>

\* (A slip: the bounds in the other order.)
WithinSwapped(n) == MinOf(MinOf(MaxVotes, Offered), MaxOf(1, n))
Within(n) == MaxOf(1, MinOf(MinOf(MaxVotes, Offered), n))

handleVoteCountChange(delta) ==
    /\ Shown /\ HasForm /\ ~isLoading
    /\ IF delta < 0 THEN voteCount > 1 ELSE voteCount < MinOf(MaxVotes, Offered)
    /\ voteCount' = Within(voteCount + delta)
    /\ UNCHANGED <<page, reveal, counts, selected, vote, other, purse, events, timelineVars>>

Sent(o, n) == [option |-> o, count |-> n, seen |-> IF o = None THEN None ELSE localVotes,
               left |-> availableVotes, stage |-> "sent"]

\* A page that passes no onVoteSubmit sends nothing, and thanks for the vote.
handleVote ==
    /\ Shown /\ selected # None /\ ~isLoading
    /\ Offered # 0 /\ voteCount <= Offered /\ Event
    /\ IF page = "home" THEN vote' = Sent(selected, voteCount) /\ UNCHANGED <<localVotes, selected, voteCount>>
       ELSE /\ localVotes' = [localVotes EXCEPT ![selected] = @ + voteCount]
            /\ selected' = None /\ voteCount' = 1 /\ UNCHANGED vote
    /\ UNCHANGED <<page, reveal, tally, dirty, link, feed, list, behind, other, purse, timelineVars>>

OtherCardVotes ==
    /\ page = "home" /\ Shown /\ other = None /\ availableVotes > 0 /\ Event
    /\ other' = Sent(None, 1)
    /\ UNCHANGED <<page, reveal, counts, selected, voteCount, vote, purse, timelineVars>>

VoteServed ==
    /\ vote # None /\ vote.stage = "sent"
    /\ \/ /\ vote.count <= balance /\ balance' = balance - vote.count
          /\ vote' = [vote EXCEPT !.stage = "done"]
          /\ Counted(vote.option, vote.count)
       \/ vote' = [vote EXCEPT !.stage = "failed"] /\ UNCHANGED <<balance, tally, dirty, timelineVars>>
    /\ UNCHANGED <<page, reveal, link, feed, list, localVotes, behind, selected, voteCount, other,
                   availableVotes, budget, unknown, guessed, events>>

OtherServed ==
    /\ other # None /\ other.stage = "sent"
    /\ \/ balance > 0 /\ balance' = balance - 1 /\ other' = [other EXCEPT !.stage = "done"]
       \/ other' = [other EXCEPT !.stage = "failed"] /\ UNCHANGED balance
    /\ UNCHANGED <<page, reveal, counts, selected, voteCount, vote, availableVotes, budget, unknown,
                   guessed, events, timelineVars>>

\* A slip: the balance is reckoned from the one that was shown when the vote
\* was sent.
SpendSeen(v) == availableVotes' = v.left - v.count

\* handleVoteSubmit after the answer.
Spend(v) == availableVotes' = availableVotes - v.count

\* The counts of the moment the vote was sent, and the vote.
AddedTo(v) == [v.seen EXCEPT ![v.option] = @ + v.count]

VoteAnswers ==
    /\ vote # None /\ vote.stage = "done"
    /\ vote' = None /\ Spend(vote)
    /\ localVotes' = AddedTo(vote) /\ behind' = (behind \/ localVotes # vote.seen)
    /\ selected' = None /\ voteCount' = 1
    /\ guessed' = (guessed \/ budget.stage # "none")
    /\ UNCHANGED <<page, reveal, tally, dirty, link, feed, list, other, balance, budget, unknown, events, timelineVars>>

\* Refused, or the answer was lost: an error is shown, the form stays.
VoteFails ==
    /\ vote # None /\ vote.stage # "sent"
    /\ vote' = None /\ unknown' = unknown + Spending(vote)
    /\ UNCHANGED <<page, reveal, counts, selected, voteCount, other, balance, availableVotes, budget,
                   guessed, events, timelineVars>>

OtherAnswers ==
    /\ other # None /\ other.stage # "sent" /\ other' = None
    /\ \/ /\ other.stage = "done" /\ Spend(other)
          /\ guessed' = (guessed \/ budget.stage # "none") /\ UNCHANGED unknown
       \/ unknown' = unknown + Spending(other) /\ UNCHANGED <<availableVotes, guessed>>
    /\ UNCHANGED <<page, reveal, counts, selected, voteCount, vote, balance, budget, events, timelineVars>>

-----------------------------------------------------------------------------
\* Away from the page, and back: a new socket, a new list, a new card; the layout
\* and its balance stay.
Remount ==
    /\ Event /\ vote = None /\ other = None
    /\ UNCHANGED page
    /\ link' = "opening" /\ feed' = <<>> /\ list' = ListAsked /\ isDataRevealed' = FALSE
    /\ localVotes' = NoVotes /\ behind' = FALSE /\ selected' = None /\ voteCount' = 1
    /\ Blank(now)
    /\ UNCHANGED <<tally, dirty, vote, other, byDefault, purse>>

TimelineAnswers ==
    Shown /\ TimelineStep /\ UNCHANGED <<page, counts, form, reveal, purse, events>>

Scroll(s) ==
    Shown /\ shouldShowData /\ handleTimelineScroll(s) /\ UNCHANGED <<page, counts, form, reveal, purse, events>>

\* A double click, or a long press, on a card that does not always show it.
handleDoubleClick ==
    /\ Shown /\ ~byDefault /\ Event
    /\ isDataRevealed' = ~isDataRevealed
    /\ UNCHANGED <<page, counts, form, byDefault, purse, timelineVars>>

Resize == Shown /\ shouldShowData /\ Event /\ updateWindowSize /\ UNCHANGED <<page, counts, form, reveal, purse>>

HourPasses == Event /\ Tick /\ UNCHANGED <<page, counts, form, reveal, purse>>

Next ==
    \/ ListServed \/ ListArrives \/ SocketOpens \/ SocketBreaks \/ HubSends \/ SocketMessage
    \/ \E o \in Options : OthersVote(o) \/ Select(o)
    \/ BalanceServed \/ BalanceArrives \/ BalanceChanges
    \/ \E delta \in {-1, 1} : handleVoteCountChange(delta)
    \/ handleVote \/ OtherCardVotes \/ VoteServed \/ OtherServed
    \/ VoteAnswers \/ VoteFails \/ OtherAnswers
    \/ Remount \/ TimelineAnswers \/ handleDoubleClick \/ Resize \/ HourPasses
    \/ \E s \in 0..Cardinality(Hours) * 2 : Scroll(s)

Spec == Init /\ [][Next]_vars

-----------------------------------------------------------------------------
\* Once no vote is being sent and the socket has delivered what it has to, the
\* card shows the tally of the server, its own vote counted once; except when
\* the answer to a vote has overwritten an update that came before it, or an
\* update came while the list was being loaded or the socket being opened, and
\* nobody has voted since.
CountsCatchUp ==
    Shown /\ vote = None /\ link = "open" /\ feed = <<>> /\ ~dirty /\ ~behind => localVotes = tally

\* The balance that is shown never promises more than the server would take,
\* beyond the votes whose answers are still to come and those the page was not
\* told of, even when two cards vote at once; unless the balance was made up
\* or was read before a vote.
BalanceIsHonest ==
    budget.stage = "none" /\ ~guessed =>
        availableVotes <= balance + Spending(vote) + Spending(other) + unknown
=============================================================================
