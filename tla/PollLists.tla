----------------------------- MODULE PollLists ------------------------------
(***************************************************************************)
(* The pages of a signed-in user that list polls (frontend: AppLayout,     *)
(* HomePage, MyPollsPage, PastVotesPage, BookmarksPage, CreatePollDialog,  *)
(* PollsContext; the requests are those of lib/api) before the listing and *)
(* bookmark operations of the backend.  The router mounts one page at a    *)
(* time, CommentsPage among them (module Comments); the dialog that        *)
(* creates a poll stays.                                                   *)
(*   - A list grows page by page: an observer asks for more whenever its   *)
(*     end is seen.  Home asks again from the start when the filter        *)
(*     changes, and cancels nothing.                                       *)
(*   - A bookmark changes on the page at once and is sent a second later,  *)
(*     unless a further click or the end of the page clears the timer.     *)
(* A request is served at one moment and answered at a later one; the page *)
(* and the bookmarks that one Promise.all asks for are served together,    *)
(* for no property relates them.  How a poll is made and closed is in      *)
(* Polls; here each of these takes one step.                               *)
(***************************************************************************)
EXTENDS Comments

CONSTANTS
    Polls,        \* ids: a later poll has a higher one
    FirstPolls,   \* those there are in the beginning
    Mine,         \* those the user creates
    Voted,        \* those the user has voted on within the last 24 hours
    Marks,        \* bound: those whose bookmark button is clicked
    Take,         \* polls of one page
    MaxClicks     \* bound: clicks, and polls others create, close or delete

Filters  == {"all", "live", "closed"}
Entry    == [id: Polls, live: BOOLEAN]
NoAnswer == [ok |-> FALSE]
Answers  == {NoAnswer} \cup [ok: {TRUE}, items: Seq(Entry), next: Polls \cup {None},
                             marks: SUBSET Marks, upto: Polls \cup {0}]
Loads    == [filter: Filters, ids: (SUBSET Polls) \cup {None}, stage: {"sent", "served"}, got: Answers]
Mores    == [filter: Filters, cursor: Polls, stage: {"sent", "served"}, got: Answers]
Timers   == [id: Marks, flag: BOOLEAN, held: BOOLEAN, alive: BOOLEAN]
Calls    == [op: {"mark", "clear", "close", "delete", "create", "refresh"}, id: Polls \cup {None},
             flag: BOOLEAN, alive: BOOLEAN, stage: {"sent", "done", "failed"}]

ASSUME ListsAssumption ==
    /\ Polls \subseteq Nat /\ IsFiniteSet(Polls) /\ FirstPolls \subseteq Polls /\ Mine \subseteq Polls
    /\ Voted \subseteq Polls /\ Marks \subseteq Polls
    /\ Take \in Nat \ {0} /\ MaxClicks \in Nat
    /\ None \notin Nat \cup Mores /\ \A S \in SUBSET Polls : S # None

VARIABLES
    polls,        \* server: [Polls -> {"none", "live", "closed", "gone"}]
    marks,        \* server: the polls the user has bookmarked
    page, filter, \* the page that is mounted; home: the tab that is open
    list,         \* the polls it shows, each with the status that is shown
    cursor, hasMore,
    marked,       \* home and bookmarks: bookmarkedPolls
    loads,        \* loads from the start that are under way
    more,         \* the request of loadMore (isLoadingMore)
    timers,       \* debounced bookmarks, in the order in which they fire
    calls,        \* requests that change something
    dialog,       \* CreatePollDialog
    upto,         \* history: the newest poll there was when the list was loaded
    crossed,      \* history: requests for another filter were under way
    changed,      \* history: polls closed or deleted since the list was asked for
    disturbed,    \* history: bookmarks clicked or read while one was on its way
    clicks

server   == <<polls, marks>>
listing  == <<list, cursor, hasMore, loads, more, upto, crossed>>
marking  == <<marked, timers, disturbed>>
vars     == <<server, page, filter, listing, marking, calls, dialog, changed, clicks, commentVars>>

Pages    == {"home", "my_polls", "past_votes", "bookmarks", "comments", "profile"}
Listed   == {p \in Polls : polls[p] \in {"live", "closed"}}
Newest   == Max({0} \cup {p \in Polls : polls[p] # "none"})
Entries(S) == LET s == NewestFirst(S) IN [i \in DOMAIN s |-> [id |-> s[i], live |-> polls[s[i]] = "live"]]
Shown    == {list[i].id : i \in DOMAIN list}

PageOf(s, n) == [ok |-> TRUE, items |-> s, next |-> n, marks |-> marks, upto |-> Newest]
Load(f)  == [filter |-> f, ids |-> None, stage |-> "sent", got |-> NoAnswer]
More(f, c) == [filter |-> f, cursor |-> c, stage |-> "sent", got |-> NoAnswer]
Closed   == [open |-> FALSE, text |-> "blank", busy |-> FALSE]
\* The bookmarks that are on their way: a timer, or a request.
On(cs, ts) == {cs[i].id : i \in {j \in DOMAIN cs : cs[j].op = "mark"}}
                \cup {ts[i].id : i \in DOMAIN ts}
                \cup (IF \E i \in DOMAIN cs : cs[i].op = "clear" THEN Marks ELSE {})
Toggling == On(calls, timers)

TypeOK ==
    /\ polls \in [Polls -> {"none", "live", "closed", "gone"}] /\ marks \subseteq Marks
    /\ page \in Pages /\ filter \in Filters
    /\ list \in Seq(Entry) /\ cursor \in Polls \cup {None} /\ hasMore \in BOOLEAN
    /\ marked \subseteq Marks /\ disturbed \subseteq Marks /\ changed \subseteq Polls
    /\ loads \in Seq(Loads) /\ more \in Mores \cup {None}
    /\ timers \in Seq(Timers) /\ calls \in Seq(Calls)
    /\ dialog \in [open: BOOLEAN, text: {"blank", "partial", "complete"}, busy: BOOLEAN]
    /\ upto \in Polls \cup {0, None} /\ crossed \in BOOLEAN /\ clicks \in 0..MaxClicks
    /\ CommentsTypeOK

Init ==
    /\ polls = [p \in Polls |-> IF p \in FirstPolls THEN "live" ELSE "none"] /\ marks = {}
    /\ page = "profile" /\ filter = "all" /\ list = <<>> /\ cursor = None /\ hasMore = TRUE
    /\ marked = {} /\ loads = <<>> /\ more = None /\ timers = <<>> /\ calls = <<>>
    /\ dialog = Closed /\ upto = None /\ crossed = FALSE /\ changed = {} /\ disturbed = {}
    /\ clicks = 0 /\ CommentsInit

Click == clicks < MaxClicks /\ clicks' = clicks + 1

-----------------------------------------------------------------------------
(* Listing polls.                                                          *)

\* Whose polls a page lists.
Of(p) == CASE p = "my_polls" -> Mine [] p = "past_votes" -> Voted [] OTHER -> Polls

\* Slips: the next page starts below the first poll that was cut off; there is
\* a next page after the last one.
CursorSkipping(s) == IF Len(s) > Take THEN s[Take + 1].id ELSE None
CursorAlways(s)   == IF s # <<>> THEN s[Min({Take, Len(s)})].id ELSE 0

\* One poll more than a page is read; the cursor is the last one of the page.
NextCursor(s) == IF Len(s) > Take THEN s[Take].id ELSE None

\* Closed polls are sifted out of a page that was cut before.
listVotePage(f, c, of) ==
    LET s   == Entries({p \in Listed \cap of : /\ c # None => p < c
                                               /\ f = "live" => polls[p] = "live"})
        cut == SubSeq(s, 1, Min({Take, Len(s)}))
    IN PageOf(IF f = "closed" THEN Sift(cut, {i \in DOMAIN cut : ~cut[i].live}) ELSE cut, NextCursor(s))

\* The newest first.  The history it asks for has no route in the backend, so
\* that every poll comes without one (Timeline).
attachHistory(votes) == PageOf(Entries(votes), None)

getBookmarks == PageOf(<<>>, None)

\* One poll that is gone fails them all.
getPollById(ids) == IF ids \subseteq Listed THEN {PageOf(Entries(ids), None)} ELSE {}

\* BookmarksPage asks for the ids first and then for each poll.
LoadAnswers(l) ==
    CASE page \in {"home", "my_polls"}       -> {listVotePage(l.filter, None, Of(page))}
      [] page = "past_votes"                 -> {attachHistory(Voted \cap Listed)}
      [] page = "bookmarks" /\ l.ids = None  -> {getBookmarks}
      [] OTHER                               -> getPollById(l.ids)

LoadServed(i) ==
    /\ loads[i].stage = "sent"
    /\ \E a \in {NoAnswer} \cup LoadAnswers(loads[i]) :
          loads' = [loads EXCEPT ![i].stage = "served", ![i].got = a]
    /\ UNCHANGED <<server, page, filter, list, cursor, hasMore, more, upto, crossed, marking,
                   calls, dialog, changed, clicks, commentVars>>

\* Whatever arrives replaces what is shown; a failure leaves the page as it is.
LoadArrives(i) ==
    LET l == loads[i]
    IN /\ l.stage = "served"
       /\ IF page = "bookmarks" /\ l.ids = None /\ l.got.ok
          THEN /\ marked' = l.got.marks
               /\ loads' = [loads EXCEPT ![i] = [Load("all") EXCEPT !.ids = l.got.marks]]
               /\ UNCHANGED <<list, cursor, hasMore, upto>>
          ELSE /\ loads' = RemoveAt(loads, i)
               /\ IF ~l.got.ok THEN UNCHANGED <<list, cursor, hasMore, upto, marked>>
                  ELSE /\ list' = l.got.items /\ upto' = l.got.upto
                       /\ cursor' = l.got.next /\ hasMore' = (l.got.next # None)
                       /\ marked' = IF page = "home" THEN l.got.marks ELSE marked
    /\ UNCHANGED <<server, page, filter, more, crossed, timers, disturbed,
                   calls, dialog, changed, clicks, commentVars>>

\* An observer of an element below the list; My Polls has none when it shows
\* no poll.
EndIsSeen == page = "home" \/ (page = "my_polls" /\ list # <<>>)

\* Also right after a page has arrived or failed.
loadMore ==
    /\ EndIsSeen
    /\ more = None /\ hasMore /\ cursor # None
    /\ more' = More(filter, cursor)
    /\ UNCHANGED <<server, page, filter, list, cursor, hasMore, loads, upto, crossed, marking,
                   calls, dialog, changed, clicks, commentVars>>

MoreServed ==
    /\ more # None /\ more.stage = "sent"
    /\ \E a \in {NoAnswer, listVotePage(more.filter, more.cursor, Of(page))} :
          more' = [more EXCEPT !.stage = "served", !.got = a]
    /\ UNCHANGED <<server, page, filter, list, cursor, hasMore, loads, upto, crossed, marking,
                   calls, dialog, changed, clicks, commentVars>>

MoreArrives ==
    /\ more # None /\ more.stage = "served"
    /\ more' = None
    /\ IF ~more.got.ok THEN UNCHANGED <<list, cursor, hasMore>>
       ELSE /\ list' = list \o more.got.items
            /\ cursor' = more.got.next /\ hasMore' = (more.got.next # None)
    /\ UNCHANGED <<server, page, filter, loads, upto, crossed, marking,
                   calls, dialog, changed, clicks, commentVars>>

\* The list is emptied and asked for anew; nothing that is under way is
\* cancelled, and isLoadingMore stays.
SetFilter(f) ==
    /\ page = "home" /\ ~dialog.open /\ f # filter /\ Click
    /\ filter' = f /\ list' = <<>> /\ cursor' = None /\ hasMore' = TRUE
    /\ loads' = Append(loads, Load(f))
    /\ upto' = None /\ crossed' = (loads # <<>> \/ more # None) /\ changed' = {}
    /\ disturbed' = Toggling \cup (IF loads = <<>> THEN {} ELSE disturbed)
    /\ UNCHANGED <<server, page, more, marked, timers, calls, dialog, commentVars>>

-----------------------------------------------------------------------------
(* The router and the layout.                                              *)

\* What a page asks for as it is mounted.
Mounts(p) == IF p \in {"comments", "profile"} THEN <<>> ELSE <<Load("all")>>

\* The page that is left clears the timers it still knows of; the others fire.
Unmounted(ts) ==
    LET loose == Sift(ts, {i \in DOMAIN ts : ~ts[i].held})
    IN [i \in DOMAIN loose |-> [loose[i] EXCEPT !.alive = FALSE]]

\* The links of the header; a card leads to the comments of its poll.
Navigate(p) ==
    /\ p # page /\ ~dialog.open /\ Click
    /\ p = "comments" => list # <<>>
    /\ page' = p /\ filter' = "all" /\ list' = <<>> /\ cursor' = None /\ hasMore' = TRUE
    /\ loads' = Mounts(p)
    /\ more' = None /\ marked' = {}
    /\ timers' = Unmounted(timers)
    /\ calls' = [i \in DOMAIN calls |->
                   [calls[i] EXCEPT !.alive = @ /\ calls[i].op \in {"create", "refresh"}]]
    /\ upto' = None /\ crossed' = FALSE /\ changed' = {} /\ disturbed' = On(calls', timers')
    /\ CASE p = "comments"    -> OpenComments
         [] page = "comments" -> LeaveComments
         [] OTHER             -> UNCHANGED commentVars
    /\ UNCHANGED <<server, dialog>>
OpenDialog  == ~dialog.open /\ Click /\ dialog' = [dialog EXCEPT !.open = TRUE]
\* Esc, or a click beside it; the text stays.
HideDialog  == dialog.open /\ dialog' = [dialog EXCEPT !.open = FALSE] /\ UNCHANGED clicks
handleCancel == dialog.open /\ ~dialog.busy /\ dialog' = Closed /\ UNCHANGED clicks
\* Title and two to four options: complete with a title and two of them.
\* While the poll is created only the title is open.
EditDialog(t) ==
    /\ dialog.open /\ t # dialog.text /\ (dialog.busy => t # "blank")
    /\ dialog' = [dialog EXCEPT !.text = t] /\ UNCHANGED clicks
DialogStep ==
    /\ OpenDialog \/ HideDialog \/ handleCancel \/ \E t \in {"blank", "partial", "complete"} : EditDialog(t)
    /\ UNCHANGED <<server, page, filter, listing, marking, calls, changed, commentVars>>

-----------------------------------------------------------------------------
(* Requests that change something.                                         *)

Call(op, p, f) == [op |-> op, id |-> p, flag |-> f, alive |-> TRUE, stage |-> "sent"]

handleCreate ==
    /\ dialog.open /\ ~dialog.busy /\ dialog.text = "complete" /\ Click
    /\ dialog' = [dialog EXCEPT !.busy = TRUE]
    /\ calls' = Append(calls, Call("create", None, FALSE))
    /\ UNCHANGED <<server, page, filter, listing, marking, changed, commentVars>>

\* My Polls: confirmed in a dialog; nothing is disabled meanwhile.
OwnPollClick(op, e) ==
    /\ page = "my_polls" /\ ~dialog.open /\ (op = "close" => e.live) /\ Click
    /\ calls' = Append(calls, Call(op, e.id, FALSE))
    /\ UNCHANGED <<server, page, filter, listing, marking, dialog, changed, commentVars>>
handleClosePoll(e)  == OwnPollClick("close", e)
handleDeletePoll(e) == OwnPollClick("delete", e)

\* The button of a card, on the pages that hand it a handler.
BookmarkButtons == IF page \in {"home", "bookmarks"} THEN Marks \cap Shown ELSE {}

\* Home: shown at once, sent after a second; the timer known for the poll is
\* cleared, which a timer that has fired no longer heeds.
handleBookmarkToggle(p) ==
    /\ page = "home" /\ ~dialog.open /\ p \in BookmarkButtons /\ Click
    /\ marked' = IF p \in marked THEN marked \ {p} ELSE marked \cup {p}
    /\ timers' = Append(Sift(timers, {i \in DOMAIN timers : ~(timers[i].held /\ timers[i].id = p)}),
                       [id |-> p, flag |-> p \notin marked, held |-> TRUE, alive |-> TRUE])
    /\ disturbed' = disturbed \cup (IF p \in Toggling \/ loads # <<>> THEN {p} ELSE {})
    /\ UNCHANGED <<server, page, filter, listing, calls, dialog, changed, commentVars>>

TimerFires ==
    /\ timers # <<>>
    /\ LET t == Head(timers)
       IN calls' = Append(calls, [Call("mark", t.id, t.flag) EXCEPT !.alive = t.alive])
    /\ timers' = Tail(timers)
    /\ UNCHANGED <<server, page, filter, listing, marked, disturbed, dialog, changed, clicks, commentVars>>

\* Bookmarks: the button of a card, and Clear All.
BookmarksClick ==
    /\ page = "bookmarks" /\ list # <<>> /\ ~dialog.open /\ Click
    /\ \E c \in {Call("clear", None, FALSE)} \cup {Call("mark", p, FALSE) : p \in BookmarkButtons} :
          calls' = Append(calls, c)
    /\ UNCHANGED <<server, page, filter, listing, marking, dialog, changed, commentVars>>

Next_id == LET new == {p \in Polls : p > Newest} IN IF new = {} THEN None ELSE Min(new)
Gone(op) == IF op = "close" THEN "closed" ELSE "gone"

\* What the backend does with a request it accepts; a flag that is false is
\* refused, for the binding requires a value that is not the zero one.
Accepts(c) ==
    CASE c.op = "mark"   -> c.flag
      [] c.op = "delete" -> c.id \in Listed
      [] c.op = "create" -> Next_id # None /\ Next_id \in Mine
      [] OTHER -> TRUE

CallServed(i) ==
    LET c == calls[i]
    IN /\ c.stage = "sent"
       /\ \/ /\ Accepts(c)
             /\ calls' = [calls EXCEPT ![i].stage = "done"]
             /\ marks' = CASE c.op = "mark"  -> marks \cup {c.id}
                           [] c.op = "clear" -> {}
                           [] OTHER          -> marks
             /\ polls' = CASE c.op = "create" -> [polls EXCEPT ![Next_id] = "live"]
                           [] c.op \in {"close", "delete"} /\ c.id \in Listed ->
                                [polls EXCEPT ![c.id] = Gone(c.op)]
                           [] OTHER -> polls
             /\ changed' = changed \cup (IF c.op \in {"close", "delete"} THEN {c.id} ELSE {})
          \/ /\ calls' = [calls EXCEPT ![i].stage = "failed"]
             /\ UNCHANGED <<server, changed>>
       /\ UNCHANGED <<page, filter, listing, marking, dialog, clicks, commentVars>>

\* The finally of the toggle forgets the timer it knows of, be it a later one.
Released(c) ==
    [i \in DOMAIN timers |->
        [timers[i] EXCEPT !.held = @ /\ ~(page = "home" /\ c.alive /\ c.op = "mark" /\ timers[i].id = c.id)]]

\* createPoll of PollsContext: a poll that was created is followed by a load of
\* the user's polls, which no page shows.
Followed(i) == IF calls[i].op = "create" THEN [calls EXCEPT ![i] = Call("refresh", None, FALSE)]
                                         ELSE RemoveAt(calls, i)

CallAnswers(i) ==
    LET c == calls[i]
    IN /\ c.stage = "done"
       /\ calls' = Followed(i)
       /\ dialog' = IF c.op = "refresh" THEN Closed ELSE dialog
       /\ timers' = Released(c)
       /\ list' = IF ~c.alive THEN list
                  ELSE CASE c.op = "close"  -> [j \in DOMAIN list |->
                                                 IF list[j].id = c.id THEN [list[j] EXCEPT !.live = FALSE] ELSE list[j]]
                         [] c.op = "delete" -> Sift(list, {j \in DOMAIN list : list[j].id # c.id})
                         [] c.op = "clear"  -> <<>>
                         [] OTHER           -> list
       /\ marked' = IF c.alive /\ c.op = "clear" THEN {} ELSE marked
       /\ changed' = IF c.alive /\ c.op \in {"close", "delete"} /\ polls[c.id] = Gone(c.op)
                     THEN changed \ {c.id} ELSE changed
       /\ UNCHANGED <<server, page, filter, cursor, hasMore, loads, more, upto, crossed, disturbed, clicks, commentVars>>

\* Home takes the bookmark back: it turns over whatever is shown by now.
\* (A slip: an error is shown, and that is all.)
NotReverted(c) == marked
Reverted(c) ==
    IF c.op = "mark" /\ c.alive /\ page = "home"
    THEN (marked \ {c.id}) \cup ({c.id} \ marked) ELSE marked

\* The request was refused, or its answer was lost.
CallFails(i) ==
    LET c    == calls[i]
        lost == c.stage = "done"
    IN /\ c.stage # "sent"
       /\ calls' = RemoveAt(calls, i)
       /\ dialog' = IF c.op \in {"create", "refresh"} THEN [dialog EXCEPT !.busy = FALSE] ELSE dialog
       /\ timers' = Released(c)
       /\ marked' = Reverted(c)
       /\ changed' = IF lost /\ c.op \in {"close", "delete"} THEN changed \cup {c.id} ELSE changed
       /\ disturbed' = IF lost /\ c.op \in {"mark", "clear"}
                       THEN disturbed \cup (IF c.op = "mark" THEN {c.id} ELSE Marks) ELSE disturbed
       /\ UNCHANGED <<server, page, filter, listing, clicks, commentVars>>

\* Other users create, close and delete polls of their own.
OthersChange ==
    /\ Click
    /\ \/ /\ Next_id # None /\ Next_id \notin Mine
          /\ polls' = [polls EXCEPT ![Next_id] = "live"] /\ UNCHANGED changed
       \/ \E p \in Listed \ Mine : \E to \in {"closed", "gone"} \ {polls[p]} :
             polls' = [polls EXCEPT ![p] = to] /\ changed' = changed \cup {p}
    /\ UNCHANGED <<marks, page, filter, listing, marking, calls, dialog, commentVars>>

CommentClick ==
    /\ ~dialog.open
    /\ \/ TypeComment /\ UNCHANGED clicks
       \/ Click /\ (handleCreateComment \/ \E c \in CommentIds : handleDeleteComment(c))
    /\ UNCHANGED <<server, page, filter, listing, marking, calls, dialog, changed>>

CommentAnswers ==
    /\ CommentsStep
    /\ UNCHANGED <<server, page, filter, listing, marking, calls, dialog, changed, clicks>>

Next ==
    \/ \E i \in DOMAIN loads : LoadServed(i) \/ LoadArrives(i)
    \/ loadMore \/ MoreServed \/ MoreArrives
    \/ \E f \in Filters : SetFilter(f)
    \/ \E p \in Pages : Navigate(p)
    \/ DialogStep \/ handleCreate
    \/ \E i \in DOMAIN list : handleClosePoll(list[i]) \/ handleDeletePoll(list[i])
    \/ \E p \in Marks : handleBookmarkToggle(p)
    \/ TimerFires \/ BookmarksClick
    \/ \E i \in DOMAIN calls : CallServed(i) \/ CallAnswers(i) \/ CallFails(i)
    \/ OthersChange \/ CommentClick \/ CommentAnswers

Spec == Init /\ [][Next]_vars

-----------------------------------------------------------------------------
(* What the pages promise.                                                 *)

Settled  == upto # None /\ loads = <<>> /\ more = None
Matches(p) == /\ p \in Of(page) \cap Listed
              /\ filter = "all" \/ polls[p] = filter

\* A list that has been loaded and is not being extended is in order, without
\* duplicates, and lacks nothing: of the polls there were when it was loaded
\* it shows exactly those of the page and the tab, down to the point from
\* which it would ask for more, each as live or closed as it is; except polls
\* that others, or a request with no answer so far, changed since, and except
\* lists that mix two tabs because the first was still being loaded.
ListIsComplete ==
    Settled /\ ~crossed /\ page # "bookmarks" =>
        /\ \A i, j \in DOMAIN list : i < j => list[i].id > list[j].id
        /\ \A p \in Polls \ changed :
              p \in Shown <=> Matches(p) /\ p <= upto /\ (hasMore => p >= cursor)
        /\ \A i \in DOMAIN list : list[i].id \notin changed =>
              list[i].live = (polls[list[i].id] = "live")

\* A bookmark is shown if and only if the server has it once nothing is on its
\* way, whether the requests failed, were refused or came back after the page
\* was left; except for a poll that was clicked again, or loaded, while an
\* earlier click on it was on its way, or whose request had no answer.
MarksAgree ==
    page \in {"home", "bookmarks"} /\ Settled =>
        /\ marked \ (disturbed \cup Toggling) = marks \ (disturbed \cup Toggling)
        /\ page = "bookmarks" => Shown = marked
=============================================================================
