------------------------------ MODULE Comments ------------------------------
(***************************************************************************)
(* The comments of one poll as its page shows them to one user (frontend:  *)
(* CommentsPage and its calls in lib/api; backend: pkg/comments).  What    *)
(* others post is shown by the next load only; the comments that were      *)
(* there before are those of others, and carry no Delete button.           *)
(* The page is composed with the others in PollLists, which mounts it.     *)
(***************************************************************************)
EXTENDS Integers, SequencesExt

CONSTANTS
    CommentIds,   \* Snowflake ids: later comments have higher ones
    Theirs,       \* the comments of others, there from the beginning
    None

Fetches    == [stage: {"sent", "failed"}, got: {{}}] \cup [stage: {"done"}, got: SUBSET CommentIds]

ASSUME CommentsAssumption ==
    /\ CommentIds \subseteq Nat /\ IsFiniteSet(CommentIds) /\ Theirs \subseteq CommentIds
    /\ None \notin Fetches

VARIABLES
    comments,     \* server: [CommentIds -> {"none", "kept", "deleted"}]
    shown,        \* page: the comments in the order they are shown
    draft,        \* page: there is text in the input
    posting,      \* page: isSubmitting
    ready,        \* page: the poll has been loaded ("Poll not found" before)
    fetch,        \* the load of the page
    writes,       \* the requests that create or delete a comment
    unsure        \* history: comments whose request the page had no answer to

commentVars == <<comments, shown, draft, posting, ready, fetch, writes, unsure>>

Ids(s)     == {s[i] : i \in DOMAIN s}
Kept       == {c \in CommentIds : comments[c] = "kept"}
Write      == [op: {"create", "delete"}, id: CommentIds, alive: BOOLEAN,
               stage: {"sent", "done", "failed"}]
IdsWritten == {writes[i].id : i \in DOMAIN writes}

\* The k-th of some numbers, from the smallest on.
Nth(S, k) == CHOOSE n \in S : Cardinality({m \in S : m <= n}) = k
NewestFirst(S) == [k \in 1..Cardinality(S) |-> Nth(S, Cardinality(S) + 1 - k)]
\* What a sequence holds at some places, in its order.
Sift(s, at) == [k \in 1..Cardinality(at) |-> s[Nth(at, k)]]
Without(c) == Sift(shown, {i \in DOMAIN shown : shown[i] # c})

CommentsTypeOK ==
    /\ comments \in [CommentIds -> {"none", "kept", "deleted"}]
    /\ shown \in Seq(CommentIds) /\ draft \in BOOLEAN /\ posting \in BOOLEAN
    /\ ready \in BOOLEAN /\ fetch \in Fetches \cup {None}
    /\ writes \in Seq(Write) /\ unsure \subseteq CommentIds

CommentsInit ==
    /\ comments = [c \in CommentIds |-> IF c \in Theirs THEN "kept" ELSE "none"]
    /\ shown = <<>> /\ draft = FALSE /\ posting = FALSE /\ ready = FALSE
    /\ fetch = None /\ writes = <<>> /\ unsure = {}

-----------------------------------------------------------------------------
(* The page.                                                               *)

\* A mounted page knows nothing; the answers to what an earlier one has sent
\* go nowhere.
Blanked(f) ==
    /\ shown' = <<>> /\ draft' = FALSE /\ posting' = FALSE /\ ready' = FALSE /\ fetch' = f
    /\ writes' = [i \in DOMAIN writes |-> [writes[i] EXCEPT !.alive = FALSE]]
    /\ unsure' = IdsWritten
    /\ UNCHANGED comments

OpenComments  == Blanked([stage |-> "sent", got |-> {}])
LeaveComments == Blanked(None)

\* getPollById and getComments under one Promise.all: one failure fails both.
FetchServed ==
    /\ fetch # None /\ fetch.stage = "sent"
    /\ fetch' \in {[stage |-> "done", got |-> Kept], [stage |-> "failed", got |-> {}]}
    /\ UNCHANGED <<comments, shown, draft, posting, ready, writes, unsure>>

FetchAnswers ==
    /\ fetch # None /\ fetch.stage # "sent"
    /\ fetch' = None
    /\ IF fetch.stage = "failed" THEN UNCHANGED <<ready, shown>>
       ELSE ready' = TRUE /\ shown' = NewestFirst(fetch.got)
    /\ UNCHANGED <<comments, draft, posting, writes, unsure>>

\* The input is disabled while a comment is being posted.
TypeComment ==
    /\ ready /\ ~posting
    /\ draft' = ~draft
    /\ UNCHANGED <<comments, shown, posting, ready, fetch, writes, unsure>>

Sent(op, c) == writes' = Append(writes, [op |-> op, id |-> c, alive |-> TRUE, stage |-> "sent"])

\* The id is the server's; the next one that no request has taken stands for it.
handleCreateComment ==
    /\ ready /\ ~posting /\ draft
    /\ \E c \in CommentIds :
          /\ comments[c] = "none" /\ c \notin IdsWritten
          /\ \A d \in CommentIds : d < c => comments[d] # "none" \/ d \in IdsWritten
          /\ Sent("create", c)
    /\ posting' = TRUE
    /\ UNCHANGED <<comments, shown, draft, ready, fetch, unsure>>

\* A slip: the comment goes before the server has answered.
handleDeleteCommentAtOnce(c) ==
    /\ ready /\ c \in Ids(shown) \ Theirs
    /\ Sent("delete", c)
    /\ shown' = Without(c)
    /\ UNCHANGED <<comments, draft, posting, ready, fetch, unsure>>

\* Confirmed in a dialog of the browser; nothing is disabled meanwhile.
handleDeleteComment(c) ==
    /\ ready /\ c \in Ids(shown) \ Theirs
    /\ Sent("delete", c)
    /\ UNCHANGED <<comments, shown, draft, posting, ready, fetch, unsure>>

-----------------------------------------------------------------------------
(* The server, and its answers.                                            *)

\* InsertOne, or an UpdateOne by id that sets is_deleted.
WriteServed(i) ==
    /\ writes[i].stage = "sent"
    /\ \/ /\ writes' = [writes EXCEPT ![i].stage = "done"]
          /\ comments' = [comments EXCEPT
                ![writes[i].id] = IF writes[i].op = "create" THEN "kept" ELSE "deleted"]
       \/ /\ writes' = [writes EXCEPT ![i].stage = "failed"]
          /\ UNCHANGED comments
    /\ UNCHANGED <<shown, draft, posting, ready, fetch, unsure>>

\* The list the answer changes is the one of the moment (a state updater).
WriteAnswers(i) ==
    /\ writes[i].stage = "done"
    /\ writes' = RemoveAt(writes, i)
    /\ LET w == writes[i]
       IN \/ ~w.alive /\ UNCHANGED <<shown, draft, posting>>
          \/ /\ w.alive /\ w.op = "create"
             /\ shown' = <<w.id>> \o shown /\ draft' = FALSE /\ posting' = FALSE
          \/ /\ w.alive /\ w.op = "delete"
             /\ shown' = Without(w.id) /\ UNCHANGED <<draft, posting>>
    /\ UNCHANGED <<comments, ready, fetch, unsure>>

\* The request was refused, or its answer was lost: an error is shown and the
\* text stays in the input.
WriteFails(i) ==
    /\ writes[i].stage # "sent"
    /\ writes' = RemoveAt(writes, i)
    /\ posting' = (posting /\ ~(writes[i].alive /\ writes[i].op = "create"))
    /\ unsure' = unsure \cup (IF writes[i].stage = "done" THEN {writes[i].id} ELSE {})
    /\ UNCHANGED <<comments, shown, draft, ready, fetch>>

CommentsStep ==
    \/ FetchServed \/ FetchAnswers
    \/ \E i \in DOMAIN writes : WriteServed(i) \/ WriteAnswers(i) \/ WriteFails(i)

-----------------------------------------------------------------------------
\* The page and the server agree on the user's comments once every request has
\* been answered: a posted one is shown, once, and a deleted one is gone,
\* whatever was posted and deleted at the same time and whatever failed; but
\* for those whose answer was lost or went to an earlier page.
CommentsAgree ==
    ready /\ writes = <<>> =>
        /\ Ids(shown) \ (Theirs \cup unsure) = Kept \ (Theirs \cup unsure)
        /\ IsInjective(shown)
=============================================================================
