---------------------------- MODULE PollListsProofs ----------------------------
(***************************************************************************)
(* Proofs about the pages that list polls (PollLists) and the comments of  *)
(* one (Comments).  The comments, the bookmarks and the lists have an      *)
(* inductive invariant each; they share the types, what the requests may   *)
(* be on which page (PagesOK) and facts about sequences.                   *)
(***************************************************************************)
EXTENDS PollLists, FiniteSetTheorems, TLAPS

-----------------------------------------------------------------------------
(* The invariants: comments.                                               *)

Creates(w, c) == w.op = "create" /\ w.id = c
Deletes(w, c) == w.op = "delete" /\ w.id = c

\* What a request says of the comment it is about, and of the page.
WriteOK(w) ==
    /\ ~w.alive => w.id \in unsure
    /\ w.alive => ready
    /\ w.op = "create" =>
          /\ w.alive => w.id \notin Ids(shown) /\ comments[w.id] # "deleted"
          /\ (w.stage = "done") <=> comments[w.id] # "none"
    /\ w.op = "delete" =>
          /\ comments[w.id] # "none"
          /\ w.stage = "done" => comments[w.id] = "deleted"

\* A load reads what there is; until it has arrived the user can do nothing.
FetchOK ==
    /\ ready => fetch = None
    /\ ~ready => shown = <<>>
    /\ fetch # None /\ fetch.stage = "done" =>
          /\ \A c \in fetch.got : comments[c] # "none"
          /\ fetch.got \ unsure = Kept \ unsure

\* A comment whose answers came is shown unless it is gone; what is shown and
\* gone, or there and not shown, has an answer still to come.
ShownOK ==
    /\ IsInjective(shown)
    /\ \A c \in Ids(shown) : comments[c] # "none"
    /\ ready => \A c \in CommentIds \ (Theirs \cup unsure) :
          /\ c \in Ids(shown) => c \in Kept \/ \E i \in DOMAIN writes : Deletes(writes[i], c) /\ writes[i].stage = "done"
          /\ c \in Kept => c \in Ids(shown) \/ \E i \in DOMAIN writes : Creates(writes[i], c)

\* A comment is created once, and not deleted before its page shows it.
CreatedOnce ==
    \A i, j \in DOMAIN writes :
        i # j /\ writes[i].op = "create" /\ (writes[i].alive \/ writes[j].op = "create") =>
            writes[i].id # writes[j].id

WritesOK == \A i \in DOMAIN writes : WriteOK(writes[i])

CommentsInv ==
    /\ WritesOK
    /\ CreatedOnce
    /\ FetchOK
    /\ ShownOK

-----------------------------------------------------------------------------
(* The invariants: pages and requests.                                     *)

\* What a page may have under way: only Home asks again from the start, and
\* only Home and My Polls ask for more.
PagesOK ==
    /\ page # "home" =>
          /\ filter = "all" /\ ~crossed /\ Len(loads) <= 1
          /\ loads # <<>> => list = <<>> /\ upto = None /\ cursor = None /\ more = None
    /\ page \notin {"home", "my_polls"} =>
          /\ more = None /\ cursor = None
          /\ \A i \in DOMAIN loads : loads[i].stage = "served" /\ loads[i].got.ok => loads[i].got.next = None
    /\ page \in {"comments", "profile"} => loads = <<>> /\ upto = None
    /\ \A i \in DOMAIN loads : page # "bookmarks" => loads[i].ids = None

\* What a request may be about, and on which page its answer is heeded.
CallOK(c) ==
    /\ c.op = "mark" => /\ c.id \in Marks
                        /\ c.stage = "done" => c.flag
                        /\ c.alive => page \in {"home", "bookmarks"}
    /\ c.op = "clear" /\ c.alive => page = "bookmarks"
    /\ c.op \in {"close", "delete"} =>
          /\ c.id \in Polls
          /\ c.op = "delete" /\ c.stage = "done" => polls[c.id] = "gone"
          /\ c.alive => page = "my_polls"

\* Only Home has timers of its own.
CallsOK ==
    /\ \A i \in DOMAIN calls : CallOK(calls[i])
    /\ \A i \in DOMAIN timers : timers[i].alive => page = "home"

Clears(cs) == \E i \in DOMAIN cs : cs[i].op = "clear"

-----------------------------------------------------------------------------
(* The invariants: bookmarks.                                              *)

\* While the bookmarks are being read, whatever is on its way is known to
\* disturb what is read.
ReadingOK ==
    /\ loads # <<>> => Toggling \subseteq disturbed
    /\ \A i \in DOMAIN loads :
          loads[i].stage = "served" /\ loads[i].got.ok /\ loads[i].ids = None =>
             loads[i].got.marks \ disturbed = marks \ disturbed

Marking(c, p) == c.op = "mark" /\ c.id = p

\* At most one click on a bookmark that counts is on its way; what is shown is
\* what it asks for, and what the server has is the opposite until it is served.
MarkOK(p) ==
    /\ p \notin Toggling => (p \in marked <=> p \in marks)
    /\ ~Clears(calls)
    /\ \A i \in DOMAIN timers : timers[i].id = p =>
          /\ timers[i].alive
          /\ p \in marked <=> timers[i].flag
          /\ p \in marks <=> ~timers[i].flag
          /\ \A j \in DOMAIN timers : timers[j].id = p => i = j
          /\ \A j \in DOMAIN calls : ~Marking(calls[j], p)
    /\ \A i \in DOMAIN calls : Marking(calls[i], p) =>
          /\ calls[i].alive
          /\ p \in marked <=> calls[i].flag
          /\ calls[i].stage = "done" => p \in marks
          /\ calls[i].stage # "done" => (p \in marks <=> ~calls[i].flag)
          /\ \A j \in DOMAIN calls : Marking(calls[j], p) => i = j

HomeMarks == page = "home" /\ upto # None => \A p \in Marks \ disturbed : MarkOK(p)

\* An answer to Clear All that is still to come.
ClearedBy(c) == c.op = "clear" /\ c.alive /\ c.stage = "done"
Cleared == \E i \in DOMAIN calls : ClearedBy(calls[i])

\* On the page of the bookmarks only its own Clear All changes what the server
\* has without being known to.
LeftoversKnown ==
    /\ \A i \in DOMAIN timers : timers[i].id \in disturbed
    /\ \A i \in DOMAIN calls :
          /\ calls[i].op = "mark" /\ calls[i].flag => calls[i].id \in disturbed
          /\ calls[i].op = "clear" => IF calls[i].alive THEN loads = <<>> ELSE Marks \subseteq disturbed
    /\ Cleared => marks \subseteq disturbed

BookmarksShown ==
    upto # None => /\ Shown = marked
                   /\ \A p \in Marks \ disturbed : (p \in marked <=> p \in marks) \/ Cleared

BookmarksRead ==
    \A i \in DOMAIN loads : loads[i].ids # None =>
        /\ marked = loads[i].ids /\ marked \ disturbed = marks \ disturbed
        /\ loads[i].stage = "served" /\ loads[i].got.ok =>
              {loads[i].got.items[j].id : j \in DOMAIN loads[i].got.items} = loads[i].ids

BookmarksMarks == page = "bookmarks" => LeftoversKnown /\ BookmarksShown /\ BookmarksRead

HomeClears == page = "home" /\ Clears(calls) => Marks \subseteq disturbed

MarksInv == ReadingOK /\ HomeMarks /\ BookmarksMarks /\ HomeClears

-----------------------------------------------------------------------------
(* The invariants: lists.                                                  *)

\* Entries that show, of the polls S, those of a tab down to the point where
\* the next page begins, as they are now; but for those changed since.
GoodPage(s, next, f, S, now, since) ==
    /\ \A i, j \in DOMAIN s : i < j => s[i].id > s[j].id
    /\ \A i \in DOMAIN s : s[i].id \in S /\ (next # None => s[i].id >= next)
    /\ next # None => next \in S
    /\ \A p \in Polls \ since :
          (\E i \in DOMAIN s : s[i].id = p) <=>
             /\ p \in S /\ now[p] \in {"live", "closed"}
             /\ f = "all" \/ now[p] = f
             /\ next # None => p >= next
    /\ \A i \in DOMAIN s : s[i].id \notin since => s[i].live = (now[s[i].id] = "live")

UpTo(S, n)  == {p \in S : p <= n}
Below(S, n) == {p \in S : p < n}

LoadsGood ==
    /\ Len(loads) <= 1
    /\ loads # <<>> => upto = None /\ more = None
    /\ \A i \in DOMAIN loads :
          /\ loads[i].filter = filter
          /\ loads[i].stage = "served" /\ loads[i].got.ok =>
                /\ loads[i].got.upto <= Newest
                /\ GoodPage(loads[i].got.items, loads[i].got.next, filter,
                            UpTo(Of(page), loads[i].got.upto), polls, changed)

MoreGood ==
    more # None =>
        /\ more.filter = filter /\ more.cursor = cursor
        /\ more.stage = "served" /\ more.got.ok =>
              GoodPage(more.got.items, more.got.next, filter, Below(Of(page), cursor), polls, changed)

ListGood ==
    /\ upto = None => list = <<>> /\ cursor = None
    /\ upto # None => /\ upto <= Newest
                      /\ hasMore = (cursor # None)
                      /\ GoodPage(list, cursor, filter, UpTo(Of(page), upto), polls, changed)

ListInv == page \in {"home", "my_polls", "past_votes"} /\ ~crossed => LoadsGood /\ MoreGood /\ ListGood

\* A request to close or delete a poll is about one that the list shows, or has
\* shown.
OwnOK(c, ls, ids, next, n, now) ==
    c.alive /\ c.op \in {"close", "delete"} =>
        /\ c.id \in Mine /\ ls = <<>>
        /\ n # None /\ c.id <= n
        /\ next # None => c.id >= next
        /\ c.id \in ids \/ now[c.id] = "gone"
        /\ c.op = "close" /\ c.stage = "done" => now[c.id] # "live"

OwnCallsOK == \A i \in DOMAIN calls : OwnOK(calls[i], loads, Shown, cursor, upto, polls)

-----------------------------------------------------------------------------
(* Numbers and sequences.                                                  *)

\* The k-th of some numbers.
LEMMA NthIs ==
  ASSUME NEW S \in SUBSET Nat, IsFiniteSet(S)
  PROVE  /\ Cardinality(S) \in Nat
         /\ \A k \in 1..Cardinality(S) : Nth(S, k) \in S
         /\ \A k, j \in 1..Cardinality(S) : k < j => Nth(S, k) < Nth(S, j)
         /\ \A x \in S : \E k \in 1..Cardinality(S) : Nth(S, k) = x
<1>. DEFINE n == Cardinality(S)
            Upto(x) == {m \in S : m <= x}
            r == [x \in S |-> Cardinality(Upto(x))]
<1>0. n \in Nat /\ \A x \in S : x \in Nat
  BY FS_CardinalityType
<1>1. \A x \in S : IsFiniteSet(Upto(x)) /\ Cardinality(Upto(x)) \in Nat /\ Cardinality(Upto(x)) <= n
  BY FS_Subset, FS_CardinalityType
<1>2. \A x \in S : r[x] \in 1..n
  <2>. SUFFICES ASSUME NEW x \in S PROVE r[x] \in 1..n
    OBVIOUS
  <2>1. x \in Upto(x)
    BY <1>0
  <2>2. Cardinality(Upto(x)) # 0
    BY <1>1, <2>1, FS_EmptySet
  <2>. QED  BY <1>0, <1>1, <2>2
<1>3. \A x, y \in S : x < y => r[x] < r[y]
  <2>. SUFFICES ASSUME NEW x \in S, NEW y \in S, x < y PROVE Cardinality(Upto(x)) < Cardinality(Upto(y))
    OBVIOUS
  <2>0. x \in Nat /\ y \in Nat
    BY <1>0
  <2>1. Upto(x) \in SUBSET Upto(y) /\ y \in Upto(y) /\ y \notin Upto(x)
    <3>1. \A m \in S : m <= x => m <= y
      BY <1>0, <2>0
    <3>2. y <= y /\ ~(y <= x)
      BY <2>0
    <3>. QED  BY <3>1, <3>2
  <2>2. Cardinality(Upto(x)) <= Cardinality(Upto(y)) /\ Cardinality(Upto(x)) # Cardinality(Upto(y))
    <3>. HIDE DEF Upto
    <3>. QED  BY <1>1, <2>1, FS_Subset
  <2>. QED  BY <1>1, <2>2
<1>4. \A x, y \in S : r[x] = r[y] => x = y
  <2>. SUFFICES ASSUME NEW x \in S, NEW y \in S, r[x] = r[y] PROVE x = y
    OBVIOUS
  <2>1. ~(x < y) /\ ~(y < x)
    <3>. HIDE DEF r
    <3>. QED  BY <1>2, <1>3
  <2>. QED  BY <1>0, <2>1
<1>5. \A k \in 1..n : \E x \in S : r[x] = k
  <2>1. r \in Injection(S, 1..n)
    <3>1. r \in [S -> 1..n]
      BY <1>2
    <3>. HIDE DEF r, n
    <3>. QED  BY <1>4, <3>1 DEF Injection, IsInjective
  <2>2. IsFiniteSet(1..n) /\ Cardinality(1..n) = n
    BY <1>0, FS_Interval
  <2>3. r \in Surjection(S, 1..n)
    <3>. HIDE DEF r
    <3>. QED  BY <2>1, <2>2, FS_Injection
  <2>. HIDE DEF r, n
  <2>. QED  BY <2>3 DEF Surjection
<1>6. \A k \in 1..n : Nth(S, k) \in S /\ r[Nth(S, k)] = k
  BY <1>5 DEF Nth
<1>. HIDE DEF r, n
<1>7. \A k, j \in 1..n : k < j => Nth(S, k) < Nth(S, j)
  <2>. SUFFICES ASSUME NEW k \in 1..n, NEW j \in 1..n, k < j, ~(Nth(S, k) < Nth(S, j)) PROVE FALSE
    OBVIOUS
  <2>0. /\ Nth(S, k) \in S /\ r[Nth(S, k)] = k
        /\ Nth(S, j) \in S /\ r[Nth(S, j)] = j
    BY <1>6
  <2>1. Nth(S, k) \in Nat /\ Nth(S, j) \in Nat /\ k \in Nat /\ j \in Nat
    <3>1. \A m \in 1..n : m \in Nat
      BY <1>0
    <3>2. \A x \in S : x \in Nat
      BY <1>0
    <3>. QED  BY <2>0, <3>1, <3>2
  <2>2. CASE Nth(S, k) = Nth(S, j)
    BY <2>0, <2>1, <2>2
  <2>3. CASE Nth(S, j) < Nth(S, k)
    <3>1. r[Nth(S, j)] < r[Nth(S, k)]
      BY <1>3, <2>0, <2>3
    <3>. QED  BY <2>0, <2>1, <3>1
  <2>. QED  BY <2>1, <2>2, <2>3
<1>8. \A x \in S : \E k \in 1..n : Nth(S, k) = x
  BY <1>2, <1>4, <1>6
<1>. QED  BY <1>0, <1>6, <1>7, <1>8 DEF n

\* A set of numbers, the largest first.
LEMMA NewestFirstIs ==
  ASSUME NEW S \in SUBSET Nat, IsFiniteSet(S)
  PROVE  /\ NewestFirst(S) \in Seq(S) /\ Len(NewestFirst(S)) = Cardinality(S)
         /\ DOMAIN NewestFirst(S) = 1..Cardinality(S)
         /\ \A i, j \in DOMAIN NewestFirst(S) : i < j => NewestFirst(S)[i] > NewestFirst(S)[j]
         /\ Ids(NewestFirst(S)) = S
<1>. DEFINE n == Cardinality(S)
            s == NewestFirst(S)
<1>0. n \in Nat /\ \A x \in S : x \in Nat
  BY NthIs
<1>1. s = [k \in 1..n |-> Nth(S, n + 1 - k)]
  BY DEF NewestFirst
<1>2. \A k \in 1..n : n + 1 - k \in 1..n
  BY <1>0
<1>3. \A k \in 1..n : s[k] = Nth(S, n + 1 - k) /\ s[k] \in S
  BY <1>1, <1>2, NthIs
<1>4. s \in [1..n -> S]
  BY <1>1, <1>2, NthIs
<1>5. s \in Seq(S) /\ Len(s) = n /\ DOMAIN s = 1..n
  <2>. HIDE DEF s, n
  <2>. QED  BY <1>0, <1>4
<1>. HIDE DEF s
<1>6. \A i, j \in 1..n : i < j => s[i] > s[j]
  <2>. SUFFICES ASSUME NEW i \in 1..n, NEW j \in 1..n, i < j PROVE s[i] > s[j]
    OBVIOUS
  <2>1. n + 1 - j < n + 1 - i
    BY <1>0
  <2>2. Nth(S, n + 1 - j) < Nth(S, n + 1 - i)
    BY <1>2, <2>1, NthIs
  <2>. QED  BY <1>0, <1>3, <2>2
<1>7. \A x \in S : \E i \in 1..n : s[i] = x
  <2>. SUFFICES ASSUME NEW x \in S PROVE \E i \in 1..n : s[i] = x
    OBVIOUS
  <2>1. PICK k \in 1..n : Nth(S, k) = x
    BY NthIs
  <2>2. n + 1 - k \in 1..n /\ n + 1 - (n + 1 - k) = k
    BY <1>0
  <2>. QED  BY <1>3, <2>1, <2>2
<1>8. Ids(s) = S
  BY <1>3, <1>5, <1>7 DEF Ids
<1>. QED  BY <1>5, <1>6, <1>8 DEF s

\* What is sifted out of a sequence, in its order.
LEMMA SiftIs ==
  ASSUME NEW T, NEW s \in Seq(T), NEW at \in SUBSET DOMAIN s
  PROVE  /\ Sift(s, at) \in Seq(T)
         /\ \A k \in DOMAIN Sift(s, at) : \E i \in at : Sift(s, at)[k] = s[i]
         /\ \A i \in at : \E k \in DOMAIN Sift(s, at) : Sift(s, at)[k] = s[i]
         /\ \A k, l \in DOMAIN Sift(s, at) : k < l =>
               \E i, j \in at : i < j /\ Sift(s, at)[k] = s[i] /\ Sift(s, at)[l] = s[j]
<1>. DEFINE n == Cardinality(at)
            r == Sift(s, at)
<1>0. at \in SUBSET Nat /\ IsFiniteSet(at)
  <2>1. IsFiniteSet(1..Len(s)) /\ at \in SUBSET (1..Len(s))
    BY FS_Interval
  <2>. QED  BY <2>1, FS_Subset
<1>1. n \in Nat /\ \A k \in 1..n : Nth(at, k) \in at
  BY <1>0, NthIs
<1>2. r = [k \in 1..n |-> s[Nth(at, k)]]
  BY DEF Sift
<1>3. r \in [1..n -> T] /\ \A k \in 1..n : r[k] = s[Nth(at, k)]
  BY <1>1, <1>2
<1>4. r \in Seq(T) /\ DOMAIN r = 1..n
  <2>. HIDE DEF r, n
  <2>. QED  BY <1>1, <1>3
<1>5. \A k, l \in 1..n : k < l => Nth(at, k) < Nth(at, l)
  BY <1>0, NthIs
<1>6. \A i \in at : \E k \in 1..n : Nth(at, k) = i
  BY <1>0, NthIs
<1>. HIDE DEF r, n
<1>. QED  BY <1>1, <1>3, <1>4, <1>5, <1>6 DEF r

\* The first entries of a sequence.
LEMMA PrefixIs ==
  ASSUME NEW T, NEW s \in Seq(T), NEW m \in Nat, m <= Len(s)
  PROVE  /\ SubSeq(s, 1, m) \in Seq(T) /\ Len(SubSeq(s, 1, m)) = m /\ DOMAIN SubSeq(s, 1, m) = 1..m
         /\ \A i \in 1..m : i \in DOMAIN s /\ SubSeq(s, 1, m)[i] = s[i]
  OBVIOUS

\* A sequence whose entries change.
LEMMA MappedIs ==
  ASSUME NEW T, NEW s \in Seq(T), NEW w, DOMAIN w = DOMAIN s, w = [k \in DOMAIN w |-> w[k]],
         \A k \in DOMAIN s : w[k] \in T
  PROVE  w \in Seq(T) /\ Len(w) = Len(s)
<1>1. DOMAIN s = 1..Len(s) /\ Len(s) \in Nat
  OBVIOUS
<1>2. w \in [1..Len(s) -> T]
  BY <1>1
<1>. QED  BY <1>1, <1>2

\* One entry more at the end.
LEMMA AppendIs ==
  ASSUME NEW T, NEW s \in Seq(T), NEW e \in T, NEW w, w = Append(s, e)
  PROVE  /\ w \in Seq(T) /\ w[Len(s) + 1] = e
         /\ \A k \in DOMAIN s : k \in DOMAIN w /\ w[k] = s[k]
         /\ \A k \in DOMAIN w : (k \in DOMAIN s /\ w[k] = s[k]) \/ (k = Len(s) + 1 /\ k \notin DOMAIN s /\ w[k] = e)
         /\ Len(s) + 1 \in DOMAIN w /\ Len(s) + 1 \notin DOMAIN s
<1>1. DOMAIN s = 1..Len(s) /\ Len(s) \in Nat
  OBVIOUS
<1>2. /\ w \in Seq(T) /\ DOMAIN w = 1..(Len(s) + 1)
      /\ w[Len(s) + 1] = e /\ \A k \in 1..Len(s) : w[k] = s[k]
  OBVIOUS
<1>3. \A k \in 1..(Len(s) + 1) : k \in 1..Len(s) \/ (k = Len(s) + 1 /\ k \notin 1..Len(s))
  BY <1>1
<1>4. Len(s) + 1 \in 1..(Len(s) + 1) /\ Len(s) + 1 \notin 1..Len(s) /\ \A k \in 1..Len(s) : k \in 1..(Len(s) + 1)
  BY <1>1
<1>. QED  BY <1>1, <1>2, <1>3, <1>4

\* Two sequences, one after the other.
LEMMA ConcatIs ==
  ASSUME NEW T, NEW a \in Seq(T), NEW b \in Seq(T)
  PROVE  /\ a \o b \in Seq(T) /\ Len(a \o b) = Len(a) + Len(b)
         /\ \A j \in 1..Len(a) : (a \o b)[j] = a[j]
         /\ \A j \in 1..Len(b) : (a \o b)[Len(a) + j] = b[j]
  OBVIOUS

\* One entry more in front.
LEMMA ConsIs ==
  ASSUME NEW T, NEW x \in T, NEW s \in Seq(T)
  PROVE  /\ <<x>> \o s \in Seq(T) /\ Len(<<x>> \o s) = 1 + Len(s)
         /\ (<<x>> \o s)[1] = x
         /\ \A j \in 1..Len(s) : (<<x>> \o s)[1 + j] = s[j]
<1>1. <<x>> \in Seq(T) /\ Len(<<x>>) = 1 /\ <<x>>[1] = x
  OBVIOUS
<1>2. <<x>> \o s \in Seq(T) /\ Len(<<x>> \o s) = 1 + Len(s)
  BY <1>1, ConcatIs
<1>3. \A j \in 1..Len(s) : (<<x>> \o s)[1 + j] = s[j]
  BY <1>1, ConcatIs
<1>. QED  BY <1>1, <1>2, <1>3, ConcatIs

\* A sequence without one of its entries.
LEMMA RemoveAtIs ==
  ASSUME NEW T, NEW s \in Seq(T), NEW i \in DOMAIN s
  PROVE  /\ RemoveAt(s, i) \in Seq(T) /\ Len(RemoveAt(s, i)) = Len(s) - 1
         /\ \A j \in DOMAIN RemoveAt(s, i) : RemoveAt(s, i)[j] = s[IF j < i THEN j ELSE j + 1]
<1>. DEFINE a == SubSeq(s, 1, i - 1)
            b == SubSeq(s, i + 1, Len(s))
<1>0. DOMAIN s = 1..Len(s) /\ Len(s) \in Nat /\ i \in 1..Len(s)
  OBVIOUS
<1>1. a \in Seq(T) /\ Len(a) = i - 1
  BY <1>0
<1>2. \A j \in 1..(i - 1) : a[j] = s[j]
  BY <1>0
<1>3. b \in Seq(T) /\ Len(b) = Len(s) - i
  BY <1>0
<1>4. \A j \in 1..(Len(s) - i) : b[j] = s[i + j]
  BY <1>0
<1>5. RemoveAt(s, i) = a \o b
  BY DEF RemoveAt
<1>. HIDE DEF a, b
<1>6. a \o b \in Seq(T) /\ Len(a \o b) = Len(s) - 1 /\ DOMAIN (a \o b) = 1..(Len(s) - 1)
  <2>1. a \o b \in Seq(T) /\ Len(a \o b) = Len(a) + Len(b)
    BY <1>1, <1>3, ConcatIs
  <2>2. Len(a) + Len(b) = Len(s) - 1
    BY <1>0, <1>1, <1>3
  <2>3. DOMAIN (a \o b) = 1..Len(a \o b)
    BY <2>1
  <2>. QED  BY <2>1, <2>2, <2>3
<1>7. ASSUME NEW j \in 1..(Len(s) - 1) PROVE (a \o b)[j] = s[IF j < i THEN j ELSE j + 1]
  <2>1. CASE j < i
    <3>1. j \in 1..(i - 1) /\ (a \o b)[j] = a[j]
      BY <1>0, <1>1, <1>3, <2>1
    <3>. QED  BY <1>2, <2>1, <3>1
  <2>2. CASE ~(j < i)
    <3>1. j - i + 1 \in 1..(Len(s) - i) /\ (a \o b)[j] = b[j - i + 1] /\ i + (j - i + 1) = j + 1
      BY <1>0, <1>1, <1>3, <2>2
    <3>. QED  BY <1>4, <2>2, <3>1
  <2>. QED  BY <2>1, <2>2
<1>. QED  BY <1>5, <1>6, <1>7

\* The places of the others, before and after.
LEMMA OthersStay ==
  ASSUME NEW T, NEW s \in Seq(T), NEW i \in DOMAIN s, NEW r, r = RemoveAt(s, i)
  PROVE  /\ \A j \in DOMAIN r : \E k \in DOMAIN s : k # i /\ r[j] = s[k]
         /\ \A k \in DOMAIN s : k # i => \E j \in DOMAIN r : r[j] = s[k]
         /\ \A j, l \in DOMAIN r : j # l =>
               \E k, m \in DOMAIN s : k # m /\ k # i /\ m # i /\ r[j] = s[k] /\ r[l] = s[m]
<1>. DEFINE at(j) == IF j < i THEN j ELSE j + 1
<1>0. r \in Seq(T) /\ Len(r) = Len(s) - 1 /\ \A j \in DOMAIN r : r[j] = s[at(j)]
  BY RemoveAtIs
<1>1. i \in 1..Len(s) /\ DOMAIN s = 1..Len(s) /\ DOMAIN r = 1..Len(r) /\ Len(s) \in Nat
  BY <1>0
<1>2. \A j \in DOMAIN r : at(j) \in DOMAIN s /\ at(j) # i
  BY <1>0, <1>1
<1>3. \A j, l \in DOMAIN r : j # l => at(j) # at(l)
  BY <1>0, <1>1
<1>4. \A k \in DOMAIN s : k # i => \E j \in DOMAIN r : r[j] = s[k]
  <2>. SUFFICES ASSUME NEW k \in DOMAIN s, k # i PROVE \E j \in DOMAIN r : r[j] = s[k]
    OBVIOUS
  <2>1. CASE k < i
    <3>1. k \in DOMAIN r /\ at(k) = k
      BY <1>0, <1>1, <2>1
    <3>. QED  BY <1>0, <3>1
  <2>2. CASE k > i
    <3>1. k - 1 \in DOMAIN r /\ at(k - 1) = k
      BY <1>0, <1>1, <2>2
    <3>. QED  BY <1>0, <3>1
  <2>. QED  BY <1>1, <2>1, <2>2
<1>. HIDE DEF at
<1>. QED  BY <1>0, <1>2, <1>3, <1>4


-----------------------------------------------------------------------------
(* The comments.                                                           *)

\* What the pages and the server may do to them.
LEMMA CommentMoves ==
  ASSUME [Next]_vars
  PROVE  \/ UNCHANGED commentVars
         \/ OpenComments \/ LeaveComments
         \/ TypeComment \/ handleCreateComment
         \/ \E c \in CommentIds : handleDeleteComment(c)
         \/ CommentsStep
<1>1. CASE UNCHANGED vars
  BY <1>1 DEF vars
<1>2. ASSUME NEW i \in DOMAIN loads, LoadServed(i) \/ LoadArrives(i) PROVE UNCHANGED commentVars
  BY <1>2 DEF LoadServed, LoadArrives
<1>3. CASE loadMore \/ MoreServed \/ MoreArrives
  BY <1>3 DEF loadMore, MoreServed, MoreArrives
<1>4. ASSUME NEW f \in Filters, SetFilter(f) PROVE UNCHANGED commentVars
  BY <1>4 DEF SetFilter
<1>5. ASSUME NEW p \in Pages, Navigate(p) PROVE UNCHANGED commentVars \/ OpenComments \/ LeaveComments
  <2>1. CASE p = "comments"
    BY <1>5, <2>1 DEF Navigate
  <2>2. CASE p # "comments" /\ page = "comments"
    BY <1>5, <2>2 DEF Navigate
  <2>3. CASE p # "comments" /\ page # "comments"
    BY <1>5, <2>3 DEF Navigate
  <2>. QED  BY <2>1, <2>2, <2>3
<1>6. CASE DialogStep \/ handleCreate
  BY <1>6 DEF DialogStep, handleCreate
<1>7. ASSUME NEW i \in DOMAIN list, handleClosePoll(list[i]) \/ handleDeletePoll(list[i]) PROVE UNCHANGED commentVars
  BY <1>7 DEF handleClosePoll, handleDeletePoll, OwnPollClick
<1>8. ASSUME NEW p \in Marks, handleBookmarkToggle(p) PROVE UNCHANGED commentVars
  BY <1>8 DEF handleBookmarkToggle
<1>9. CASE TimerFires \/ BookmarksClick
  BY <1>9 DEF TimerFires, BookmarksClick
<1>10. ASSUME NEW i \in DOMAIN calls, CallServed(i) \/ CallAnswers(i) \/ CallFails(i) PROVE UNCHANGED commentVars
  BY <1>10 DEF CallServed, CallAnswers, CallFails
<1>11. CASE OthersChange
  BY <1>11 DEF OthersChange
<1>12. CASE CommentClick \/ CommentAnswers
  BY <1>12 DEF CommentClick, CommentAnswers
<1>. QED  BY <1>1, <1>2, <1>3, <1>4, <1>5, <1>6, <1>7, <1>8, <1>9, <1>10, <1>11, <1>12 DEF Next

\* What the requests are.
LEMMA WritesTyped ==
  ASSUME CommentsTypeOK
  PROVE  /\ writes \in Seq(Write) /\ DOMAIN writes = 1..Len(writes) /\ Len(writes) \in Nat
         /\ \A k \in DOMAIN writes :
               /\ writes[k] \in Write /\ writes[k].op \in {"create", "delete"} /\ writes[k].id \in CommentIds
               /\ writes[k].alive \in BOOLEAN /\ writes[k].stage \in {"sent", "done", "failed"}
<1>1. writes \in Seq(Write) /\ DOMAIN writes = 1..Len(writes) /\ Len(writes) \in Nat
  BY DEF CommentsTypeOK
<1>2. \A k \in DOMAIN writes : writes[k] \in Write
  BY <1>1
<1>3. \A w \in Write : /\ w.op \in {"create", "delete"} /\ w.id \in CommentIds
                        /\ w.alive \in BOOLEAN /\ w.stage \in {"sent", "done", "failed"}
  BY DEF Write
<1>. QED  BY <1>1, <1>2, <1>3

\* A request at another stage.
LEMMA Staged ==
  ASSUME CommentsTypeOK, NEW i \in DOMAIN writes, NEW st \in {"sent", "done", "failed"},
         NEW w, DOMAIN w = DOMAIN writes, w = [k \in DOMAIN w |-> w[k]],
         w[i] = [writes[i] EXCEPT !.stage = st], \A k \in DOMAIN writes : k # i => w[k] = writes[k]
  PROVE  /\ w \in Seq(Write)
         /\ \A k \in DOMAIN w : /\ w[k].op = writes[k].op /\ w[k].id = writes[k].id /\ w[k].alive = writes[k].alive
                                /\ w[k].stage = IF k = i THEN st ELSE writes[k].stage
<1>1. DOMAIN writes = 1..Len(writes) /\ Len(writes) \in Nat /\ \A k \in DOMAIN writes : writes[k] \in Write
  BY WritesTyped
<1>2. /\ w[i] \in Write /\ w[i].stage = st
      /\ w[i].op = writes[i].op /\ w[i].id = writes[i].id /\ w[i].alive = writes[i].alive
  BY <1>1 DEF Write
<1>3. \A k \in DOMAIN w : w[k] \in Write
  BY <1>1, <1>2
<1>4. w \in [1..Len(writes) -> Write]
  BY <1>1, <1>3
<1>5. w \in Seq(Write)
  BY <1>1, <1>4
<1>. QED  BY <1>2, <1>5

\* What the page shows without one of its comments.
LEMMA WithoutIs ==
  ASSUME CommentsTypeOK, NEW c \in CommentIds, NEW s, s = Without(c)
  PROVE  /\ s \in Seq(CommentIds) /\ Ids(s) = Ids(shown) \ {c}
         /\ IsInjective(shown) => IsInjective(s)
<1>. DEFINE at == {i \in DOMAIN shown : shown[i] # c}
<1>0. shown \in Seq(CommentIds) /\ at \in SUBSET DOMAIN shown /\ s = Sift(shown, at)
  BY DEF CommentsTypeOK, Without
<1>1. /\ s \in Seq(CommentIds)
      /\ \A k \in DOMAIN s : \E i \in at : s[k] = shown[i]
      /\ \A i \in at : \E k \in DOMAIN s : s[k] = shown[i]
      /\ \A k, l \in DOMAIN s : k < l => \E i, j \in at : i < j /\ s[k] = shown[i] /\ s[l] = shown[j]
  <2>. HIDE DEF at
  <2>. QED  BY <1>0, SiftIs
<1>2. Ids(s) = Ids(shown) \ {c}
  BY <1>1 DEF Ids
<1>3. ASSUME IsInjective(shown) PROVE IsInjective(s)
  <2>1. DOMAIN s = 1..Len(s) /\ Len(s) \in Nat /\ DOMAIN shown = 1..Len(shown) /\ Len(shown) \in Nat
    BY <1>0, <1>1
  <2>2. SUFFICES ASSUME NEW k \in DOMAIN s, NEW l \in DOMAIN s, k < l PROVE s[k] # s[l]
    <3>1. \A k, l \in DOMAIN s : k < l \/ l < k \/ k = l
      BY <2>1
    <3>. QED  BY <2>2, <3>1 DEF IsInjective
  <2>3. PICK i \in at, j \in at : i < j /\ s[k] = shown[i] /\ s[l] = shown[j]
    BY <1>1, <2>2
  <2>4. i # j
    BY <2>1, <2>3
  <2>. QED  BY <1>3, <2>3, <2>4 DEF IsInjective
<1>. QED  BY <1>1, <1>2, <1>3

\* The page is left, or another one is opened.
LEMMA BlankedKeeps ==
  ASSUME CommentsTypeOK, CommentsInv, NEW f, f = None \/ f = [stage |-> "sent", got |-> {}], Blanked(f)
  PROVE  CommentsTypeOK' /\ CommentsInv'
<1>0. /\ shown' = <<>> /\ draft' = FALSE /\ posting' = FALSE /\ ready' = FALSE /\ fetch' = f
      /\ unsure' = IdsWritten /\ comments' = comments
      /\ writes' = [i \in DOMAIN writes |-> [writes[i] EXCEPT !.alive = FALSE]]
  BY DEF Blanked
<1>1. /\ writes \in Seq(Write) /\ DOMAIN writes = 1..Len(writes) /\ Len(writes) \in Nat
      /\ \A i \in DOMAIN writes : writes[i] \in Write
  BY DEF CommentsTypeOK
<1>2. /\ DOMAIN writes' = DOMAIN writes
      /\ \A i \in DOMAIN writes : writes'[i] = [writes[i] EXCEPT !.alive = FALSE]
  BY <1>0
<1>3. \A i \in DOMAIN writes :
          /\ writes'[i] \in Write /\ writes'[i].alive = FALSE /\ writes'[i].op = writes[i].op
          /\ writes'[i].id = writes[i].id /\ writes'[i].stage = writes[i].stage
  BY <1>1, <1>2 DEF Write
<1>4. writes' \in Seq(Write)
  <2>1. writes' \in [1..Len(writes) -> Write]
    <3>1. writes' = [i \in 1..Len(writes) |-> writes'[i]]
      BY <1>0, <1>1
    <3>. QED  BY <1>1, <1>3, <3>1
  <2>. QED  BY <1>1, <2>1
<1>5. IdsWritten \in SUBSET CommentIds /\ \A i \in DOMAIN writes : writes[i].id \in IdsWritten
  BY <1>1 DEF IdsWritten, Write
<1>6. fetch' \in Fetches \cup {None}
  BY <1>0 DEF Fetches
<1>7. CommentsTypeOK'
  <2>1. shown' \in Seq(CommentIds)
    BY <1>0
  <2>2. comments' \in [CommentIds -> {"none", "kept", "deleted"}]
    BY <1>0 DEF CommentsTypeOK
  <2>3. draft' \in BOOLEAN /\ posting' \in BOOLEAN /\ ready' \in BOOLEAN
    BY <1>0
  <2>4. unsure' \in SUBSET CommentIds
    BY <1>0, <1>5
  <2>. QED  BY <1>4, <1>6, <2>1, <2>2, <2>3, <2>4 DEF CommentsTypeOK
<1>8. WritesOK'
  BY <1>0, <1>2, <1>3, <1>5 DEF CommentsInv, WritesOK, WriteOK
<1>9. CreatedOnce'
  BY <1>2, <1>3 DEF CommentsInv, CreatedOnce
<1>10. FetchOK'
  <2>1. fetch' # None => fetch'.stage = "sent"
    BY <1>0
  <2>. QED  BY <1>0, <2>1 DEF FetchOK
<1>11. ShownOK'
  BY <1>0 DEF ShownOK, Ids, IsInjective
<1>. QED  BY <1>7, <1>8, <1>9, <1>10, <1>11 DEF CommentsInv

\* The load of the page.
LEMMA FetchKeeps ==
  ASSUME CommentsTypeOK, CommentsInv, FetchServed \/ FetchAnswers
  PROVE  CommentsTypeOK' /\ CommentsInv'
<1>1. CASE FetchServed
  <2>. USE DEF FetchServed
  <2>0. fetch' \in Fetches /\ Kept \in SUBSET CommentIds
    BY <1>1 DEF Fetches, Kept
  <2>1. CommentsTypeOK'
    BY <1>1, <2>0 DEF CommentsTypeOK
  <2>2. fetch'.stage = "done" => fetch'.got = Kept
    BY <1>1
  <2>3. FetchOK'
    BY <1>1, <2>2 DEF CommentsInv, FetchOK, Kept
  <2>4. WritesOK' /\ CreatedOnce' /\ ShownOK'
    BY <1>1 DEF CommentsInv, WritesOK, WriteOK, CreatedOnce, ShownOK, Kept
  <2>. QED  BY <2>1, <2>3, <2>4 DEF CommentsInv
<1>2. CASE FetchAnswers /\ fetch.stage = "failed"
  <2>1. UNCHANGED <<ready, shown, comments, draft, posting, writes, unsure>> /\ fetch' = None
    BY <1>2 DEF FetchAnswers
  <2>2. CommentsTypeOK'
    BY <2>1 DEF CommentsTypeOK
  <2>. QED  BY <2>1, <2>2 DEF CommentsInv, WritesOK, WriteOK, CreatedOnce, ShownOK, FetchOK, Kept
<1>3. CASE FetchAnswers /\ fetch.stage # "failed"
  <2>. DEFINE got == fetch.got
  <2>1. /\ UNCHANGED <<comments, draft, posting, writes, unsure>> /\ fetch' = None
        /\ ready' = TRUE /\ shown' = NewestFirst(got)
    BY <1>3 DEF FetchAnswers
  <2>2. fetch \in Fetches /\ fetch.stage = "done" /\ got \in SUBSET CommentIds /\ ~ready
    BY <1>3 DEF FetchAnswers, CommentsTypeOK, CommentsInv, FetchOK, Fetches
  <2>3. got \in SUBSET Nat /\ IsFiniteSet(got)
    BY <2>2, CommentsAssumption, FS_Subset
  <2>. HIDE DEF got
  <2>4. /\ shown' \in Seq(got) /\ Len(shown') = Cardinality(got) /\ DOMAIN shown' = 1..Cardinality(got)
        /\ \A i, j \in DOMAIN shown' : i < j => shown'[i] > shown'[j]
        /\ Ids(shown') = got
    BY <2>1, <2>3, NewestFirstIs
  <2>5. shown' \in Seq(CommentIds)
    BY <2>2, <2>4
  <2>6. CommentsTypeOK'
    BY <2>1, <2>5 DEF CommentsTypeOK
  <2>7. \A i \in DOMAIN writes : ~writes[i].alive
    BY <2>2 DEF CommentsInv, WritesOK, WriteOK
  <2>8. WritesOK' /\ CreatedOnce' /\ FetchOK'
    BY <2>1, <2>7 DEF CommentsInv, WritesOK, WriteOK, CreatedOnce, FetchOK
  <2>9. IsInjective(shown')
    <3>0. Cardinality(got) \in Nat
      BY <2>3, FS_CardinalityType
    <3>1. Cardinality(got) \in Nat /\ \A i \in DOMAIN shown' : shown'[i] \in Nat
      <4>1. \A c \in got : c \in Nat
        BY <2>3
      <4>2. \A i \in DOMAIN shown' : shown'[i] \in got
        BY <2>4
      <4>. QED  BY <3>0, <4>1, <4>2
    <3>2. \A i, j \in DOMAIN shown' : i < j \/ j < i \/ i = j
      BY <2>4, <3>1
    <3>3. \A i, j \in DOMAIN shown' : i < j => shown'[i] # shown'[j]
      BY <2>4, <3>1
    <3>. QED  BY <3>2, <3>3 DEF IsInjective
  <2>10. (\A c \in got : comments[c] # "none") /\ got \ unsure = Kept \ unsure
    BY <1>3, <2>2 DEF CommentsInv, FetchOK, FetchAnswers, got
  <2>11. ShownOK'
    BY <2>1, <2>4, <2>9, <2>10 DEF ShownOK, Kept
  <2>. QED  BY <2>6, <2>8, <2>11 DEF CommentsInv
<1>. QED  BY <1>1, <1>2, <1>3


\* A comment is written, or is to be deleted.
LEMMA SendingKeeps ==
  ASSUME CommentsTypeOK, CommentsInv, NEW c \in CommentIds, NEW op \in {"create", "delete"}, Sent(op, c),
         ready, op = "create" => comments[c] = "none" /\ c \notin IdsWritten,
         op = "delete" => c \in Ids(shown),
         UNCHANGED <<comments, shown, draft, ready, fetch, unsure>>, posting' \in BOOLEAN
  PROVE  CommentsTypeOK' /\ CommentsInv'
<1>. DEFINE new == [op |-> op, id |-> c, alive |-> TRUE, stage |-> "sent"]
            n == Len(writes)
<1>1. /\ writes \in Seq(Write) /\ DOMAIN writes = 1..n /\ n \in Nat
      /\ \A i \in DOMAIN writes : writes[i] \in Write
  BY DEF CommentsTypeOK
<1>2. new \in Write /\ writes' = Append(writes, new)
  BY DEF Sent, Write
<1>3. /\ new.op = op /\ new.id = c /\ new.alive = TRUE /\ new.stage = "sent"
  OBVIOUS
<1>. HIDE DEF new
<1>4. /\ writes' \in Seq(Write) /\ DOMAIN writes' = 1..(n + 1)
      /\ writes'[n + 1] = new /\ \A i \in 1..n : writes'[i] = writes[i]
  BY <1>1, <1>2
<1>5. \A i \in DOMAIN writes' : i \in DOMAIN writes \/ i = n + 1
  BY <1>1, <1>4
<1>6. DOMAIN writes \subseteq DOMAIN writes' /\ n + 1 \in DOMAIN writes' /\ n + 1 \notin DOMAIN writes
  BY <1>1, <1>4
<1>7. /\ \A i \in DOMAIN writes' : (i \in DOMAIN writes /\ writes'[i] = writes[i]) \/ (i = n + 1 /\ writes'[i] = new)
      /\ \A i \in DOMAIN writes : i \in DOMAIN writes' /\ writes'[i] = writes[i]
  <2>1. \A i \in DOMAIN writes : i \in DOMAIN writes' /\ writes'[i] = writes[i]
    BY <1>1, <1>4, <1>6
  <2>. QED  BY <1>4, <1>5, <2>1
<1>. HIDE DEF n
<1>8. CommentsTypeOK'
  BY <1>4 DEF CommentsTypeOK
<1>9. op = "create" => c \notin Ids(shown) /\ \A i \in DOMAIN writes : writes[i].id # c
  BY DEF CommentsInv, ShownOK, IdsWritten
<1>10. op = "delete" => comments[c] # "none"
  BY DEF CommentsInv, ShownOK
<1>11. WritesOK'
  BY <1>3, <1>7, <1>9, <1>10 DEF CommentsInv, WritesOK, WriteOK
<1>12. CreatedOnce'
  <2>. SUFFICES ASSUME NEW i \in DOMAIN writes', NEW j \in DOMAIN writes', i # j, writes'[i].op = "create",
                       writes'[i].alive \/ writes'[j].op = "create"
                PROVE  writes'[i].id # writes'[j].id
    BY DEF CreatedOnce
  <2>1. CASE i \in DOMAIN writes /\ j \in DOMAIN writes
    BY <1>7, <2>1 DEF CommentsInv, CreatedOnce
  <2>2. CASE i \in DOMAIN writes /\ writes'[j] = new
    <3>1. writes'[i] = writes[i]
      BY <1>7, <2>2
    <3>2. CASE op = "create"
      BY <1>3, <1>9, <2>2, <3>1, <3>2
    <3>3. CASE op = "delete"
      <4>1. writes[i].alive /\ writes[i].id \notin Ids(shown)
        BY <1>3, <2>2, <3>1, <3>3 DEF CommentsInv, WritesOK, WriteOK
      <4>. QED  BY <1>3, <2>2, <3>1, <3>3, <4>1
    <3>. QED  BY <3>2, <3>3
  <2>3. CASE j \in DOMAIN writes /\ writes'[i] = new
    BY <1>3, <1>7, <1>9, <2>3
  <2>. QED  BY <1>7, <2>1, <2>2, <2>3
<1>13. FetchOK'
  BY DEF CommentsInv, FetchOK, Kept
<1>14. ShownOK'
  BY <1>7 DEF CommentsInv, ShownOK, Kept, Creates, Deletes
<1>. QED  BY <1>8, <1>11, <1>12, <1>13, <1>14 DEF CommentsInv

\* A request is served, or fails to be.
LEMMA WriteServedKeeps ==
  ASSUME CommentsTypeOK, CommentsInv, NEW i \in DOMAIN writes, WriteServed(i)
  PROVE  CommentsTypeOK' /\ CommentsInv'
<1>. DEFINE c == writes[i].id
<1>0. /\ writes[i].stage = "sent" /\ UNCHANGED <<shown, draft, posting, ready, fetch, unsure>>
      /\ writes[i] \in Write /\ c \in CommentIds /\ WriteOK(writes[i])
  BY WritesTyped DEF WriteServed, CommentsInv, WritesOK
<1>1. CASE writes' = [writes EXCEPT ![i].stage = "failed"] /\ comments' = comments
  <2>1. /\ writes' \in Seq(Write) /\ DOMAIN writes' = DOMAIN writes
        /\ \A k \in DOMAIN writes' :
              /\ writes'[k].op = writes[k].op /\ writes'[k].id = writes[k].id /\ writes'[k].alive = writes[k].alive
              /\ writes'[k].stage = IF k = i THEN "failed" ELSE writes[k].stage
    <3>1. /\ DOMAIN writes' = DOMAIN writes /\ writes' = [k \in DOMAIN writes' |-> writes'[k]]
          /\ writes'[i] = [writes[i] EXCEPT !.stage = "failed"]
          /\ \A k \in DOMAIN writes : k # i => writes'[k] = writes[k]
      BY <1>1
    <3>2. writes' \in Seq(Write)
      BY <3>1, Staged
    <3>3. \A k \in DOMAIN writes' :
              /\ writes'[k].op = writes[k].op /\ writes'[k].id = writes[k].id /\ writes'[k].alive = writes[k].alive
              /\ writes'[k].stage = IF k = i THEN "failed" ELSE writes[k].stage
      BY <3>1, Staged
    <3>. QED  BY <3>1, <3>2, <3>3
  <2>2. CommentsTypeOK'
    BY <1>0, <1>1, <2>1 DEF CommentsTypeOK
  <2>3. WritesOK'
    BY <1>0, <1>1, <2>1 DEF CommentsInv, WritesOK, WriteOK
  <2>4. CreatedOnce'
    BY <2>1 DEF CommentsInv, CreatedOnce
  <2>5. FetchOK' /\ ShownOK'
    BY <1>0, <1>1, <2>1 DEF CommentsInv, FetchOK, ShownOK, Kept, Creates, Deletes
  <2>. QED  BY <2>2, <2>3, <2>4, <2>5 DEF CommentsInv
<1>2. CASE /\ writes' = [writes EXCEPT ![i].stage = "done"]
           /\ comments' = [comments EXCEPT ![c] = IF writes[i].op = "create" THEN "kept" ELSE "deleted"]
  <2>. DEFINE now == IF writes[i].op = "create" THEN "kept" ELSE "deleted"
  <2>1. /\ writes' \in Seq(Write) /\ DOMAIN writes' = DOMAIN writes
        /\ \A k \in DOMAIN writes' :
              /\ writes'[k].op = writes[k].op /\ writes'[k].id = writes[k].id /\ writes'[k].alive = writes[k].alive
              /\ writes'[k].stage = IF k = i THEN "done" ELSE writes[k].stage
    <3>1. /\ DOMAIN writes' = DOMAIN writes /\ writes' = [k \in DOMAIN writes' |-> writes'[k]]
          /\ writes'[i] = [writes[i] EXCEPT !.stage = "done"]
          /\ \A k \in DOMAIN writes : k # i => writes'[k] = writes[k]
      BY <1>2
    <3>2. writes' \in Seq(Write)
      BY <3>1, Staged
    <3>3. \A k \in DOMAIN writes' :
              /\ writes'[k].op = writes[k].op /\ writes'[k].id = writes[k].id /\ writes'[k].alive = writes[k].alive
              /\ writes'[k].stage = IF k = i THEN "done" ELSE writes[k].stage
      BY <3>1, Staged
    <3>. QED  BY <3>1, <3>2, <3>3
  <2>2. /\ comments' \in [CommentIds -> {"none", "kept", "deleted"}]
        /\ comments'[c] = now /\ \A d \in CommentIds : d # c => comments'[d] = comments[d]
    BY <1>0, <1>2 DEF CommentsTypeOK
  <2>3. CommentsTypeOK'
    BY <1>0, <2>1, <2>2 DEF CommentsTypeOK
  <2>4. \A k \in DOMAIN writes : writes[k] \in Write /\ writes[k].id \in CommentIds /\ WriteOK(writes[k])
    BY WritesTyped DEF CommentsInv, WritesOK
  <2>5. CreatedOnce'
    BY <2>1 DEF CommentsInv, CreatedOnce
  <2>6. writes[i].op = "create" => comments[c] = "none" /\ now = "kept"
    BY <1>0, <2>2 DEF WriteOK, CommentsTypeOK
  <2>7. writes[i].op # "create" => writes[i].op = "delete" /\ comments[c] # "none" /\ now = "deleted"
    BY <1>0 DEF WriteOK, Write
  <2>. HIDE DEF c, now
  <2>8. \A k \in DOMAIN writes : k # i /\ writes[k].id = c =>
            /\ writes[i].op = "create" => writes[k].op # "create" /\ writes[k].op # "delete"
            /\ writes[i].op = "delete" => ~(writes[k].op = "create" /\ writes[k].alive)
    <3>. SUFFICES ASSUME NEW k \in DOMAIN writes, k # i, writes[k].id = c
                  PROVE  /\ writes[i].op = "create" => writes[k].op # "create" /\ writes[k].op # "delete"
                         /\ writes[i].op = "delete" => ~(writes[k].op = "create" /\ writes[k].alive)
      OBVIOUS
    <3>1. writes[i].op = "create" => writes[k].op # "create"
      BY DEF CommentsInv, CreatedOnce, c
    <3>2. writes[i].op = "create" => writes[k].op # "delete"
      BY <2>4, <2>6 DEF WriteOK
    <3>3. writes[i].op = "delete" => ~(writes[k].op = "create" /\ writes[k].alive)
      BY DEF CommentsInv, CreatedOnce, c
    <3>. QED  BY <3>1, <3>2, <3>3
  <2>9. WritesOK'
    <3>. SUFFICES ASSUME NEW k \in DOMAIN writes PROVE WriteOK(writes[k])'
      BY <2>1 DEF WritesOK
    <3>1. writes'[k].op \in {"create", "delete"}
      BY <2>1, <2>4 DEF Write
    <3>2. CASE k = i
      BY <1>0, <2>1, <2>2, <2>6, <2>7, <3>2 DEF WriteOK, c
    <3>3. CASE writes[k].id # c
      BY <1>0, <2>1, <2>2, <2>4, <3>3 DEF WriteOK, c
    <3>4. CASE k # i /\ writes[k].id = c
      BY <1>0, <2>1, <2>2, <2>4, <2>6, <2>7, <2>8, <3>1, <3>4 DEF WriteOK
    <3>. QED  BY <3>2, <3>3, <3>4
  <2>10. \A d \in CommentIds : d # c => (d \in Kept <=> d \in Kept')
    BY <2>2 DEF Kept
  <2>11. FetchOK'
    <3>. SUFFICES ASSUME fetch # None, fetch.stage = "done"
                  PROVE  (\A d \in fetch.got : comments'[d] # "none") /\ fetch.got \ unsure = Kept' \ unsure
      BY <1>0 DEF CommentsInv, FetchOK
    <3>1. c \in unsure
      BY <1>0 DEF CommentsInv, FetchOK, WriteOK, c
    <3>2. fetch.got \in SUBSET CommentIds /\ Kept \in SUBSET CommentIds /\ Kept' \in SUBSET CommentIds
      BY DEF CommentsTypeOK, Fetches, Kept
    <3>3. (\A d \in fetch.got : comments[d] # "none") /\ fetch.got \ unsure = Kept \ unsure
      BY DEF CommentsInv, FetchOK
    <3>4. now # "none"
      BY DEF now
    <3>. QED  BY <2>2, <2>10, <3>1, <3>2, <3>3, <3>4
  <2>12. ShownOK'
    <3>1. IsInjective(shown') /\ Ids(shown)' = Ids(shown) /\ Ids(shown) \in SUBSET CommentIds
      BY <1>0 DEF CommentsInv, ShownOK, Ids, CommentsTypeOK
    <3>2. \A d \in Ids(shown) : comments'[d] # "none"
      <4>1. now # "none"
        BY DEF now
      <4>. QED  BY <2>2, <3>1, <4>1 DEF CommentsInv, ShownOK
    <3>3. ASSUME ready, NEW d \in CommentIds \ (Theirs \cup unsure)
          PROVE  /\ d \in Ids(shown) => d \in Kept' \/ \E k \in DOMAIN writes' : Deletes(writes'[k], d) /\ writes'[k].stage = "done"
                 /\ d \in Kept' => d \in Ids(shown) \/ \E k \in DOMAIN writes' : Creates(writes'[k], d)
      <4>1. /\ d \in Ids(shown) => d \in Kept \/ \E k \in DOMAIN writes : Deletes(writes[k], d) /\ writes[k].stage = "done"
            /\ d \in Kept => d \in Ids(shown) \/ \E k \in DOMAIN writes : Creates(writes[k], d)
        BY <3>3 DEF CommentsInv, ShownOK
      <4>2. /\ \A k \in DOMAIN writes : Deletes(writes[k], d) /\ writes[k].stage = "done" =>
                                        Deletes(writes'[k], d) /\ writes'[k].stage = "done"
            /\ \A k \in DOMAIN writes : Creates(writes[k], d) => Creates(writes'[k], d)
        BY <1>0, <2>1 DEF Creates, Deletes
      <4>3. CASE d # c
        BY <2>1, <2>10, <4>1, <4>2, <4>3
      <4>4. CASE d = c /\ writes[i].op = "create"
        <5>1. d \in Kept' /\ Creates(writes'[i], d)
          BY <2>1, <2>2, <2>6, <4>4 DEF Kept, Creates, c
        <5>. QED  BY <2>1, <5>1
      <4>5. CASE d = c /\ writes[i].op # "create"
        <5>1. d \notin Kept' /\ Deletes(writes'[i], d) /\ writes'[i].stage = "done"
          BY <2>1, <2>2, <2>7, <4>5 DEF Kept, Deletes, c
        <5>. QED  BY <2>1, <5>1
      <4>. QED  BY <4>3, <4>4, <4>5
    <3>. QED  BY <1>0, <3>1, <3>2, <3>3 DEF ShownOK
  <2>. QED  BY <2>3, <2>5, <2>9, <2>11, <2>12 DEF CommentsInv
<1>. QED  BY <1>1, <1>2 DEF WriteServed


\* A request has been answered, or an error shown.
LEMMA WriteEndsKeeps ==
  ASSUME CommentsTypeOK, CommentsInv, NEW i \in DOMAIN writes, WriteAnswers(i) \/ WriteFails(i)
  PROVE  CommentsTypeOK' /\ CommentsInv'
<1>. DEFINE w == writes[i]
            c == writes[i].id
<1>0. /\ w \in Write /\ c \in CommentIds /\ w.op \in {"create", "delete"} /\ WriteOK(w)
      /\ shown \in Seq(CommentIds) /\ Ids(shown) \in SUBSET CommentIds
      /\ w.stage \in {"sent", "done", "failed"} /\ w.alive \in BOOLEAN
  <2>1. shown \in Seq(CommentIds) /\ \A k \in DOMAIN shown : shown[k] \in CommentIds
    BY DEF CommentsTypeOK
  <2>. QED  BY <2>1, WritesTyped DEF CommentsInv, WritesOK, Ids
<1>1. /\ UNCHANGED <<comments, ready, fetch>> /\ writes' = RemoveAt(writes, i) /\ w.stage # "sent"
  BY DEF WriteAnswers, WriteFails
<1>2. /\ writes' \in Seq(Write)
      /\ \A k \in DOMAIN writes' : \E m \in DOMAIN writes : m # i /\ writes'[k] = writes[m]
      /\ \A m \in DOMAIN writes : m # i => \E k \in DOMAIN writes' : writes'[k] = writes[m]
      /\ \A k, l \in DOMAIN writes' : k # l =>
            \E m, n \in DOMAIN writes : m # n /\ m # i /\ n # i /\ writes'[k] = writes[m] /\ writes'[l] = writes[n]
  <2>1. writes \in Seq(Write)
    BY WritesTyped
  <2>2. RemoveAt(writes, i) \in Seq(Write)
    BY <2>1, RemoveAtIs
  <2>. QED  BY <1>1, <2>1, <2>2, OthersStay
<1>3. CreatedOnce'
  BY <1>2 DEF CommentsInv, CreatedOnce
\* What is left of the requests, when no more is shown than their answers say.
<1>4. ASSUME unsure \subseteq unsure', Ids(shown)' \subseteq Ids(shown) \cup (IF w.op = "create" /\ w.alive THEN {c} ELSE {})
      PROVE  WritesOK'
  <2>. SUFFICES ASSUME NEW k \in DOMAIN writes' PROVE WriteOK(writes[k])'
    BY DEF WritesOK
  <2>1. PICK m \in DOMAIN writes : m # i /\ writes'[k] = writes[m]
    BY <1>2
  <2>2. WriteOK(writes[m])
    BY DEF CommentsInv, WritesOK
  <2>3. writes[m].op = "create" /\ writes[m].alive => writes[m].id \notin Ids(shown)'
    <3>. SUFFICES ASSUME writes[m].op = "create", writes[m].alive PROVE writes[m].id \notin Ids(shown)'
      OBVIOUS
    <3>1. w.op = "create" => writes[m].id # c
      BY <2>1 DEF CommentsInv, CreatedOnce
    <3>2. writes[m].id \notin Ids(shown)
      BY <2>2 DEF WriteOK
    <3>. QED  BY <1>4, <3>1, <3>2
  <2>. QED  BY <1>1, <1>4, <2>1, <2>2, <2>3 DEF WriteOK
<1>5. ASSUME unsure \subseteq unsure' PROVE FetchOK' \/ shown' # shown
  BY <1>1, <1>5 DEF CommentsInv, FetchOK, Kept
\* What is shown, when the comment of the answer is as it should be.
<1>6. ASSUME unsure \subseteq unsure', IsInjective(shown'), Ids(shown)' \cup {c} = Ids(shown) \cup {c},
             c \in Ids(shown)' => comments[c] # "none",
             ready => c \in Theirs \cup unsure' \/ (c \in Ids(shown)' <=> c \in Kept) \/ (c \in Kept /\ w.op = "delete" /\ shown' = shown)
                        \/ (w.stage = "failed" /\ shown' = shown)
      PROVE  ShownOK'
  <2>1. \A d \in Ids(shown)' : comments'[d] # "none"
    BY <1>1, <1>6 DEF CommentsInv, ShownOK
  <2>2. Kept' = Kept
    BY <1>1 DEF Kept
  <2>3. ASSUME ready, NEW d \in CommentIds \ (Theirs \cup unsure')
        PROVE  /\ d \in Ids(shown)' => d \in Kept \/ \E k \in DOMAIN writes' : Deletes(writes'[k], d) /\ writes'[k].stage = "done"
               /\ d \in Kept => d \in Ids(shown)' \/ \E k \in DOMAIN writes' : Creates(writes'[k], d)
    <3>1. /\ d \in Ids(shown) => d \in Kept \/ \E k \in DOMAIN writes : Deletes(writes[k], d) /\ writes[k].stage = "done"
          /\ d \in Kept => d \in Ids(shown) \/ \E k \in DOMAIN writes : Creates(writes[k], d)
      BY <1>6, <2>3 DEF CommentsInv, ShownOK
    <3>2. CASE d # c
      <4>1. d \in Ids(shown)' <=> d \in Ids(shown)
        BY <1>6, <3>2
      <4>2. \A k \in DOMAIN writes : Deletes(writes[k], d) \/ Creates(writes[k], d) => k # i
        BY <3>2 DEF Creates, Deletes
      <4>. QED  BY <1>2, <3>1, <4>1, <4>2
    <3>3. CASE d = c /\ (d \in Ids(shown)' <=> d \in Kept)
      BY <3>3
    <3>4. CASE d = c /\ d \in Kept /\ w.op = "delete" /\ shown' = shown
      <4>1. \A k \in DOMAIN writes : Creates(writes[k], d) => k # i
        BY <3>4 DEF Creates
      <4>2. Ids(shown)' = Ids(shown)
        BY <3>4 DEF Ids
      <4>. QED  BY <1>2, <3>1, <3>4, <4>1, <4>2
    <3>5. CASE d = c /\ w.stage = "failed" /\ shown' = shown
      <4>1. \A k \in DOMAIN writes : Deletes(writes[k], d) /\ writes[k].stage = "done" => k # i
        BY <3>5
      <4>2. d \in Kept => w.op # "create"
        BY <1>0, <3>5 DEF WriteOK, Kept
      <4>3. d \in Kept => \A k \in DOMAIN writes : Creates(writes[k], d) => k # i
        BY <4>2 DEF Creates
      <4>4. Ids(shown)' = Ids(shown)
        BY <3>5 DEF Ids
      <4>. QED  BY <1>2, <3>1, <4>1, <4>3, <4>4
    <3>. QED  BY <1>6, <2>3, <3>2, <3>3, <3>4, <3>5
  <2>. QED  BY <1>1, <1>6, <2>1, <2>2, <2>3 DEF ShownOK
<1>7. CASE WriteFails(i)
  <2>1. /\ UNCHANGED <<shown, draft>> /\ unsure' = unsure \cup (IF w.stage = "done" THEN {c} ELSE {})
        /\ posting' = (posting /\ ~(w.alive /\ w.op = "create"))
    BY <1>7 DEF WriteFails
  <2>2. unsure \subseteq unsure' /\ unsure' \in SUBSET CommentIds /\ Ids(shown)' = Ids(shown)
    BY <1>0, <2>1 DEF CommentsTypeOK, Ids
  <2>3. CommentsTypeOK'
    <3>1. posting' \in BOOLEAN
      BY <2>1, Zenon
    <3>. QED  BY <1>1, <1>2, <2>1, <2>2, <3>1 DEF CommentsTypeOK
  <2>4. WritesOK'
    BY <1>4, <2>2
  <2>5. FetchOK'
    BY <1>5, <2>1, <2>2
  <2>6. c \in unsure' \/ w.stage = "failed"
    BY <1>0, <1>1, <2>1
  <2>7. ShownOK'
    BY <1>6, <2>1, <2>2, <2>6 DEF CommentsInv, ShownOK
  <2>. QED  BY <1>3, <2>3, <2>4, <2>5, <2>7 DEF CommentsInv
<1>8. CASE WriteAnswers(i) /\ ~w.alive
  <2>1. UNCHANGED <<shown, draft, posting, unsure>>
    BY <1>8 DEF WriteAnswers
  <2>2. Ids(shown)' = Ids(shown) /\ c \in unsure'
    BY <1>0, <1>8, <2>1 DEF Ids, WriteOK
  <2>3. CommentsTypeOK'
    BY <1>1, <1>2, <2>1 DEF CommentsTypeOK
  <2>4. WritesOK' /\ FetchOK'
    BY <1>4, <1>5, <2>1, <2>2
  <2>5. ShownOK'
    BY <1>6, <2>1, <2>2 DEF CommentsInv, ShownOK
  <2>. QED  BY <1>3, <2>3, <2>4, <2>5 DEF CommentsInv
<1>9. CASE WriteAnswers(i) /\ w.alive /\ w.op = "create"
  <2>1. shown' = <<c>> \o shown /\ draft' = FALSE /\ posting' = FALSE /\ unsure' = unsure /\ w.stage = "done"
    BY <1>9 DEF WriteAnswers
  <2>2. c \notin Ids(shown) /\ comments[c] # "none" /\ comments[c] # "deleted" /\ ready
    BY <1>0, <1>9, <2>1 DEF WriteOK
  <2>3. <<c>> \in Seq(CommentIds) /\ Len(<<c>>) = 1 /\ <<c>>[1] = c
    BY <1>0
  <2>4. /\ shown' \in Seq(CommentIds) /\ Len(shown') = 1 + Len(shown)
        /\ shown'[1] = c /\ \A j \in 1..Len(shown) : shown'[1 + j] = shown[j]
    BY <1>0, <2>1, ConsIs
  <2>5. /\ DOMAIN shown = 1..Len(shown) /\ Len(shown) \in Nat /\ DOMAIN shown' = 1..(1 + Len(shown))
        /\ \A k \in DOMAIN shown' : (k = 1 /\ shown'[k] = c) \/ (k - 1 \in DOMAIN shown /\ shown'[k] = shown[k - 1])
        /\ \A k \in DOMAIN shown : 1 + k \in DOMAIN shown' /\ shown'[1 + k] = shown[k]
        /\ 1 \in DOMAIN shown'
    <3>1. DOMAIN shown = 1..Len(shown) /\ Len(shown) \in Nat /\ DOMAIN shown' = 1..(1 + Len(shown))
      BY <1>0, <2>4
    <3>2. \A k \in DOMAIN shown' : k # 1 => k - 1 \in 1..Len(shown) /\ 1 + (k - 1) = k
      BY <3>1
    <3>. QED  BY <2>4, <3>1, <3>2
  <2>6. Ids(shown)' = Ids(shown) \cup {c}
    BY <2>4, <2>5 DEF Ids
  <2>7. IsInjective(shown')
    <3>. SUFFICES ASSUME NEW k \in DOMAIN shown', NEW l \in DOMAIN shown', shown'[k] = shown'[l] PROVE k = l
      BY DEF IsInjective
    <3>1. \A m \in DOMAIN shown : shown[m] # c
      BY <2>2 DEF Ids
    <3>2. CASE k - 1 \in DOMAIN shown /\ shown'[k] = shown[k - 1] /\ l - 1 \in DOMAIN shown /\ shown'[l] = shown[l - 1]
      <4>1. k - 1 = l - 1
        BY <3>2 DEF CommentsInv, ShownOK, IsInjective
      <4>2. k \in Int /\ l \in Int
        BY <2>5
      <4>. QED  BY <4>1, <4>2
    <3>. QED  BY <2>5, <3>1, <3>2
  <2>8. CommentsTypeOK'
    BY <1>1, <1>2, <2>1, <2>4 DEF CommentsTypeOK
  <2>9. WritesOK'
    BY <1>4, <1>9, <2>1, <2>6
  <2>10. FetchOK'
    BY <1>1, <2>1, <2>2 DEF CommentsInv, FetchOK, Kept
  <2>11. c \in Kept
    BY <1>0, <2>2 DEF Kept, CommentsTypeOK
  <2>12. ShownOK'
    BY <1>6, <2>1, <2>2, <2>6, <2>7, <2>11
  <2>. QED  BY <1>3, <2>8, <2>9, <2>10, <2>12 DEF CommentsInv
<1>10. CASE WriteAnswers(i) /\ w.alive /\ w.op = "delete"
  <2>1. shown' = Without(c) /\ UNCHANGED <<draft, posting, unsure>> /\ w.stage = "done"
    BY <1>10 DEF WriteAnswers
  <2>2. /\ shown' \in Seq(CommentIds) /\ Ids(shown)' = Ids(shown) \ {c} /\ IsInjective(shown')
    <3>1. IsInjective(shown)
      BY DEF CommentsInv, ShownOK
    <3>2. Ids(shown') = Ids(shown)'
      BY DEF Ids
    <3>. HIDE DEF c
    <3>. QED  BY <1>0, <2>1, <3>1, <3>2, WithoutIs
  <2>3. comments[c] = "deleted" /\ ready /\ c \notin Kept
    BY <1>0, <1>10, <2>1 DEF WriteOK, Kept
  <2>4. CommentsTypeOK'
    BY <1>1, <1>2, <2>1, <2>2 DEF CommentsTypeOK
  <2>5. WritesOK'
    BY <1>4, <2>1, <2>2
  <2>6. FetchOK'
    BY <1>1, <2>1, <2>3 DEF CommentsInv, FetchOK, Kept
  <2>7. ShownOK'
    BY <1>6, <2>1, <2>2, <2>3
  <2>. QED  BY <1>3, <2>4, <2>5, <2>6, <2>7 DEF CommentsInv
<1>. QED  BY <1>0, <1>7, <1>8, <1>9, <1>10

\* Every step keeps the comments right.
LEMMA CommentsKept ==
  ASSUME CommentsTypeOK, CommentsInv, [Next]_vars
  PROVE  CommentsTypeOK' /\ CommentsInv'
<1>1. CASE UNCHANGED commentVars
  <2>1. CommentsTypeOK'
    BY <1>1 DEF commentVars, CommentsTypeOK
  <2>2. WritesOK' /\ CreatedOnce'
    BY <1>1 DEF commentVars, CommentsInv, WritesOK, WriteOK, CreatedOnce, Ids
  <2>3. FetchOK' /\ ShownOK'
    BY <1>1 DEF commentVars, CommentsInv, FetchOK, ShownOK, Kept, Ids, Creates, Deletes
  <2>. QED  BY <2>1, <2>2, <2>3 DEF CommentsInv
<1>2. CASE OpenComments \/ LeaveComments
  <2>1. CASE OpenComments
    BY <2>1, BlankedKeeps DEF OpenComments
  <2>2. CASE LeaveComments
    BY <2>2, BlankedKeeps DEF LeaveComments
  <2>. QED  BY <1>2, <2>1, <2>2
<1>3. CASE TypeComment
  <2>0. UNCHANGED <<comments, shown, posting, ready, fetch, writes, unsure>> /\ draft' = ~draft
    BY <1>3 DEF TypeComment
  <2>1. CommentsTypeOK'
    <3>1. draft' \in BOOLEAN
      BY <2>0
    <3>. QED  BY <2>0, <3>1 DEF CommentsTypeOK
  <2>2. WritesOK' /\ CreatedOnce'
    BY <2>0 DEF CommentsInv, WritesOK, WriteOK, CreatedOnce, Ids
  <2>3. FetchOK' /\ ShownOK'
    BY <2>0 DEF CommentsInv, FetchOK, ShownOK, Kept, Ids, Creates, Deletes
  <2>. QED  BY <2>1, <2>2, <2>3 DEF CommentsInv
<1>4. CASE handleCreateComment
  <2>1. PICK c \in CommentIds : comments[c] = "none" /\ c \notin IdsWritten /\ Sent("create", c)
    BY <1>4 DEF handleCreateComment
  <2>2. ready /\ posting' = TRUE /\ UNCHANGED <<comments, shown, draft, ready, fetch, unsure>>
    BY <1>4 DEF handleCreateComment
  <2>. QED  BY <2>1, <2>2, SendingKeeps
<1>5. ASSUME NEW c \in CommentIds, handleDeleteComment(c) PROVE CommentsTypeOK' /\ CommentsInv'
  <2>1. /\ ready /\ c \in Ids(shown) /\ Sent("delete", c)
        /\ UNCHANGED <<comments, shown, draft, ready, fetch, unsure>> /\ posting' \in BOOLEAN
    BY <1>5 DEF handleDeleteComment, CommentsTypeOK
  <2>. QED  BY <2>1, SendingKeeps
<1>6. CASE CommentsStep
  BY <1>6, FetchKeeps, WriteServedKeeps, WriteEndsKeeps DEF CommentsStep
<1>. QED  BY <1>1, <1>2, <1>3, <1>4, <1>5, <1>6, CommentMoves


-----------------------------------------------------------------------------
(* The polls that a page shows.                                            *)

LEMMA MaxMinAre ==
  ASSUME NEW S \in SUBSET Nat, IsFiniteSet(S), S # {}
  PROVE  /\ Max(S) \in S /\ \A y \in S : y <= Max(S)
         /\ Min(S) \in S /\ \A y \in S : Min(S) <= y
<1>. DEFINE n == Cardinality(S)
            top == Nth(S, n)
            bottom == Nth(S, 1)
<1>1. n \in Nat /\ n # 0
  BY FS_CardinalityType, FS_EmptySet
<1>2. 1 \in 1..n /\ n \in 1..n
  BY <1>1
<1>3. top \in S /\ bottom \in S /\ \A x \in S : x \in Nat
  BY <1>2, NthIs
<1>4. ASSUME NEW x \in S PROVE bottom <= x /\ x <= top
  <2>1. PICK k \in 1..n : Nth(S, k) = x
    BY NthIs
  <2>3. k < n => x < top
    BY <1>2, <2>1, NthIs
  <2>4. 1 < k => bottom < x
    BY <1>2, <2>1, NthIs
  <2>5. k = n \/ k < n
    BY <1>1
  <2>6. k = 1 \/ 1 < k
    BY <1>1
  <2>7. x \in Nat /\ top \in Nat /\ bottom \in Nat
    BY <1>3
  <2>8. x <= top
    <3>. HIDE DEF n, top, bottom
    <3>1. k = n => x = top
      BY <2>1 DEF top
    <3>. QED  BY <2>3, <2>5, <2>7, <3>1
  <2>9. bottom <= x
    <3>. HIDE DEF n, top, bottom
    <3>1. k = 1 => x = bottom
      BY <2>1 DEF bottom
    <3>. QED  BY <2>4, <2>6, <2>7, <3>1
  <2>. QED  BY <2>8, <2>9
<1>. HIDE DEF top, bottom
<1>5. \A x, y \in S : x >= y <=> y <= x
  BY <1>3
<1>6. \E x \in S : \A y \in S : x >= y
  BY <1>3, <1>4, <1>5
<1>7. \E x \in S : \A y \in S : x =< y
  BY <1>3, <1>4
<1>8. Max(S) \in S /\ \A y \in S : Max(S) >= y
  BY <1>6 DEF Max
<1>9. Min(S) \in S /\ \A y \in S : Min(S) =< y
  BY <1>7 DEF Min
<1>. QED  BY <1>5, <1>8, <1>9

\* A set of polls is finite, and so are the numbers of its polls.
LEMMA PollsAre ==
  ASSUME NEW S \in SUBSET Polls
  PROVE  /\ S \in SUBSET Nat /\ IsFiniteSet(S) /\ \A p \in S : p \in Nat
         /\ Cardinality(S) \in Nat
  BY ListsAssumption, FS_Subset, FS_CardinalityType

\* The newest poll, and the next one.
LEMMA NewestIs ==
  /\ Newest \in Polls \cup {0} /\ Newest \in Nat
  /\ \A p \in Polls : polls[p] # "none" => p <= Newest
  /\ Next_id = None \/ (Next_id \in Polls /\ Next_id > Newest /\ \A p \in Polls : p > Newest => Next_id <= p)
<1>. DEFINE old == {p \in Polls : polls[p] # "none"}
            new == {p \in Polls : p > Newest}
<1>1. old \in SUBSET Polls /\ old \in SUBSET Nat /\ IsFiniteSet(old)
  BY PollsAre
<1>2. {0} \cup old \in SUBSET Nat /\ IsFiniteSet({0} \cup old) /\ {0} \cup old # {}
  BY <1>1, FS_AddElement
<1>3. Newest \in {0} \cup old /\ \A y \in {0} \cup old : y <= Newest
  <2>1. Newest = Max({0} \cup old)
    BY DEF Newest
  <2>. HIDE DEF old
  <2>. QED  BY <1>2, <2>1, MaxMinAre
<1>4. new \in SUBSET Polls /\ new \in SUBSET Nat /\ IsFiniteSet(new)
  BY PollsAre
<1>5. CASE new = {}
  BY <1>1, <1>2, <1>3, <1>5 DEF Next_id
<1>6. CASE new # {}
  <2>1. Next_id = Min(new)
    BY <1>6 DEF Next_id
  <2>2. Next_id \in new /\ \A y \in new : Next_id <= y
    <3>. HIDE DEF new
    <3>. QED  BY <1>4, <1>6, <2>1, MaxMinAre
  <2>. QED  BY <1>1, <1>2, <1>3, <2>2
<1>. QED  BY <1>5, <1>6

\* The entries of some polls.
LEMMA EntriesAre ==
  ASSUME NEW S \in SUBSET Polls, NEW s, s = Entries(S)
  PROVE  /\ s \in Seq(Entry) /\ DOMAIN s = 1..Len(s) /\ Len(s) \in Nat
         /\ \A i, j \in DOMAIN s : i < j => s[i].id > s[j].id
         /\ \A i \in DOMAIN s : s[i].id \in S /\ s[i].live = (polls[s[i].id] = "live")
         /\ \A p \in S : \E i \in DOMAIN s : s[i].id = p
<1>. DEFINE ids == NewestFirst(S)
            n == Cardinality(S)
<1>1. S \in SUBSET Nat /\ IsFiniteSet(S) /\ n \in Nat
  BY PollsAre
<1>2. /\ ids \in Seq(S) /\ DOMAIN ids = 1..n
      /\ \A i, j \in DOMAIN ids : i < j => ids[i] > ids[j]
      /\ Ids(ids) = S
  BY <1>1, NewestFirstIs
<1>3. s = [i \in DOMAIN ids |-> [id |-> ids[i], live |-> polls[ids[i]] = "live"]]
  BY DEF Entries
<1>. HIDE DEF ids, n
<1>4. \A i \in 1..n : ids[i] \in S
  BY <1>2 DEF Ids
<1>5. /\ DOMAIN s = 1..n
      /\ \A i \in 1..n : s[i] = [id |-> ids[i], live |-> polls[ids[i]] = "live"]
  BY <1>2, <1>3
<1>6. ASSUME NEW i \in 1..n
      PROVE  s[i] \in Entry /\ s[i].id = ids[i] /\ s[i].live = (polls[ids[i]] = "live")
  <2>. DEFINE live == polls[ids[i]] = "live"
  <2>1. live \in BOOLEAN /\ ids[i] \in Polls /\ s[i] = [id |-> ids[i], live |-> live]
    BY <1>4, <1>5
  <2>. HIDE DEF live
  <2>2. s[i] \in Entry /\ s[i].id = ids[i] /\ s[i].live = live
    BY <2>1 DEF Entry
  <2>. QED  BY <2>2 DEF live
<1>7. s \in [1..n -> Entry]
  BY <1>2, <1>3, <1>5, <1>6
<1>8. s \in Seq(Entry) /\ Len(s) = n
  BY <1>1, <1>7
<1>9. \A p \in S : \E i \in DOMAIN s : s[i].id = p
  BY <1>2, <1>5, <1>6 DEF Ids
<1>. QED  BY <1>1, <1>2, <1>4, <1>5, <1>6, <1>8, <1>9


\* The smaller of two numbers.
LEMMA MinOfTwo ==
  ASSUME NEW a \in Nat, NEW b \in Nat
  PROVE  Min({a, b}) = IF a <= b THEN a ELSE b
<1>1. {a, b} \in SUBSET Nat /\ {a, b} # {} /\ IsFiniteSet({a, b})
  <2>1. IsFiniteSet({a} \cup {b}) /\ {a} \cup {b} = {a, b}
    BY FS_Singleton, FS_Union
  <2>. QED  BY <2>1
<1>2. Min({a, b}) \in {a, b} /\ \A y \in {a, b} : Min({a, b}) <= y
  BY <1>1, MaxMinAre
<1>. QED  BY <1>2

LEMMA PageOfIs ==
  ASSUME marks \subseteq Marks, NEW s \in Seq(Entry), NEW n \in Polls \cup {None}, NEW a, a = PageOf(s, n)
  PROVE  a \in Answers /\ a.ok = TRUE /\ a.items = s /\ a.next = n /\ a.marks = marks /\ a.upto = Newest
<1>1. Newest \in Polls \cup {0}
  BY NewestIs
<1>. HIDE DEF Newest
<1>. QED  BY <1>1 DEF PageOf, Answers

\* The polls of S of a tab, down to the point where the next page begins, as
\* they are now.
Exactly(s, next, f, S) ==
    /\ \A i, j \in DOMAIN s : i < j => s[i].id > s[j].id
    /\ \A i \in DOMAIN s : /\ s[i].id \in S \cap Listed /\ s[i].live = (polls[s[i].id] = "live")
                           /\ next # None => s[i].id >= next
    /\ next # None => next \in S \cap Listed
    /\ \A p \in S \cap Listed : (f = "all" \/ polls[p] = f) /\ (next # None => p >= next) => \E i \in DOMAIN s : s[i].id = p
    /\ \A i \in DOMAIN s : f = "all" \/ polls[s[i].id] = f

\* A page of a list is what it should be.
LEMMA ListVotePageIs ==
  ASSUME marks \subseteq Marks, NEW f \in Filters, NEW c \in Polls \cup {None}, NEW of \in SUBSET Polls,
         NEW a, a = listVotePage(f, c, of)
  PROVE  /\ a \in Answers /\ a.ok = TRUE /\ a.marks = marks /\ a.upto = Newest
         /\ Exactly(a.items, a.next, f, {p \in of : c # None => p < c})
<1>. DEFINE S == {p \in of : c # None => p < c}
            R == {p \in Listed \cap of : /\ c # None => p < c
                                         /\ f = "live" => polls[p] = "live"}
            s == Entries(R)
            m == Min({Take, Len(s)})
            cut == SubSeq(s, 1, m)
            at == {i \in DOMAIN cut : ~cut[i].live}
            items == IF f = "closed" THEN Sift(cut, at) ELSE cut
            next == NextCursor(s)
<1>1. R \in SUBSET Polls /\ R \subseteq S \cap Listed /\ S \in SUBSET Polls /\ \A p \in R : f = "live" => polls[p] = "live"
  BY DEF Listed
<1>2. /\ \A p \in S \cap Listed : (f = "live" => polls[p] = "live") => p \in R
      /\ \A p \in Listed : polls[p] \in {"live", "closed"}
      /\ f \in {"all", "live", "closed"}
  BY DEF Listed, Filters
<1>3. a = PageOf(items, next)
  BY DEF listVotePage
<1>. HIDE DEF R, S
<1>4. /\ s \in Seq(Entry) /\ DOMAIN s = 1..Len(s) /\ Len(s) \in Nat
      /\ \A i, j \in DOMAIN s : i < j => s[i].id > s[j].id
      /\ \A i \in DOMAIN s : s[i].id \in R /\ s[i].live = (polls[s[i].id] = "live")
      /\ \A p \in R : \E i \in DOMAIN s : s[i].id = p
  <2>1. s = Entries(R)
    OBVIOUS
  <2>. HIDE DEF s
  <2>. QED  BY <1>1, <2>1, EntriesAre
<1>. HIDE DEF s
<1>n. s \in Seq(Entry) /\ Len(s) \in Nat /\ DOMAIN s = 1..Len(s)
  BY <1>4
<1>l. Len(s) \in Nat
  BY <1>n
<1>5. Take \in Nat /\ Take >= 1
  BY ListsAssumption
<1>6. /\ Len(s) > Take => m = Take
      /\ ~(Len(s) > Take) => m = Len(s)
  BY <1>l, <1>5, MinOfTwo
<1>m. m \in Nat /\ m <= Len(s)
  <2>. HIDE DEF m
  <2>1. CASE Len(s) > Take
    BY <1>l, <1>5, <1>6, <2>1
  <2>2. CASE ~(Len(s) > Take)
    BY <1>l, <1>6, <2>2
  <2>. QED  BY <2>1, <2>2
<1>. HIDE DEF m
<1>7. /\ cut \in Seq(Entry) /\ Len(cut) = m /\ DOMAIN cut = 1..m
      /\ \A i \in 1..m : i \in DOMAIN s /\ cut[i] = s[i]
  BY <1>n, <1>m, PrefixIs
<1>8. next = (IF Len(s) > Take THEN s[Take].id ELSE None)
  BY DEF NextCursor
<1>. HIDE DEF cut, next
<1>9. \A p \in Polls : p \in Nat /\ p # None
  BY PollsAre, ListsAssumption
<1>10. next # None => Len(s) > Take /\ m = Take /\ Take \in DOMAIN s /\ next = s[Take].id
  <2>. SUFFICES ASSUME next # None PROVE Len(s) > Take /\ m = Take /\ Take \in DOMAIN s /\ next = s[Take].id
    OBVIOUS
  <2>1. Len(s) > Take /\ next = s[Take].id
    BY <1>8
  <2>2. Take \in 1..Len(s)
    BY <1>l, <1>5, <2>1
  <2>. QED  BY <1>n, <1>6, <2>1, <2>2
<1>11. next = None => m = Len(s)
  <2>1. Len(s) > Take => Take \in DOMAIN s
    BY <1>n, <1>5
  <2>2. Len(s) > Take => next # None
    BY <1>1, <1>4, <1>8, <1>9, <2>1
  <2>. QED  BY <1>6, <2>2
<1>12. next \in Polls \cup {None} /\ (next # None => next \in S \cap Listed)
  BY <1>1, <1>4, <1>10
<1>13. \A i, j \in DOMAIN cut : i < j => cut[i].id > cut[j].id
  BY <1>4, <1>7
<1>14. \A i \in DOMAIN cut : cut[i].id \in R /\ cut[i].live = (polls[cut[i].id] = "live")
  BY <1>4, <1>7
<1>15. ASSUME NEW i \in DOMAIN cut, next # None PROVE cut[i].id >= next
  <2>1. i \in 1..Take /\ cut[i] = s[i] /\ i \in DOMAIN s
    BY <1>7, <1>10, <1>15
  <2>2. i = Take \/ i < Take
    BY <1>5, <2>1
  <2>3. s[i].id \in Nat /\ next = s[Take].id /\ next \in Nat
    BY <1>1, <1>4, <1>9, <1>10, <1>12, <1>15, <2>1
  <2>4. i < Take => s[i].id > s[Take].id
    BY <1>4, <1>10, <1>15, <2>1
  <2>. QED  BY <2>1, <2>2, <2>3, <2>4
<1>16. ASSUME NEW p \in R, next # None => p >= next PROVE \E i \in DOMAIN cut : cut[i].id = p
  <2>1. PICK i \in DOMAIN s : s[i].id = p
    BY <1>4
  <2>2. i \in 1..m
    <3>1. CASE next = None
      BY <1>4, <1>11, <3>1
    <3>2. CASE next # None
      <4>1. ~(Take < i)
        <5>. SUFFICES ASSUME Take < i PROVE FALSE
          OBVIOUS
        <5>1. s[Take].id > s[i].id
          BY <1>4, <1>10, <3>2
        <5>2. p \in Nat /\ next \in Nat
          BY <1>1, <1>9, <1>12, <3>2
        <5>. QED  BY <1>10, <1>16, <2>1, <3>2, <5>1, <5>2
      <4>. QED  BY <1>4, <1>5, <1>10, <3>2, <4>1
    <3>. QED  BY <3>1, <3>2
  <2>. QED  BY <1>7, <2>1, <2>2
<1>17. items \in Seq(Entry) /\ Exactly(items, next, f, S)
  <2>1. CASE f # "closed"
    <3>1. items = cut
      BY <2>1
    <3>2. \A i \in DOMAIN cut : cut[i].id \in S \cap Listed /\ (f = "all" \/ polls[cut[i].id] = f)
      BY <1>1, <1>2, <1>14, <2>1
    <3>3. \A p \in S \cap Listed : (f = "all" \/ polls[p] = f) => p \in R
      BY <1>2, <2>1
    <3>. HIDE DEF items
    <3>. QED  BY <1>7, <1>12, <1>13, <1>14, <1>15, <1>16, <3>1, <3>2, <3>3 DEF Exactly
  <2>2. CASE f = "closed"
    <3>1. items = Sift(cut, at) /\ at \in SUBSET DOMAIN cut
      BY <2>2
    <3>2. /\ items \in Seq(Entry)
          /\ \A k \in DOMAIN items : \E i \in at : items[k] = cut[i]
          /\ \A i \in at : \E k \in DOMAIN items : items[k] = cut[i]
          /\ \A k, l \in DOMAIN items : k < l => \E i, j \in at : i < j /\ items[k] = cut[i] /\ items[l] = cut[j]
      <4>1. cut \in Seq(Entry)
        BY <1>7
      <4>. HIDE DEF at, items
      <4>. QED  BY <3>1, <4>1, SiftIs
    <3>3. \A i \in at : i \in DOMAIN cut /\ cut[i].id \in S \cap Listed /\ polls[cut[i].id] = "closed"
      BY <1>1, <1>2, <1>14
    <3>4. \A p \in S \cap Listed : polls[p] = "closed" => p \in R
      BY <1>2, <2>2
    <3>5. \A i \in DOMAIN cut : polls[cut[i].id] = "closed" => i \in at
      BY <1>14
    <3>. HIDE DEF at, items
    <3>6. \A k, l \in DOMAIN items : k < l => items[k].id > items[l].id
      BY <1>13, <3>2, <3>3
    <3>7. \A k \in DOMAIN items : /\ items[k].id \in S \cap Listed /\ items[k].live = (polls[items[k].id] = "live")
                                  /\ next # None => items[k].id >= next
                                  /\ polls[items[k].id] = f
      BY <1>14, <1>15, <2>2, <3>2, <3>3
    <3>8. \A p \in S \cap Listed : (f = "all" \/ polls[p] = f) /\ (next # None => p >= next) => \E k \in DOMAIN items : items[k].id = p
      BY <1>16, <2>2, <3>2, <3>4, <3>5
    <3>. QED  BY <1>12, <3>2, <3>6, <3>7, <3>8 DEF Exactly
  <2>. QED  BY <2>1, <2>2
<1>. HIDE DEF items
<1>18. a \in Answers /\ a.ok = TRUE /\ a.items = items /\ a.next = next /\ a.marks = marks /\ a.upto = Newest
  <2>1. items \in Seq(Entry) /\ next \in Polls \cup {None}
    BY <1>12, <1>17
  <2>. HIDE DEF at
  <2>2. PageOf(items, next) \in Answers
    BY <2>1, PageOfIs
  <2>3. LET o == PageOf(items, next)
        IN  o.ok = TRUE /\ o.items = items /\ o.next = next /\ o.marks = marks /\ o.upto = Newest
    BY DEF PageOf
  <2>. QED  BY <1>3, <2>2, <2>3
<1>. QED  BY <1>17, <1>18 DEF S


\* The polls a page may be asked for.
LEMMA LoadAnswersAre ==
  ASSUME marks \subseteq Marks, page \in {"home", "my_polls", "past_votes", "bookmarks"},
         NEW l \in Loads, page # "bookmarks" => l.ids = None, NEW a \in LoadAnswers(l)
  PROVE  /\ a \in Answers /\ a.ok = TRUE /\ a.marks = marks /\ a.upto = Newest
         /\ page \in {"home", "my_polls"} => Exactly(a.items, a.next, l.filter, Of(page))
         /\ page = "past_votes" => Exactly(a.items, a.next, "all", Of(page)) /\ a.next = None
         /\ page = "bookmarks" => a.next = None
         /\ page = "bookmarks" /\ l.ids # None => {a.items[j].id : j \in DOMAIN a.items} = l.ids
<1>0. l.filter \in Filters /\ l.ids \in (SUBSET Polls) \cup {None} /\ Of(page) \in SUBSET Polls
  BY ListsAssumption DEF Loads, Of
\* The fields of an answer that is not cut.
<1>1. ASSUME NEW s \in Seq(Entry), a = PageOf(s, None)
      PROVE  a \in Answers /\ a.ok = TRUE /\ a.marks = marks /\ a.upto = Newest /\ a.items = s /\ a.next = None
  <2>1. PageOf(s, None) \in Answers
    BY PageOfIs
  <2>. QED  BY <1>1, <2>1 DEF PageOf
<1>2. CASE page \in {"home", "my_polls"}
  <2>1. a = listVotePage(l.filter, None, Of(page))
    BY <1>2 DEF LoadAnswers
  <2>2. /\ a \in Answers /\ a.ok = TRUE /\ a.marks = marks /\ a.upto = Newest
        /\ Exactly(a.items, a.next, l.filter, {p \in Of(page) : None # None => p < None})
    <3>. DEFINE of == Of(page)
    <3>1. of \in SUBSET Polls /\ l.filter \in Filters /\ None \in Polls \cup {None} /\ a = listVotePage(l.filter, None, of)
      BY <1>0, <2>1
    <3>. HIDE DEF of
    <3>2. /\ a \in Answers /\ a.ok = TRUE /\ a.marks = marks /\ a.upto = Newest
          /\ Exactly(a.items, a.next, l.filter, {p \in of : None # None => p < None})
      BY <3>1, ListVotePageIs
    <3>. QED  BY <3>2 DEF of
  <2>3. {p \in Of(page) : None # None => p < None} = Of(page)
    OBVIOUS
  <2>. QED  BY <1>2, <2>2, <2>3
<1>3. CASE page = "past_votes"
  <2>. DEFINE V == Voted \cap Listed
              s == Entries(V)
  <2>1. a = PageOf(s, None)
    BY <1>3 DEF LoadAnswers, attachHistory
  <2>2. V \in SUBSET Polls /\ s = Entries(V)
    BY DEF Listed
  <2>. HIDE DEF V, s
  <2>3. /\ s \in Seq(Entry)
        /\ \A i, j \in DOMAIN s : i < j => s[i].id > s[j].id
        /\ \A i \in DOMAIN s : s[i].id \in V /\ s[i].live = (polls[s[i].id] = "live")
        /\ \A p \in V : \E i \in DOMAIN s : s[i].id = p
    BY <2>2, EntriesAre
  <2>4. a \in Answers /\ a.ok = TRUE /\ a.marks = marks /\ a.upto = Newest /\ a.items = s /\ a.next = None
    BY <1>1, <2>1, <2>3
  <2>5. Of(page) = Voted
    BY <1>3 DEF Of
  <2>6. Exactly(s, None, "all", Voted)
    BY <2>3 DEF Exactly, V, Listed
  <2>. QED  BY <1>3, <2>4, <2>5, <2>6
<1>4. CASE page = "bookmarks" /\ l.ids = None
  <2>1. a = PageOf(<<>>, None)
    BY <1>4 DEF LoadAnswers, getBookmarks
  <2>2. <<>> \in Seq(Entry)
    OBVIOUS
  <2>. QED  BY <1>1, <1>4, <2>1, <2>2
<1>5. CASE page = "bookmarks" /\ l.ids # None
  <2>. DEFINE s == Entries(l.ids)
  <2>1. l.ids \in SUBSET Polls
    BY <1>0, <1>5
  <2>2. a = PageOf(s, None)
    BY <1>5 DEF LoadAnswers, getPollById
  <2>3. /\ s \in Seq(Entry) /\ \A i \in DOMAIN s : s[i].id \in l.ids
        /\ \A p \in l.ids : \E i \in DOMAIN s : s[i].id = p
    BY <2>1, EntriesAre
  <2>. HIDE DEF s
  <2>4. a \in Answers /\ a.ok = TRUE /\ a.marks = marks /\ a.upto = Newest /\ a.items = s /\ a.next = None
    BY <1>1, <2>2, <2>3
  <2>. QED  BY <1>5, <2>3, <2>4
<1>. QED  BY <1>2, <1>3, <1>4, <1>5

-----------------------------------------------------------------------------
(* Types.                                                                  *)

ServerTyped ==
    /\ polls \in [Polls -> {"none", "live", "closed", "gone"}] /\ marks \subseteq Marks
    /\ changed \subseteq Polls /\ clicks \in 0..MaxClicks
    /\ dialog \in [open: BOOLEAN, text: {"blank", "partial", "complete"}, busy: BOOLEAN]

ListingTyped ==
    /\ page \in Pages /\ filter \in Filters
    /\ list \in Seq(Entry) /\ cursor \in Polls \cup {None} /\ hasMore \in BOOLEAN
    /\ loads \in Seq(Loads) /\ more \in Mores \cup {None}
    /\ upto \in Polls \cup {0, None} /\ crossed \in BOOLEAN

MarkingTyped ==
    /\ marked \subseteq Marks /\ disturbed \subseteq Marks
    /\ timers \in Seq(Timers) /\ calls \in Seq(Calls)

LEMMA TypeParts == TypeOK <=> ServerTyped /\ ListingTyped /\ MarkingTyped /\ CommentsTypeOK
  BY DEF TypeOK, ServerTyped, ListingTyped, MarkingTyped

LEMMA RecordTypes ==
  /\ \A l \in Loads : /\ l.filter \in Filters /\ l.ids \in (SUBSET Polls) \cup {None}
                      /\ l.stage \in {"sent", "served"} /\ l.got \in Answers
  /\ \A m \in Mores : m.filter \in Filters /\ m.cursor \in Polls /\ m.stage \in {"sent", "served"} /\ m.got \in Answers
  /\ \A a \in Answers : a.ok => /\ a.items \in Seq(Entry) /\ a.next \in Polls \cup {None}
                                /\ a.marks \subseteq Marks /\ a.upto \in Polls \cup {0}
  /\ \A t \in Timers : t.id \in Marks /\ t.flag \in BOOLEAN /\ t.held \in BOOLEAN /\ t.alive \in BOOLEAN
  /\ \A c \in Calls : /\ c.op \in {"mark", "clear", "close", "delete", "create", "refresh"}
                      /\ c.id \in Polls \cup {None} /\ c.flag \in BOOLEAN /\ c.alive \in BOOLEAN
                      /\ c.stage \in {"sent", "done", "failed"}
  /\ \A e \in Entry : e.id \in Polls /\ e.live \in BOOLEAN
<1>1. \A l \in Loads : /\ l.filter \in Filters /\ l.ids \in (SUBSET Polls) \cup {None}
                       /\ l.stage \in {"sent", "served"} /\ l.got \in Answers
  BY DEF Loads
<1>2. \A m \in Mores : m.filter \in Filters /\ m.cursor \in Polls /\ m.stage \in {"sent", "served"} /\ m.got \in Answers
  BY DEF Mores
<1>3. \A a \in Answers : a.ok => /\ a.items \in Seq(Entry) /\ a.next \in Polls \cup {None}
                                 /\ a.marks \subseteq Marks /\ a.upto \in Polls \cup {0}
  <2>. SUFFICES ASSUME NEW a \in Answers, a.ok
                PROVE  /\ a.items \in Seq(Entry) /\ a.next \in Polls \cup {None}
                       /\ a.marks \subseteq Marks /\ a.upto \in Polls \cup {0}
    OBVIOUS
  <2>1. a # NoAnswer
    BY DEF NoAnswer
  <2>2. a \in [ok: {TRUE}, items: Seq(Entry), next: Polls \cup {None}, marks: SUBSET Marks, upto: Polls \cup {0}]
    BY <2>1 DEF Answers
  <2>. QED  BY <2>2
<1>4. \A t \in Timers : t.id \in Marks /\ t.flag \in BOOLEAN /\ t.held \in BOOLEAN /\ t.alive \in BOOLEAN
  BY DEF Timers
<1>5. \A c \in Calls : /\ c.op \in {"mark", "clear", "close", "delete", "create", "refresh"}
                       /\ c.id \in Polls \cup {None} /\ c.flag \in BOOLEAN /\ c.alive \in BOOLEAN
                       /\ c.stage \in {"sent", "done", "failed"}
  BY DEF Calls
<1>6. \A e \in Entry : e.id \in Polls /\ e.live \in BOOLEAN
  BY DEF Entry
<1>. QED  BY <1>1, <1>2, <1>3, <1>4, <1>5, <1>6

\* What may happen to the lists.
LEMMA ListingMoves ==
  ASSUME [Next]_vars
  PROVE  \/ UNCHANGED <<page, filter, listing>> /\ changed \subseteq changed'
         \/ \E i \in DOMAIN loads : LoadServed(i) \/ LoadArrives(i)
         \/ loadMore \/ MoreServed \/ MoreArrives
         \/ \E f \in Filters : SetFilter(f)
         \/ \E p \in Pages : Navigate(p)
         \/ \E i \in DOMAIN calls : CallAnswers(i)
<1>1. CASE UNCHANGED vars
  BY <1>1 DEF vars
<1>2. CASE DialogStep \/ handleCreate
  BY <1>2 DEF DialogStep, handleCreate
<1>3. ASSUME NEW i \in DOMAIN list, handleClosePoll(list[i]) \/ handleDeletePoll(list[i])
      PROVE  UNCHANGED <<page, filter, listing>> /\ changed \subseteq changed'
  BY <1>3 DEF handleClosePoll, handleDeletePoll, OwnPollClick
<1>4. ASSUME NEW p \in Marks, handleBookmarkToggle(p) PROVE UNCHANGED <<page, filter, listing>> /\ changed \subseteq changed'
  BY <1>4 DEF handleBookmarkToggle
<1>5. CASE TimerFires \/ BookmarksClick
  BY <1>5 DEF TimerFires, BookmarksClick
<1>6. ASSUME NEW i \in DOMAIN calls, CallServed(i) \/ CallFails(i) PROVE UNCHANGED <<page, filter, listing>> /\ changed \subseteq changed'
  BY <1>6 DEF CallServed, CallFails
<1>7. CASE OthersChange
  BY <1>7 DEF OthersChange
<1>8. CASE CommentClick \/ CommentAnswers
  BY <1>8 DEF CommentClick, CommentAnswers
<1>. QED  BY <1>1, <1>2, <1>3, <1>4, <1>5, <1>6, <1>7, <1>8 DEF Next


LEMMA LoadIs ==
  /\ \A f \in Filters : /\ Load(f) \in Loads /\ Load(f).filter = f /\ Load(f).ids = None
                        /\ Load(f).stage = "sent" /\ Load(f).got = NoAnswer
  /\ \A S \in SUBSET Polls : LET l == [Load("all") EXCEPT !.ids = S]
                             IN  l \in Loads /\ l.filter = "all" /\ l.ids = S /\ l.stage = "sent"
  /\ "all" \in Filters
<1>1. NoAnswer \in Answers
  BY DEF Answers
<1>. QED  BY <1>1 DEF Load, Loads, Filters

\* A load that is under way.
LEMMA UnderWay ==
  ASSUME ListingTyped, PagesOK, NEW i \in DOMAIN loads
  PROVE  /\ loads \in Seq(Loads) /\ DOMAIN loads = 1..Len(loads) /\ Len(loads) \in Nat
         /\ loads[i] \in Loads /\ loads # <<>>
         /\ page \in {"home", "my_polls", "past_votes", "bookmarks"}
         /\ page # "bookmarks" => loads[i].ids = None
         /\ page # "home" => Len(loads) = 1 /\ i = 1
<1>1. loads \in Seq(Loads) /\ DOMAIN loads = 1..Len(loads) /\ Len(loads) \in Nat /\ loads[i] \in Loads /\ loads # <<>>
  BY DEF ListingTyped
<1>2. page \in {"home", "my_polls", "past_votes", "bookmarks"}
  BY <1>1 DEF PagesOK, ListingTyped, Pages
<1>3. page # "bookmarks" => loads[i].ids = None
  BY DEF PagesOK
<1>4. page # "home" => Len(loads) <= 1
  BY DEF PagesOK
<1>. QED  BY <1>1, <1>2, <1>3, <1>4

\* A load has been served.
LEMMA LoadServedIs ==
  ASSUME ListingTyped, PagesOK, marks \subseteq Marks, NEW i \in DOMAIN loads, LoadServed(i)
  PROVE  /\ loads' \in Seq(Loads) /\ Len(loads') = Len(loads) /\ DOMAIN loads' = DOMAIN loads
         /\ loads[i].stage = "sent" /\ loads'[i].stage = "served"
         /\ loads'[i].filter = loads[i].filter /\ loads'[i].ids = loads[i].ids
         /\ loads'[i].got = NoAnswer \/ loads'[i].got \in LoadAnswers(loads[i])
         /\ \A k \in DOMAIN loads : k # i => loads'[k] = loads[k]
         /\ UNCHANGED <<server, page, filter, list, cursor, hasMore, more, upto, crossed, marking,
                        calls, dialog, changed, clicks>>
<1>1. PICK a \in {NoAnswer} \cup LoadAnswers(loads[i]) :
          loads' = [loads EXCEPT ![i].stage = "served", ![i].got = a]
  BY DEF LoadServed
<1>2. loads \in Seq(Loads) /\ loads[i] \in Loads
  BY UnderWay
<1>3. a \in Answers
  <2>1. CASE a = NoAnswer
    BY <2>1 DEF Answers
  <2>2. CASE a \in LoadAnswers(loads[i])
    BY <2>2, UnderWay, LoadAnswersAre
  <2>. QED  BY <2>1, <2>2
<1>4. /\ DOMAIN loads' = DOMAIN loads /\ loads' = [k \in DOMAIN loads' |-> loads'[k]]
      /\ \A k \in DOMAIN loads : k # i => loads'[k] = loads[k]
  BY <1>1
<1>5. loads'[i] = [loads[i] EXCEPT !.stage = "served", !.got = a]
  BY <1>1
<1>6. /\ loads'[i] \in Loads /\ loads'[i].stage = "served" /\ loads'[i].got = a
      /\ loads'[i].filter = loads[i].filter /\ loads'[i].ids = loads[i].ids
  BY <1>2, <1>3, <1>5 DEF Loads
<1>7. \A k \in DOMAIN loads : loads'[k] \in Loads
  BY <1>2, <1>4, <1>6
<1>8. loads' \in Seq(Loads) /\ Len(loads') = Len(loads)
  BY <1>2, <1>4, <1>7, MappedIs
<1>9. /\ loads[i].stage = "sent"
      /\ UNCHANGED <<server, page, filter, list, cursor, hasMore, more, upto, crossed, marking,
                     calls, dialog, changed, clicks>>
  BY DEF LoadServed
<1>. QED  BY <1>1, <1>4, <1>6, <1>8, <1>9

\* A load arrives: that of the ids of the bookmarks is followed by another.
LEMMA LoadArrivesIs ==
  ASSUME ListingTyped, PagesOK, NEW i \in DOMAIN loads, LoadArrives(i), NEW l, l = loads[i]
  PROVE  /\ loads' \in Seq(Loads) /\ l \in Loads /\ l.stage = "served"
         /\ UNCHANGED <<server, page, filter, more, crossed, timers, disturbed, calls, dialog, changed, clicks>>
         /\ page = "bookmarks" /\ l.ids = None /\ l.got.ok =>
               /\ marked' = l.got.marks /\ UNCHANGED <<list, cursor, hasMore, upto>>
               /\ DOMAIN loads' = DOMAIN loads /\ Len(loads') = Len(loads)
               /\ loads'[i].ids = l.got.marks /\ loads'[i].filter = "all" /\ loads'[i].stage = "sent"
         /\ ~(page = "bookmarks" /\ l.ids = None /\ l.got.ok) =>
               /\ loads' = RemoveAt(loads, i) /\ Len(loads') = Len(loads) - 1
               /\ ~l.got.ok => UNCHANGED <<list, cursor, hasMore, upto, marked>>
               /\ l.got.ok => /\ list' = l.got.items /\ upto' = l.got.upto
                              /\ cursor' = l.got.next /\ hasMore' = (l.got.next # None)
                              /\ marked' = IF page = "home" THEN l.got.marks ELSE marked
<1>1. loads \in Seq(Loads) /\ l \in Loads
  BY UnderWay
<1>2. /\ l.stage = "served"
      /\ UNCHANGED <<server, page, filter, more, crossed, timers, disturbed, calls, dialog, changed, clicks>>
  BY DEF LoadArrives
<1>3. CASE page = "bookmarks" /\ l.ids = None /\ l.got.ok
  <2>. DEFINE e == [Load("all") EXCEPT !.ids = l.got.marks]
  <2>1. marked' = l.got.marks /\ loads' = [loads EXCEPT ![i] = e] /\ UNCHANGED <<list, cursor, hasMore, upto>>
    BY <1>3 DEF LoadArrives
  <2>2. l.got.marks \in SUBSET Polls
    BY <1>1, <1>3, RecordTypes, ListsAssumption
  <2>3. e \in Loads /\ e.filter = "all" /\ e.ids = l.got.marks /\ e.stage = "sent"
    BY <2>2, LoadIs
  <2>. HIDE DEF e
  <2>4. /\ DOMAIN loads' = DOMAIN loads /\ loads' = [k \in DOMAIN loads' |-> loads'[k]] /\ loads'[i] = e
        /\ \A k \in DOMAIN loads : k # i => loads'[k] = loads[k]
    BY <2>1
  <2>5. \A k \in DOMAIN loads : loads'[k] \in Loads
    BY <1>1, <2>3, <2>4
  <2>6. loads' \in Seq(Loads) /\ Len(loads') = Len(loads)
    BY <1>1, <2>4, <2>5, MappedIs
  <2>. QED  BY <1>1, <1>2, <1>3, <2>1, <2>3, <2>4, <2>6
<1>4. CASE ~(page = "bookmarks" /\ l.ids = None /\ l.got.ok)
  <2>1. /\ loads' = RemoveAt(loads, i)
        /\ ~l.got.ok => UNCHANGED <<list, cursor, hasMore, upto, marked>>
        /\ l.got.ok => /\ list' = l.got.items /\ upto' = l.got.upto
                       /\ cursor' = l.got.next /\ hasMore' = (l.got.next # None)
                       /\ marked' = IF page = "home" THEN l.got.marks ELSE marked
    BY <1>4 DEF LoadArrives
  <2>2. loads' \in Seq(Loads) /\ Len(loads') = Len(loads) - 1
    BY <1>1, <2>1, RemoveAtIs
  <2>. QED  BY <1>1, <1>2, <1>4, <2>1, <2>2
<1>. QED  BY <1>3, <1>4

\* The next page has been served.
LEMMA MoreServedIs ==
  ASSUME ListingTyped, PagesOK, marks \subseteq Marks, MoreServed
  PROVE  /\ more \in Mores /\ more' \in Mores /\ more # None /\ more' # None /\ page \in {"home", "my_polls"}
         /\ more.stage = "sent" /\ more'.stage = "served" /\ more'.filter = more.filter /\ more'.cursor = more.cursor
         /\ \/ more'.got = NoAnswer
            \/ /\ more'.got \in Answers /\ more'.got.ok
               /\ Exactly(more'.got.items, more'.got.next, more.filter, {p \in Of(page) : p < more.cursor})
         /\ UNCHANGED <<server, page, filter, list, cursor, hasMore, loads, upto, crossed, marking,
                        calls, dialog, changed, clicks>>
<1>1. more \in Mores /\ more # None /\ more.stage = "sent" /\ page \in {"home", "my_polls"} /\ None \notin Mores
  BY ListsAssumption DEF MoreServed, ListingTyped, PagesOK
<1>2. PICK a \in {NoAnswer, listVotePage(more.filter, more.cursor, Of(page))} :
          more' = [more EXCEPT !.stage = "served", !.got = a]
  BY DEF MoreServed
<1>3. more.filter \in Filters /\ more.cursor \in Polls \cup {None} /\ more.cursor # None /\ Of(page) \in SUBSET Polls
  BY <1>1, RecordTypes, ListsAssumption DEF Of
<1>4. \/ a = NoAnswer
      \/ a \in Answers /\ a.ok /\ Exactly(a.items, a.next, more.filter, {p \in Of(page) : p < more.cursor})
  <2>1. CASE a = listVotePage(more.filter, more.cursor, Of(page))
    <3>. DEFINE of == Of(page)
                c == more.cursor
    <3>1. of \in SUBSET Polls /\ a = listVotePage(more.filter, c, of) /\ c \in Polls \cup {None} /\ c # None
      BY <1>3, <2>1
    <3>. HIDE DEF of, c
    <3>2. a \in Answers /\ a.ok = TRUE /\ Exactly(a.items, a.next, more.filter, {p \in of : c # None => p < c})
      BY <1>3, <3>1, ListVotePageIs
    <3>3. {p \in of : c # None => p < c} = {p \in of : p < c}
      BY <3>1
    <3>. QED  BY <3>2, <3>3 DEF of, c
  <2>. QED  BY <1>2, <2>1
<1>5. a \in Answers
  BY <1>4 DEF Answers
<1>6. /\ more' \in Mores /\ more'.stage = "served" /\ more'.got = a
      /\ more'.filter = more.filter /\ more'.cursor = more.cursor
  BY <1>1, <1>2, <1>5 DEF Mores
<1>7. UNCHANGED <<server, page, filter, list, cursor, hasMore, loads, upto, crossed, marking,
                  calls, dialog, changed, clicks>>
  BY DEF MoreServed
<1>. QED  BY <1>1, <1>4, <1>6, <1>7


\* The list that the answer to a request leaves.
LEMMA AnsweredList ==
  ASSUME ListingTyped, MarkingTyped, NEW i \in DOMAIN calls, CallAnswers(i), NEW c, c = calls[i]
  PROVE  /\ list' \in Seq(Entry)
         /\ ~c.alive \/ c.op \notin {"close", "delete", "clear"} => list' = list
         /\ c.alive /\ c.op = "close" =>
               /\ DOMAIN list' = DOMAIN list
               /\ \A j \in DOMAIN list : /\ list'[j].id = list[j].id
                                         /\ list'[j].live = IF list[j].id = c.id THEN FALSE ELSE list[j].live
         /\ c.alive /\ c.op = "delete" =>
               /\ \A k \in DOMAIN list' : \E j \in DOMAIN list : list[j].id # c.id /\ list'[k] = list[j]
               /\ \A j \in DOMAIN list : list[j].id # c.id => \E k \in DOMAIN list' : list'[k] = list[j]
               /\ \A k, l \in DOMAIN list' : k < l => \E j, m \in DOMAIN list : j < m /\ list'[k] = list[j] /\ list'[l] = list[m]
         /\ c.alive /\ c.op = "clear" => list' = <<>>
<1>1. list \in Seq(Entry) /\ c \in Calls /\ \A j \in DOMAIN list : list[j] \in Entry
  BY DEF ListingTyped, MarkingTyped
<1>2. list' = IF ~c.alive THEN list
              ELSE CASE c.op = "close"  -> [j \in DOMAIN list |->
                                             IF list[j].id = c.id THEN [list[j] EXCEPT !.live = FALSE] ELSE list[j]]
                     [] c.op = "delete" -> Sift(list, {j \in DOMAIN list : list[j].id # c.id})
                     [] c.op = "clear"  -> <<>>
                     [] OTHER           -> list
  BY DEF CallAnswers
<1>3. CASE ~c.alive \/ c.op \notin {"close", "delete", "clear"}
  <2>1. CASE ~c.alive
    <3>1. list' = list
      BY <1>2, <2>1
    <3>. QED  BY <1>1, <2>1, <3>1
  <2>2. CASE c.op \notin {"close", "delete", "clear"}
    <3>1. list' = list
      BY <1>2, <2>2
    <3>. QED  BY <1>1, <2>2, <3>1
  <2>. QED  BY <1>3, <2>1, <2>2
<1>4. CASE c.alive /\ c.op = "close"
  <2>1. list' = [j \in DOMAIN list |-> IF list[j].id = c.id THEN [list[j] EXCEPT !.live = FALSE] ELSE list[j]]
    BY <1>2, <1>4
  <2>2. DOMAIN list' = DOMAIN list /\ list' = [j \in DOMAIN list' |-> list'[j]]
    BY <2>1
  <2>3. ASSUME NEW j \in DOMAIN list
        PROVE  /\ list'[j] \in Entry /\ list'[j].id = list[j].id
               /\ list'[j].live = IF list[j].id = c.id THEN FALSE ELSE list[j].live
    <3>1. CASE list[j].id = c.id
      <4>1. list'[j] = [list[j] EXCEPT !.live = FALSE]
        BY <2>1, <3>1
      <4>. QED  BY <1>1, <3>1, <4>1 DEF Entry
    <3>2. CASE list[j].id # c.id
      <4>1. list'[j] = list[j]
        BY <2>1, <3>2
      <4>. QED  BY <1>1, <3>2, <4>1
    <3>. QED  BY <3>1, <3>2
  <2>4. list' \in Seq(Entry)
    BY <1>1, <2>2, <2>3, MappedIs
  <2>. QED  BY <1>4, <2>2, <2>3, <2>4
<1>5. CASE c.alive /\ c.op = "delete"
  <2>. DEFINE at == {j \in DOMAIN list : list[j].id # c.id}
  <2>1. list' = Sift(list, at) /\ at \in SUBSET DOMAIN list
    BY <1>2, <1>5
  <2>2. /\ list' \in Seq(Entry)
        /\ \A k \in DOMAIN list' : \E j \in at : list'[k] = list[j]
        /\ \A j \in at : \E k \in DOMAIN list' : list'[k] = list[j]
        /\ \A k, l \in DOMAIN list' : k < l => \E j, m \in at : j < m /\ list'[k] = list[j] /\ list'[l] = list[m]
    <3>. HIDE DEF at
    <3>. QED  BY <1>1, <2>1, SiftIs
  <2>. QED  BY <1>5, <2>2
<1>6. CASE c.alive /\ c.op = "clear"
  <2>1. list' = <<>>
    BY <1>2, <1>6
  <2>2. <<>> \in Seq(Entry)
    OBVIOUS
  <2>. QED  BY <1>6, <2>1, <2>2
<1>. QED  BY <1>3, <1>4, <1>5, <1>6

LEMMA ListingKept ==
  ASSUME ListingTyped, MarkingTyped, PagesOK, marks \subseteq Marks, [Next]_vars
  PROVE  ListingTyped'
<1>1. CASE UNCHANGED <<page, filter, listing>>
  BY <1>1 DEF ListingTyped, listing
<1>2. ASSUME NEW i \in DOMAIN loads, LoadServed(i) PROVE ListingTyped'
  BY <1>2, LoadServedIs DEF ListingTyped
<1>3. ASSUME NEW i \in DOMAIN loads, LoadArrives(i) PROVE ListingTyped'
  <2>. DEFINE l == loads[i]
  <2>1. /\ loads' \in Seq(Loads) /\ l \in Loads
        /\ UNCHANGED <<page, filter, more, crossed>>
        /\ page = "bookmarks" /\ l.ids = None /\ l.got.ok => UNCHANGED <<list, cursor, hasMore, upto>>
        /\ ~(page = "bookmarks" /\ l.ids = None /\ l.got.ok) =>
               /\ ~l.got.ok => UNCHANGED <<list, cursor, hasMore, upto>>
               /\ l.got.ok => /\ list' = l.got.items /\ upto' = l.got.upto
                              /\ cursor' = l.got.next /\ hasMore' = (l.got.next # None)
    BY <1>3, LoadArrivesIs
  <2>2. l.got \in Answers
    BY <2>1, RecordTypes
  <2>3. l.got.ok => l.got.items \in Seq(Entry) /\ l.got.next \in Polls \cup {None} /\ l.got.upto \in Polls \cup {0}
    BY <2>2, RecordTypes
  <2>. HIDE DEF l
  <2>4. /\ list' \in Seq(Entry) /\ cursor' \in Polls \cup {None} /\ upto' \in Polls \cup {0, None}
    BY <2>1, <2>3 DEF ListingTyped
  <2>5. hasMore' \in BOOLEAN
    <3>1. hasMore' = hasMore \/ hasMore' = (l.got.next # None)
      BY <2>1
    <3>. QED  BY <3>1, Zenon DEF ListingTyped
  <2>. QED  BY <2>1, <2>4, <2>5 DEF ListingTyped
<1>4. CASE loadMore
  <2>1. more' = More(filter, cursor) /\ cursor \in Polls /\ filter \in Filters
    BY <1>4 DEF loadMore, ListingTyped
  <2>2. more' \in Mores
    BY <2>1 DEF More, Mores, Answers
  <2>. QED  BY <1>4, <2>2 DEF ListingTyped, loadMore
<1>5. CASE MoreServed
  BY <1>5, MoreServedIs DEF ListingTyped
<1>6. CASE MoreArrives
  <2>1. more \in Mores /\ more.got \in Answers
    BY <1>6, RecordTypes DEF MoreArrives, ListingTyped
  <2>2. /\ more' = None /\ UNCHANGED <<page, filter, loads, upto, crossed>>
        /\ ~more.got.ok => UNCHANGED <<list, cursor, hasMore>>
        /\ more.got.ok => /\ list' = list \o more.got.items
                          /\ cursor' = more.got.next /\ hasMore' = (more.got.next # None)
    BY <1>6 DEF MoreArrives
  <2>3. CASE ~more.got.ok
    BY <2>2, <2>3 DEF ListingTyped
  <2>4. CASE more.got.ok
    <3>1. more.got.items \in Seq(Entry) /\ more.got.next \in Polls \cup {None} /\ list \in Seq(Entry)
      BY <2>1, <2>4, RecordTypes DEF ListingTyped
    <3>2. list' \in Seq(Entry)
      <4>1. list' = list \o more.got.items
        BY <2>2, <2>4
      <4>2. list \o more.got.items \in Seq(Entry)
        BY <3>1, ConcatIs
      <4>. QED  BY <4>1, <4>2
    <3>3. hasMore' \in BOOLEAN
      BY <2>2, <2>4, Zenon
    <3>. QED  BY <2>2, <2>4, <3>1, <3>2, <3>3 DEF ListingTyped
  <2>. QED  BY <2>3, <2>4
<1>7. ASSUME NEW f \in Filters, SetFilter(f) PROVE ListingTyped'
  <2>1. /\ filter' = f /\ list' = <<>> /\ cursor' = None /\ hasMore' = TRUE /\ UNCHANGED <<page, more>>
        /\ loads' = Append(loads, Load(f)) /\ upto' = None /\ crossed' = (loads # <<>> \/ more # None)
    BY <1>7 DEF SetFilter
  <2>2. loads' \in Seq(Loads)
    BY <2>1, LoadIs, AppendIs DEF ListingTyped
  <2>3. crossed' \in BOOLEAN
    BY <2>1, Zenon
  <2>4. list' \in Seq(Entry)
    BY <2>1
  <2>. QED  BY <2>1, <2>2, <2>3, <2>4 DEF ListingTyped
<1>8. ASSUME NEW p \in Pages, Navigate(p) PROVE ListingTyped'
  <2>1. /\ page' = p /\ filter' = "all" /\ list' = <<>> /\ cursor' = None /\ hasMore' = TRUE
        /\ loads' = Mounts(p) /\ more' = None /\ upto' = None /\ crossed' = FALSE
    BY <1>8 DEF Navigate
  <2>2. loads' \in Seq(Loads)
    BY <2>1, LoadIs DEF Mounts
  <2>3. list' \in Seq(Entry)
    BY <2>1
  <2>. QED  BY <2>1, <2>2, <2>3, LoadIs DEF ListingTyped
<1>9. ASSUME NEW i \in DOMAIN calls, CallAnswers(i) PROVE ListingTyped'
  <2>1. UNCHANGED <<page, filter, cursor, hasMore, loads, more, upto, crossed>>
    BY <1>9 DEF CallAnswers
  <2>2. list' \in Seq(Entry)
    BY <1>9, AnsweredList
  <2>. QED  BY <2>1, <2>2 DEF ListingTyped
<1>. QED  BY <1>1, <1>2, <1>3, <1>4, <1>5, <1>6, <1>7, <1>8, <1>9, ListingMoves

\* What may happen to the server, and to what the history remembers of it.
LEMMA ServerMoves ==
  ASSUME [Next]_vars
  PROVE  \/ UNCHANGED <<server, changed>>
         \/ UNCHANGED server /\ changed' = {}
         \/ \E i \in DOMAIN calls : CallServed(i) \/ CallAnswers(i) \/ CallFails(i)
         \/ OthersChange
<1>1. CASE UNCHANGED vars
  BY <1>1 DEF vars
<1>2. ASSUME NEW i \in DOMAIN loads, LoadServed(i) \/ LoadArrives(i) PROVE UNCHANGED <<server, changed>>
  BY <1>2 DEF LoadServed, LoadArrives
<1>3. CASE loadMore \/ MoreServed \/ MoreArrives
  BY <1>3 DEF loadMore, MoreServed, MoreArrives
<1>4. ASSUME NEW f \in Filters, SetFilter(f) PROVE UNCHANGED server /\ changed' = {}
  BY <1>4 DEF SetFilter
<1>5. ASSUME NEW p \in Pages, Navigate(p) PROVE UNCHANGED server /\ changed' = {}
  BY <1>5 DEF Navigate
<1>6. CASE DialogStep \/ handleCreate
  BY <1>6 DEF DialogStep, handleCreate
<1>7. ASSUME NEW i \in DOMAIN list, handleClosePoll(list[i]) \/ handleDeletePoll(list[i])
      PROVE  UNCHANGED <<server, changed>>
  BY <1>7 DEF handleClosePoll, handleDeletePoll, OwnPollClick
<1>8. ASSUME NEW p \in Marks, handleBookmarkToggle(p) PROVE UNCHANGED <<server, changed>>
  BY <1>8 DEF handleBookmarkToggle
<1>9. CASE TimerFires \/ BookmarksClick
  BY <1>9 DEF TimerFires, BookmarksClick
<1>10. CASE CommentClick \/ CommentAnswers
  BY <1>10 DEF CommentClick, CommentAnswers
<1>. QED  BY <1>1, <1>2, <1>3, <1>4, <1>5, <1>6, <1>7, <1>8, <1>9, <1>10 DEF Next


\* What the requests change on the server.
LEMMA CallServedIs ==
  ASSUME ServerTyped, MarkingTyped, CallsOK, NEW i \in DOMAIN calls, CallServed(i), NEW c, c = calls[i]
  PROVE  /\ c \in Calls /\ c.stage = "sent" /\ CallOK(c)
         /\ calls' \in Seq(Calls) /\ DOMAIN calls' = DOMAIN calls /\ Len(calls') = Len(calls)
         /\ \A k \in DOMAIN calls : k # i => calls'[k] = calls[k]
         /\ calls'[i].op = c.op /\ calls'[i].id = c.id /\ calls'[i].flag = c.flag /\ calls'[i].alive = c.alive
         /\ UNCHANGED <<page, filter, listing, marking, dialog, clicks>>
         /\ \/ calls'[i].stage = "failed" /\ UNCHANGED <<polls, marks, changed>>
            \/ /\ calls'[i].stage = "done" /\ Accepts(c)
               /\ marks' = CASE c.op = "mark"  -> marks \cup {c.id}
                             [] c.op = "clear" -> {}
                             [] OTHER          -> marks
               /\ polls' = CASE c.op = "create" -> [polls EXCEPT ![Next_id] = "live"]
                             [] c.op \in {"close", "delete"} /\ c.id \in Listed -> [polls EXCEPT ![c.id] = Gone(c.op)]
                             [] OTHER -> polls
               /\ changed' = changed \cup (IF c.op \in {"close", "delete"} THEN {c.id} ELSE {})
<1>1. calls \in Seq(Calls) /\ c \in Calls /\ CallOK(c)
  BY DEF MarkingTyped, CallsOK
<1>2. c.stage = "sent" /\ UNCHANGED <<page, filter, listing, marking, dialog, clicks>>
  BY DEF CallServed
<1>3. ASSUME NEW st \in {"done", "failed"}, calls' = [calls EXCEPT ![i].stage = st]
      PROVE  /\ calls' \in Seq(Calls) /\ DOMAIN calls' = DOMAIN calls /\ Len(calls') = Len(calls)
             /\ \A k \in DOMAIN calls : k # i => calls'[k] = calls[k]
             /\ calls'[i].op = c.op /\ calls'[i].id = c.id /\ calls'[i].flag = c.flag /\ calls'[i].alive = c.alive
             /\ calls'[i].stage = st
  <2>1. /\ DOMAIN calls' = DOMAIN calls /\ calls' = [k \in DOMAIN calls' |-> calls'[k]]
        /\ calls'[i] = [calls[i] EXCEPT !.stage = st] /\ \A k \in DOMAIN calls : k # i => calls'[k] = calls[k]
    BY <1>3
  <2>2. /\ calls'[i] \in Calls /\ calls'[i].stage = st
        /\ calls'[i].op = c.op /\ calls'[i].id = c.id /\ calls'[i].flag = c.flag /\ calls'[i].alive = c.alive
    BY <1>1, <2>1 DEF Calls
  <2>3. \A k \in DOMAIN calls : calls'[k] \in Calls
    BY <1>1, <2>1, <2>2
  <2>4. calls' \in Seq(Calls) /\ Len(calls') = Len(calls)
    BY <1>1, <2>1, <2>3, MappedIs
  <2>. QED  BY <2>1, <2>2, <2>4
<1>4. CASE calls' = [calls EXCEPT ![i].stage = "failed"] /\ UNCHANGED <<server, changed>>
  <2>1. UNCHANGED <<polls, marks, changed>>
    BY <1>4 DEF server
  <2>. QED  BY <1>1, <1>2, <1>3, <1>4, <2>1
<1>5. CASE /\ Accepts(c) /\ calls' = [calls EXCEPT ![i].stage = "done"]
           /\ marks' = CASE c.op = "mark"  -> marks \cup {c.id}
                         [] c.op = "clear" -> {}
                         [] OTHER          -> marks
           /\ polls' = CASE c.op = "create" -> [polls EXCEPT ![Next_id] = "live"]
                         [] c.op \in {"close", "delete"} /\ c.id \in Listed -> [polls EXCEPT ![c.id] = Gone(c.op)]
                         [] OTHER -> polls
           /\ changed' = changed \cup (IF c.op \in {"close", "delete"} THEN {c.id} ELSE {})
  BY <1>1, <1>2, <1>3, <1>5
<1>. QED  BY <1>4, <1>5 DEF CallServed

\* The server after a request was served: what there is stays, but for what it closes or deletes.
LEMMA ServedPolls ==
  ASSUME ServerTyped, MarkingTyped, CallsOK, NEW i \in DOMAIN calls, CallServed(i), NEW c, c = calls[i]
  PROVE  /\ polls' \in [Polls -> {"none", "live", "closed", "gone"}] /\ marks' \subseteq Marks
         /\ changed \subseteq changed' /\ changed' \subseteq Polls
         /\ \A p \in Polls : \/ polls'[p] = polls[p]
                             \/ /\ p \in changed' /\ c.op \in {"close", "delete"} /\ p = c.id /\ p \in Listed
                                /\ polls'[p] = Gone(c.op) /\ calls'[i].stage = "done"
                             \/ p > Newest /\ polls[p] = "none" /\ polls'[p] = "live" /\ p \in Mine /\ c.op = "create"
         /\ \A p \in Marks : (p \in marks') # (p \in marks) =>
               /\ calls'[i].stage = "done"
               /\ \/ c.op = "mark" /\ p = c.id /\ c.flag /\ p \in marks'
                  \/ c.op = "clear" /\ marks' = {}
         /\ calls'[i].stage = "done" /\ c.op = "mark" => c.flag /\ c.id \in marks'
         /\ calls'[i].stage = "done" /\ c.op = "clear" => marks' = {}
         /\ calls'[i].stage = "done" /\ c.op = "delete" => polls'[c.id] = "gone"
         /\ calls'[i].stage = "done" /\ c.op = "close" => polls'[c.id] # "live"
         /\ changed' \subseteq changed \cup (IF c.op \in {"close", "delete"} THEN {c.id} ELSE {})
<1>1. /\ c \in Calls /\ CallOK(c) /\ polls \in [Polls -> {"none", "live", "closed", "gone"}]
      /\ c.op \in {"mark", "clear", "close", "delete", "create", "refresh"} /\ marks \subseteq Marks
      /\ c.op = "mark" => c.id \in Marks
      /\ c.op \in {"close", "delete"} => c.id \in Polls
      /\ changed \subseteq Polls
  BY CallServedIs, RecordTypes DEF ServerTyped, CallOK
<1>2. CASE calls'[i].stage = "failed" /\ UNCHANGED <<polls, marks, changed>>
  BY <1>1, <1>2
<1>. DEFINE Done ==
       /\ calls'[i].stage = "done" /\ Accepts(c)
       /\ marks' = CASE c.op = "mark"  -> marks \cup {c.id}
                     [] c.op = "clear" -> {}
                     [] OTHER          -> marks
       /\ polls' = CASE c.op = "create" -> [polls EXCEPT ![Next_id] = "live"]
                     [] c.op \in {"close", "delete"} /\ c.id \in Listed -> [polls EXCEPT ![c.id] = Gone(c.op)]
                     [] OTHER -> polls
       /\ changed' = changed \cup (IF c.op \in {"close", "delete"} THEN {c.id} ELSE {})
<1>3. CASE Done /\ c.op = "mark"
  <2>1. marks' = marks \cup {c.id} /\ polls' = polls /\ changed' = changed /\ c.flag
    BY <1>3 DEF Accepts
  <2>. QED  BY <1>1, <1>3, <2>1
<1>4. CASE Done /\ c.op = "clear"
  <2>1. marks' = {} /\ polls' = polls /\ changed' = changed
    BY <1>4
  <2>. QED  BY <1>1, <1>4, <2>1
<1>5. CASE Done /\ c.op \in {"close", "delete"} /\ c.id \in Listed
  <2>1. marks' = marks /\ polls' = [polls EXCEPT ![c.id] = Gone(c.op)] /\ changed' = changed \cup {c.id}
    BY <1>5
  <2>2. /\ Gone(c.op) \in {"closed", "gone"} /\ Gone(c.op) # "live"
        /\ c.op = "delete" => Gone(c.op) = "gone"
    BY DEF Gone
  <2>. QED  BY <1>1, <1>5, <2>1, <2>2
<1>6. CASE Done /\ c.op \in {"close", "delete"} /\ c.id \notin Listed
  <2>1. marks' = marks /\ polls' = polls /\ changed' = changed \cup {c.id} /\ c.op = "close"
    BY <1>6 DEF Accepts
  <2>2. polls[c.id] # "live"
    BY <1>1, <1>6 DEF Listed
  <2>. QED  BY <1>1, <1>6, <2>1, <2>2
<1>7. CASE Done /\ c.op = "create"
  <2>1. /\ marks' = marks /\ polls' = [polls EXCEPT ![Next_id] = "live"] /\ changed' = changed
        /\ Next_id # None /\ Next_id \in Mine
    BY <1>7 DEF Accepts
  <2>2. Next_id \in Polls /\ Next_id > Newest
    BY <2>1, NewestIs
  <2>3. polls[Next_id] = "none"
    <3>1. Next_id \in Nat /\ Newest \in Nat
      BY <2>2, PollsAre, NewestIs
    <3>2. ~(Next_id <= Newest)
      BY <2>2, <3>1
    <3>. QED  BY <2>2, <3>2, NewestIs
  <2>. QED  BY <1>1, <1>7, <2>1, <2>2, <2>3
<1>8. CASE Done /\ c.op = "refresh"
  <2>1. marks' = marks /\ polls' = polls /\ changed' = changed
    BY <1>8
  <2>. QED  BY <1>1, <1>8, <2>1
<1>9. (calls'[i].stage = "failed" /\ UNCHANGED <<polls, marks, changed>>) \/ Done
  BY CallServedIs
<1>. HIDE DEF Done
<1>. QED  BY <1>1, <1>2, <1>3, <1>4, <1>5, <1>6, <1>7, <1>8, <1>9


\* A request has been answered: it goes, and the creation of a poll is followed by a load.
LEMMA AnsweredCalls ==
  ASSUME MarkingTyped, NEW i \in DOMAIN calls, CallAnswers(i) \/ CallFails(i)
  PROVE  /\ calls' \in Seq(Calls)
         /\ \A k \in DOMAIN calls' : \/ \E j \in DOMAIN calls : j # i /\ calls'[k] = calls[j]
                                     \/ /\ calls'[k].op = "refresh" /\ calls[i].op = "create" /\ CallAnswers(i)
         /\ \A j \in DOMAIN calls : j # i => \E k \in DOMAIN calls' : calls'[k] = calls[j]
         /\ \A k, l \in DOMAIN calls' : k # l /\ calls'[k].op # "refresh" /\ calls'[l].op # "refresh" =>
               \E j, m \in DOMAIN calls : j # m /\ j # i /\ m # i /\ calls'[k] = calls[j] /\ calls'[l] = calls[m]
<1>1. calls \in Seq(Calls) /\ \A k \in DOMAIN calls : calls[k] \in Calls
  BY DEF MarkingTyped
<1>2. CASE calls' = RemoveAt(calls, i)
  <2>1. RemoveAt(calls, i) \in Seq(Calls)
    BY <1>1, RemoveAtIs
  <2>2. /\ \A j \in DOMAIN calls' : \E k \in DOMAIN calls : k # i /\ calls'[j] = calls[k]
        /\ \A k \in DOMAIN calls : k # i => \E j \in DOMAIN calls' : calls'[j] = calls[k]
        /\ \A j, l \in DOMAIN calls' : j # l =>
              \E k, m \in DOMAIN calls : k # m /\ k # i /\ m # i /\ calls'[j] = calls[k] /\ calls'[l] = calls[m]
    BY <1>1, <1>2, <2>1, OthersStay
  <2>. QED  BY <1>2, <2>1, <2>2
<1>3. CASE calls[i].op = "create" /\ CallAnswers(i) /\ calls' = [calls EXCEPT ![i] = Call("refresh", None, FALSE)]
  <2>. DEFINE e == Call("refresh", None, FALSE)
  <2>1. e \in Calls /\ e.op = "refresh"
    BY DEF Call, Calls
  <2>2. calls' = [calls EXCEPT ![i] = e]
    BY <1>3
  <2>. HIDE DEF e
  <2>3. /\ DOMAIN calls' = DOMAIN calls /\ calls' = [k \in DOMAIN calls' |-> calls'[k]] /\ calls'[i] = e
        /\ \A k \in DOMAIN calls : k # i => calls'[k] = calls[k]
    BY <2>2
  <2>4. \A k \in DOMAIN calls : calls'[k] \in Calls
    BY <1>1, <2>1, <2>3
  <2>5. calls' \in Seq(Calls)
    BY <1>1, <2>3, <2>4, MappedIs
  <2>6. \A k \in DOMAIN calls' : k # i \/ calls'[k].op = "refresh"
    BY <2>1, <2>3
  <2>7. \A k \in DOMAIN calls' : \/ \E j \in DOMAIN calls : j # i /\ calls'[k] = calls[j]
                                 \/ calls'[k].op = "refresh"
    BY <2>3, <2>6
  <2>8. \A j \in DOMAIN calls : j # i => \E k \in DOMAIN calls' : calls'[k] = calls[j]
    BY <2>3
  <2>9. \A k, l \in DOMAIN calls' : k # l /\ calls'[k].op # "refresh" /\ calls'[l].op # "refresh" =>
            \E j, m \in DOMAIN calls : j # m /\ j # i /\ m # i /\ calls'[k] = calls[j] /\ calls'[l] = calls[m]
    BY <2>3, <2>6
  <2>. QED  BY <1>3, <2>5, <2>7, <2>8, <2>9
<1>4. CASE CallAnswers(i)
  <2>1. calls' = Followed(i)
    BY <1>4 DEF CallAnswers
  <2>. QED  BY <1>2, <1>3, <1>4, <2>1 DEF Followed
<1>5. CASE CallFails(i)
  BY <1>2, <1>5 DEF CallFails
<1>. QED  BY <1>4, <1>5

\* The timers after an answer.
LEMMA ReleasedTimers ==
  ASSUME MarkingTyped, NEW c, timers' = Released(c)
  PROVE  /\ timers' \in Seq(Timers) /\ DOMAIN timers' = DOMAIN timers
         /\ \A k \in DOMAIN timers : /\ timers'[k].id = timers[k].id /\ timers'[k].flag = timers[k].flag
                                     /\ timers'[k].alive = timers[k].alive
<1>. DEFINE h(k) == timers[k].held /\ ~(page = "home" /\ c.alive /\ c.op = "mark" /\ timers[k].id = c.id)
<1>1. timers \in Seq(Timers) /\ \A k \in DOMAIN timers : timers[k] \in Timers
  BY DEF MarkingTyped
<1>2. timers' = [k \in DOMAIN timers |-> [timers[k] EXCEPT !.held = h(k)]]
  BY DEF Released
<1>3. \A k : h(k) \in BOOLEAN
  OBVIOUS
<1>. HIDE DEF h
<1>4. DOMAIN timers' = DOMAIN timers /\ timers' = [k \in DOMAIN timers' |-> timers'[k]]
  BY <1>2
<1>5. \A k \in DOMAIN timers :
          /\ timers'[k] \in Timers /\ timers'[k].id = timers[k].id /\ timers'[k].flag = timers[k].flag
          /\ timers'[k].alive = timers[k].alive
  BY <1>1, <1>2, <1>3 DEF Timers
<1>6. timers' \in Seq(Timers)
  BY <1>1, <1>4, <1>5, MappedIs
<1>. QED  BY <1>4, <1>5, <1>6

\* The timers and the requests of a page that is left.
LEMMA LeftBehind ==
  ASSUME MarkingTyped, NEW p \in Pages, Navigate(p)
  PROVE  /\ timers' \in Seq(Timers) /\ \A k \in DOMAIN timers' : timers'[k].alive = FALSE
         /\ calls' \in Seq(Calls) /\ DOMAIN calls' = DOMAIN calls /\ Len(calls') = Len(calls)
         /\ \A k \in DOMAIN calls : /\ calls'[k].op = calls[k].op /\ calls'[k].id = calls[k].id
                                    /\ calls'[k].flag = calls[k].flag /\ calls'[k].stage = calls[k].stage
                                    /\ calls'[k].alive => calls[k].alive /\ calls[k].op \in {"create", "refresh"}
<1>1. /\ timers \in Seq(Timers) /\ calls \in Seq(Calls) /\ \A k \in DOMAIN calls : calls[k] \in Calls
      /\ timers' = Unmounted(timers)
      /\ calls' = [i \in DOMAIN calls |-> [calls[i] EXCEPT !.alive = @ /\ calls[i].op \in {"create", "refresh"}]]
  BY DEF MarkingTyped, Navigate
<1>2. timers' \in Seq(Timers) /\ \A k \in DOMAIN timers' : timers'[k].alive = FALSE
  <2>. DEFINE at == {i \in DOMAIN timers : ~timers[i].held}
              loose == Sift(timers, at)
  <2>1. at \in SUBSET DOMAIN timers /\ timers' = [i \in DOMAIN loose |-> [loose[i] EXCEPT !.alive = FALSE]]
    BY <1>1 DEF Unmounted
  <2>2. loose \in Seq(Timers)
    <3>. HIDE DEF at
    <3>. QED  BY <1>1, <2>1, SiftIs
  <2>. HIDE DEF loose
  <2>3. DOMAIN timers' = DOMAIN loose /\ timers' = [k \in DOMAIN timers' |-> timers'[k]]
    BY <2>1
  <2>4. \A k \in DOMAIN loose : loose[k] \in Timers /\ timers'[k] = [loose[k] EXCEPT !.alive = FALSE]
    BY <2>1, <2>2
  <2>5. \A k \in DOMAIN loose : timers'[k] \in Timers /\ timers'[k].alive = FALSE
    BY <2>4 DEF Timers
  <2>6. timers' \in Seq(Timers)
    BY <2>2, <2>3, <2>5, MappedIs
  <2>. QED  BY <2>3, <2>5, <2>6
<1>. DEFINE a(k) == calls[k].alive /\ calls[k].op \in {"create", "refresh"}
<1>3. DOMAIN calls' = DOMAIN calls /\ calls' = [k \in DOMAIN calls' |-> calls'[k]]
  BY <1>1
<1>4. \A k \in DOMAIN calls : calls'[k] = [calls[k] EXCEPT !.alive = a(k)]
  BY <1>1
<1>5. \A k : a(k) \in BOOLEAN
  OBVIOUS
<1>. HIDE DEF a
<1>6. \A k \in DOMAIN calls : /\ calls'[k] \in Calls /\ calls'[k].op = calls[k].op /\ calls'[k].id = calls[k].id
                              /\ calls'[k].flag = calls[k].flag /\ calls'[k].stage = calls[k].stage
                              /\ calls'[k].alive = a(k)
  BY <1>1, <1>4, <1>5 DEF Calls
<1>7. calls' \in Seq(Calls) /\ Len(calls') = Len(calls)
  <2>1. calls \in Seq(Calls)
    BY <1>1
  <2>2. \A k \in DOMAIN calls : calls'[k] \in Calls
    BY <1>6
  <2>. QED  BY <1>3, <2>1, <2>2, MappedIs
<1>8. \A k \in DOMAIN calls : a(k) => calls[k].alive /\ calls[k].op \in {"create", "refresh"}
  BY DEF a
<1>. QED  BY <1>2, <1>3, <1>6, <1>7, <1>8


\* What others may do to the polls.
LEMMA OthersPolls ==
  ASSUME ServerTyped, OthersChange
  PROVE  /\ polls' \in [Polls -> {"none", "live", "closed", "gone"}] /\ marks' = marks
         /\ changed \subseteq changed' /\ changed' \subseteq Polls
         /\ \A p \in Polls : \/ polls'[p] = polls[p]
                             \/ p \in changed' /\ p \in Listed /\ p \notin Mine /\ polls'[p] \in {"closed", "gone"}
                             \/ p > Newest /\ polls[p] = "none" /\ polls'[p] = "live" /\ p \notin Mine
         /\ UNCHANGED <<page, filter, listing, marking, calls>>
<1>0. /\ polls \in [Polls -> {"none", "live", "closed", "gone"}] /\ changed \subseteq Polls /\ marks' = marks
      /\ UNCHANGED <<page, filter, listing, marking, calls>>
  BY DEF ServerTyped, OthersChange
<1>1. CASE Next_id # None /\ Next_id \notin Mine /\ polls' = [polls EXCEPT ![Next_id] = "live"] /\ changed' = changed
  <2>1. Next_id \in Polls /\ Next_id > Newest /\ polls[Next_id] = "none"
    <3>1. Next_id \in Polls /\ Next_id > Newest /\ Newest \in Nat /\ Next_id \in Nat
      BY <1>1, NewestIs, ListsAssumption
    <3>2. ~(Next_id <= Newest)
      BY <3>1
    <3>. QED  BY <3>1, <3>2, NewestIs
  <2>. QED  BY <1>0, <1>1, <2>1
<1>2. CASE \E p \in Listed \ Mine : \E to \in {"closed", "gone"} \ {polls[p]} :
              polls' = [polls EXCEPT ![p] = to] /\ changed' = changed \cup {p}
  <2>1. PICK p \in Listed \ Mine, to \in {"closed", "gone"} :
              polls' = [polls EXCEPT ![p] = to] /\ changed' = changed \cup {p}
    BY <1>2
  <2>2. p \in Polls
    BY DEF Listed
  <2>. QED  BY <1>0, <2>1, <2>2
<1>. QED  BY <1>0, <1>1, <1>2 DEF OthersChange

\* A poll that is gone stays so, and one that was made is there for good.
LEMMA GoneStays ==
  ASSUME ServerTyped, MarkingTyped, CallsOK, [Next]_vars
  PROVE  \A p \in Polls : /\ polls[p] = "gone" => polls'[p] = "gone"
                          /\ polls[p] # "none" => polls'[p] # "none"
<1>. SUFFICES ASSUME NEW p \in Polls
              PROVE  /\ polls[p] = "gone" => polls'[p] = "gone"
                     /\ polls[p] # "none" => polls'[p] # "none"
  OBVIOUS
<1>1. p \in Listed => polls[p] # "gone"
  BY DEF Listed
<1>2. CASE UNCHANGED server
  BY <1>2 DEF server
<1>3. ASSUME NEW i \in DOMAIN calls, CallServed(i)
      PROVE  /\ polls[p] = "gone" => polls'[p] = "gone"
             /\ polls[p] # "none" => polls'[p] # "none"
  <2>1. \/ polls'[p] = polls[p]
        \/ p \in Listed /\ polls'[p] = Gone(calls[i].op)
        \/ polls[p] = "none" /\ polls'[p] = "live"
    BY <1>3, ServedPolls
  <2>. QED  BY <1>1, <2>1 DEF Gone
<1>4. CASE OthersChange
  BY <1>1, <1>4, OthersPolls
<1>. QED  BY <1>2, <1>3, <1>4, ServerMoves DEF CallAnswers, CallFails

LEMMA ServerKept ==
  ASSUME ServerTyped, MarkingTyped, CallsOK, [Next]_vars
  PROVE  ServerTyped'
<1>0. MaxClicks \in Nat /\ clicks \in 0..MaxClicks
  BY ListsAssumption DEF ServerTyped
<1>1. polls' \in [Polls -> {"none", "live", "closed", "gone"}] /\ marks' \subseteq Marks /\ changed' \subseteq Polls
  <2>1. CASE UNCHANGED <<server, changed>>
    BY <2>1 DEF ServerTyped, server
  <2>2. CASE UNCHANGED server /\ changed' = {}
    BY <2>2 DEF ServerTyped, server
  <2>3. ASSUME NEW i \in DOMAIN calls, CallServed(i)
        PROVE  polls' \in [Polls -> {"none", "live", "closed", "gone"}] /\ marks' \subseteq Marks /\ changed' \subseteq Polls
    BY <2>3, ServedPolls
  <2>4. ASSUME NEW i \in DOMAIN calls, CallAnswers(i)
        PROVE  polls' \in [Polls -> {"none", "live", "closed", "gone"}] /\ marks' \subseteq Marks /\ changed' \subseteq Polls
    BY <2>4 DEF CallAnswers, ServerTyped, server
  <2>5. ASSUME NEW i \in DOMAIN calls, CallFails(i)
        PROVE  polls' \in [Polls -> {"none", "live", "closed", "gone"}] /\ marks' \subseteq Marks /\ changed' \subseteq Polls
    <3>1. calls[i].op \in {"close", "delete"} => calls[i].id \in Polls
      BY DEF CallsOK, CallOK
    <3>. QED  BY <2>5, <3>1 DEF CallFails, ServerTyped, server
  <2>6. CASE OthersChange
    BY <2>6, OthersPolls DEF ServerTyped
  <2>. QED  BY <2>1, <2>2, <2>3, <2>4, <2>5, <2>6, ServerMoves
<1>. DEFINE Dialogs == [open: BOOLEAN, text: {"blank", "partial", "complete"}, busy: BOOLEAN]
            Good == (clicks' = clicks \/ Click) /\ dialog' \in Dialogs
<1>2. dialog \in Dialogs /\ Closed \in Dialogs
  BY DEF ServerTyped, Closed
<1>3. /\ \A b \in BOOLEAN : [dialog EXCEPT !.open = b] \in Dialogs /\ [dialog EXCEPT !.busy = b] \in Dialogs
      /\ \A t \in {"blank", "partial", "complete"} : [dialog EXCEPT !.text = t] \in Dialogs
  BY <1>2
<1>4. Good
  <2>. HIDE DEF Dialogs
  <2>1. CASE UNCHANGED vars
    BY <1>2, <2>1 DEF vars
  <2>2. ASSUME NEW i \in DOMAIN loads, LoadServed(i) \/ LoadArrives(i) PROVE Good
    BY <1>2, <2>2 DEF LoadServed, LoadArrives
  <2>3. CASE loadMore \/ MoreServed \/ MoreArrives
    BY <1>2, <2>3 DEF loadMore, MoreServed, MoreArrives
  <2>4. ASSUME NEW f \in Filters, SetFilter(f) PROVE Good
    BY <1>2, <2>4 DEF SetFilter
  <2>5. ASSUME NEW p \in Pages, Navigate(p) PROVE Good
    BY <1>2, <2>5 DEF Navigate
  <2>6. CASE DialogStep
    BY <1>2, <1>3, <2>6 DEF DialogStep, OpenDialog, HideDialog, handleCancel, EditDialog
  <2>7. CASE handleCreate
    BY <1>3, <2>7 DEF handleCreate
  <2>8. ASSUME NEW i \in DOMAIN list, handleClosePoll(list[i]) \/ handleDeletePoll(list[i]) PROVE Good
    BY <1>2, <2>8 DEF handleClosePoll, handleDeletePoll, OwnPollClick
  <2>9. ASSUME NEW p \in Marks, handleBookmarkToggle(p) PROVE Good
    BY <1>2, <2>9 DEF handleBookmarkToggle
  <2>10. CASE TimerFires \/ BookmarksClick
    BY <1>2, <2>10 DEF TimerFires, BookmarksClick
  <2>11. ASSUME NEW i \in DOMAIN calls, CallServed(i) PROVE Good
    BY <1>2, <2>11 DEF CallServed
  <2>12. ASSUME NEW i \in DOMAIN calls, CallAnswers(i) PROVE Good
    <3>1. clicks' = clicks /\ (dialog' = Closed \/ dialog' = dialog)
      BY <2>12 DEF CallAnswers
    <3>. QED  BY <1>2, <3>1
  <2>13. ASSUME NEW i \in DOMAIN calls, CallFails(i) PROVE Good
    <3>1. clicks' = clicks /\ (dialog' = [dialog EXCEPT !.busy = FALSE] \/ dialog' = dialog)
      BY <2>13 DEF CallFails
    <3>. QED  BY <1>2, <1>3, <3>1
  <2>14. CASE OthersChange
    BY <1>2, <2>14 DEF OthersChange
  <2>15. CASE CommentClick \/ CommentAnswers
    BY <1>2, <2>15 DEF CommentClick, CommentAnswers
  <2>. HIDE DEF Good
  <2>. QED  BY <2>1, <2>2, <2>3, <2>4, <2>5, <2>6, <2>7, <2>8, <2>9, <2>10, <2>11, <2>12, <2>13, <2>14, <2>15 DEF Next
<1>5. clicks' \in 0..MaxClicks
  BY <1>0, <1>4 DEF Click
<1>. QED  BY <1>1, <1>4, <1>5 DEF ServerTyped

\* What may happen to the bookmarks and the requests.
LEMMA MarkingMoves ==
  ASSUME [Next]_vars
  PROVE  \/ UNCHANGED <<marking, calls>>
         \/ \E i \in DOMAIN loads : LoadArrives(i)
         \/ \E f \in Filters : SetFilter(f)
         \/ \E p \in Pages : Navigate(p)
         \/ handleCreate
         \/ \E i \in DOMAIN list : handleClosePoll(list[i]) \/ handleDeletePoll(list[i])
         \/ \E p \in Marks : handleBookmarkToggle(p)
         \/ TimerFires \/ BookmarksClick
         \/ \E i \in DOMAIN calls : CallServed(i) \/ CallAnswers(i) \/ CallFails(i)
<1>1. CASE UNCHANGED vars
  BY <1>1 DEF vars
<1>2. ASSUME NEW i \in DOMAIN loads, LoadServed(i) PROVE UNCHANGED <<marking, calls>>
  BY <1>2 DEF LoadServed
<1>3. CASE loadMore \/ MoreServed \/ MoreArrives
  BY <1>3 DEF loadMore, MoreServed, MoreArrives
<1>4. CASE DialogStep \/ OthersChange
  BY <1>4 DEF DialogStep, OthersChange
<1>5. CASE CommentClick \/ CommentAnswers
  BY <1>5 DEF CommentClick, CommentAnswers
<1>. QED  BY <1>1, <1>2, <1>3, <1>4, <1>5 DEF Next

LEMMA OnIs ==
  ASSUME MarkingTyped
  PROVE  /\ Toggling \subseteq Marks \cup (Polls \cup {None})
         /\ CallsOK => Toggling \subseteq Marks
         /\ \A p : p \in Toggling <=> \/ \E i \in DOMAIN calls : calls[i].op = "mark" /\ calls[i].id = p
                                      \/ \E i \in DOMAIN timers : timers[i].id = p
                                      \/ Clears(calls) /\ p \in Marks
<1>1. /\ timers \in Seq(Timers) /\ calls \in Seq(Calls)
      /\ \A i \in DOMAIN timers : timers[i].id \in Marks
      /\ \A i \in DOMAIN calls : calls[i].id \in Polls \cup {None}
  <2>1. timers \in Seq(Timers) /\ calls \in Seq(Calls)
    BY DEF MarkingTyped
  <2>2. /\ \A i \in DOMAIN timers : timers[i] \in Timers
        /\ \A i \in DOMAIN calls : calls[i] \in Calls
    BY <2>1
  <2>. QED  BY <2>1, <2>2, RecordTypes
<1>2. \A p : p \in Toggling <=> \/ \E i \in DOMAIN calls : calls[i].op = "mark" /\ calls[i].id = p
                                \/ \E i \in DOMAIN timers : timers[i].id = p
                                \/ Clears(calls) /\ p \in Marks
  BY DEF Toggling, On, Clears
<1>3. CallsOK => \A i \in DOMAIN calls : calls[i].op = "mark" => calls[i].id \in Marks
  BY DEF CallsOK, CallOK
<1>. QED  BY <1>1, <1>2, <1>3


LEMMA CallIs ==
  \A op \in {"mark", "clear", "close", "delete", "create", "refresh"}, p \in Polls \cup {None}, f, b \in BOOLEAN :
      LET c == Call(op, p, f)
          d == [c EXCEPT !.alive = b]
      IN  /\ c \in Calls /\ c.op = op /\ c.id = p /\ c.flag = f /\ c.alive = TRUE /\ c.stage = "sent"
          /\ d \in Calls /\ d.op = op /\ d.id = p /\ d.flag = f /\ d.alive = b /\ d.stage = "sent"
  BY DEF Call, Calls

\* A bookmark is clicked: its timer, if one is known, makes way for another.
LEMMA ToggledTimers ==
  ASSUME MarkingTyped, NEW p \in Marks, handleBookmarkToggle(p)
  PROVE  /\ timers' \in Seq(Timers)
         /\ \E n \in DOMAIN timers' :
               /\ timers'[n].id = p /\ timers'[n].flag = (p \notin marked) /\ timers'[n].alive = TRUE
               /\ \A k \in DOMAIN timers' : k # n => \E j \in DOMAIN timers : timers'[k] = timers[j]
               /\ \A k, l \in DOMAIN timers' : k # l /\ k # n /\ l # n =>
                     \E j, m \in DOMAIN timers : j # m /\ timers'[k] = timers[j] /\ timers'[l] = timers[m]
         /\ \A j \in DOMAIN timers : timers[j].id # p => \E k \in DOMAIN timers' : timers'[k] = timers[j]
<1>. DEFINE at == {i \in DOMAIN timers : ~(timers[i].held /\ timers[i].id = p)}
            s == Sift(timers, at)
            flag == p \notin marked
            new == [id |-> p, flag |-> flag, held |-> TRUE, alive |-> TRUE]
<1>1. timers' = Append(s, new)
  BY DEF handleBookmarkToggle
<1>2. timers \in Seq(Timers) /\ at \in SUBSET DOMAIN timers
  BY DEF MarkingTyped
<1>3. /\ s \in Seq(Timers)
      /\ \A k \in DOMAIN s : \E i \in at : s[k] = timers[i]
      /\ \A i \in at : \E k \in DOMAIN s : s[k] = timers[i]
      /\ \A k, l \in DOMAIN s : k < l => \E i, j \in at : i < j /\ s[k] = timers[i] /\ s[l] = timers[j]
  <2>. HIDE DEF at
  <2>. QED  BY <1>2, SiftIs
<1>4. flag \in BOOLEAN
  OBVIOUS
<1>. HIDE DEF flag, s
<1>5. new \in Timers /\ new.id = p /\ new.flag = flag /\ new.alive = TRUE
  BY <1>4 DEF Timers
<1>. HIDE DEF new
<1>6. /\ timers' \in Seq(Timers) /\ timers'[Len(s) + 1] = new
      /\ \A k \in DOMAIN timers' : (k \in DOMAIN s /\ timers'[k] = s[k]) \/ (k = Len(s) + 1 /\ k \notin DOMAIN s /\ timers'[k] = new)
      /\ Len(s) + 1 \in DOMAIN timers'
      /\ \A k \in DOMAIN s : k \in DOMAIN timers' /\ timers'[k] = s[k]
  BY <1>1, <1>3, <1>5, AppendIs
<1>7. \A k \in DOMAIN timers' : k # Len(s) + 1 => k \in DOMAIN s /\ timers'[k] = s[k]
  BY <1>6
<1>8. \A k, l \in DOMAIN s : k # l => \E j, m \in DOMAIN timers : j # m /\ s[k] = timers[j] /\ s[l] = timers[m]
  <2>. SUFFICES ASSUME NEW k \in DOMAIN s, NEW l \in DOMAIN s, k # l
                PROVE  \E j, m \in DOMAIN timers : j # m /\ s[k] = timers[j] /\ s[l] = timers[m]
    OBVIOUS
  <2>1. DOMAIN s = 1..Len(s) /\ Len(s) \in Nat /\ DOMAIN timers = 1..Len(timers) /\ Len(timers) \in Nat
    BY <1>2, <1>3
  <2>2. k < l \/ l < k
    BY <2>1
  <2>3. \A i, j \in at : i < j => i \in DOMAIN timers /\ j \in DOMAIN timers /\ i # j
    BY <2>1
  <2>4. CASE k < l
    BY <1>3, <2>3, <2>4
  <2>5. CASE l < k
    BY <1>3, <2>3, <2>5
  <2>. QED  BY <2>2, <2>4, <2>5
<1>9. \A k, l \in DOMAIN timers' : k # l /\ k # Len(s) + 1 /\ l # Len(s) + 1 =>
          \E j, m \in DOMAIN timers : j # m /\ timers'[k] = timers[j] /\ timers'[l] = timers[m]
  BY <1>7, <1>8
<1>10. \A k \in DOMAIN timers' : k # Len(s) + 1 => \E j \in DOMAIN timers : timers'[k] = timers[j]
  BY <1>3, <1>7
<1>11. \A j \in DOMAIN timers : timers[j].id # p => \E k \in DOMAIN timers' : timers'[k] = timers[j]
  <2>1. \A j \in DOMAIN timers : timers[j].id # p => j \in at
    OBVIOUS
  <2>. HIDE DEF at
  <2>. QED  BY <1>3, <1>6, <2>1
<1>. QED  BY <1>5, <1>6, <1>9, <1>10, <1>11 DEF flag

\* A timer fires: it becomes a request.
LEMMA FiredTimer ==
  ASSUME MarkingTyped, TimerFires
  PROVE  /\ timers' \in Seq(Timers) /\ calls' \in Seq(Calls)
         /\ 1 \in DOMAIN timers
         /\ \A k \in DOMAIN timers' : k + 1 \in DOMAIN timers /\ k + 1 # 1 /\ timers'[k] = timers[k + 1]
         /\ \A k \in DOMAIN timers : k = 1 \/ (k - 1 \in DOMAIN timers' /\ timers'[k - 1] = timers[k])
         /\ \A k \in DOMAIN calls : k \in DOMAIN calls' /\ calls'[k] = calls[k]
         /\ Len(calls) + 1 \in DOMAIN calls' /\ Len(calls) + 1 \notin DOMAIN calls
         /\ \A k \in DOMAIN calls' : (k \in DOMAIN calls /\ calls'[k] = calls[k]) \/ k = Len(calls) + 1
         /\ LET c == calls'[Len(calls) + 1]
                t == timers[1]
            IN  c.op = "mark" /\ c.id = t.id /\ c.flag = t.flag /\ c.alive = t.alive /\ c.stage = "sent"
<1>. DEFINE t == timers[1]
            c == [Call("mark", t.id, t.flag) EXCEPT !.alive = t.alive]
<1>1. timers \in Seq(Timers) /\ timers # <<>> /\ calls \in Seq(Calls)
  BY DEF MarkingTyped, TimerFires
<1>2. Len(timers) \in Nat /\ Len(timers) >= 1 /\ DOMAIN timers = 1..Len(timers) /\ Head(timers) = t /\ t \in Timers
  BY <1>1
<1>3. timers' = Tail(timers) /\ calls' = Append(calls, c)
  BY <1>2 DEF TimerFires
<1>4. t.id \in Polls \cup {None} /\ t.flag \in BOOLEAN /\ t.alive \in BOOLEAN
  BY <1>2, RecordTypes, ListsAssumption
<1>. HIDE DEF t
<1>5. c \in Calls /\ c.op = "mark" /\ c.id = t.id /\ c.flag = t.flag /\ c.alive = t.alive /\ c.stage = "sent"
  BY <1>4, CallIs
<1>. HIDE DEF c
<1>6. /\ timers' \in Seq(Timers) /\ DOMAIN timers' = 1..(Len(timers) - 1)
      /\ \A k \in 1..(Len(timers) - 1) : timers'[k] = timers[k + 1]
  BY <1>1, <1>2, <1>3
<1>7. /\ 1 \in 1..Len(timers)
      /\ \A k \in 1..(Len(timers) - 1) : k + 1 \in 1..Len(timers) /\ k + 1 # 1
      /\ \A k \in 1..Len(timers) : k = 1 \/ (k - 1 \in 1..(Len(timers) - 1) /\ (k - 1) + 1 = k)
  BY <1>2
<1>8. \A k \in DOMAIN timers : k = 1 \/ (k - 1 \in DOMAIN timers' /\ timers'[k - 1] = timers[k])
  BY <1>2, <1>6, <1>7
<1>9. /\ calls' \in Seq(Calls) /\ calls'[Len(calls) + 1] = c
      /\ \A k \in DOMAIN calls : k \in DOMAIN calls' /\ calls'[k] = calls[k]
      /\ \A k \in DOMAIN calls' : (k \in DOMAIN calls /\ calls'[k] = calls[k]) \/ (k = Len(calls) + 1 /\ k \notin DOMAIN calls /\ calls'[k] = c)
      /\ Len(calls) + 1 \in DOMAIN calls' /\ Len(calls) + 1 \notin DOMAIN calls
  BY <1>1, <1>3, <1>5, AppendIs
<1>10. \A k \in DOMAIN timers' : k + 1 \in DOMAIN timers /\ k + 1 # 1 /\ timers'[k] = timers[k + 1]
  BY <1>2, <1>6, <1>7
<1>11. 1 \in DOMAIN timers
  BY <1>2, <1>7
<1>. QED  BY <1>5, <1>6, <1>8, <1>9, <1>10, <1>11 DEF t

LEMMA OnTyped ==
  ASSUME NEW cs, NEW ts, \A i \in DOMAIN ts : ts[i].id \in Marks,
         \A i \in DOMAIN cs : cs[i].op = "mark" => cs[i].id \in Marks
  PROVE  On(cs, ts) \subseteq Marks
  BY DEF On

\* A new request of the user's.
LEMMA AskedFor ==
  ASSUME MarkingTyped, NEW c \in Calls, calls' = Append(calls, c)
  PROVE  /\ calls' \in Seq(Calls) /\ Len(calls) + 1 \in DOMAIN calls' /\ calls'[Len(calls) + 1] = c
         /\ Len(calls) + 1 \notin DOMAIN calls
         /\ \A k \in DOMAIN calls : k \in DOMAIN calls' /\ calls'[k] = calls[k]
         /\ \A k \in DOMAIN calls' : (k \in DOMAIN calls /\ calls'[k] = calls[k]) \/ (k = Len(calls) + 1 /\ k \notin DOMAIN calls /\ calls'[k] = c)
<1>1. calls \in Seq(Calls)
  BY DEF MarkingTyped
<1>. QED  BY <1>1, AppendIs

LEMMA MarkingKept ==
  ASSUME ServerTyped, ListingTyped, MarkingTyped, PagesOK, CallsOK, [Next]_vars
  PROVE  MarkingTyped'
<1>0. /\ marked \subseteq Marks /\ disturbed \subseteq Marks /\ timers \in Seq(Timers) /\ calls \in Seq(Calls)
      /\ Toggling \subseteq Marks
      /\ \A i \in DOMAIN calls : calls[i].op = "mark" => calls[i].id \in Marks
  BY OnIs DEF MarkingTyped, CallsOK, CallOK
<1>1. CASE UNCHANGED <<marking, calls>>
  BY <1>1 DEF MarkingTyped, marking
<1>2. ASSUME NEW i \in DOMAIN loads, LoadArrives(i) PROVE MarkingTyped'
  <2>. DEFINE l == loads[i]
  <2>1. /\ l \in Loads /\ UNCHANGED <<timers, disturbed, calls>>
        /\ page = "bookmarks" /\ l.ids = None /\ l.got.ok => marked' = l.got.marks
        /\ ~(page = "bookmarks" /\ l.ids = None /\ l.got.ok) =>
               /\ ~l.got.ok => marked' = marked
               /\ l.got.ok => marked' = IF page = "home" THEN l.got.marks ELSE marked
    BY <1>2, LoadArrivesIs
  <2>2. l.got.ok => l.got.marks \subseteq Marks
    BY <2>1, RecordTypes
  <2>. HIDE DEF l
  <2>. QED  BY <1>0, <2>1, <2>2 DEF MarkingTyped
<1>3. ASSUME NEW f \in Filters, SetFilter(f) PROVE MarkingTyped'
  <2>1. UNCHANGED <<marked, timers, calls>> /\ disturbed' = Toggling \cup (IF loads = <<>> THEN {} ELSE disturbed)
    BY <1>3 DEF SetFilter
  <2>. QED  BY <1>0, <2>1 DEF MarkingTyped
<1>4. ASSUME NEW p \in Pages, Navigate(p) PROVE MarkingTyped'
  <2>1. marked' = {} /\ disturbed' = On(calls', timers')
    BY <1>4 DEF Navigate
  <2>2. /\ timers' \in Seq(Timers) /\ calls' \in Seq(Calls) /\ DOMAIN calls' = DOMAIN calls
        /\ \A k \in DOMAIN calls : calls'[k].op = calls[k].op /\ calls'[k].id = calls[k].id
    BY <1>4, LeftBehind
  <2>3. \A k \in DOMAIN timers' : timers'[k].id \in Marks
    <3>1. \A k \in DOMAIN timers' : timers'[k] \in Timers
      BY <2>2
    <3>. QED  BY <3>1, RecordTypes
  <2>4. \A k \in DOMAIN calls' : calls'[k].op = "mark" => calls'[k].id \in Marks
    BY <1>0, <2>2
  <2>5. On(calls', timers') \subseteq Marks
    BY <2>3, <2>4, OnTyped
  <2>. QED  BY <2>1, <2>2, <2>5 DEF MarkingTyped
<1>5. CASE handleCreate
  <2>1. UNCHANGED <<marked, timers, disturbed>> /\ calls' = Append(calls, Call("create", None, FALSE))
    BY <1>5 DEF handleCreate, marking
  <2>2. Call("create", None, FALSE) \in Calls
    BY DEF Call, Calls
  <2>3. calls' \in Seq(Calls)
    BY <2>1, <2>2, AskedFor
  <2>. QED  BY <1>0, <2>1, <2>3 DEF MarkingTyped
<1>6. ASSUME NEW i \in DOMAIN list, handleClosePoll(list[i]) \/ handleDeletePoll(list[i]) PROVE MarkingTyped'
  <2>1. PICK op \in {"close", "delete"} : UNCHANGED <<marked, timers, disturbed>> /\ calls' = Append(calls, Call(op, list[i].id, FALSE))
    BY <1>6 DEF handleClosePoll, handleDeletePoll, OwnPollClick, marking
  <2>2. list[i] \in Entry
    BY DEF ListingTyped
  <2>3. list[i].id \in Polls \cup {None}
    BY <2>2, RecordTypes
  <2>4. Call(op, list[i].id, FALSE) \in Calls
    BY <2>3 DEF Call, Calls
  <2>5. calls' \in Seq(Calls)
    BY <2>1, <2>4, AskedFor
  <2>. QED  BY <1>0, <2>1, <2>5 DEF MarkingTyped
<1>7. ASSUME NEW p \in Marks, handleBookmarkToggle(p) PROVE MarkingTyped'
  <2>1. /\ calls' = calls /\ marked' \in {marked \ {p}, marked \cup {p}}
        /\ disturbed' \in {disturbed, disturbed \cup {p}}
    BY <1>7 DEF handleBookmarkToggle
  <2>2. timers' \in Seq(Timers)
    BY <1>7, ToggledTimers
  <2>. QED  BY <1>0, <2>1, <2>2 DEF MarkingTyped
<1>8. CASE TimerFires
  <2>1. marked' = marked /\ disturbed' = disturbed
    BY <1>8 DEF TimerFires
  <2>2. timers' \in Seq(Timers) /\ calls' \in Seq(Calls)
    BY <1>8, FiredTimer
  <2>. QED  BY <1>0, <2>1, <2>2 DEF MarkingTyped
<1>9. CASE BookmarksClick
  <2>1. /\ UNCHANGED <<marked, timers, disturbed>>
        /\ \E op \in {"mark", "clear"}, p \in Polls \cup {None} : calls' = Append(calls, Call(op, p, FALSE))
    BY <1>9, ListsAssumption DEF BookmarksClick, marking, BookmarkButtons
  <2>2. PICK op \in {"mark", "clear"}, p \in Polls \cup {None} : calls' = Append(calls, Call(op, p, FALSE))
    BY <2>1
  <2>3. Call(op, p, FALSE) \in Calls
    BY DEF Call, Calls
  <2>4. calls' \in Seq(Calls)
    BY <2>2, <2>3, AskedFor
  <2>. QED  BY <1>0, <2>1, <2>4 DEF MarkingTyped
<1>10. ASSUME NEW i \in DOMAIN calls, CallServed(i) PROVE MarkingTyped'
  <2>1. calls' \in Seq(Calls) /\ UNCHANGED marking
    BY <1>10, CallServedIs
  <2>. QED  BY <1>0, <2>1 DEF MarkingTyped, marking
<1>11. ASSUME NEW i \in DOMAIN calls, CallAnswers(i) PROVE MarkingTyped'
  <2>1. disturbed' = disturbed /\ timers' = Released(calls[i]) /\ (marked' = marked \/ marked' = {})
    BY <1>11 DEF CallAnswers
  <2>2. timers' \in Seq(Timers)
    BY <2>1, ReleasedTimers
  <2>3. calls' \in Seq(Calls)
    BY <1>11, AnsweredCalls
  <2>. QED  BY <1>0, <2>1, <2>2, <2>3 DEF MarkingTyped
<1>12. ASSUME NEW i \in DOMAIN calls, CallFails(i) PROVE MarkingTyped'
  <2>. DEFINE c == calls[i]
  <2>1. /\ timers' = Released(c) /\ marked' = Reverted(c)
        /\ disturbed' \in {disturbed, disturbed \cup Marks, disturbed \cup (IF c.op = "mark" THEN {c.id} ELSE Marks)}
    BY <1>12 DEF CallFails
  <2>2. timers' \in Seq(Timers)
    BY <2>1, ReleasedTimers
  <2>3. calls' \in Seq(Calls)
    BY <1>12, AnsweredCalls
  <2>4. c.op = "mark" => c.id \in Marks
    BY <1>0
  <2>5. Reverted(c) \subseteq Marks
    BY <1>0, <2>4 DEF Reverted
  <2>. QED  BY <1>0, <2>1, <2>2, <2>3, <2>4, <2>5 DEF MarkingTyped
<1>. QED  BY <1>1, <1>2, <1>3, <1>4, <1>5, <1>6, <1>7, <1>8, <1>9, <1>10, <1>11, <1>12, MarkingMoves

-----------------------------------------------------------------------------
(* Pages and requests.                                                     *)

LEMMA PagesKept ==
  ASSUME ServerTyped, ListingTyped, MarkingTyped, PagesOK, [Next]_vars
  PROVE  PagesOK'
<1>0. /\ loads \in Seq(Loads) /\ list \in Seq(Entry) /\ page \in Pages /\ marks \subseteq Marks
      /\ more \in Mores \cup {None} /\ None \notin Mores
  BY ListsAssumption DEF ListingTyped, ServerTyped
<1>1. CASE UNCHANGED <<page, filter, listing>>
  BY <1>1 DEF PagesOK, listing
<1>2. ASSUME NEW i \in DOMAIN loads, LoadServed(i) PROVE PagesOK'
  <2>1. /\ loads' \in Seq(Loads) /\ Len(loads') = Len(loads) /\ DOMAIN loads' = DOMAIN loads
        /\ loads'[i].ids = loads[i].ids /\ \A k \in DOMAIN loads : k # i => loads'[k] = loads[k]
        /\ loads'[i].got = NoAnswer \/ loads'[i].got \in LoadAnswers(loads[i])
        /\ UNCHANGED <<page, filter, list, cursor, hasMore, more, upto, crossed>>
    BY <1>0, <1>2, LoadServedIs
  <2>2. /\ loads # <<>> /\ loads[i] \in Loads /\ page \in {"home", "my_polls", "past_votes", "bookmarks"}
        /\ page # "bookmarks" => loads[i].ids = None
    BY UnderWay
  <2>3. page \notin {"home", "my_polls"} /\ loads'[i].got.ok => loads'[i].got.next = None
    <3>1. CASE loads'[i].got = NoAnswer
      BY <3>1 DEF NoAnswer
    <3>2. CASE loads'[i].got \in LoadAnswers(loads[i])
      BY <1>0, <2>2, <3>2, LoadAnswersAre
    <3>. QED  BY <2>1, <3>1, <3>2
  <2>. QED  BY <2>1, <2>2, <2>3 DEF PagesOK
<1>3. ASSUME NEW i \in DOMAIN loads, LoadArrives(i) PROVE PagesOK'
  <2>. DEFINE l == loads[i]
  <2>1. /\ loads' \in Seq(Loads) /\ l \in Loads /\ l.stage = "served"
        /\ UNCHANGED <<page, filter, more, crossed>>
        /\ page = "bookmarks" /\ l.ids = None /\ l.got.ok =>
               /\ UNCHANGED <<list, cursor, hasMore, upto>> /\ Len(loads') = Len(loads) /\ DOMAIN loads' = DOMAIN loads
               /\ loads'[i].stage = "sent"
        /\ ~(page = "bookmarks" /\ l.ids = None /\ l.got.ok) =>
               /\ loads' = RemoveAt(loads, i) /\ Len(loads') = Len(loads) - 1
               /\ ~l.got.ok => UNCHANGED <<list, cursor, hasMore, upto>>
               /\ l.got.ok => cursor' = l.got.next
    BY <1>3, LoadArrivesIs
  <2>2. /\ DOMAIN loads = 1..Len(loads) /\ Len(loads) \in Nat /\ loads # <<>>
        /\ page \in {"home", "my_polls", "past_votes", "bookmarks"}
        /\ page # "home" => Len(loads) = 1 /\ i = 1
    BY UnderWay
  <2>3. CASE page = "bookmarks" /\ l.ids = None /\ l.got.ok
    <3>1. \A k \in DOMAIN loads' : loads'[k].stage = "sent"
      <4>1. DOMAIN loads = 1..1
        BY <2>2, <2>3
      <4>2. \A k \in DOMAIN loads' : k = i
        BY <2>1, <2>2, <2>3, <4>1
      <4>. QED  BY <2>1, <2>3, <4>2
    <3>. HIDE DEF l
    <3>. QED  BY <2>1, <2>2, <2>3, <3>1 DEF PagesOK
  <2>4. CASE ~(page = "bookmarks" /\ l.ids = None /\ l.got.ok)
    <3>1. page # "home" => Len(loads') = 0 /\ loads' = <<>>
      BY <2>1, <2>2, <2>4
    <3>2. page # "home" => DOMAIN loads' = {}
      BY <3>1
    <3>3. ASSUME NEW k \in DOMAIN loads', page # "bookmarks" PROVE loads'[k].ids = None
      <4>1. loads' = RemoveAt(loads, i)
        BY <2>1, <2>4
      <4>2. \A j \in DOMAIN loads' : \E m \in DOMAIN loads : m # i /\ loads'[j] = loads[m]
        BY <1>0, <4>1, OthersStay
      <4>. QED  BY <3>3, <4>2 DEF PagesOK
    <3>4. page \notin {"home", "my_polls"} => cursor' = None
      BY <2>1, <2>4 DEF PagesOK
    <3>. HIDE DEF l
    <3>5. UNCHANGED <<page, filter, more, crossed>>
      BY <2>1
    <3>. QED  BY <2>2, <3>1, <3>2, <3>3, <3>4, <3>5 DEF PagesOK
  <2>. QED  BY <2>3, <2>4
<1>4. CASE loadMore
  <2>1. /\ EndIsSeen /\ cursor # None
        /\ UNCHANGED <<page, filter, list, cursor, hasMore, loads, upto, crossed>>
    BY <1>4 DEF loadMore
  <2>. QED  BY <2>1 DEF EndIsSeen, PagesOK
<1>5. CASE MoreServed
  <2>1. /\ page \in {"home", "my_polls"} /\ more # None
        /\ UNCHANGED <<page, filter, list, cursor, hasMore, loads, upto, crossed>>
    BY <1>0, <1>5, MoreServedIs
  <2>. QED  BY <2>1 DEF PagesOK
<1>6. CASE MoreArrives
  <2>1. more # None /\ more' = None /\ UNCHANGED <<page, filter, loads, upto, crossed>>
    BY <1>6 DEF MoreArrives
  <2>2. page \in {"home", "my_polls"} /\ (page = "home" \/ loads = <<>>)
    BY <2>1 DEF PagesOK
  <2>. QED  BY <2>1, <2>2 DEF PagesOK
<1>7. ASSUME NEW f \in Filters, SetFilter(f) PROVE PagesOK'
  <2>1. page = "home" /\ page' = page /\ loads' = Append(loads, Load(f))
    BY <1>7 DEF SetFilter
  <2>2. Load(f) \in Loads /\ Load(f).ids = None
    BY LoadIs
  <2>3. \A k \in DOMAIN loads' : (k \in DOMAIN loads /\ loads'[k] = loads[k]) \/ loads'[k] = Load(f)
    <3>. DEFINE e == Load(f)
    <3>. HIDE DEF e
    <3>1. e \in Loads /\ loads' = Append(loads, e)
      BY <2>1, <2>2 DEF e
    <3>2. \A k \in DOMAIN loads' : (k \in DOMAIN loads /\ loads'[k] = loads[k]) \/ loads'[k] = e
      BY <1>0, <3>1, AppendIs
    <3>. QED  BY <3>2 DEF e
  <2>4. \A k \in DOMAIN loads' : loads'[k].ids = None
    BY <2>1, <2>2, <2>3 DEF PagesOK
  <2>. QED  BY <2>1, <2>4 DEF PagesOK
<1>8. ASSUME NEW p \in Pages, Navigate(p) PROVE PagesOK'
  <2>1. /\ page' = p /\ filter' = "all" /\ list' = <<>> /\ cursor' = None /\ loads' = Mounts(p)
        /\ more' = None /\ upto' = None /\ crossed' = FALSE
    BY <1>8 DEF Navigate
  <2>2. loads' = <<>> \/ loads' = <<Load("all")>>
    BY <2>1 DEF Mounts
  <2>3. Load("all").ids = None /\ Load("all").stage = "sent"
    BY LoadIs
  <2>4. Len(loads') <= 1 /\ \A k \in DOMAIN loads' : loads'[k].ids = None /\ loads'[k].stage = "sent"
    <3>1. CASE loads' = <<>>
      BY <3>1
    <3>2. CASE loads' = <<Load("all")>>
      <4>. DEFINE e == Load("all")
      <4>1. e.ids = None /\ e.stage = "sent" /\ loads' = <<e>>
        BY <2>3, <3>2
      <4>. HIDE DEF e
      <4>2. Len(loads') = 1 /\ \A k \in DOMAIN loads' : loads'[k] = e
        BY <4>1
      <4>. QED  BY <4>1, <4>2
    <3>. QED  BY <2>2, <3>1, <3>2
  <2>5. p \in {"comments", "profile"} => loads' = <<>>
    BY <2>1 DEF Mounts
  <2>. QED  BY <2>1, <2>4, <2>5 DEF PagesOK
<1>9. ASSUME NEW i \in DOMAIN calls, CallAnswers(i) PROVE PagesOK'
  <2>1. UNCHANGED <<page, filter, cursor, hasMore, loads, more, upto, crossed>>
    BY <1>9 DEF CallAnswers
  <2>2. list = <<>> => list' = <<>>
    <3>. DEFINE c == calls[i]
    <3>1. c.op \in {"mark", "clear", "close", "delete", "create", "refresh"} /\ c.alive \in BOOLEAN
      <4>1. c \in Calls
        BY DEF MarkingTyped
      <4>. QED  BY <4>1, RecordTypes
    <3>. HIDE DEF c
    <3>. SUFFICES ASSUME list = <<>> PROVE list' = <<>>
      OBVIOUS
    <3>2. /\ list' \in Seq(Entry)
          /\ ~c.alive \/ c.op \notin {"close", "delete", "clear"} => list' = list
          /\ c.alive /\ c.op = "close" => DOMAIN list' = DOMAIN list
          /\ c.alive /\ c.op = "delete" => \A k \in DOMAIN list' : \E j \in DOMAIN list : list[j].id # c.id /\ list'[k] = list[j]
          /\ c.alive /\ c.op = "clear" => list' = <<>>
      BY <1>9, AnsweredList DEF c
    <3>3. DOMAIN list = {}
      OBVIOUS
    <3>4. DOMAIN list' = {} => list' = <<>>
      BY <3>2
    <3>. QED  BY <3>1, <3>2, <3>3, <3>4
  <2>. QED  BY <2>1, <2>2 DEF PagesOK
<1>. QED  BY <1>1, <1>2, <1>3, <1>4, <1>5, <1>6, <1>7, <1>8, <1>9, ListingMoves

LEMMA CallsKept ==
  ASSUME ServerTyped, ListingTyped, MarkingTyped, PagesOK, CallsOK, [Next]_vars
  PROVE  CallsOK'
<1>0. /\ \A p \in Polls : polls[p] = "gone" => polls'[p] = "gone"
      /\ \A k \in DOMAIN calls : CallOK(calls[k])
      /\ \A k \in DOMAIN timers : timers[k].alive => page = "home"
  BY GoneStays DEF CallsOK
<1>1. page' = page \/ \E p \in Pages : Navigate(p)
  BY ListingMoves DEF LoadServed, LoadArrives, loadMore, MoreServed, MoreArrives, SetFilter, CallAnswers
<1>2. CASE page' = page /\ UNCHANGED <<marking, calls>>
  BY <1>0, <1>2 DEF CallsOK, CallOK, marking
<1>3. ASSUME NEW i \in DOMAIN loads, LoadArrives(i) PROVE CallsOK'
  BY <1>0, <1>3 DEF CallsOK, CallOK, LoadArrives
<1>4. ASSUME NEW f \in Filters, SetFilter(f) PROVE CallsOK'
  BY <1>0, <1>4 DEF CallsOK, CallOK, SetFilter
<1>5. ASSUME NEW p \in Pages, Navigate(p) PROVE CallsOK'
  <2>1. /\ DOMAIN calls' = DOMAIN calls /\ \A k \in DOMAIN timers' : timers'[k].alive = FALSE
        /\ \A k \in DOMAIN calls : /\ calls'[k].op = calls[k].op /\ calls'[k].id = calls[k].id
                                   /\ calls'[k].flag = calls[k].flag /\ calls'[k].stage = calls[k].stage
                                   /\ calls'[k].alive => calls[k].alive /\ calls[k].op \in {"create", "refresh"}
    BY <1>5, LeftBehind
  <2>. QED  BY <1>0, <2>1 DEF CallsOK, CallOK
\* One request more.
<1>6. ASSUME page' = page, NEW c \in Calls, calls' = Append(calls, c), CallOK(c),
             \A k \in DOMAIN timers' : timers'[k].alive => page = "home"
      PROVE  CallsOK'
  <2>1. \A k \in DOMAIN calls' : (k \in DOMAIN calls /\ calls'[k] = calls[k]) \/ calls'[k] = c
    BY <1>6, AskedFor
  <2>. QED  BY <1>0, <1>6, <2>1 DEF CallsOK, CallOK
<1>7. CASE handleCreate
  <2>. DEFINE c == Call("create", None, FALSE)
  <2>1. UNCHANGED <<page, timers>> /\ calls' = Append(calls, c)
    BY <1>7 DEF handleCreate, marking
  <2>2. c \in Calls /\ c.op = "create"
    BY DEF Call, Calls
  <2>. HIDE DEF c
  <2>3. CallOK(c)
    BY <2>2 DEF CallOK
  <2>. QED  BY <1>0, <1>6, <2>1, <2>2, <2>3
<1>8. ASSUME NEW i \in DOMAIN list, handleClosePoll(list[i]) \/ handleDeletePoll(list[i]) PROVE CallsOK'
  <2>1. PICK op \in {"close", "delete"} :
           /\ UNCHANGED <<page, timers>> /\ calls' = Append(calls, Call(op, list[i].id, FALSE)) /\ page = "my_polls"
    BY <1>8 DEF handleClosePoll, handleDeletePoll, OwnPollClick, marking
  <2>. DEFINE c == Call(op, list[i].id, FALSE)
  <2>2. list[i].id \in Polls
    <3>1. list[i] \in Entry
      BY DEF ListingTyped
    <3>. QED  BY <3>1, RecordTypes
  <2>3. c \in Calls /\ c.op = op /\ c.id = list[i].id /\ c.stage = "sent"
    BY <2>2 DEF Call, Calls
  <2>. HIDE DEF c
  <2>4. CallOK(c)
    BY <2>1, <2>2, <2>3 DEF CallOK
  <2>. QED  BY <1>0, <1>6, <2>1, <2>3, <2>4 DEF c
<1>9. ASSUME NEW p \in Marks, handleBookmarkToggle(p) PROVE CallsOK'
  <2>1. page = "home" /\ UNCHANGED <<page, calls>>
    BY <1>9 DEF handleBookmarkToggle
  <2>. QED  BY <1>0, <2>1 DEF CallsOK, CallOK
<1>10. CASE TimerFires
  <2>. DEFINE n == Len(calls) + 1
  <2>1. /\ 1 \in DOMAIN timers
        /\ \A k \in DOMAIN timers' : k + 1 \in DOMAIN timers /\ timers'[k] = timers[k + 1]
        /\ \A k \in DOMAIN calls' : (k \in DOMAIN calls /\ calls'[k] = calls[k]) \/ k = n
        /\ LET c == calls'[n]
               t == timers[1]
           IN  c.op = "mark" /\ c.id = t.id /\ c.flag = t.flag /\ c.alive = t.alive /\ c.stage = "sent"
    BY <1>10, FiredTimer
  <2>2. timers[1].id \in Marks
    <3>1. timers[1] \in Timers
      BY <2>1 DEF MarkingTyped
    <3>. QED  BY <3>1, RecordTypes
  <2>3. page' = page
    BY <1>10 DEF TimerFires
  <2>. HIDE DEF n
  <2>. QED  BY <1>0, <2>1, <2>2, <2>3 DEF CallsOK, CallOK
<1>11. CASE BookmarksClick
  <2>1. /\ UNCHANGED <<page, timers>> /\ page = "bookmarks"
        /\ \E c \in {Call("clear", None, FALSE)} \cup {Call("mark", p, FALSE) : p \in BookmarkButtons} :
             calls' = Append(calls, c)
    BY <1>11 DEF BookmarksClick, marking
  <2>2. CASE calls' = Append(calls, Call("clear", None, FALSE))
    <3>. DEFINE c == Call("clear", None, FALSE)
    <3>1. c \in Calls /\ c.op = "clear" /\ calls' = Append(calls, c)
      BY <2>2 DEF Call, Calls
    <3>. HIDE DEF c
    <3>2. CallOK(c)
      BY <2>1, <3>1 DEF CallOK
    <3>. QED  BY <1>0, <1>6, <2>1, <3>1, <3>2
  <2>3. ASSUME NEW p \in BookmarkButtons, calls' = Append(calls, Call("mark", p, FALSE)) PROVE CallsOK'
    <3>. DEFINE c == Call("mark", p, FALSE)
    <3>0. p \in Marks /\ p \in Polls
      BY ListsAssumption DEF BookmarkButtons
    <3>1. c \in Calls /\ c.op = "mark" /\ c.id = p /\ c.stage = "sent" /\ calls' = Append(calls, c)
      BY <2>3, <3>0 DEF Call, Calls
    <3>. HIDE DEF c
    <3>2. CallOK(c)
      BY <2>1, <3>0, <3>1 DEF CallOK
    <3>. QED  BY <1>0, <1>6, <2>1, <3>1, <3>2
  <2>. QED  BY <2>1, <2>2, <2>3
<1>12. ASSUME NEW i \in DOMAIN calls, CallServed(i) PROVE CallsOK'
  <2>. DEFINE c == calls[i]
  <2>1. /\ DOMAIN calls' = DOMAIN calls /\ \A k \in DOMAIN calls : k # i => calls'[k] = calls[k]
        /\ calls'[i].op = c.op /\ calls'[i].id = c.id /\ calls'[i].flag = c.flag /\ calls'[i].alive = c.alive
        /\ UNCHANGED <<page, timers>>
    BY <1>12, CallServedIs DEF marking
  <2>2. /\ calls'[i].stage = "done" /\ c.op = "mark" => c.flag
        /\ calls'[i].stage = "done" /\ c.op = "delete" => polls'[c.id] = "gone"
    BY <1>12, ServedPolls
  <2>3. CallOK(c)
    BY <1>0
  <2>. HIDE DEF c
  <2>. QED  BY <1>0, <2>1, <2>2, <2>3 DEF CallsOK, CallOK
<1>13. ASSUME NEW i \in DOMAIN calls, CallAnswers(i) \/ CallFails(i) PROVE CallsOK'
  <2>1. \A k \in DOMAIN calls' : (\E j \in DOMAIN calls : calls'[k] = calls[j]) \/ calls'[k].op = "refresh"
    BY <1>13, AnsweredCalls
  <2>2. page' = page /\ timers' = Released(calls[i])
    BY <1>13 DEF CallAnswers, CallFails, listing
  <2>3. DOMAIN timers' = DOMAIN timers /\ \A k \in DOMAIN timers : timers'[k].alive = timers[k].alive
    BY <2>2, ReleasedTimers
  <2>. QED  BY <1>0, <2>1, <2>2, <2>3 DEF CallsOK, CallOK
<1>. QED  BY <1>1, <1>2, <1>3, <1>4, <1>5, <1>7, <1>8, <1>9, <1>10, <1>11, <1>12, <1>13, MarkingMoves

-----------------------------------------------------------------------------
(* Types, and the comments.                                                *)

TypesInv == TypeOK /\ PagesOK /\ CallsOK

LEMMA InitTyped == Init => TypesInv
<1>. SUFFICES ASSUME Init PROVE TypesInv
  OBVIOUS
<1>1. ServerTyped
  BY ListsAssumption DEF Init, ServerTyped, Closed
<1>2. ListingTyped
  <2>1. /\ page = "profile" /\ filter = "all" /\ list = <<>> /\ cursor = None /\ hasMore = TRUE
        /\ loads = <<>> /\ more = None /\ upto = None /\ crossed = FALSE
    BY DEF Init
  <2>2. page \in Pages /\ filter \in Filters
    BY <2>1 DEF Pages, Filters
  <2>3. list \in Seq(Entry) /\ loads \in Seq(Loads)
    BY <2>1
  <2>. QED  BY <2>1, <2>2, <2>3 DEF ListingTyped
<1>3. MarkingTyped
  BY DEF Init, MarkingTyped
<1>4. CommentsTypeOK
  <2>1. CommentsInit
    BY DEF Init
  <2>2. comments \in [CommentIds -> {"none", "kept", "deleted"}]
    BY <2>1 DEF CommentsInit
  <2>3. shown \in Seq(CommentIds) /\ writes \in Seq(Write) /\ unsure \subseteq CommentIds
    BY <2>1 DEF CommentsInit
  <2>4. draft \in BOOLEAN /\ posting \in BOOLEAN /\ ready \in BOOLEAN /\ fetch \in Fetches \cup {None}
    BY <2>1 DEF CommentsInit
  <2>. QED  BY <2>2, <2>3, <2>4 DEF CommentsTypeOK
<1>5. PagesOK /\ CallsOK
  BY DEF Init, PagesOK, CallsOK
<1>. QED  BY <1>1, <1>2, <1>3, <1>4, <1>5, TypeParts DEF TypesInv

LEMMA TypesKept == TypesInv /\ CommentsInv /\ [Next]_vars => TypesInv' /\ CommentsInv'
<1>. SUFFICES ASSUME TypesInv, CommentsInv, [Next]_vars PROVE TypesInv' /\ CommentsInv'
  OBVIOUS
<1>1. /\ ServerTyped /\ ListingTyped /\ MarkingTyped /\ CommentsTypeOK /\ PagesOK /\ CallsOK
      /\ marks \subseteq Marks
  BY TypeParts DEF TypesInv, ServerTyped
<1>2. ServerTyped'
  BY <1>1, ServerKept
<1>3. ListingTyped'
  BY <1>1, ListingKept
<1>4. MarkingTyped'
  BY <1>1, MarkingKept
<1>5. CommentsTypeOK' /\ CommentsInv'
  BY <1>1, CommentsKept
<1>6. PagesOK'
  BY <1>1, PagesKept
<1>7. CallsOK'
  BY <1>1, CallsKept
<1>8. TypeOK'
  BY <1>2, <1>3, <1>4, <1>5 DEF TypeOK, ServerTyped, ListingTyped, MarkingTyped
<1>. QED  BY <1>5, <1>6, <1>7, <1>8 DEF TypesInv

LEMMA InitComments == Init => CommentsInv
<1>. SUFFICES ASSUME Init PROVE CommentsInv
  OBVIOUS
<1>1. shown = <<>> /\ ready = FALSE /\ fetch = None /\ writes = <<>>
  BY DEF Init, CommentsInit
<1>2. DOMAIN shown = {} /\ DOMAIN writes = {}
  BY <1>1
<1>3. WritesOK /\ CreatedOnce /\ FetchOK
  BY <1>1, <1>2 DEF WritesOK, CreatedOnce, FetchOK
<1>4. ShownOK
  BY <1>1, <1>2 DEF ShownOK, Ids, IsInjective
<1>. QED  BY <1>3, <1>4 DEF CommentsInv

\* The types, what the pages may have under way and what the requests may be
\* about, and the comments, as they always are.
THEOREM ListsWellFormed == Spec => [](TypesInv /\ CommentsInv)
<1>1. Init => TypesInv /\ CommentsInv
  BY InitTyped, InitComments
<1>. QED  BY <1>1, TypesKept, PTL DEF Spec

\* Every variable of the pages stays within its type, whatever is served,
\* answered or left in whatever order.
THEOREM ListsTypeCorrect == Spec => []TypeOK
<1>1. TypesInv => TypeOK
  BY DEF TypesInv
<1>. QED  BY <1>1, ListsWellFormed, PTL

\* Once every request about a comment has been answered, the page and the
\* server agree on the user's comments, each shown once, but for those whose
\* answer was lost or went to an earlier page.
THEOREM CommentsInStep == Spec => []CommentsAgree
<1>1. TypesInv /\ CommentsInv => CommentsAgree
  <2>. SUFFICES ASSUME TypesInv, CommentsInv, ready, writes = <<>>
                PROVE  /\ Ids(shown) \ (Theirs \cup unsure) = Kept \ (Theirs \cup unsure)
                       /\ IsInjective(shown)
    BY DEF CommentsAgree
  <2>1. DOMAIN writes = {}
    OBVIOUS
  <2>2. /\ IsInjective(shown)
        /\ \A c \in CommentIds \ (Theirs \cup unsure) : c \in Ids(shown) <=> c \in Kept
    BY <2>1 DEF CommentsInv, ShownOK
  <2>3. Ids(shown) \subseteq CommentIds
    <3>1. shown \in Seq(CommentIds)
      BY TypeParts DEF TypesInv, CommentsTypeOK
    <3>. QED  BY <3>1 DEF Ids
  <2>. QED  BY <2>2, <2>3 DEF Kept
<1>. QED  BY <1>1, ListsWellFormed, PTL


-----------------------------------------------------------------------------
(* The bookmarks.                                                          *)

\* What may happen to them, and to what is on its way.
LEMMA MarksMoves ==
  ASSUME [Next]_vars
  PROVE  \/ UNCHANGED <<marks, page, upto, list, loads, marking, calls>>
         \/ MoreArrives
         \/ \E i \in DOMAIN loads : LoadServed(i) \/ LoadArrives(i)
         \/ \E f \in Filters : SetFilter(f)
         \/ \E p \in Pages : Navigate(p)
         \/ handleCreate
         \/ \E i \in DOMAIN list : handleClosePoll(list[i]) \/ handleDeletePoll(list[i])
         \/ \E p \in Marks : handleBookmarkToggle(p)
         \/ TimerFires \/ BookmarksClick
         \/ \E i \in DOMAIN calls : CallServed(i) \/ CallAnswers(i) \/ CallFails(i)
<1>1. CASE UNCHANGED vars
  BY <1>1 DEF vars, server, listing
<1>2. CASE loadMore \/ MoreServed
  BY <1>2 DEF loadMore, MoreServed, server
<1>3. CASE DialogStep
  BY <1>3 DEF DialogStep, server, listing
<1>4. CASE OthersChange
  BY <1>4 DEF OthersChange, listing
<1>5. CASE CommentClick \/ CommentAnswers
  BY <1>5 DEF CommentClick, CommentAnswers, server, listing
<1>. QED  BY <1>1, <1>2, <1>3, <1>4, <1>5 DEF Next

\* The bookmarks that are on their way, before and after a step.
LEMMA TogglingIs ==
  /\ \A p : p \in Toggling <=> \/ \E i \in DOMAIN calls : Marking(calls[i], p)
                               \/ \E i \in DOMAIN timers : timers[i].id = p
                               \/ Clears(calls) /\ p \in Marks
  /\ \A p : p \in Toggling' <=> \/ \E i \in DOMAIN calls' : Marking(calls'[i], p)
                                \/ \E i \in DOMAIN timers' : timers'[i].id = p
                                \/ Clears(calls') /\ p \in Marks
  BY DEF Toggling, On, Clears, Marking

\* A request is served: the marks that it changes were on their way.
LEMMA ServedMarks ==
  ASSUME ServerTyped, MarkingTyped, CallsOK, NEW i \in DOMAIN calls, CallServed(i), NEW c, c = calls[i]
  PROVE  /\ Toggling' = Toggling /\ c.stage = "sent"
         /\ UNCHANGED <<page, list, loads, upto, marked, timers, disturbed>>
         /\ DOMAIN calls' = DOMAIN calls /\ \A k \in DOMAIN calls : k # i => calls'[k] = calls[k]
         /\ calls'[i].op = c.op /\ calls'[i].id = c.id /\ calls'[i].flag = c.flag /\ calls'[i].alive = c.alive
         /\ calls'[i].stage \in {"done", "failed"}
         /\ \A p \in Marks : (p \in marks) # (p \in marks') =>
               calls'[i].stage = "done" /\ p \in Toggling /\ ((Marking(c, p) /\ p \in marks') \/ (c.op = "clear" /\ marks' = {}))
         /\ calls'[i].stage = "done" /\ c.op = "mark" => c.flag /\ c.id \in marks'
         /\ calls'[i].stage = "done" /\ c.op = "clear" => marks' = {}
         /\ marks' \subseteq Marks
<1>1. /\ c.stage = "sent" /\ calls' \in Seq(Calls) /\ DOMAIN calls' = DOMAIN calls
      /\ \A k \in DOMAIN calls : k # i => calls'[k] = calls[k]
      /\ calls'[i].op = c.op /\ calls'[i].id = c.id /\ calls'[i].flag = c.flag /\ calls'[i].alive = c.alive
      /\ UNCHANGED <<page, list, loads, upto, marked, timers, disturbed>>
      /\ calls'[i].stage \in {"done", "failed"}
  BY CallServedIs DEF listing, marking
<1>2. \A k \in DOMAIN calls : calls'[k].op = calls[k].op /\ calls'[k].id = calls[k].id
  BY <1>1
<1>3. \A p : p \in Toggling' <=> p \in Toggling
  BY <1>1, <1>2, TogglingIs DEF Marking, Clears
<1>4. /\ \A p \in Marks : (p \in marks') # (p \in marks) =>
            /\ calls'[i].stage = "done"
            /\ \/ c.op = "mark" /\ p = c.id /\ c.flag /\ p \in marks'
               \/ c.op = "clear" /\ marks' = {}
      /\ calls'[i].stage = "done" /\ c.op = "mark" => c.flag /\ c.id \in marks'
      /\ calls'[i].stage = "done" /\ c.op = "clear" => marks' = {}
      /\ marks' \subseteq Marks
  BY ServedPolls
<1>5. /\ \A p : Marking(c, p) => p \in Toggling
      /\ c.op = "clear" => Marks \subseteq Toggling
  BY TogglingIs DEF Clears
<1>6. Toggling' = Toggling
  BY <1>3
<1>. QED  BY <1>1, <1>4, <1>5, <1>6 DEF Marking

\* A request comes to its end, and nothing new is on its way.
LEMMA EndedMarks ==
  ASSUME MarkingTyped, NEW i \in DOMAIN calls, CallAnswers(i) \/ CallFails(i), NEW c, c = calls[i]
  PROVE  /\ Toggling' \subseteq Toggling
         /\ \A p \in Toggling : p \in Toggling' \/ Marking(c, p) \/ c.op = "clear"
         /\ UNCHANGED <<marks, page, loads, upto>> /\ disturbed \subseteq disturbed'
         /\ c.op \in {"mark", "clear"} /\ CallFails(i) => c.stage = "failed" \/ (IF c.op = "mark" THEN {c.id} ELSE Marks) \subseteq disturbed'
         /\ DOMAIN timers' = DOMAIN timers
         /\ \A k \in DOMAIN timers : /\ timers'[k].id = timers[k].id /\ timers'[k].flag = timers[k].flag
                                     /\ timers'[k].alive = timers[k].alive
         /\ \A k \in DOMAIN calls' : (\E j \in DOMAIN calls : j # i /\ calls'[k] = calls[j]) \/ calls'[k].op = "refresh"
         /\ \A j \in DOMAIN calls : j # i => \E k \in DOMAIN calls' : calls'[k] = calls[j]
         /\ \A k, l \in DOMAIN calls' : k # l /\ calls'[k].op = "mark" /\ calls'[l].op = "mark" =>
               \E j, m \in DOMAIN calls : j # m /\ j # i /\ m # i /\ calls'[k] = calls[j] /\ calls'[l] = calls[m]
         /\ c.stage # "sent"
<1>1. /\ UNCHANGED <<marks, page, loads, upto>> /\ timers' = Released(c) /\ disturbed \subseteq disturbed' /\ c.stage # "sent"
  BY DEF CallAnswers, CallFails, server, listing
<1>2. /\ DOMAIN timers' = DOMAIN timers
      /\ \A k \in DOMAIN timers : /\ timers'[k].id = timers[k].id /\ timers'[k].flag = timers[k].flag
                                  /\ timers'[k].alive = timers[k].alive
  BY <1>1, ReleasedTimers
<1>3. /\ \A k \in DOMAIN calls' : (\E j \in DOMAIN calls : j # i /\ calls'[k] = calls[j]) \/ calls'[k].op = "refresh"
      /\ \A j \in DOMAIN calls : j # i => \E k \in DOMAIN calls' : calls'[k] = calls[j]
      /\ \A k, l \in DOMAIN calls' : k # l /\ calls'[k].op = "mark" /\ calls'[l].op = "mark" =>
            \E j, m \in DOMAIN calls : j # m /\ j # i /\ m # i /\ calls'[k] = calls[j] /\ calls'[l] = calls[m]
  BY AnsweredCalls
<1>4. c.stage \in {"sent", "done", "failed"}
  <2>1. c \in Calls
    BY DEF MarkingTyped
  <2>. QED  BY <2>1, RecordTypes
<1>5. c.op \in {"mark", "clear"} /\ CallFails(i) => c.stage = "failed" \/ (IF c.op = "mark" THEN {c.id} ELSE Marks) \subseteq disturbed'
  <2>. SUFFICES ASSUME c.op \in {"mark", "clear"}, CallFails(i), c.stage = "done"
                PROVE  (IF c.op = "mark" THEN {c.id} ELSE Marks) \subseteq disturbed'
    BY <1>1, <1>4
  <2>1. disturbed' = disturbed \cup (IF c.op = "mark" THEN {c.id} ELSE Marks)
    BY DEF CallFails
  <2>. QED  BY <2>1
<1>6. \A p \in Toggling' : p \in Toggling
  BY <1>2, <1>3, TogglingIs DEF Marking, Clears
<1>7. \A p \in Toggling : p \in Toggling' \/ Marking(c, p) \/ c.op = "clear"
  BY <1>2, <1>3, TogglingIs DEF Marking, Clears
<1>. QED  BY <1>1, <1>2, <1>3, <1>5, <1>6, <1>7

\* While the bookmarks are being read, whatever is on its way is known.
LEMMA ReadingKept ==
  ASSUME TypesInv, ReadingOK, [Next]_vars
  PROVE  ReadingOK'
<1>0. /\ ServerTyped /\ ListingTyped /\ MarkingTyped /\ PagesOK /\ CallsOK /\ marks \subseteq Marks
      /\ loads \in Seq(Loads) /\ list \in Seq(Entry)
  BY TypeParts DEF TypesInv, ServerTyped, ListingTyped
<1>1. CASE UNCHANGED <<marks, page, upto, list, loads, marking, calls>>
  BY <1>1 DEF ReadingOK, Toggling, On, marking
<1>2. CASE MoreArrives
  BY <1>2 DEF MoreArrives, ReadingOK, Toggling, On, marking, server
<1>3. ASSUME NEW i \in DOMAIN loads, LoadServed(i) PROVE ReadingOK'
  <2>1. /\ DOMAIN loads' = DOMAIN loads
        /\ loads'[i].got = NoAnswer \/ loads'[i].got \in LoadAnswers(loads[i])
        /\ \A k \in DOMAIN loads : k # i => loads'[k] = loads[k]
        /\ UNCHANGED <<marks, marked, timers, disturbed, calls>> /\ loads # <<>>
    BY <1>0, <1>3, LoadServedIs DEF server, marking
  <2>2. Toggling' = Toggling
    BY <2>1 DEF Toggling
  <2>3. loads'[i].got.ok => loads'[i].got.marks = marks
    <3>1. CASE loads'[i].got = NoAnswer
      BY <3>1 DEF NoAnswer
    <3>2. CASE loads'[i].got \in LoadAnswers(loads[i])
      BY <1>0, <3>2, UnderWay, LoadAnswersAre
    <3>. QED  BY <2>1, <3>1, <3>2
  <2>. QED  BY <2>1, <2>2, <2>3 DEF ReadingOK
<1>4. ASSUME NEW i \in DOMAIN loads, LoadArrives(i) PROVE ReadingOK'
  <2>. DEFINE l == loads[i]
  <2>1. /\ UNCHANGED <<marks, timers, disturbed, calls>> /\ loads # <<>>
        /\ page = "bookmarks" /\ l.ids = None /\ l.got.ok =>
              DOMAIN loads' = DOMAIN loads /\ loads'[i].stage = "sent"
        /\ ~(page = "bookmarks" /\ l.ids = None /\ l.got.ok) => loads' = RemoveAt(loads, i)
    BY <1>0, <1>4, LoadArrivesIs DEF server
  <2>2. Toggling' = Toggling
    BY <2>1 DEF Toggling
  <2>3. CASE page = "bookmarks" /\ l.ids = None /\ l.got.ok
    <3>1. \A k \in DOMAIN loads' : k = i
      <4>1. DOMAIN loads = 1..1 /\ i = 1
        BY <1>0, <2>3, UnderWay
      <4>. QED  BY <2>1, <2>3, <4>1
    <3>2. loads'[i].stage = "sent"
      BY <2>1, <2>3
    <3>. QED  BY <2>1, <2>2, <3>1, <3>2 DEF ReadingOK
  <2>4. CASE loads' = RemoveAt(loads, i)
    <3>1. \A j \in DOMAIN loads' : \E m \in DOMAIN loads : m # i /\ loads'[j] = loads[m]
      BY <1>0, <2>4, OthersStay
    <3>. QED  BY <2>1, <2>2, <3>1 DEF ReadingOK
  <2>. QED  BY <2>1, <2>3, <2>4
<1>5. ASSUME NEW f \in Filters, SetFilter(f) PROVE ReadingOK'
  <2>1. /\ UNCHANGED <<marks, timers, calls>> /\ loads' = Append(loads, Load(f))
        /\ disturbed' = Toggling \cup (IF loads = <<>> THEN {} ELSE disturbed)
    BY <1>5 DEF SetFilter, server
  <2>2. Toggling' = Toggling
    BY <2>1 DEF Toggling
  <2>3. Load(f) \in Loads /\ Load(f).stage = "sent"
    BY LoadIs
  <2>4. \A k \in DOMAIN loads' : (k \in DOMAIN loads /\ loads'[k] = loads[k]) \/ loads'[k].stage = "sent"
    <3>. DEFINE e == Load(f)
    <3>. HIDE DEF e
    <3>1. e \in Loads /\ loads' = Append(loads, e) /\ e.stage = "sent"
      BY <2>1, <2>3 DEF e
    <3>2. \A k \in DOMAIN loads' : (k \in DOMAIN loads /\ loads'[k] = loads[k]) \/ loads'[k] = e
      BY <1>0, <3>1, AppendIs
    <3>. QED  BY <3>1, <3>2
  <2>5. \A k \in DOMAIN loads : loads # <<>>
    BY <1>0
  <2>. QED  BY <2>1, <2>2, <2>4, <2>5 DEF ReadingOK
<1>6. ASSUME NEW p \in Pages, Navigate(p) PROVE ReadingOK'
  <2>1. disturbed' = Toggling' /\ loads' = Mounts(p)
    BY <1>6 DEF Navigate, Toggling
  <2>2. \A k \in DOMAIN loads' : loads'[k].stage = "sent"
    <3>1. CASE loads' = <<>>
      BY <3>1
    <3>2. CASE loads' = <<Load("all")>>
      <4>. DEFINE e == Load("all")
      <4>1. e.stage = "sent" /\ loads' = <<e>>
        BY <3>2, LoadIs
      <4>. HIDE DEF e
      <4>2. \A k \in DOMAIN loads' : loads'[k] = e
        BY <4>1
      <4>. QED  BY <4>1, <4>2
    <3>. QED  BY <2>1, <3>1, <3>2 DEF Mounts
  <2>. QED  BY <2>1, <2>2 DEF ReadingOK
\* One request more, while nothing is being read or of a kind that marks nothing.
<1>7. ASSUME UNCHANGED <<marks, loads, timers, disturbed>>, NEW c \in Calls, calls' = Append(calls, c),
             loads = <<>> \/ c.op \notin {"mark", "clear"}
      PROVE  ReadingOK'
  <2>1. \A k \in DOMAIN calls' : (k \in DOMAIN calls /\ calls'[k] = calls[k]) \/ calls'[k] = c
    BY <1>0, <1>7, AskedFor
  <2>2. loads # <<>> => \A p \in Toggling' : p \in Toggling
    BY <1>7, <2>1, TogglingIs DEF Marking, Clears
  <2>. QED  BY <1>7, <2>2 DEF ReadingOK
<1>8. CASE handleCreate
  <2>1. UNCHANGED <<marks, loads, timers, disturbed>> /\ calls' = Append(calls, Call("create", None, FALSE))
    BY <1>8 DEF handleCreate, marking, server, listing
  <2>2. Call("create", None, FALSE) \in Calls /\ Call("create", None, FALSE).op = "create"
    BY DEF Call, Calls
  <2>. QED  BY <1>7, <2>1, <2>2
<1>9. ASSUME NEW i \in DOMAIN list, handleClosePoll(list[i]) \/ handleDeletePoll(list[i]) PROVE ReadingOK'
  <2>1. PICK op \in {"close", "delete"} :
           UNCHANGED <<marks, loads, timers, disturbed>> /\ calls' = Append(calls, Call(op, list[i].id, FALSE))
    BY <1>9 DEF handleClosePoll, handleDeletePoll, OwnPollClick, marking, server, listing
  <2>2. list[i].id \in Polls
    <3>1. list[i] \in Entry
      BY <1>0
    <3>. QED  BY <3>1, RecordTypes
  <2>3. Call(op, list[i].id, FALSE) \in Calls /\ Call(op, list[i].id, FALSE).op = op
    BY <2>2 DEF Call, Calls
  <2>. QED  BY <1>7, <2>1, <2>3
<1>10. ASSUME NEW p \in Marks, handleBookmarkToggle(p) PROVE ReadingOK'
  <2>1. /\ UNCHANGED <<marks, loads, calls>>
        /\ disturbed' = disturbed \cup (IF p \in Toggling \/ loads # <<>> THEN {p} ELSE {})
    BY <1>10 DEF handleBookmarkToggle, server, listing
  <2>2. \A k \in DOMAIN timers' : timers'[k].id = p \/ \E j \in DOMAIN timers : timers'[k] = timers[j]
    BY <1>0, <1>10, ToggledTimers
  <2>3. \A q \in Toggling' : q = p \/ q \in Toggling
    BY <2>1, <2>2, TogglingIs
  <2>. QED  BY <2>1, <2>3 DEF ReadingOK
<1>11. CASE TimerFires
  <2>1. UNCHANGED <<marks, loads, disturbed>>
    BY <1>11 DEF TimerFires, server, listing
  <2>. DEFINE n == Len(calls) + 1
  <2>2. /\ 1 \in DOMAIN timers
        /\ \A k \in DOMAIN timers' : k + 1 \in DOMAIN timers /\ timers'[k] = timers[k + 1]
        /\ \A k \in DOMAIN calls' : (k \in DOMAIN calls /\ calls'[k] = calls[k]) \/ k = n
        /\ calls'[n].op = "mark" /\ calls'[n].id = timers[1].id
    BY <1>0, <1>11, FiredTimer
  <2>. HIDE DEF n
  <2>3. \A p \in Toggling' : p \in Toggling
    BY <2>2, TogglingIs DEF Marking, Clears
  <2>. QED  BY <2>1, <2>3 DEF ReadingOK
<1>12. CASE BookmarksClick
  <2>1. /\ UNCHANGED <<marks, loads, timers, disturbed>> /\ page = "bookmarks" /\ list # <<>>
        /\ \E c \in {Call("clear", None, FALSE)} \cup {Call("mark", p, FALSE) : p \in BookmarkButtons} :
             calls' = Append(calls, c)
    BY <1>12 DEF BookmarksClick, marking, server, listing
  <2>2. loads = <<>>
    BY <1>0, <2>1 DEF PagesOK
  <2>3. /\ Call("clear", None, FALSE) \in Calls
        /\ \A p \in BookmarkButtons : Call("mark", p, FALSE) \in Calls
    BY ListsAssumption DEF Call, Calls, BookmarkButtons
  <2>. QED  BY <1>7, <2>1, <2>2, <2>3
<1>13. ASSUME NEW i \in DOMAIN calls, CallServed(i) PROVE ReadingOK'
  <2>1. /\ Toggling' = Toggling /\ UNCHANGED <<loads, disturbed>>
        /\ \A p \in Marks : (p \in marks) # (p \in marks') => p \in Toggling
        /\ marks' \subseteq Marks
    BY <1>0, <1>13, ServedMarks
  <2>2. loads # <<>> => marks \ disturbed = marks' \ disturbed
    BY <1>0, <2>1 DEF ReadingOK
  <2>3. \A k \in DOMAIN loads : loads # <<>>
    BY <1>0
  <2>. QED  BY <2>1, <2>2, <2>3 DEF ReadingOK
<1>14. ASSUME NEW i \in DOMAIN calls, CallAnswers(i) \/ CallFails(i) PROVE ReadingOK'
  <2>1. /\ Toggling' \subseteq Toggling /\ UNCHANGED <<marks, loads>> /\ disturbed \subseteq disturbed'
    BY <1>0, <1>14, EndedMarks
  <2>. QED  BY <2>1 DEF ReadingOK
<1>. QED  BY <1>1, <1>2, <1>3, <1>4, <1>5, <1>6, <1>8, <1>9, <1>10, <1>11, <1>12, <1>13, <1>14, MarksMoves


\* A bookmark stays right while what is on its way for it stays, or goes.
LEMMA MarkStays ==
  ASSUME NEW p, MarkOK(p), p \in marked' <=> p \in marked, p \in marks' <=> p \in marks, ~Clears(calls'),
         \A k \in DOMAIN timers' : timers'[k].id = p =>
            \E j \in DOMAIN timers : /\ timers'[k].id = timers[j].id /\ timers'[k].flag = timers[j].flag
                                     /\ timers'[k].alive = timers[j].alive,
         \A k, l \in DOMAIN timers' : k # l /\ timers'[k].id = p /\ timers'[l].id = p =>
            \E j, m \in DOMAIN timers : j # m /\ timers[j].id = p /\ timers[m].id = p,
         \A k \in DOMAIN calls' : Marking(calls'[k], p) => \E j \in DOMAIN calls : calls'[k] = calls[j],
         \A k, l \in DOMAIN calls' : k # l /\ Marking(calls'[k], p) /\ Marking(calls'[l], p) =>
            \E j, m \in DOMAIN calls : j # m /\ Marking(calls[j], p) /\ Marking(calls[m], p),
         p \notin Toggling' => p \notin Toggling \/ (p \in marked <=> p \in marks)
  PROVE  MarkOK(p)'
<1>1. p \notin Toggling' => (p \in marked' <=> p \in marks')
  BY DEF MarkOK
<1>2. ASSUME NEW k \in DOMAIN timers', timers'[k].id = p
      PROVE  /\ timers'[k].alive /\ (p \in marked' <=> timers'[k].flag) /\ (p \in marks' <=> ~timers'[k].flag)
             /\ \A l \in DOMAIN timers' : timers'[l].id = p => k = l
             /\ \A l \in DOMAIN calls' : ~Marking(calls'[l], p)
  <2>1. PICK j \in DOMAIN timers : /\ timers'[k].id = timers[j].id /\ timers'[k].flag = timers[j].flag
                                   /\ timers'[k].alive = timers[j].alive
    BY <1>2
  <2>2. /\ timers[j].alive /\ (p \in marked <=> timers[j].flag) /\ (p \in marks <=> ~timers[j].flag)
        /\ \A l \in DOMAIN timers : timers[l].id = p => j = l
        /\ \A l \in DOMAIN calls : ~Marking(calls[l], p)
    BY <1>2, <2>1 DEF MarkOK
  <2>3. \A l \in DOMAIN timers' : timers'[l].id = p => k = l
    BY <1>2, <2>2
  <2>4. \A l \in DOMAIN calls' : ~Marking(calls'[l], p)
    BY <2>2
  <2>. QED  BY <2>1, <2>2, <2>3, <2>4
<1>3. ASSUME NEW k \in DOMAIN calls', Marking(calls'[k], p)
      PROVE  /\ calls'[k].alive /\ (p \in marked' <=> calls'[k].flag)
             /\ calls'[k].stage = "done" => p \in marks'
             /\ calls'[k].stage # "done" => (p \in marks' <=> ~calls'[k].flag)
             /\ \A l \in DOMAIN calls' : Marking(calls'[l], p) => k = l
  <2>1. PICK j \in DOMAIN calls : calls'[k] = calls[j]
    BY <1>3
  <2>2. Marking(calls[j], p)
    BY <1>3, <2>1
  <2>3. /\ calls[j].alive /\ (p \in marked <=> calls[j].flag)
        /\ calls[j].stage = "done" => p \in marks
        /\ calls[j].stage # "done" => (p \in marks <=> ~calls[j].flag)
        /\ \A l \in DOMAIN calls : Marking(calls[l], p) => j = l
    BY <2>2 DEF MarkOK
  <2>4. \A l \in DOMAIN calls' : Marking(calls'[l], p) => k = l
    BY <1>3, <2>3
  <2>. QED  BY <2>1, <2>3, <2>4
<1>. QED  BY <1>1, <1>2, <1>3 DEF MarkOK, Marking

\* Clear All that is on its way while Home is open disturbs every bookmark.
LEMMA HomeClearsKept ==
  ASSUME TypesInv, HomeClears, [Next]_vars
  PROVE  HomeClears'
<1>0. /\ ServerTyped /\ ListingTyped /\ MarkingTyped /\ PagesOK /\ CallsOK /\ list \in Seq(Entry)
  BY TypeParts DEF TypesInv, ListingTyped
<1>. SUFFICES ASSUME page' = "home", Clears(calls') PROVE Marks \subseteq disturbed'
  BY DEF HomeClears
<1>1. ASSUME page = "home", Clears(calls), disturbed \subseteq disturbed' PROVE Marks \subseteq disturbed'
  BY <1>1 DEF HomeClears
<1>2. CASE UNCHANGED <<marks, page, upto, list, loads, marking, calls>>
  BY <1>1, <1>2 DEF marking
<1>3. CASE MoreArrives
  BY <1>1, <1>3 DEF MoreArrives, marking
<1>4. ASSUME NEW i \in DOMAIN loads, LoadServed(i) \/ LoadArrives(i) PROVE Marks \subseteq disturbed'
  BY <1>1, <1>4 DEF LoadServed, LoadArrives, marking
<1>5. ASSUME NEW f \in Filters, SetFilter(f) PROVE Marks \subseteq disturbed'
  <2>1. Toggling \subseteq disturbed' /\ calls' = calls
    BY <1>5 DEF SetFilter
  <2>2. \A p \in Marks : p \in Toggling
    BY <2>1, TogglingIs
  <2>. QED  BY <2>1, <2>2
<1>6. ASSUME NEW p \in Pages, Navigate(p) PROVE Marks \subseteq disturbed'
  <2>1. disturbed' = Toggling'
    BY <1>6 DEF Navigate, Toggling
  <2>2. \A q \in Marks : q \in Toggling'
    BY TogglingIs
  <2>. QED  BY <2>1, <2>2
<1>7. CASE handleCreate
  <2>1. UNCHANGED <<page, disturbed>> /\ calls' = Append(calls, Call("create", None, FALSE))
    BY <1>7 DEF handleCreate, marking
  <2>. DEFINE c == Call("create", None, FALSE)
  <2>2. c \in Calls /\ c.op = "create" /\ calls' = Append(calls, c)
    BY <2>1 DEF Call, Calls
  <2>. HIDE DEF c
  <2>3. \A k \in DOMAIN calls' : (k \in DOMAIN calls /\ calls'[k] = calls[k]) \/ calls'[k] = c
    BY <1>0, <2>2, AskedFor
  <2>4. Clears(calls)
    BY <2>2, <2>3 DEF Clears
  <2>. QED  BY <1>1, <2>1, <2>4
<1>8. ASSUME NEW i \in DOMAIN list, handleClosePoll(list[i]) \/ handleDeletePoll(list[i]) PROVE FALSE
  BY <1>8 DEF handleClosePoll, handleDeletePoll, OwnPollClick
<1>9. ASSUME NEW p \in Marks, handleBookmarkToggle(p) PROVE Marks \subseteq disturbed'
  <2>1. UNCHANGED <<page, calls>> /\ disturbed \subseteq disturbed'
    BY <1>9 DEF handleBookmarkToggle
  <2>. QED  BY <1>1, <2>1
<1>10. CASE TimerFires
  <2>1. UNCHANGED <<page, disturbed>>
    BY <1>10 DEF TimerFires
  <2>. DEFINE n == Len(calls) + 1
  <2>2. /\ \A k \in DOMAIN calls' : (k \in DOMAIN calls /\ calls'[k] = calls[k]) \/ k = n
        /\ calls'[n].op = "mark"
    BY <1>0, <1>10, FiredTimer
  <2>. HIDE DEF n
  <2>3. Clears(calls)
    BY <2>2 DEF Clears
  <2>. QED  BY <1>1, <2>1, <2>3
<1>11. CASE BookmarksClick
  BY <1>11 DEF BookmarksClick
<1>12. ASSUME NEW i \in DOMAIN calls, CallServed(i) PROVE Marks \subseteq disturbed'
  <2>1. /\ UNCHANGED <<page, disturbed>> /\ DOMAIN calls' = DOMAIN calls
        /\ \A k \in DOMAIN calls : k # i => calls'[k] = calls[k]
        /\ calls'[i].op = calls[i].op
    BY <1>0, <1>12, ServedMarks
  <2>2. Clears(calls)
    BY <2>1 DEF Clears
  <2>. QED  BY <1>1, <2>1, <2>2
<1>13. ASSUME NEW i \in DOMAIN calls, CallAnswers(i) \/ CallFails(i) PROVE Marks \subseteq disturbed'
  <2>1. /\ page' = page /\ disturbed \subseteq disturbed'
        /\ \A k \in DOMAIN calls' : (\E j \in DOMAIN calls : j # i /\ calls'[k] = calls[j]) \/ calls'[k].op = "refresh"
    BY <1>0, <1>13, EndedMarks
  <2>2. Clears(calls)
    BY <2>1 DEF Clears
  <2>. QED  BY <1>1, <2>1, <2>2
<1>. QED  BY <1>2, <1>3, <1>4, <1>5, <1>6, <1>7, <1>8, <1>9, <1>10, <1>11, <1>12, <1>13, MarksMoves


\* Home shows what was asked for last.
LEMMA HomeKept ==
  ASSUME TypesInv, ReadingOK, HomeMarks, HomeClears, [Next]_vars
  PROVE  HomeMarks'
<1>0. /\ ServerTyped /\ ListingTyped /\ MarkingTyped /\ PagesOK /\ CallsOK /\ marks \subseteq Marks
      /\ loads \in Seq(Loads) /\ list \in Seq(Entry)
  BY TypeParts DEF TypesInv, ServerTyped, ListingTyped
<1>. SUFFICES ASSUME page' = "home", upto' # None, NEW p \in Marks, p \notin disturbed' PROVE MarkOK(p)'
  BY DEF HomeMarks
<1>m. page = "home" /\ upto # None /\ p \notin disturbed => MarkOK(p)
  BY DEF HomeMarks
\* A step that leaves what is on its way alone.
<1>n. ASSUME UNCHANGED <<marks, page, upto, marking, calls>> PROVE MarkOK(p)'
  <2>1. MarkOK(p) /\ Toggling' = Toggling
    BY <1>m, <1>n DEF marking, Toggling
  <2>. QED  BY <1>n, <2>1 DEF MarkOK, marking
<1>1. CASE UNCHANGED <<marks, page, upto, list, loads, marking, calls>>
  BY <1>1, <1>n
<1>2. CASE MoreArrives
  BY <1>2, <1>n DEF MoreArrives, server
<1>3. ASSUME NEW i \in DOMAIN loads, LoadServed(i) PROVE MarkOK(p)'
  BY <1>3, <1>n DEF LoadServed, server
<1>4. ASSUME NEW i \in DOMAIN loads, LoadArrives(i) PROVE MarkOK(p)'
  <2>. DEFINE l == loads[i]
  <2>1. /\ l \in Loads /\ l.stage = "served" /\ loads # <<>>
        /\ UNCHANGED <<marks, page, timers, disturbed, calls>>
        /\ ~l.got.ok => UNCHANGED <<upto, marked>>
        /\ l.got.ok => marked' = l.got.marks
        /\ l.ids = None
    BY <1>0, <1>4, LoadArrivesIs, UnderWay DEF server
  <2>2. CASE ~l.got.ok
    BY <1>n, <2>1, <2>2 DEF marking
  <2>3. CASE l.got.ok
    <3>1. p \notin Toggling /\ p \notin disturbed
      BY <2>1 DEF ReadingOK
    <3>2. Toggling' = Toggling
      BY <2>1 DEF Toggling
    <3>3. p \in marked' <=> p \in marks'
      <4>1. l.got.marks \ disturbed = marks \ disturbed
        BY <2>1, <2>3 DEF ReadingOK
      <4>. QED  BY <2>1, <2>3, <3>1, <4>1
    <3>4. /\ ~Clears(calls') /\ \A k \in DOMAIN timers' : timers'[k].id # p
          /\ \A k \in DOMAIN calls' : ~Marking(calls'[k], p)
      BY <3>1, <3>2, TogglingIs
    <3>. HIDE DEF l
    <3>. QED  BY <3>3, <3>4 DEF MarkOK, Marking
  <2>. QED  BY <2>2, <2>3
<1>5. ASSUME NEW f \in Filters, SetFilter(f) PROVE FALSE
  BY <1>5 DEF SetFilter
<1>6. ASSUME NEW q \in Pages, Navigate(q) PROVE FALSE
  BY <1>6 DEF Navigate
<1>7. CASE handleCreate
  <2>1. /\ UNCHANGED <<marks, page, upto, marked, timers, disturbed>>
        /\ calls' = Append(calls, Call("create", None, FALSE))
    BY <1>7 DEF handleCreate, marking, server, listing
  <2>. DEFINE c == Call("create", None, FALSE)
  <2>2. c \in Calls /\ c.op = "create" /\ calls' = Append(calls, c)
    BY <2>1 DEF Call, Calls
  <2>. HIDE DEF c
  <2>3. /\ \A k \in DOMAIN calls' : (k \in DOMAIN calls /\ calls'[k] = calls[k]) \/ calls'[k] = c
        /\ \A k \in DOMAIN calls : k \in DOMAIN calls' /\ calls'[k] = calls[k]
    BY <1>0, <2>2, AskedFor
  <2>4. \A k \in DOMAIN calls' : calls'[k].op \in {"mark", "clear"} => k \in DOMAIN calls /\ calls'[k] = calls[k]
    BY <2>2, <2>3
  <2>5. MarkOK(p)
    BY <1>m, <2>1
  <2>6. ~Clears(calls')
    BY <2>4, <2>5 DEF MarkOK, Clears
  <2>7. p \notin Toggling' => p \notin Toggling
    <3>1. ~Clears(calls)
      BY <2>5 DEF MarkOK
    <3>2. \A k \in DOMAIN calls : Marking(calls[k], p) => k \in DOMAIN calls' /\ Marking(calls'[k], p)
      BY <2>3
    <3>. QED  BY <2>1, <3>1, <3>2, TogglingIs
  <2>8. /\ \A k \in DOMAIN calls' : Marking(calls'[k], p) => \E j \in DOMAIN calls : calls'[k] = calls[j]
        /\ \A k, l \in DOMAIN calls' : k # l /\ Marking(calls'[k], p) /\ Marking(calls'[l], p) =>
              \E j, m \in DOMAIN calls : j # m /\ Marking(calls[j], p) /\ Marking(calls[m], p)
    BY <2>4 DEF Marking
  <2>9. /\ \A k \in DOMAIN timers' : timers'[k].id = p => \E j \in DOMAIN timers : timers'[k] = timers[j]
        /\ \A k, l \in DOMAIN timers' : k # l /\ timers'[k].id = p /\ timers'[l].id = p =>
              \E j, m \in DOMAIN timers : j # m /\ timers[j].id = p /\ timers[m].id = p
        /\ (p \in marked' <=> p \in marked) /\ (p \in marks' <=> p \in marks)
    BY <2>1
  <2>. QED  BY <2>5, <2>6, <2>7, <2>8, <2>9, MarkStays
<1>8. ASSUME NEW i \in DOMAIN list, handleClosePoll(list[i]) \/ handleDeletePoll(list[i]) PROVE FALSE
  BY <1>8 DEF handleClosePoll, handleDeletePoll, OwnPollClick
<1>9. ASSUME NEW q \in Marks, handleBookmarkToggle(q) PROVE MarkOK(p)'
  <2>1. /\ UNCHANGED <<marks, page, upto, loads, calls>>
        /\ marked' = IF q \in marked THEN marked \ {q} ELSE marked \cup {q}
        /\ disturbed' = disturbed \cup (IF q \in Toggling \/ loads # <<>> THEN {q} ELSE {})
    BY <1>9 DEF handleBookmarkToggle, server, listing
  <2>2. PICK n \in DOMAIN timers' :
          /\ timers'[n].id = q /\ timers'[n].flag = (q \notin marked) /\ timers'[n].alive = TRUE
          /\ \A k \in DOMAIN timers' : k # n => \E j \in DOMAIN timers : timers'[k] = timers[j]
          /\ \A k, l \in DOMAIN timers' : k # l /\ k # n /\ l # n =>
                \E j, m \in DOMAIN timers : j # m /\ timers'[k] = timers[j] /\ timers'[l] = timers[m]
    BY <1>0, <1>9, ToggledTimers
  <2>3. \A j \in DOMAIN timers : timers[j].id # q => \E k \in DOMAIN timers' : timers'[k] = timers[j]
    BY <1>0, <1>9, ToggledTimers
  <2>4. p \notin disturbed /\ MarkOK(p)
    BY <1>m, <2>1
  <2>5. CASE p # q
    <3>1. \A k \in DOMAIN timers' : timers'[k].id = p => k # n
      BY <2>2, <2>5
    <3>2. /\ \A k \in DOMAIN timers' : timers'[k].id = p => \E j \in DOMAIN timers : timers'[k] = timers[j]
          /\ \A k, l \in DOMAIN timers' : k # l /\ timers'[k].id = p /\ timers'[l].id = p =>
                \E j, m \in DOMAIN timers : j # m /\ timers[j].id = p /\ timers[m].id = p
      BY <2>2, <3>1
    <3>3. p \notin Toggling' => p \notin Toggling
      BY <2>1, <2>3, <2>5, TogglingIs
    <3>4. /\ p \in marked' <=> p \in marked
          /\ p \in marks' <=> p \in marks
          /\ ~Clears(calls')
          /\ \A k \in DOMAIN calls' : Marking(calls'[k], p) => \E j \in DOMAIN calls : calls'[k] = calls[j]
          /\ \A k, l \in DOMAIN calls' : k # l /\ Marking(calls'[k], p) /\ Marking(calls'[l], p) =>
                \E j, m \in DOMAIN calls : j # m /\ Marking(calls[j], p) /\ Marking(calls[m], p)
      BY <2>1, <2>4, <2>5 DEF MarkOK
    <3>. QED  BY <2>4, <3>2, <3>3, <3>4, MarkStays
  <2>6. CASE p = q
    <3>1. p \notin Toggling
      BY <2>1, <2>6
    <3>2. /\ ~Clears(calls) /\ \A k \in DOMAIN timers : timers[k].id # p
          /\ \A k \in DOMAIN calls : ~Marking(calls[k], p)
      BY <3>1, TogglingIs
    <3>3. p \in marked <=> p \in marks
      BY <2>4, <3>1 DEF MarkOK
    <3>4. p \in marked' <=> p \notin marked
      BY <2>1, <2>6
    <3>5. timers'[n].flag <=> p \notin marked
      BY <2>2, <2>6
    <3>6. \A k \in DOMAIN timers' : timers'[k].id = p => k = n
      BY <2>2, <2>6, <3>2
    <3>7. p \in Toggling'
      BY <2>2, <2>6, TogglingIs
    <3>8. \A k \in DOMAIN timers' : timers'[k].id = p =>
            /\ timers'[k].alive /\ (p \in marked' <=> timers'[k].flag) /\ (p \in marks' <=> ~timers'[k].flag)
            /\ \A l \in DOMAIN timers' : timers'[l].id = p => k = l
            /\ \A l \in DOMAIN calls' : ~Marking(calls'[l], p)
      BY <2>1, <2>2, <3>2, <3>3, <3>4, <3>5, <3>6
    <3>. QED  BY <2>1, <3>2, <3>7, <3>8 DEF MarkOK, Marking
  <2>. QED  BY <2>5, <2>6
<1>10. CASE TimerFires
  <2>. DEFINE n == Len(calls) + 1
  <2>1. UNCHANGED <<marks, page, upto, marked, disturbed>>
    BY <1>10 DEF TimerFires, server, listing
  <2>2. /\ 1 \in DOMAIN timers
        /\ \A k \in DOMAIN timers' : k + 1 \in DOMAIN timers /\ k + 1 # 1 /\ timers'[k] = timers[k + 1]
        /\ \A k \in DOMAIN timers : k = 1 \/ (k - 1 \in DOMAIN timers' /\ timers'[k - 1] = timers[k])
        /\ \A k \in DOMAIN calls : k \in DOMAIN calls' /\ calls'[k] = calls[k]
        /\ n \in DOMAIN calls' /\ n \notin DOMAIN calls
        /\ \A k \in DOMAIN calls' : (k \in DOMAIN calls /\ calls'[k] = calls[k]) \/ k = n
        /\ LET c == calls'[n]
               t == timers[1]
           IN  c.op = "mark" /\ c.id = t.id /\ c.flag = t.flag /\ c.alive = t.alive /\ c.stage = "sent"
    BY <1>0, <1>10, FiredTimer
  <2>3. \A k, l \in DOMAIN timers' : k # l => k + 1 # l + 1
    <3>1. timers' \in Seq(Timers)
      BY <1>0, <1>10, FiredTimer
    <3>. QED  BY <3>1
  <2>. HIDE DEF n
  <2>4. MarkOK(p)
    BY <1>m, <2>1
  <2>5. ~Clears(calls')
    BY <2>2, <2>4 DEF MarkOK, Clears
  <2>6. p \in Toggling => p \in Toggling'
    <3>1. CASE \E k \in DOMAIN calls : Marking(calls[k], p)
      BY <2>2, <3>1, TogglingIs
    <3>2. ASSUME NEW k \in DOMAIN timers, timers[k].id = p PROVE p \in Toggling'
      <4>1. CASE k = 1
        BY <2>2, <3>2, <4>1, TogglingIs DEF Marking
      <4>2. CASE k # 1
        BY <2>2, <3>2, <4>2, TogglingIs
      <4>. QED  BY <4>1, <4>2
    <3>. QED  BY <2>4, <3>1, <3>2, TogglingIs DEF MarkOK
  <2>7. \A k \in DOMAIN timers' : timers'[k].id = p =>
            /\ timers'[k].alive /\ (p \in marked' <=> timers'[k].flag) /\ (p \in marks' <=> ~timers'[k].flag)
            /\ \A l \in DOMAIN timers' : timers'[l].id = p => k = l
            /\ \A l \in DOMAIN calls' : ~Marking(calls'[l], p)
    <3>. SUFFICES ASSUME NEW k \in DOMAIN timers', timers'[k].id = p
                  PROVE  /\ timers'[k].alive /\ (p \in marked' <=> timers'[k].flag) /\ (p \in marks' <=> ~timers'[k].flag)
                         /\ \A l \in DOMAIN timers' : timers'[l].id = p => k = l
                         /\ \A l \in DOMAIN calls' : ~Marking(calls'[l], p)
      OBVIOUS
    <3>. DEFINE m == k + 1
    <3>1. m \in DOMAIN timers /\ m # 1 /\ timers'[k] = timers[m]
      BY <2>2
    <3>2. \A l \in DOMAIN timers' : l # k => l + 1 \in DOMAIN timers /\ l + 1 # m /\ timers'[l] = timers[l + 1]
      BY <2>2, <2>3
    <3>. HIDE DEF m
    <3>3. /\ timers[m].alive /\ (p \in marked <=> timers[m].flag) /\ (p \in marks <=> ~timers[m].flag)
          /\ \A l \in DOMAIN timers : timers[l].id = p => m = l
          /\ \A l \in DOMAIN calls : ~Marking(calls[l], p)
      BY <2>4, <3>1 DEF MarkOK
    <3>4. \A l \in DOMAIN timers' : timers'[l].id = p => k = l
      BY <3>2, <3>3
    <3>5. timers[1].id # p
      BY <2>2, <3>1, <3>3
    <3>6. \A l \in DOMAIN calls' : ~Marking(calls'[l], p)
      BY <2>2, <3>3, <3>5 DEF Marking
    <3>. QED  BY <2>1, <3>1, <3>3, <3>4, <3>6
  <2>8. \A k \in DOMAIN calls' : Marking(calls'[k], p) =>
          /\ calls'[k].alive /\ (p \in marked' <=> calls'[k].flag)
          /\ calls'[k].stage = "done" => p \in marks'
          /\ calls'[k].stage # "done" => (p \in marks' <=> ~calls'[k].flag)
          /\ \A l \in DOMAIN calls' : Marking(calls'[l], p) => k = l
    <3>1. CASE timers[1].id = p
      <4>1. /\ timers[1].alive /\ (p \in marked <=> timers[1].flag) /\ (p \in marks <=> ~timers[1].flag)
            /\ \A l \in DOMAIN calls : ~Marking(calls[l], p)
        BY <2>2, <2>4, <3>1 DEF MarkOK
      <4>2. \A l \in DOMAIN calls' : Marking(calls'[l], p) => l = n
        BY <2>2, <4>1
      <4>. QED  BY <2>1, <2>2, <4>1, <4>2
    <3>2. CASE timers[1].id # p
      <4>1. \A l \in DOMAIN calls' : Marking(calls'[l], p) => l \in DOMAIN calls /\ calls'[l] = calls[l]
        BY <2>2, <3>2 DEF Marking
      <4>2. \A k \in DOMAIN calls : Marking(calls[k], p) =>
              /\ calls[k].alive /\ (p \in marked <=> calls[k].flag)
              /\ calls[k].stage = "done" => p \in marks
              /\ calls[k].stage # "done" => (p \in marks <=> ~calls[k].flag)
              /\ \A l \in DOMAIN calls : Marking(calls[l], p) => k = l
        BY <2>4 DEF MarkOK
      <4>. QED  BY <2>1, <4>1, <4>2
    <3>. QED  BY <3>1, <3>2
  <2>9. p \notin Toggling' => (p \in marked' <=> p \in marks')
    BY <2>1, <2>4, <2>6 DEF MarkOK
  <2>. QED  BY <2>5, <2>7, <2>8, <2>9 DEF MarkOK, Marking
<1>11. CASE BookmarksClick
  BY <1>11 DEF BookmarksClick
<1>12. ASSUME NEW i \in DOMAIN calls, CallServed(i) PROVE MarkOK(p)'
  <2>. DEFINE c == calls[i]
  <2>1. /\ Toggling' = Toggling /\ c.stage = "sent"
        /\ UNCHANGED <<page, list, loads, upto, marked, timers, disturbed>>
        /\ DOMAIN calls' = DOMAIN calls /\ \A k \in DOMAIN calls : k # i => calls'[k] = calls[k]
        /\ calls'[i].op = c.op /\ calls'[i].id = c.id /\ calls'[i].flag = c.flag /\ calls'[i].alive = c.alive
        /\ calls'[i].stage \in {"done", "failed"}
        /\ (p \in marks) # (p \in marks') =>
              calls'[i].stage = "done" /\ p \in Toggling /\ ((Marking(c, p) /\ p \in marks') \/ (c.op = "clear" /\ marks' = {}))
        /\ calls'[i].stage = "done" /\ c.op = "mark" => c.flag /\ c.id \in marks'
    BY <1>0, <1>12, ServedMarks
  <2>2. MarkOK(p)
    BY <1>m, <2>1
  <2>. HIDE DEF c
  <2>3. c.op # "clear"
    BY <2>2 DEF MarkOK, Clears, c
  <2>4. /\ \A k \in DOMAIN calls : Marking(calls'[k], p) <=> Marking(calls[k], p)
        /\ ~Clears(calls')
    <3>1. \A k \in DOMAIN calls : calls'[k].op = calls[k].op /\ calls'[k].id = calls[k].id
      BY <2>1 DEF c
    <3>. QED  BY <2>1, <2>2, <3>1 DEF Marking, MarkOK, Clears
  <2>5. CASE Marking(c, p)
    <3>1. /\ c.alive /\ (p \in marked <=> c.flag) /\ (p \in marks <=> ~c.flag)
          /\ \A j \in DOMAIN calls : Marking(calls[j], p) => i = j
      BY <2>1, <2>2, <2>5 DEF MarkOK, c
    <3>2. \A k \in DOMAIN timers : timers[k].id # p
      BY <2>2, <2>5 DEF MarkOK, c
    <3>3. p \in Toggling
      BY <2>5, TogglingIs DEF c
    <3>4. /\ calls'[i].stage = "done" => p \in marks'
          /\ calls'[i].stage # "done" => (p \in marks' <=> p \in marks)
      BY <2>1, <2>5 DEF Marking
    <3>5. \A k \in DOMAIN calls' : Marking(calls'[k], p) => k = i
      BY <2>1, <2>4, <3>1
    <3>. QED  BY <2>1, <2>4, <3>1, <3>2, <3>3, <3>4, <3>5 DEF MarkOK, Marking
  <2>6. CASE ~Marking(c, p)
    <3>1. p \in marks' <=> p \in marks
      BY <2>1, <2>3, <2>6
    <3>2. \A k \in DOMAIN calls' : Marking(calls'[k], p) => k \in DOMAIN calls /\ calls'[k] = calls[k] /\ Marking(calls[k], p)
      BY <2>1, <2>4, <2>6 DEF c
    <3>3. /\ \A k \in DOMAIN calls' : Marking(calls'[k], p) => \E j \in DOMAIN calls : calls'[k] = calls[j]
          /\ \A k, l \in DOMAIN calls' : k # l /\ Marking(calls'[k], p) /\ Marking(calls'[l], p) =>
                \E j, m \in DOMAIN calls : j # m /\ Marking(calls[j], p) /\ Marking(calls[m], p)
      BY <3>2
    <3>4. /\ \A k \in DOMAIN timers' : timers'[k].id = p => \E j \in DOMAIN timers : timers'[k] = timers[j]
          /\ \A k, l \in DOMAIN timers' : k # l /\ timers'[k].id = p /\ timers'[l].id = p =>
                \E j, m \in DOMAIN timers : j # m /\ timers[j].id = p /\ timers[m].id = p
          /\ p \in marked' <=> p \in marked
          /\ p \notin Toggling' => p \notin Toggling
      BY <2>1
    <3>. QED  BY <2>2, <2>4, <3>1, <3>3, <3>4, MarkStays
  <2>. QED  BY <2>5, <2>6
<1>13. ASSUME NEW i \in DOMAIN calls, CallAnswers(i) \/ CallFails(i) PROVE MarkOK(p)'
  <2>. DEFINE c == calls[i]
  <2>1. /\ \A q \in Toggling : q \in Toggling' \/ Marking(c, q) \/ c.op = "clear"
        /\ UNCHANGED <<marks, page, loads, upto>> /\ disturbed \subseteq disturbed'
        /\ c.op \in {"mark", "clear"} /\ CallFails(i) => c.stage = "failed" \/ (IF c.op = "mark" THEN {c.id} ELSE Marks) \subseteq disturbed'
        /\ DOMAIN timers' = DOMAIN timers
        /\ \A k \in DOMAIN timers : /\ timers'[k].id = timers[k].id /\ timers'[k].flag = timers[k].flag
                                    /\ timers'[k].alive = timers[k].alive
        /\ \A k \in DOMAIN calls' : (\E j \in DOMAIN calls : j # i /\ calls'[k] = calls[j]) \/ calls'[k].op = "refresh"
        /\ \A k, l \in DOMAIN calls' : k # l /\ calls'[k].op = "mark" /\ calls'[l].op = "mark" =>
              \E j, m \in DOMAIN calls : j # m /\ j # i /\ m # i /\ calls'[k] = calls[j] /\ calls'[l] = calls[m]
    BY <1>0, <1>13, EndedMarks
  <2>2. p \notin disturbed /\ MarkOK(p)
    BY <1>m, <2>1
  <2>. HIDE DEF c
  <2>3. c.op # "clear"
    BY <2>2 DEF MarkOK, Clears, c
  <2>4. ~Clears(calls')
    BY <2>1, <2>2 DEF MarkOK, Clears
  <2>5. /\ \A k \in DOMAIN calls' : Marking(calls'[k], p) => \E j \in DOMAIN calls : j # i /\ calls'[k] = calls[j]
        /\ \A k, l \in DOMAIN calls' : k # l /\ Marking(calls'[k], p) /\ Marking(calls'[l], p) =>
              \E j, m \in DOMAIN calls : j # m /\ Marking(calls[j], p) /\ Marking(calls[m], p)
    BY <2>1 DEF Marking
  <2>6. CASE ~Marking(c, p)
    <3>1. p \in marked' <=> p \in marked
      <4>1. CASE CallAnswers(i)
        <5>1. ~(c.alive /\ c.op = "clear")
          BY <2>3
        <5>2. marked' = IF c.alive /\ c.op = "clear" THEN {} ELSE marked
          BY <4>1 DEF CallAnswers, c
        <5>. QED  BY <5>1, <5>2
      <4>2. CASE CallFails(i)
        <5>1. marked' = Reverted(c)
          BY <4>2 DEF CallFails, c
        <5>. QED  BY <2>6, <5>1 DEF Reverted, Marking
      <4>. QED  BY <1>13, <4>1, <4>2
    <3>2. p \notin Toggling' => p \notin Toggling
      BY <2>1, <2>3, <2>6
    <3>3. p \in marks' <=> p \in marks
      BY <2>1
    <3>. QED  BY <2>1, <2>2, <2>4, <2>5, <3>1, <3>2, <3>3, MarkStays
  <2>7. CASE Marking(c, p)
    <3>1. /\ c.alive /\ (p \in marked <=> c.flag)
          /\ c.stage = "done" => p \in marks
          /\ c.stage # "done" => (p \in marks <=> ~c.flag)
          /\ \A j \in DOMAIN calls : Marking(calls[j], p) => i = j
      BY <2>2, <2>7 DEF MarkOK, c
    <3>2. \A k \in DOMAIN timers' : timers'[k].id # p
      BY <2>1, <2>2, <2>7 DEF MarkOK, c
    <3>3. \A k \in DOMAIN calls' : ~Marking(calls'[k], p)
      BY <2>5, <3>1
    <3>4. p \in marked' <=> p \in marks'
      <4>1. CASE CallAnswers(i)
        <5>1. c.stage = "done" /\ marked' = IF c.alive /\ c.op = "clear" THEN {} ELSE marked
          BY <4>1 DEF CallAnswers, c
        <5>2. c.flag
          BY <1>0, <2>7, <5>1 DEF CallsOK, CallOK, Marking, c
        <5>. QED  BY <2>1, <2>3, <3>1, <5>1, <5>2
      <4>2. CASE CallFails(i)
        <5>1. marked' = Reverted(c)
          BY <4>2 DEF CallFails, c
        <5>2. c.stage = "failed"
          BY <2>1, <2>7, <4>2 DEF Marking
        <5>3. p \in marked' <=> p \notin marked
          BY <2>1, <2>7, <3>1, <5>1 DEF Reverted, Marking
        <5>. QED  BY <2>1, <3>1, <5>2, <5>3
      <4>. QED  BY <1>13, <4>1, <4>2
    <3>. QED  BY <2>4, <3>2, <3>3, <3>4 DEF MarkOK, Marking
  <2>. QED  BY <2>6, <2>7
<1>. QED  BY <1>1, <1>2, <1>3, <1>4, <1>5, <1>6, <1>7, <1>8, <1>9, <1>10, <1>11, <1>12, <1>13, MarksMoves


\* The page of the bookmarks shows those that the server has.
LEMMA BookmarksKept ==
  ASSUME TypesInv, ReadingOK, BookmarksMarks, [Next]_vars
  PROVE  BookmarksMarks'
<1>0. /\ ServerTyped /\ ListingTyped /\ MarkingTyped /\ PagesOK /\ CallsOK
      /\ marks \subseteq Marks /\ marked \subseteq Marks
      /\ loads \in Seq(Loads) /\ list \in Seq(Entry)
  BY TypeParts DEF TypesInv, ServerTyped, ListingTyped, MarkingTyped
<1>. SUFFICES ASSUME page' = "bookmarks" PROVE LeftoversKnown' /\ BookmarksShown' /\ BookmarksRead'
  BY DEF BookmarksMarks
<1>b. page = "bookmarks" => LeftoversKnown /\ BookmarksShown /\ BookmarksRead
  BY DEF BookmarksMarks
<1>1. CASE UNCHANGED <<marks, page, upto, list, loads, marking, calls>>
  BY <1>1, <1>b DEF LeftoversKnown, BookmarksShown, BookmarksRead, Cleared, Shown, marking
<1>2. CASE MoreArrives
  BY <1>0, <1>2 DEF MoreArrives, PagesOK
<1>3. ASSUME NEW i \in DOMAIN loads, LoadServed(i) PROVE LeftoversKnown' /\ BookmarksShown' /\ BookmarksRead'
  <2>1. /\ DOMAIN loads' = DOMAIN loads
        /\ loads'[i].ids = loads[i].ids
        /\ loads'[i].got = NoAnswer \/ loads'[i].got \in LoadAnswers(loads[i])
        /\ \A k \in DOMAIN loads : k # i => loads'[k] = loads[k]
        /\ UNCHANGED <<marks, page, list, upto, marked, timers, disturbed, calls>> /\ loads # <<>>
    BY <1>0, <1>3, LoadServedIs DEF server, marking
  <2>2. loads'[i].got.ok /\ loads[i].ids # None =>
          {loads'[i].got.items[j].id : j \in DOMAIN loads'[i].got.items} = loads[i].ids
    <3>1. CASE loads'[i].got = NoAnswer
      BY <3>1 DEF NoAnswer
    <3>2. CASE loads'[i].got \in LoadAnswers(loads[i])
      BY <1>0, <2>1, <3>2, UnderWay, LoadAnswersAre
    <3>. QED  BY <2>1, <3>1, <3>2
  <2>3. LeftoversKnown' /\ BookmarksShown'
    BY <1>b, <2>1 DEF LeftoversKnown, BookmarksShown, Cleared, Shown
  <2>4. BookmarksRead'
    BY <1>b, <2>1, <2>2 DEF BookmarksRead
  <2>. QED  BY <2>3, <2>4
<1>4. ASSUME NEW i \in DOMAIN loads, LoadArrives(i) PROVE LeftoversKnown' /\ BookmarksShown' /\ BookmarksRead'
  <2>. DEFINE l == loads[i]
  <2>1. /\ UNCHANGED <<marks, page, timers, disturbed, calls>> /\ loads # <<>> /\ l.stage = "served"
        /\ l.ids = None /\ l.got.ok =>
              /\ marked' = l.got.marks /\ UNCHANGED <<list, upto>>
              /\ DOMAIN loads' = DOMAIN loads /\ loads'[i].ids = l.got.marks /\ loads'[i].stage = "sent"
        /\ ~(l.ids = None /\ l.got.ok) =>
              /\ Len(loads') = Len(loads) - 1 /\ loads' \in Seq(Loads)
              /\ ~l.got.ok => UNCHANGED <<list, upto, marked>>
              /\ l.got.ok => list' = l.got.items /\ marked' = marked
    BY <1>0, <1>4, LoadArrivesIs DEF server
  <2>2. /\ Len(loads) = 1 /\ i = 1 /\ DOMAIN loads = 1..1 /\ upto = None
    BY <1>0, <2>1, UnderWay DEF PagesOK
  <2>3. Cleared' = Cleared
    BY <2>1 DEF Cleared
  <2>4. CASE l.ids = None /\ l.got.ok
    <3>1. LeftoversKnown'
      <4>1. \A k \in DOMAIN calls : calls[k].op = "clear" => ~calls[k].alive
        BY <1>b, <2>1 DEF LeftoversKnown
      <4>. QED  BY <1>b, <2>1, <2>3, <4>1 DEF LeftoversKnown
    <3>2. BookmarksShown'
      BY <2>1, <2>2, <2>4 DEF BookmarksShown
    <3>3. \A k \in DOMAIN loads' : k = i
      BY <2>1, <2>2, <2>4
    <3>4. l.got.marks \ disturbed = marks \ disturbed
      BY <2>1, <2>4 DEF ReadingOK
    <3>5. BookmarksRead'
      BY <2>1, <2>4, <3>3, <3>4 DEF BookmarksRead
    <3>. QED  BY <3>1, <3>2, <3>5
  <2>5. CASE ~(l.ids = None /\ l.got.ok)
    <3>1. loads' = <<>>
      BY <2>1, <2>2, <2>5
    <3>2. LeftoversKnown'
      BY <1>b, <2>1, <2>3, <3>1 DEF LeftoversKnown
    <3>3. BookmarksRead'
      BY <3>1 DEF BookmarksRead
    <3>4. BookmarksShown'
      <4>1. CASE ~l.got.ok
        BY <2>1, <2>2, <2>5, <4>1 DEF BookmarksShown
      <4>2. CASE l.got.ok
        <5>1. /\ marked = l.ids /\ marked \ disturbed = marks \ disturbed
              /\ {l.got.items[j].id : j \in DOMAIN l.got.items} = l.ids
          BY <1>b, <2>1, <2>5, <4>2 DEF BookmarksRead
        <5>2. Shown' = marked'
          BY <2>1, <2>5, <4>2, <5>1 DEF Shown
        <5>. QED  BY <2>1, <2>5, <4>2, <5>1, <5>2 DEF BookmarksShown
      <4>. QED  BY <4>1, <4>2
    <3>. QED  BY <3>2, <3>3, <3>4
  <2>. QED  BY <2>4, <2>5
<1>5. ASSUME NEW f \in Filters, SetFilter(f) PROVE FALSE
  BY <1>5 DEF SetFilter
<1>6. ASSUME NEW p \in Pages, Navigate(p) PROVE LeftoversKnown' /\ BookmarksShown' /\ BookmarksRead'
  <2>1. /\ upto' = None /\ disturbed' = Toggling' /\ loads' = Mounts(p)
    BY <1>6 DEF Navigate, Toggling
  <2>2. \A k \in DOMAIN calls' : calls'[k].alive => calls'[k].op \in {"create", "refresh"}
    BY <1>0, <1>6, LeftBehind
  <2>3. \A k \in DOMAIN loads' : loads'[k].ids = None
    <3>1. CASE loads' = <<>>
      BY <3>1
    <3>2. CASE loads' = <<Load("all")>>
      <4>. DEFINE e == Load("all")
      <4>1. e.ids = None /\ loads' = <<e>>
        BY <3>2, LoadIs
      <4>. HIDE DEF e
      <4>2. \A k \in DOMAIN loads' : loads'[k] = e
        BY <4>1
      <4>. QED  BY <4>1, <4>2
    <3>. QED  BY <2>1, <3>1, <3>2 DEF Mounts
  <2>4. ~Cleared'
    BY <2>2 DEF Cleared, ClearedBy
  <2>5. /\ \A k \in DOMAIN timers' : timers'[k].id \in Toggling'
        /\ \A k \in DOMAIN calls' : calls'[k].op = "mark" => calls'[k].id \in Toggling'
        /\ (\E k \in DOMAIN calls' : calls'[k].op = "clear") => \A q \in Marks : q \in Toggling'
    BY TogglingIs DEF Marking, Clears
  <2>6. LeftoversKnown'
    BY <2>1, <2>2, <2>4, <2>5 DEF LeftoversKnown
  <2>. QED  BY <2>1, <2>3, <2>6 DEF BookmarksShown, BookmarksRead
\* One request more that marks nothing yet.
<1>7. ASSUME UNCHANGED <<marks, page, upto, list, loads, marking>>, page = "bookmarks",
             NEW c \in Calls, calls' = Append(calls, c), c.stage = "sent", c.op = "mark" => ~c.flag,
             c.op = "clear" => c.alive /\ loads = <<>>
      PROVE  LeftoversKnown' /\ BookmarksShown' /\ BookmarksRead'
  <2>1. /\ \A k \in DOMAIN calls' : (k \in DOMAIN calls /\ calls'[k] = calls[k]) \/ calls'[k] = c
        /\ \A k \in DOMAIN calls : k \in DOMAIN calls' /\ calls'[k] = calls[k]
    BY <1>0, <1>7, AskedFor
  <2>2. Cleared' <=> Cleared
    BY <1>7, <2>1 DEF Cleared, ClearedBy
  <2>3. LeftoversKnown'
    BY <1>7, <1>b, <2>1, <2>2 DEF LeftoversKnown, marking
  <2>4. BookmarksShown' /\ BookmarksRead'
    BY <1>7, <1>b, <2>2 DEF BookmarksShown, BookmarksRead, Shown, marking
  <2>. QED  BY <2>3, <2>4
<1>8. CASE handleCreate
  <2>1. UNCHANGED <<marks, page, upto, list, loads, marking>> /\ calls' = Append(calls, Call("create", None, FALSE))
    BY <1>8 DEF handleCreate, server, listing
  <2>2. Call("create", None, FALSE) \in Calls /\ Call("create", None, FALSE).op = "create" /\ Call("create", None, FALSE).stage = "sent"
    BY DEF Call, Calls
  <2>. QED  BY <1>7, <2>1, <2>2
<1>9. ASSUME NEW i \in DOMAIN list, handleClosePoll(list[i]) \/ handleDeletePoll(list[i]) PROVE FALSE
  BY <1>9 DEF handleClosePoll, handleDeletePoll, OwnPollClick
<1>10. ASSUME NEW p \in Marks, handleBookmarkToggle(p) PROVE FALSE
  BY <1>10 DEF handleBookmarkToggle
<1>11. CASE TimerFires
  <2>. DEFINE n == Len(calls) + 1
  <2>1. UNCHANGED <<marks, page, upto, list, loads, marked, disturbed>>
    BY <1>11 DEF TimerFires, server, listing
  <2>2. /\ 1 \in DOMAIN timers
        /\ \A k \in DOMAIN timers' : k + 1 \in DOMAIN timers /\ timers'[k] = timers[k + 1]
        /\ \A k \in DOMAIN calls : k \in DOMAIN calls' /\ calls'[k] = calls[k]
        /\ \A k \in DOMAIN calls' : (k \in DOMAIN calls /\ calls'[k] = calls[k]) \/ k = n
        /\ calls'[n].op = "mark" /\ calls'[n].id = timers[1].id
    BY <1>0, <1>11, FiredTimer
  <2>. HIDE DEF n
  <2>3. Cleared' <=> Cleared
    BY <2>2 DEF Cleared, ClearedBy
  <2>4. LeftoversKnown'
    BY <1>b, <2>1, <2>2, <2>3 DEF LeftoversKnown
  <2>5. BookmarksShown' /\ BookmarksRead'
    BY <1>b, <2>1, <2>3 DEF BookmarksShown, BookmarksRead, Shown
  <2>. QED  BY <2>4, <2>5
<1>12. CASE BookmarksClick
  <2>1. /\ UNCHANGED <<marks, page, upto, list, loads, marking>> /\ page = "bookmarks" /\ list # <<>>
        /\ \E c \in {Call("clear", None, FALSE)} \cup {Call("mark", p, FALSE) : p \in BookmarkButtons} :
             calls' = Append(calls, c)
    BY <1>12 DEF BookmarksClick, server, listing
  <2>2. loads = <<>>
    BY <1>0, <2>1 DEF PagesOK
  <2>3. CASE calls' = Append(calls, Call("clear", None, FALSE))
    <3>1. /\ Call("clear", None, FALSE) \in Calls /\ Call("clear", None, FALSE).op = "clear"
          /\ Call("clear", None, FALSE).stage = "sent" /\ Call("clear", None, FALSE).alive
      BY DEF Call, Calls
    <3>. QED  BY <1>7, <2>1, <2>2, <2>3, <3>1
  <2>4. ASSUME NEW p \in BookmarkButtons, calls' = Append(calls, Call("mark", p, FALSE))
        PROVE  LeftoversKnown' /\ BookmarksShown' /\ BookmarksRead'
    <3>1. /\ Call("mark", p, FALSE) \in Calls /\ Call("mark", p, FALSE).op = "mark"
          /\ Call("mark", p, FALSE).stage = "sent" /\ ~Call("mark", p, FALSE).flag
      BY ListsAssumption DEF Call, Calls, BookmarkButtons
    <3>. QED  BY <1>7, <2>1, <2>2, <2>4, <3>1
  <2>. QED  BY <2>1, <2>3, <2>4
<1>13. ASSUME NEW i \in DOMAIN calls, CallServed(i) PROVE LeftoversKnown' /\ BookmarksShown' /\ BookmarksRead'
  <2>. DEFINE c == calls[i]
  <2>1. /\ c.stage = "sent"
        /\ UNCHANGED <<page, list, loads, upto, marked, timers, disturbed>>
        /\ DOMAIN calls' = DOMAIN calls /\ \A k \in DOMAIN calls : k # i => calls'[k] = calls[k]
        /\ calls'[i].op = c.op /\ calls'[i].id = c.id /\ calls'[i].flag = c.flag /\ calls'[i].alive = c.alive
        /\ calls'[i].stage \in {"done", "failed"}
        /\ \A p \in Marks : (p \in marks) # (p \in marks') =>
              calls'[i].stage = "done" /\ p \in Toggling /\ ((Marking(c, p) /\ p \in marks') \/ (c.op = "clear" /\ marks' = {}))
        /\ calls'[i].stage = "done" /\ c.op = "mark" => c.flag /\ c.id \in marks'
        /\ calls'[i].stage = "done" /\ c.op = "clear" => marks' = {}
        /\ marks' \subseteq Marks
    BY <1>0, <1>13, ServedMarks
  <2>2. LeftoversKnown /\ BookmarksShown /\ BookmarksRead
    BY <1>b, <2>1
  <2>. HIDE DEF c
  <2>3. /\ c.op = "mark" /\ c.flag => c.id \in disturbed
        /\ c.op = "clear" => IF c.alive THEN loads = <<>> ELSE Marks \subseteq disturbed
    BY <2>2 DEF LeftoversKnown, c
  <2>4. /\ Cleared => Cleared'
        /\ Cleared' => Cleared \/ (c.op = "clear" /\ c.alive /\ calls'[i].stage = "done")
    BY <2>1 DEF Cleared, ClearedBy, c
  \* A mark that changes is known to, unless this page cleared it.
  <2>5. \A p \in Marks : (p \in marks) # (p \in marks') => p \in disturbed \/ (c.op = "clear" /\ c.alive /\ marks' = {} /\ Cleared')
    <3>1. c.op = "clear" /\ c.alive /\ calls'[i].stage = "done" => Cleared'
      BY <2>1 DEF Cleared, ClearedBy
    <3>. QED  BY <2>1, <2>3, <3>1 DEF Marking
  <2>6. LeftoversKnown'
    <3>1. Cleared' => marks' \subseteq disturbed
      <4>1. CASE c.op = "clear" /\ c.alive /\ calls'[i].stage = "done"
        BY <2>1, <4>1
      <4>2. ASSUME Cleared, NEW p \in marks' PROVE p \in disturbed
        <5>1. p \in Marks /\ (p \in marks => p \in disturbed)
          BY <2>1, <2>2, <4>2 DEF LeftoversKnown
        <5>2. CASE p \in marks
          BY <5>1, <5>2
        <5>3. CASE p \notin marks
          BY <2>5, <5>1, <5>3
        <5>. QED  BY <5>2, <5>3
      <4>. QED  BY <2>4, <4>1, <4>2
    <3>2. \A k \in DOMAIN calls : /\ calls'[k].op = calls[k].op /\ calls'[k].id = calls[k].id
                                  /\ calls'[k].flag = calls[k].flag /\ calls'[k].alive = calls[k].alive
      BY <2>1 DEF c
    <3>. QED  BY <2>1, <2>2, <3>1, <3>2 DEF LeftoversKnown
  <2>7. BookmarksShown'
    <3>1. Shown' = Shown
      BY <2>1 DEF Shown
    <3>. QED  BY <2>1, <2>2, <2>4, <2>5, <3>1 DEF BookmarksShown
  <2>8. BookmarksRead'
    <3>1. loads # <<>> => \A p \in Marks : (p \in marks) # (p \in marks') => p \in disturbed
      BY <2>3, <2>5
    <3>2. loads # <<>> => marks' \ disturbed = marks \ disturbed
      BY <1>0, <2>1, <3>1
    <3>3. \A k \in DOMAIN loads : loads # <<>>
      BY <1>0
    <3>. QED  BY <2>1, <2>2, <3>2, <3>3 DEF BookmarksRead
  <2>. QED  BY <2>6, <2>7, <2>8
<1>14. ASSUME NEW i \in DOMAIN calls, CallAnswers(i) \/ CallFails(i) PROVE LeftoversKnown' /\ BookmarksShown' /\ BookmarksRead'
  <2>. DEFINE c == calls[i]
  <2>1. /\ UNCHANGED <<marks, page, loads, upto>> /\ disturbed \subseteq disturbed'
        /\ c.op \in {"mark", "clear"} /\ CallFails(i) => c.stage = "failed" \/ (IF c.op = "mark" THEN {c.id} ELSE Marks) \subseteq disturbed'
        /\ DOMAIN timers' = DOMAIN timers
        /\ \A k \in DOMAIN timers : timers'[k].id = timers[k].id
        /\ \A k \in DOMAIN calls' : (\E j \in DOMAIN calls : j # i /\ calls'[k] = calls[j]) \/ calls'[k].op = "refresh"
        /\ \A j \in DOMAIN calls : j # i => \E k \in DOMAIN calls' : calls'[k] = calls[j]
    BY <1>0, <1>14, EndedMarks
  <2>2. LeftoversKnown /\ BookmarksShown /\ BookmarksRead
    BY <1>b, <2>1
  <2>3. c \in Calls /\ c.op \in {"mark", "clear", "close", "delete", "create", "refresh"} /\ c.alive \in BOOLEAN
    <3>1. c \in Calls
      BY <1>0 DEF MarkingTyped
    <3>. QED  BY <3>1, RecordTypes
  <2>. HIDE DEF c
  <2>4. /\ Cleared' => Cleared
        /\ Cleared => Cleared' \/ ClearedBy(c)
    BY <2>1 DEF Cleared, ClearedBy, c
  <2>5. LeftoversKnown'
    BY <2>1, <2>2, <2>4 DEF LeftoversKnown
  <2>6. CASE CallAnswers(i) /\ c.alive /\ c.op = "clear"
    <3>1. c.stage = "done" /\ marked' = {} /\ list' = <<>> /\ disturbed' = disturbed
      BY <2>6 DEF CallAnswers, c
    <3>2. Cleared /\ loads = <<>>
      BY <2>2, <2>6, <3>1 DEF LeftoversKnown, Cleared, ClearedBy, c
    <3>3. marks \subseteq disturbed
      BY <2>2, <3>2 DEF LeftoversKnown
    <3>4. Shown' = {}
      BY <3>1 DEF Shown
    <3>5. BookmarksShown'
      BY <2>1, <3>1, <3>3, <3>4 DEF BookmarksShown
    <3>6. BookmarksRead'
      BY <2>1, <3>2 DEF BookmarksRead
    <3>. QED  BY <2>5, <3>5, <3>6
  <2>7. CASE CallFails(i) \/ ~(c.alive /\ c.op = "clear")
    <3>1. marked' = marked /\ list' = list
      <4>1. CASE CallFails(i)
        BY <2>1, <4>1 DEF CallFails, Reverted, listing
      <4>2. CASE CallAnswers(i) /\ ~(c.alive /\ c.op = "clear")
        <5>1. marked' = marked
          BY <4>2 DEF CallAnswers, c
        <5>2. ~c.alive \/ c.op \notin {"close", "delete", "clear"}
          BY <1>0, <2>1, <4>2 DEF CallsOK, CallOK, c
        <5>3. list' = list
          BY <1>0, <4>2, <5>2, AnsweredList DEF c
        <5>. QED  BY <5>1, <5>3
      <4>. QED  BY <1>14, <2>7, <4>1, <4>2
    <3>2. Shown' = Shown
      BY <3>1 DEF Shown
    <3>3. ASSUME NEW p \in Marks, p \notin disturbed', Cleared PROVE Cleared'
      <4>1. ~ClearedBy(c)
        BY <1>14, <2>1, <2>7, <3>3 DEF ClearedBy
      <4>. QED  BY <2>4, <3>3, <4>1
    <3>4. BookmarksShown'
      BY <2>1, <2>2, <3>1, <3>2, <3>3 DEF BookmarksShown
    <3>5. BookmarksRead'
      BY <2>1, <2>2, <3>1 DEF BookmarksRead
    <3>. QED  BY <2>5, <3>4, <3>5
  <2>. QED  BY <1>14, <2>6, <2>7
<1>. QED  BY <1>1, <1>2, <1>3, <1>4, <1>5, <1>6, <1>8, <1>9, <1>10, <1>11, <1>12, <1>13, <1>14, MarksMoves

LEMMA InitMarks == Init => MarksInv
<1>. SUFFICES ASSUME Init PROVE MarksInv
  OBVIOUS
<1>1. page = "profile" /\ loads = <<>>
  BY DEF Init
<1>2. ReadingOK
  BY <1>1 DEF ReadingOK
<1>. QED  BY <1>1, <1>2 DEF MarksInv, HomeMarks, BookmarksMarks, HomeClears

\* A bookmark is shown if and only if the server has it once nothing is on its
\* way, whether its requests failed, were refused or came back after the page
\* was left; but for one that was clicked again, or read, while a click on it
\* was on its way, or whose request had no answer.
THEOREM BookmarksInStep == Spec => []MarksAgree
<1>1. Init => TypesInv /\ CommentsInv /\ MarksInv
  BY InitTyped, InitComments, InitMarks
<1>2. TypesInv /\ CommentsInv /\ MarksInv /\ [Next]_vars => TypesInv' /\ CommentsInv' /\ MarksInv'
  <2>. SUFFICES ASSUME TypesInv, CommentsInv, MarksInv, [Next]_vars PROVE TypesInv' /\ CommentsInv' /\ MarksInv'
    OBVIOUS
  <2>1. TypesInv' /\ CommentsInv'
    BY TypesKept
  <2>2. ReadingOK /\ HomeMarks /\ BookmarksMarks /\ HomeClears
    BY DEF MarksInv
  <2>3. ReadingOK' /\ HomeMarks' /\ BookmarksMarks' /\ HomeClears'
    BY <2>2, ReadingKept, HomeKept, BookmarksKept, HomeClearsKept
  <2>. QED  BY <2>1, <2>3 DEF MarksInv
<1>3. TypesInv /\ MarksInv => MarksAgree
  <2>. SUFFICES ASSUME TypesInv, MarksInv, page \in {"home", "bookmarks"}, upto # None
                PROVE  /\ marked \ (disturbed \cup Toggling) = marks \ (disturbed \cup Toggling)
                       /\ page = "bookmarks" => Shown = marked
    BY DEF MarksAgree, Settled
  <2>1. marked \subseteq Marks /\ marks \subseteq Marks
    BY TypeParts DEF TypesInv, MarkingTyped, ServerTyped
  <2>2. \A p \in Marks \ (disturbed \cup Toggling) : p \in marked <=> p \in marks
    <3>1. CASE page = "home"
      BY <3>1 DEF MarksInv, HomeMarks, MarkOK
    <3>2. CASE page = "bookmarks"
      <4>1. \A p \in Marks \ disturbed : (p \in marked <=> p \in marks) \/ Cleared
        BY <3>2 DEF MarksInv, BookmarksMarks, BookmarksShown
      <4>2. Cleared => \A p \in Marks : p \in Toggling
        BY TogglingIs DEF Cleared, ClearedBy, Clears
      <4>. QED  BY <4>1, <4>2
    <3>. QED  BY <3>1, <3>2
  <2>3. page = "bookmarks" => Shown = marked
    BY DEF MarksInv, BookmarksMarks, BookmarksShown
  <2>. QED  BY <2>1, <2>2, <2>3
<1>. QED  BY <1>1, <1>2, <1>3, PTL DEF Spec

-----------------------------------------------------------------------------
(* The lists.                                                              *)

\* A page is as good after a step that changes only polls it is not about, or
\* that are known to have changed.
LEMMA PageStays ==
  ASSUME NEW s \in Seq(Entry), NEW next, NEW f, NEW S \in SUBSET Polls, NEW now, NEW since,
         GoodPage(s, next, f, S, now, since), NEW now2, NEW since2,
         \A p \in S : (p \in since => p \in since2) /\ (now2[p] = now[p] \/ p \in since2)
  PROVE  GoodPage(s, next, f, S, now2, since2)
<1>1. \A p \in Polls \ since2 :
          (\E i \in DOMAIN s : s[i].id = p) <=>
             /\ p \in S /\ now2[p] \in {"live", "closed"}
             /\ f = "all" \/ now2[p] = f
             /\ next # None => p >= next
  <2>. SUFFICES ASSUME NEW p \in Polls \ since2
                PROVE  (\E i \in DOMAIN s : s[i].id = p) <=>
                          /\ p \in S /\ now2[p] \in {"live", "closed"}
                          /\ f = "all" \/ now2[p] = f
                          /\ next # None => p >= next
    OBVIOUS
  <2>1. CASE p \in S
    BY <2>1 DEF GoodPage
  <2>2. CASE p \notin S
    BY <2>2 DEF GoodPage
  <2>. QED  BY <2>1, <2>2
<1>2. \A i \in DOMAIN s : s[i].id \notin since2 => s[i].live = (now2[s[i].id] = "live")
  <2>. SUFFICES ASSUME NEW i \in DOMAIN s, s[i].id \notin since2 PROVE s[i].live = (now2[s[i].id] = "live")
    OBVIOUS
  <2>1. s[i].id \in S
    BY DEF GoodPage
  <2>2. s[i].id \notin since /\ now2[s[i].id] = now[s[i].id]
    BY <2>1
  <2>. QED  BY <2>2 DEF GoodPage
<1>. QED  BY <1>1, <1>2 DEF GoodPage

\* What the server answers is a good page.
LEMMA PageServed ==
  ASSUME NEW s \in Seq(Entry), NEW next, NEW f, NEW S \in SUBSET Polls, Exactly(s, next, f, S),
         NEW S2, \A p \in Listed : p \in S <=> p \in S2, NEW since
  PROVE  GoodPage(s, next, f, S2, polls, since)
<1>1. \A p \in Listed : p \in Polls /\ polls[p] \in {"live", "closed"}
  BY DEF Listed
<1>2. \A p \in Polls : polls[p] \in {"live", "closed"} => p \in Listed
  BY DEF Listed
<1>3. \A i \in DOMAIN s : s[i].id \in S /\ s[i].id \in Listed /\ s[i].id \in S2
  BY DEF Exactly
<1>4. next # None => next \in S2
  BY DEF Exactly
<1>5. \A p \in Polls :
          (\E i \in DOMAIN s : s[i].id = p) <=>
             /\ p \in S2 /\ polls[p] \in {"live", "closed"}
             /\ f = "all" \/ polls[p] = f
             /\ next # None => p >= next
  <2>. SUFFICES ASSUME NEW p \in Polls
                PROVE  (\E i \in DOMAIN s : s[i].id = p) <=>
                          /\ p \in S2 /\ polls[p] \in {"live", "closed"}
                          /\ f = "all" \/ polls[p] = f
                          /\ next # None => p >= next
    OBVIOUS
  <2>1. ASSUME NEW i \in DOMAIN s, s[i].id = p
        PROVE  /\ p \in S2 /\ polls[p] \in {"live", "closed"}
               /\ f = "all" \/ polls[p] = f
               /\ next # None => p >= next
    BY <1>1, <1>3, <2>1 DEF Exactly
  <2>2. ASSUME p \in S2, polls[p] \in {"live", "closed"}, f = "all" \/ polls[p] = f, next # None => p >= next
        PROVE  \E i \in DOMAIN s : s[i].id = p
    BY <1>2, <2>2 DEF Exactly
  <2>. QED  BY <2>1, <2>2
<1>. QED  BY <1>3, <1>4, <1>5 DEF GoodPage, Exactly

\* A page and the one that follows it are one page.
LEMMA PagesJoin ==
  ASSUME NEW a \in Seq(Entry), NEW b \in Seq(Entry), NEW c \in Polls, NEW next \in Polls \cup {None},
         NEW f, NEW of \in SUBSET Polls, NEW u \in Nat, NEW now, NEW since,
         GoodPage(a, c, f, UpTo(of, u), now, since), GoodPage(b, next, f, Below(of, c), now, since),
         NEW s, s = a \o b
  PROVE  GoodPage(s, next, f, UpTo(of, u), now, since)
<1>0. /\ \A p \in Polls : p \in Nat
      /\ c # None /\ c \in Nat /\ c \in UpTo(of, u) /\ c <= u
      /\ next # None => next \in Polls /\ next \in of /\ next < c
  <2>1. c # None
    BY ListsAssumption
  <2>. QED  BY <2>1, ListsAssumption DEF GoodPage, UpTo, Below
<1>1. /\ \A i \in DOMAIN a : a[i].id \in Polls /\ a[i].id \in of /\ a[i].id <= u /\ a[i].id >= c
      /\ \A i \in DOMAIN b : b[i].id \in Polls /\ b[i].id \in of /\ b[i].id < c /\ (next # None => b[i].id >= next)
  BY <1>0 DEF GoodPage, UpTo, Below
<1>2. /\ s \in Seq(Entry) /\ Len(s) = Len(a) + Len(b)
      /\ \A j \in 1..Len(a) : s[j] = a[j]
      /\ \A j \in 1..Len(b) : s[Len(a) + j] = b[j]
  BY ConcatIs
<1>3. /\ DOMAIN a = 1..Len(a) /\ DOMAIN b = 1..Len(b) /\ DOMAIN s = 1..Len(s)
      /\ Len(a) \in Nat /\ Len(b) \in Nat
  BY <1>2
<1>. DEFINE n == Len(a)
\* Where an entry comes from.
<1>4. \A i \in DOMAIN s : \/ i \in DOMAIN a /\ s[i] = a[i]
                          \/ i > n /\ i - n \in DOMAIN b /\ s[i] = b[i - n]
  <2>. SUFFICES ASSUME NEW i \in DOMAIN s
                PROVE  \/ i \in DOMAIN a /\ s[i] = a[i]
                       \/ i > n /\ i - n \in DOMAIN b /\ s[i] = b[i - n]
    OBVIOUS
  <2>1. CASE i <= n
    BY <1>2, <1>3, <2>1
  <2>2. CASE ~(i <= n)
    <3>1. i - n \in 1..Len(b) /\ n + (i - n) = i /\ i > n
      BY <1>2, <1>3, <2>2
    <3>2. s[n + (i - n)] = b[i - n]
      BY <1>2, <3>1
    <3>. QED  BY <1>3, <3>1, <3>2
  <2>. QED  BY <2>1, <2>2
<1>5. /\ \A i \in DOMAIN a : i \in DOMAIN s /\ s[i] = a[i]
      /\ \A i \in DOMAIN b : n + i \in DOMAIN s /\ s[n + i] = b[i]
  BY <1>2, <1>3
<1>6. \A i, j \in DOMAIN s : i < j => s[i].id > s[j].id
  <2>. SUFFICES ASSUME NEW i \in DOMAIN s, NEW j \in DOMAIN s, i < j PROVE s[i].id > s[j].id
    OBVIOUS
  <2>1. CASE i \in DOMAIN a /\ s[i] = a[i] /\ j \in DOMAIN a /\ s[j] = a[j]
    BY <2>1 DEF GoodPage
  <2>2. CASE i \in DOMAIN a /\ s[i] = a[i] /\ j > n /\ j - n \in DOMAIN b /\ s[j] = b[j - n]
    <3>1. a[i].id >= c /\ b[j - n].id < c /\ a[i].id \in Nat /\ b[j - n].id \in Nat
      BY <1>0, <1>1, <2>2
    <3>. QED  BY <1>0, <2>2, <3>1
  <2>3. CASE i > n /\ i - n \in DOMAIN b /\ s[i] = b[i - n] /\ j > n /\ j - n \in DOMAIN b /\ s[j] = b[j - n]
    <3>1. i - n < j - n
      BY <1>2, <1>3
    <3>. QED  BY <2>3, <3>1 DEF GoodPage
  <2>4. ~(i > n /\ j \in DOMAIN a)
    BY <1>2, <1>3
  <2>. QED  BY <1>4, <2>1, <2>2, <2>3, <2>4
<1>7. \A i \in DOMAIN s : /\ s[i].id \in Polls /\ s[i].id \in of /\ s[i].id <= u
                          /\ next # None => s[i].id >= next
  <2>. SUFFICES ASSUME NEW i \in DOMAIN s
                PROVE  /\ s[i].id \in Polls /\ s[i].id \in of /\ s[i].id <= u
                       /\ next # None => s[i].id >= next
    OBVIOUS
  <2>1. CASE i \in DOMAIN a /\ s[i] = a[i]
    <3>1. a[i].id \in Nat
      BY <1>0, <1>1, <2>1
    <3>2. next # None => next \in Nat
      BY <1>0
    <3>. QED  BY <1>0, <1>1, <2>1, <3>1, <3>2
  <2>2. CASE i - n \in DOMAIN b /\ s[i] = b[i - n]
    <3>1. b[i - n].id \in Nat
      BY <1>0, <1>1, <2>2
    <3>. QED  BY <1>0, <1>1, <2>2, <3>1
  <2>. QED  BY <1>4, <2>1, <2>2
<1>8. next # None => next \in UpTo(of, u)
  <2>. SUFFICES ASSUME next # None PROVE next \in of /\ next <= u
    BY DEF UpTo
  <2>1. next \in Nat
    BY <1>0
  <2>. QED  BY <1>0, <2>1
<1>9. \A p \in Polls \ since :
          (\E i \in DOMAIN s : s[i].id = p) <=>
             /\ p \in UpTo(of, u) /\ now[p] \in {"live", "closed"}
             /\ f = "all" \/ now[p] = f
             /\ next # None => p >= next
  <2>. SUFFICES ASSUME NEW p \in Polls \ since
                PROVE  (\E i \in DOMAIN s : s[i].id = p) <=>
                          /\ p \in UpTo(of, u) /\ now[p] \in {"live", "closed"}
                          /\ f = "all" \/ now[p] = f
                          /\ next # None => p >= next
    OBVIOUS
  <2>. DEFINE Ok == now[p] \in {"live", "closed"} /\ (f = "all" \/ now[p] = f)
              inA == \E i \in DOMAIN a : a[i].id = p
              inB == \E i \in DOMAIN b : b[i].id = p
              inS == \E i \in DOMAIN s : s[i].id = p
  <2>1. inA <=> p \in UpTo(of, u) /\ Ok /\ p >= c
    BY <1>0 DEF GoodPage
  <2>2. inB <=> p \in Below(of, c) /\ Ok /\ (next # None => p >= next)
    BY DEF GoodPage
  <2>3. inS <=> inA \/ inB
    BY <1>4, <1>5
  <2>4. p \in Nat
    BY <1>0
  <2>5. /\ p \in UpTo(of, u) <=> p \in of /\ p <= u
        /\ p \in Below(of, c) <=> p \in of /\ p < c
    BY DEF UpTo, Below
  <2>6. p >= c /\ next # None => p >= next
    <3>. SUFFICES ASSUME p >= c, next # None PROVE p >= next
      OBVIOUS
    <3>1. next \in Nat
      BY <1>0
    <3>. QED  BY <1>0, <2>4, <3>1
  <2>7. (p >= c \/ p < c) /\ (p < c => p <= u)
    BY <1>0, <2>4
  <2>. HIDE DEF Ok, inA, inB, inS
  <2>8. inS <=> /\ p \in UpTo(of, u) /\ Ok
                /\ next # None => p >= next
    BY <2>1, <2>2, <2>3, <2>5, <2>6, <2>7
  <2>. QED  BY <2>8 DEF Ok, inS
<1>10. \A i \in DOMAIN s : s[i].id \notin since => s[i].live = (now[s[i].id] = "live")
  <2>. SUFFICES ASSUME NEW i \in DOMAIN s, s[i].id \notin since PROVE s[i].live = (now[s[i].id] = "live")
    OBVIOUS
  <2>1. CASE i \in DOMAIN a /\ s[i] = a[i]
    BY <2>1 DEF GoodPage
  <2>2. CASE i - n \in DOMAIN b /\ s[i] = b[i - n]
    BY <2>2 DEF GoodPage
  <2>. QED  BY <1>4, <2>1, <2>2
<1>. HIDE DEF n
<1>11. \A i \in DOMAIN s : s[i].id \in UpTo(of, u) /\ (next # None => s[i].id >= next)
  BY <1>7 DEF UpTo
<1>. QED  BY <1>6, <1>8, <1>9, <1>10, <1>11 DEF GoodPage

\* A page from which a poll that is gone has been taken.
LEMMA PageSifted ==
  ASSUME NEW s \in Seq(Entry), NEW next, NEW f, NEW S \in SUBSET Polls, NEW now, NEW since,
         GoodPage(s, next, f, S, now, since), NEW d \in Polls, now[d] = "gone",
         NEW t,
         \A k \in DOMAIN t : \E j \in DOMAIN s : s[j].id # d /\ t[k] = s[j],
         \A j \in DOMAIN s : s[j].id # d => \E k \in DOMAIN t : t[k] = s[j],
         \A k, l \in DOMAIN t : k < l => \E j, m \in DOMAIN s : j < m /\ t[k] = s[j] /\ t[l] = s[m]
  PROVE  GoodPage(t, next, f, S, now, since \ {d})
<1>1. \A i, j \in DOMAIN t : i < j => t[i].id > t[j].id
  BY DEF GoodPage
<1>2. /\ \A i \in DOMAIN t : t[i].id \in S /\ (next # None => t[i].id >= next)
      /\ next # None => next \in S
  BY DEF GoodPage
<1>3. \A p \in Polls \ (since \ {d}) :
          (\E i \in DOMAIN t : t[i].id = p) <=>
             /\ p \in S /\ now[p] \in {"live", "closed"}
             /\ f = "all" \/ now[p] = f
             /\ next # None => p >= next
  <2>. SUFFICES ASSUME NEW p \in Polls \ (since \ {d})
                PROVE  (\E i \in DOMAIN t : t[i].id = p) <=>
                          /\ p \in S /\ now[p] \in {"live", "closed"}
                          /\ f = "all" \/ now[p] = f
                          /\ next # None => p >= next
    OBVIOUS
  <2>1. CASE p = d
    BY <2>1
  <2>2. CASE p # d
    <3>1. (\E i \in DOMAIN t : t[i].id = p) <=> (\E i \in DOMAIN s : s[i].id = p)
      BY <2>2
    <3>2. p \notin since
      BY <2>2
    <3>. QED  BY <3>1, <3>2 DEF GoodPage
  <2>. QED  BY <2>1, <2>2
<1>4. \A i \in DOMAIN t : t[i].id \notin since \ {d} => t[i].live = (now[t[i].id] = "live")
  BY DEF GoodPage
<1>. QED  BY <1>1, <1>2, <1>3, <1>4 DEF GoodPage

\* A poll that there is changes only as is known of it.
LEMMA PollsStay ==
  ASSUME TypesInv, [Next]_vars
  PROVE  \A p \in Polls : \/ polls'[p] = polls[p]
                          \/ p \in changed' /\ polls'[p] # "live"
                          \/ p > Newest
<1>. SUFFICES ASSUME NEW p \in Polls
              PROVE  \/ polls'[p] = polls[p]
                     \/ p \in changed' /\ polls'[p] # "live"
                     \/ p > Newest
  OBVIOUS
<1>0. ServerTyped /\ MarkingTyped /\ CallsOK
  BY TypeParts DEF TypesInv
<1>1. CASE UNCHANGED server
  BY <1>1 DEF server
<1>2. ASSUME NEW i \in DOMAIN calls, CallServed(i)
      PROVE  \/ polls'[p] = polls[p]
             \/ p \in changed' /\ polls'[p] # "live"
             \/ p > Newest
  <2>1. \/ polls'[p] = polls[p]
        \/ p \in changed' /\ polls'[p] = Gone(calls[i].op)
        \/ p > Newest
    BY <1>0, <1>2, ServedPolls
  <2>. QED  BY <2>1 DEF Gone
<1>3. CASE OthersChange
  <2>1. \/ polls'[p] = polls[p]
        \/ p \in changed' /\ polls'[p] \in {"closed", "gone"}
        \/ p > Newest
    BY <1>0, <1>3, OthersPolls
  <2>. QED  BY <2>1
<1>. QED  BY <1>1, <1>2, <1>3, ServerMoves DEF CallAnswers, CallFails

\* There is never an older newest poll.
LEMMA NewestGrows ==
  ASSUME TypesInv, [Next]_vars
  PROVE  Newest \in Nat /\ Newest' \in Nat /\ Newest <= Newest'
<1>. DEFINE old == {p \in Polls : polls[p] # "none"}
            new == {p \in Polls : polls'[p] # "none"}
<1>1. old \subseteq new
  <2>1. \A p \in Polls : polls[p] # "none" => polls'[p] # "none"
    BY GoneStays, TypeParts DEF TypesInv
  <2>. QED  BY <2>1
<1>2. /\ {0} \cup old \in SUBSET Nat /\ IsFiniteSet({0} \cup old)
      /\ {0} \cup new \in SUBSET Nat /\ IsFiniteSet({0} \cup new)
  <2>1. old \in SUBSET Polls /\ new \in SUBSET Polls
    OBVIOUS
  <2>2. old \in SUBSET Nat /\ IsFiniteSet(old) /\ new \in SUBSET Nat /\ IsFiniteSet(new)
    BY <2>1, PollsAre
  <2>3. IsFiniteSet(old \cup {0}) /\ IsFiniteSet(new \cup {0})
    BY <2>2, FS_AddElement
  <2>4. {0} \cup old = old \cup {0} /\ {0} \cup new = new \cup {0}
    OBVIOUS
  <2>. HIDE DEF old, new
  <2>. QED  BY <2>2, <2>3, <2>4
<1>3. Newest = Max({0} \cup old) /\ Newest' = Max({0} \cup new)
  BY DEF Newest
<1>. HIDE DEF old, new
<1>4. Newest \in {0} \cup old
  BY <1>2, <1>3, MaxMinAre
<1>5. Newest' \in {0} \cup new /\ \A y \in {0} \cup new : y <= Newest'
  BY <1>2, <1>3, MaxMinAre
<1>. QED  BY <1>1, <1>2, <1>4, <1>5

\* What a page is about.
LEMMA AboutIs ==
  ASSUME TypesInv, NEW n \in Nat
  PROVE  /\ Of(page) \in SUBSET Polls
         /\ UpTo(Of(page), n) \in SUBSET Polls /\ \A p \in UpTo(Of(page), n) : p \in Nat /\ p <= n
         /\ Below(Of(page), n) \in SUBSET Polls /\ \A p \in Below(Of(page), n) : p \in Nat /\ p < n
<1>1. Of(page) \in SUBSET Polls
  BY ListsAssumption DEF Of
<1>2. \A p \in Polls : p \in Nat
  BY ListsAssumption
<1>. QED  BY <1>1, <1>2 DEF UpTo, Below

\* A page stays as good through a step after which no change is forgotten.
LEMMA PageKept ==
  ASSUME TypesInv, [Next]_vars, NEW s \in Seq(Entry), NEW next, NEW f, NEW S \in SUBSET Polls,
         \A p \in S : p <= Newest, changed \subseteq changed', GoodPage(s, next, f, S, polls, changed)
  PROVE  GoodPage(s, next, f, S, polls', changed')
<1>1. \A p \in S : polls'[p] = polls[p] \/ p \in changed'
  <2>. SUFFICES ASSUME NEW p \in S PROVE polls'[p] = polls[p] \/ p \in changed'
    OBVIOUS
  <2>1. p \in Nat /\ Newest \in Nat /\ p <= Newest
    BY PollsAre, NewestGrows
  <2>2. ~(p > Newest)
    BY <2>1
  <2>. QED  BY <2>2, PollsStay
<1>. DEFINE now == polls'
            since == changed'
<1>2. \A p \in S : (p \in changed => p \in since) /\ (now[p] = polls[p] \/ p \in since)
  BY <1>1
<1>. HIDE DEF now, since
<1>3. GoodPage(s, next, f, S, now, since)
  BY <1>2, PageStays
<1>. QED  BY <1>3 DEF now, since

\* What is known of a list that is shown, and of what is asked for to extend it.
LEMMA ListIs ==
  ASSUME TypesInv, ListInv, page \in {"home", "my_polls", "past_votes"}, ~crossed
  PROVE  /\ LoadsGood /\ MoreGood /\ ListGood
         /\ \A p \in Polls : p \in Nat
         /\ None \notin Nat
         /\ upto # None => /\ upto \in Nat /\ upto <= Newest /\ loads = <<>>
                           /\ UpTo(Of(page), upto) \in SUBSET Polls
                           /\ \A p \in UpTo(Of(page), upto) : p \in Nat /\ p <= Newest
         /\ cursor # None => /\ cursor \in Polls /\ cursor \in Nat /\ upto # None /\ cursor <= upto
                             /\ Below(Of(page), cursor) \in SUBSET Polls
                             /\ \A p \in Below(Of(page), cursor) : p \in Nat /\ p <= Newest
         /\ more # None => cursor # None /\ loads = <<>> /\ more \in Mores /\ more.cursor = cursor /\ more.filter = filter
<1>1. /\ LoadsGood /\ MoreGood /\ ListGood
      /\ \A p \in Polls : p \in Nat
      /\ None \notin Nat /\ None \notin Mores
      /\ cursor \in Polls \cup {None} /\ upto \in Polls \cup {0, None} /\ more \in Mores \cup {None}
  BY ListsAssumption, TypeParts DEF TypesInv, ListInv, ListingTyped
<1>2. Newest \in Nat
  BY NewestIs
<1>3. upto # None => upto \in Nat /\ upto <= Newest /\ loads = <<>>
  BY <1>1 DEF ListGood, LoadsGood
<1>4. upto # None => /\ UpTo(Of(page), upto) \in SUBSET Polls
                     /\ \A p \in UpTo(Of(page), upto) : p \in Nat /\ p <= Newest
  <2>. SUFFICES ASSUME upto # None
                PROVE  /\ UpTo(Of(page), upto) \in SUBSET Polls
                       /\ \A p \in UpTo(Of(page), upto) : p \in Nat /\ p <= Newest
    OBVIOUS
  <2>1. UpTo(Of(page), upto) \in SUBSET Polls /\ \A p \in UpTo(Of(page), upto) : p \in Nat /\ p <= upto
    BY <1>3, AboutIs
  <2>. QED  BY <1>2, <1>3, <2>1
<1>5. cursor # None => /\ cursor \in Polls /\ cursor \in Nat /\ upto # None /\ cursor <= upto
  <2>. SUFFICES ASSUME cursor # None PROVE cursor \in Polls /\ cursor \in Nat /\ upto # None /\ cursor <= upto
    OBVIOUS
  <2>1. cursor \in Polls /\ cursor \in Nat /\ upto # None
    BY <1>1 DEF ListGood
  <2>2. cursor \in UpTo(Of(page), upto)
    BY <1>1, <2>1 DEF ListGood, GoodPage
  <2>. QED  BY <2>1, <2>2 DEF UpTo
<1>6. cursor # None => /\ Below(Of(page), cursor) \in SUBSET Polls
                       /\ \A p \in Below(Of(page), cursor) : p \in Nat /\ p <= Newest
  <2>. SUFFICES ASSUME cursor # None
                PROVE  /\ Below(Of(page), cursor) \in SUBSET Polls
                       /\ \A p \in Below(Of(page), cursor) : p \in Nat /\ p <= Newest
    OBVIOUS
  <2>1. Below(Of(page), cursor) \in SUBSET Polls /\ \A p \in Below(Of(page), cursor) : p \in Nat /\ p < cursor
    BY <1>5, AboutIs
  <2>2. cursor <= Newest
    BY <1>2, <1>3, <1>5
  <2>. QED  BY <1>2, <1>5, <2>1, <2>2
<1>7. more # None => cursor # None /\ loads = <<>> /\ more \in Mores /\ more.cursor = cursor /\ more.filter = filter
  <2>. SUFFICES ASSUME more # None
                PROVE  cursor # None /\ loads = <<>> /\ more \in Mores /\ more.cursor = cursor /\ more.filter = filter
    OBVIOUS
  <2>1. more \in Mores /\ more.cursor = cursor /\ more.filter = filter /\ loads = <<>>
    BY <1>1 DEF MoreGood, LoadsGood
  <2>2. more.cursor \in Polls
    BY <2>1, RecordTypes
  <2>. QED  BY <1>1, <2>1, <2>2
<1>. QED  BY <1>1, <1>3, <1>4, <1>5, <1>6, <1>7

\* What is under way and what is shown stays good while only the server changes.
LEMMA ListStays ==
  ASSUME TypesInv, ListInv, [Next]_vars, UNCHANGED <<page, filter, listing>>, changed \subseteq changed'
  PROVE  ListInv'
<1>. SUFFICES ASSUME page \in {"home", "my_polls", "past_votes"}, ~crossed PROVE LoadsGood' /\ MoreGood' /\ ListGood'
  BY DEF ListInv, listing
<1>0. UNCHANGED <<page, filter, list, cursor, hasMore, loads, more, upto, crossed>>
  BY DEF listing
<1>1. Newest \in Nat /\ Newest' \in Nat /\ Newest <= Newest'
  BY NewestGrows
<1>2. LoadsGood /\ MoreGood /\ ListGood /\ ListingTyped
  BY ListIs, TypeParts DEF TypesInv
<1>3. LoadsGood'
  <2>1. ASSUME NEW i \in DOMAIN loads, loads[i].stage = "served", loads[i].got.ok
        PROVE  /\ loads[i].got.upto <= Newest'
               /\ GoodPage(loads[i].got.items, loads[i].got.next, filter,
                           UpTo(Of(page), loads[i].got.upto), polls', changed')
    <3>. DEFINE a == loads[i].got
                S == UpTo(Of(page), a.upto)
    <3>1. loads[i] \in Loads
      BY <1>2 DEF ListingTyped
    <3>2. a \in Answers
      BY <3>1, RecordTypes
    <3>3. a.items \in Seq(Entry) /\ a.upto \in Polls \cup {0}
      BY <2>1, <3>2, RecordTypes
    <3>4. a.upto \in Nat
      <4>1. \A p \in Polls \cup {0} : p \in Nat
        BY ListsAssumption
      <4>. QED  BY <3>3, <4>1
    <3>5. a.upto <= Newest /\ GoodPage(a.items, a.next, filter, S, polls, changed)
      BY <1>2, <2>1 DEF LoadsGood
    <3>6. S \in SUBSET Polls /\ \A p \in S : p \in Nat /\ p <= a.upto
      BY <3>4, AboutIs
    <3>. HIDE DEF a, S
    <3>7. \A p \in S : p <= Newest
      BY <1>1, <3>4, <3>5, <3>6
    <3>8. GoodPage(a.items, a.next, filter, S, polls', changed')
      BY <3>3, <3>5, <3>6, <3>7, PageKept
    <3>9. a.upto <= Newest'
      BY <1>1, <3>4, <3>5
    <3>. QED  BY <3>8, <3>9 DEF a, S
  <2>. QED  BY <1>0, <1>2, <2>1 DEF LoadsGood
<1>4. MoreGood'
  <2>1. ASSUME more # None, more.stage = "served", more.got.ok
        PROVE  GoodPage(more.got.items, more.got.next, filter, Below(Of(page), cursor), polls', changed')
    <3>. DEFINE a == more.got
                S == Below(Of(page), cursor)
    <3>1. more \in Mores /\ S \in SUBSET Polls /\ \A p \in S : p <= Newest
      BY <2>1, ListIs
    <3>2. a \in Answers
      BY <3>1, RecordTypes
    <3>3. a.items \in Seq(Entry)
      BY <2>1, <3>2, RecordTypes
    <3>4. GoodPage(a.items, a.next, filter, S, polls, changed)
      BY <1>2, <2>1 DEF MoreGood
    <3>. HIDE DEF a, S
    <3>5. GoodPage(a.items, a.next, filter, S, polls', changed')
      BY <3>1, <3>3, <3>4, PageKept
    <3>. QED  BY <3>5 DEF a, S
  <2>. QED  BY <1>0, <1>2, <2>1 DEF MoreGood
<1>5. ListGood'
  <2>1. ASSUME upto # None
        PROVE  upto <= Newest' /\ GoodPage(list, cursor, filter, UpTo(Of(page), upto), polls', changed')
    <3>. DEFINE S == UpTo(Of(page), upto)
    <3>1. upto \in Nat /\ upto <= Newest /\ S \in SUBSET Polls /\ \A p \in S : p <= Newest
      BY <2>1, ListIs
    <3>2. list \in Seq(Entry) /\ GoodPage(list, cursor, filter, S, polls, changed)
      BY <1>2, <2>1 DEF ListGood, ListingTyped
    <3>. HIDE DEF S
    <3>3. GoodPage(list, cursor, filter, S, polls', changed')
      BY <3>1, <3>2, PageKept
    <3>. QED  BY <1>1, <3>1, <3>3 DEF S
  <2>. QED  BY <1>0, <1>2, <2>1 DEF ListGood
<1>. QED  BY <1>3, <1>4, <1>5

\* A load is served, or arrives.
LEMMA ListLoaded ==
  ASSUME TypesInv, ListInv, NEW i \in DOMAIN loads, LoadServed(i) \/ LoadArrives(i)
  PROVE  ListInv'
<1>. SUFFICES ASSUME page' \in {"home", "my_polls", "past_votes"}, ~crossed' PROVE LoadsGood' /\ MoreGood' /\ ListGood'
  BY DEF ListInv
<1>0. page' = page /\ crossed' = crossed
  BY DEF LoadServed, LoadArrives
<1>1. /\ LoadsGood /\ MoreGood /\ ListGood /\ ListingTyped /\ MarkingTyped /\ PagesOK /\ marks \subseteq Marks
      /\ \A p \in Polls : p \in Nat
      /\ None \notin Nat
  BY <1>0, ListIs, TypeParts DEF TypesInv, ServerTyped
<1>2. /\ loads[i] \in Loads /\ DOMAIN loads = 1..Len(loads) /\ Len(loads) \in Nat /\ loads # <<>> /\ loads \in Seq(Loads)
      /\ loads[i].ids = None
  BY <1>0, <1>1, UnderWay
<1>3. Len(loads) = 1 /\ i = 1 /\ DOMAIN loads = {1} /\ upto = None /\ more = None /\ list = <<>> /\ cursor = None
      /\ loads[i].filter = filter
  <2>1. Len(loads) <= 1 /\ upto = None /\ more = None /\ loads[i].filter = filter
    BY <1>1, <1>2 DEF LoadsGood
  <2>2. list = <<>> /\ cursor = None
    BY <1>1, <2>1 DEF ListGood
  <2>. QED  BY <1>2, <2>1, <2>2
<1>4. CASE LoadServed(i)
  <2>. DEFINE a == loads'[i].got
  <2>1. /\ Len(loads') = Len(loads) /\ DOMAIN loads' = DOMAIN loads
        /\ loads'[i].stage = "served" /\ loads'[i].filter = loads[i].filter
        /\ a = NoAnswer \/ a \in LoadAnswers(loads[i])
        /\ UNCHANGED <<polls, page, filter, list, cursor, hasMore, more, upto, crossed, changed>>
    BY <1>1, <1>4, LoadServedIs DEF server
  <2>2. ASSUME a.ok
        PROVE  /\ a.upto <= Newest'
               /\ GoodPage(a.items, a.next, filter, UpTo(Of(page), a.upto), polls, changed)
    <3>1. a \in LoadAnswers(loads[i])
      BY <2>1, <2>2 DEF NoAnswer
    <3>2. filter \in Filters
      BY <1>1 DEF ListingTyped
    <3>3. /\ a \in Answers /\ a.upto = Newest
          /\ Exactly(a.items, a.next, filter, Of(page))
      <4>1. page = "past_votes" => filter = "all"
        BY <1>1 DEF PagesOK
      <4>2. /\ a \in Answers /\ a.upto = Newest
            /\ page \in {"home", "my_polls"} => Exactly(a.items, a.next, loads[i].filter, Of(page))
            /\ page = "past_votes" => Exactly(a.items, a.next, "all", Of(page))
        BY <1>0, <1>1, <1>2, <3>1, LoadAnswersAre
      <4>. QED  BY <1>0, <1>3, <4>1, <4>2
    <3>4. a.items \in Seq(Entry)
      BY <2>2, <3>3, RecordTypes
    <3>5. Of(page) \in SUBSET Polls /\ Newest \in Nat
      BY NewestIs, ListsAssumption DEF Of
    <3>6. \A p \in Listed : p \in Of(page) <=> p \in UpTo(Of(page), Newest)
      <4>1. \A p \in Listed : p <= Newest
        BY NewestIs DEF Listed
      <4>. QED  BY <4>1 DEF UpTo
    <3>7. Newest' = Newest
      BY <2>1 DEF Newest
    <3>. HIDE DEF a
    <3>8. GoodPage(a.items, a.next, filter, UpTo(Of(page), Newest), polls, changed)
      <4>. DEFINE S == Of(page)
                  S2 == UpTo(Of(page), Newest)
      <4>1. S \in SUBSET Polls /\ Exactly(a.items, a.next, filter, S) /\ \A p \in Listed : p \in S <=> p \in S2
        BY <3>3, <3>5, <3>6
      <4>. HIDE DEF S, S2
      <4>2. GoodPage(a.items, a.next, filter, S2, polls, changed)
        BY <3>4, <4>1, PageServed
      <4>. QED  BY <4>2 DEF S2
    <3>. QED  BY <3>3, <3>5, <3>7, <3>8
  <2>3. LoadsGood'
    BY <1>2, <1>3, <2>1, <2>2 DEF LoadsGood
  <2>4. MoreGood' /\ ListGood'
    BY <1>3, <2>1 DEF MoreGood, ListGood
  <2>. QED  BY <2>3, <2>4
<1>5. CASE LoadArrives(i)
  <2>. DEFINE a == loads[i].got
  <2>1. /\ loads' \in Seq(Loads) /\ loads[i].stage = "served"
        /\ UNCHANGED <<polls, page, filter, more, crossed, changed>>
        /\ Len(loads') = Len(loads) - 1
        /\ ~a.ok => UNCHANGED <<list, cursor, hasMore, upto>>
        /\ a.ok => /\ list' = a.items /\ upto' = a.upto
                   /\ cursor' = a.next /\ hasMore' = (a.next # None)
    BY <1>0, <1>1, <1>5, LoadArrivesIs DEF server
  <2>2. loads' = <<>>
    BY <1>3, <2>1
  <2>3. LoadsGood' /\ MoreGood'
    BY <1>3, <2>1, <2>2 DEF LoadsGood, MoreGood
  <2>4. CASE ~a.ok
    <3>1. ListGood'
      BY <1>3, <2>1, <2>4 DEF ListGood
    <3>. QED  BY <2>3, <3>1
  <2>5. CASE a.ok
    <3>1. a.upto <= Newest /\ GoodPage(a.items, a.next, filter, UpTo(Of(page), a.upto), polls, changed)
      BY <1>1, <2>1, <2>5 DEF LoadsGood
    <3>2. a.upto # None
      <4>1. a \in Answers
        BY <1>2, RecordTypes
      <4>2. a.upto \in Polls \cup {0}
        BY <2>5, <4>1, RecordTypes
      <4>. QED  BY <1>1, <4>2
    <3>3. Newest' = Newest
      BY <2>1 DEF Newest
    <3>. HIDE DEF a
    <3>4. upto' <= Newest' /\ GoodPage(list', cursor', filter', UpTo(Of(page'), upto'), polls', changed')
      BY <2>1, <2>5, <3>1, <3>3
    <3>5. upto' # None /\ hasMore' = (cursor' # None)
      BY <2>1, <2>5, <3>2
    <3>6. ListGood'
      BY <3>4, <3>5 DEF ListGood
    <3>. QED  BY <2>3, <3>6
  <2>. QED  BY <2>4, <2>5
<1>. QED  BY <1>4, <1>5

\* The next page is asked for, served, or arrives.
LEMMA ListExtended ==
  ASSUME TypesInv, ListInv, loadMore \/ MoreServed \/ MoreArrives
  PROVE  ListInv'
<1>. SUFFICES ASSUME page' \in {"home", "my_polls", "past_votes"}, ~crossed' PROVE LoadsGood' /\ MoreGood' /\ ListGood'
  BY DEF ListInv
<1>0. UNCHANGED <<polls, changed, page, filter, loads, upto, crossed>>
  BY DEF loadMore, MoreServed, MoreArrives, server
<1>1. /\ LoadsGood /\ MoreGood /\ ListGood /\ ListingTyped /\ PagesOK /\ marks \subseteq Marks
      /\ more # None => cursor # None /\ loads = <<>> /\ more \in Mores /\ more.cursor = cursor /\ more.filter = filter
      /\ cursor # None => /\ cursor \in Polls /\ cursor \in Nat /\ upto # None
                          /\ Below(Of(page), cursor) \in SUBSET Polls
      /\ upto # None => upto \in Nat /\ loads = <<>>
  BY <1>0, ListIs, TypeParts DEF TypesInv, ServerTyped
<1>2. Newest' = Newest
  BY <1>0 DEF Newest
<1>3. CASE loadMore
  <2>1. /\ cursor # None /\ more' = More(filter, cursor) /\ UNCHANGED <<list, cursor, hasMore>>
    BY <1>3 DEF loadMore
  <2>2. more'.filter = filter /\ more'.cursor = cursor /\ more'.stage = "sent"
    BY <2>1 DEF More
  <2>3. LoadsGood'
    BY <1>0, <1>1, <2>1 DEF LoadsGood
  <2>4. MoreGood'
    BY <1>0, <2>1, <2>2 DEF MoreGood
  <2>5. ListGood'
    BY <1>0, <1>1, <1>2, <2>1 DEF ListGood
  <2>. QED  BY <2>3, <2>4, <2>5
<1>4. CASE MoreServed
  <2>. DEFINE a == more'.got
  <2>1. /\ more # None /\ more'.filter = more.filter /\ more'.cursor = more.cursor
        /\ \/ a = NoAnswer
           \/ /\ a \in Answers /\ a.ok
              /\ Exactly(a.items, a.next, more.filter, {p \in Of(page) : p < more.cursor})
        /\ UNCHANGED <<list, cursor, hasMore>>
    BY <1>1, <1>4, MoreServedIs
  <2>2. ASSUME a.ok PROVE GoodPage(a.items, a.next, filter, Below(Of(page), cursor), polls, changed)
    <3>. DEFINE S == Below(Of(page), cursor)
    <3>0. more.filter = filter /\ {p \in Of(page) : p < more.cursor} = S
      BY <1>1, <2>1 DEF Below
    <3>1. a \in Answers /\ Exactly(a.items, a.next, filter, S)
      <4>1. a # NoAnswer
        BY <2>2 DEF NoAnswer
      <4>. HIDE DEF a, S
      <4>. QED  BY <2>1, <3>0, <4>1
    <3>2. a.items \in Seq(Entry)
      BY <2>2, <3>1, RecordTypes
    <3>3. S \in SUBSET Polls
      BY <1>1, <2>1
    <3>. HIDE DEF a, S
    <3>4. GoodPage(a.items, a.next, filter, S, polls, changed)
      BY <3>1, <3>2, <3>3, PageServed
    <3>. QED  BY <3>4 DEF S
  <2>3. LoadsGood'
    BY <1>0, <1>1, <2>1 DEF LoadsGood
  <2>4. MoreGood'
    BY <1>0, <1>1, <2>1, <2>2 DEF MoreGood
  <2>5. ListGood'
    BY <1>0, <1>1, <1>2, <2>1 DEF ListGood
  <2>. QED  BY <2>3, <2>4, <2>5
<1>5. CASE MoreArrives
  <2>. DEFINE a == more.got
  <2>1. /\ more # None /\ more.stage = "served" /\ more' = None
        /\ ~a.ok => UNCHANGED <<list, cursor, hasMore>>
        /\ a.ok => list' = list \o a.items /\ cursor' = a.next /\ hasMore' = (a.next # None)
    BY <1>5 DEF MoreArrives
  <2>2. LoadsGood' /\ MoreGood'
    BY <1>0, <1>1, <2>1 DEF LoadsGood, MoreGood
  <2>3. CASE ~a.ok
    <3>1. ListGood'
      BY <1>0, <1>1, <1>2, <2>1, <2>3 DEF ListGood
    <3>. QED  BY <2>2, <3>1
  <2>4. CASE a.ok
    <3>1. a \in Answers /\ list \in Seq(Entry)
      BY <1>1, <2>1, RecordTypes DEF ListingTyped
    <3>2. a.items \in Seq(Entry) /\ a.next \in Polls \cup {None}
      BY <2>4, <3>1, RecordTypes
    <3>3. GoodPage(a.items, a.next, filter, Below(Of(page), cursor), polls, changed)
      BY <1>1, <2>1, <2>4 DEF MoreGood
    <3>4. upto <= Newest /\ upto # None /\ GoodPage(list, cursor, filter, UpTo(Of(page), upto), polls, changed)
      BY <1>1, <2>1 DEF ListGood
    <3>5. cursor \in Polls /\ upto \in Nat /\ Of(page) \in SUBSET Polls
      BY <1>1, <2>1, ListsAssumption DEF Of
    <3>. HIDE DEF a
    <3>6. GoodPage(list', a.next, filter, UpTo(Of(page), upto), polls, changed)
      <4>. DEFINE of == Of(page)
                  s == list'
      <4>1. /\ of \in SUBSET Polls /\ s = list \o a.items
            /\ GoodPage(list, cursor, filter, UpTo(of, upto), polls, changed)
            /\ GoodPage(a.items, a.next, filter, Below(of, cursor), polls, changed)
        BY <2>1, <2>4, <3>3, <3>4, <3>5
      <4>. HIDE DEF of, s
      <4>2. GoodPage(s, a.next, filter, UpTo(of, upto), polls, changed)
        BY <3>1, <3>2, <3>5, <4>1, PagesJoin
      <4>. QED  BY <4>2 DEF of, s
    <3>7. /\ upto' <= Newest' /\ upto' # None /\ hasMore' = (cursor' # None)
          /\ GoodPage(list', cursor', filter', UpTo(Of(page'), upto'), polls', changed')
      BY <1>0, <1>2, <2>1, <2>4, <3>4, <3>6
    <3>8. ListGood'
      BY <3>7 DEF ListGood
    <3>. QED  BY <2>2, <3>8
  <2>. QED  BY <2>3, <2>4
<1>. QED  BY <1>3, <1>4, <1>5

\* The list is asked for from the start: by another tab, or by another page.
LEMMA ListAsked ==
  ASSUME TypesInv, (\E f \in Filters : SetFilter(f)) \/ (\E p \in Pages : Navigate(p))
  PROVE  ListInv'
<1>. SUFFICES ASSUME page' \in {"home", "my_polls", "past_votes"}, ~crossed' PROVE LoadsGood' /\ MoreGood' /\ ListGood'
  BY DEF ListInv
<1>1. \E f \in Filters : loads' = <<Load(f)>> /\ filter' = f /\ more' = None /\ upto' = None /\ list' = <<>> /\ cursor' = None
  <2>1. ASSUME NEW f \in Filters, SetFilter(f)
        PROVE  loads' = <<Load(f)>> /\ filter' = f /\ more' = None /\ upto' = None /\ list' = <<>> /\ cursor' = None
    <3>. DEFINE e == Load(f)
    <3>1. /\ crossed' = (loads # <<>> \/ more # None) /\ more' = more /\ loads' = Append(loads, e)
          /\ filter' = f /\ upto' = None /\ list' = <<>> /\ cursor' = None
      BY <2>1 DEF SetFilter
    <3>2. loads = <<>> /\ more = None
      BY <3>1
    <3>. HIDE DEF e
    <3>3. loads' = <<e>>
      BY <3>1, <3>2
    <3>. QED  BY <3>1, <3>2, <3>3 DEF e
  <2>2. ASSUME NEW p \in Pages, Navigate(p)
        PROVE  loads' = <<Load("all")>> /\ filter' = "all" /\ more' = None /\ upto' = None /\ list' = <<>> /\ cursor' = None
    <3>1. /\ page' = p /\ filter' = "all" /\ more' = None /\ upto' = None /\ list' = <<>> /\ cursor' = None
          /\ loads' = Mounts(p)
      BY <2>2 DEF Navigate
    <3>. QED  BY <3>1 DEF Mounts
  <2>. QED  BY <2>1, <2>2, LoadIs
<1>2. PICK f \in Filters : /\ loads' = <<Load(f)>> /\ filter' = f /\ more' = None /\ upto' = None
                           /\ list' = <<>> /\ cursor' = None
  BY <1>1
<1>. DEFINE e == Load(f)
<1>3. e.filter = f /\ e.stage = "sent" /\ loads' = <<e>>
  BY <1>2, LoadIs
<1>. HIDE DEF e
<1>4. Len(loads') = 1 /\ DOMAIN loads' = {1} /\ loads'[1] = e
  BY <1>3
<1>5. LoadsGood'
  BY <1>2, <1>3, <1>4 DEF LoadsGood
<1>. QED  BY <1>2, <1>5 DEF MoreGood, ListGood

\* The page on which a request to close or delete a poll is heeded.
LEMMA OwnIs ==
  ASSUME TypesInv, OwnCallsOK, ListInv, NEW j \in DOMAIN calls, calls[j].alive, calls[j].op \in {"close", "delete"}
  PROVE  /\ page = "my_polls" /\ filter = "all" /\ ~crossed /\ Of(page) = Mine
         /\ calls[j].id \in Polls /\ calls[j].id \in Nat /\ calls[j].id \in Mine
         /\ loads = <<>> /\ upto # None /\ upto \in Nat /\ calls[j].id <= upto /\ upto <= Newest
         /\ cursor # None => cursor \in Nat /\ calls[j].id >= cursor
         /\ calls[j].id \in Shown \/ polls[calls[j].id] = "gone"
<1>1. page = "my_polls" /\ calls[j].id \in Polls
  BY DEF TypesInv, CallsOK, CallOK
<1>2. filter = "all" /\ ~crossed /\ Of(page) = Mine
  BY <1>1 DEF TypesInv, PagesOK, Of
<1>3. calls[j].id \in Nat /\ (upto # None => upto \in Nat /\ upto <= Newest) /\ (cursor # None => cursor \in Nat)
  BY <1>1, <1>2, ListIs
<1>4. /\ calls[j].id \in Mine /\ loads = <<>> /\ upto # None /\ calls[j].id <= upto
      /\ cursor # None => calls[j].id >= cursor
      /\ calls[j].id \in Shown \/ polls[calls[j].id] = "gone"
  BY DEF OwnCallsOK, OwnOK
<1>. QED  BY <1>1, <1>2, <1>3, <1>4

\* A request has been answered: the list shows what it did.
LEMMA ListAnswered ==
  ASSUME TypesInv, OwnCallsOK, ListInv, NEW j \in DOMAIN calls, CallAnswers(j)
  PROVE  ListInv'
<1>. SUFFICES ASSUME page' \in {"home", "my_polls", "past_votes"}, ~crossed' PROVE LoadsGood' /\ MoreGood' /\ ListGood'
  BY DEF ListInv
<1>. DEFINE c == calls[j]
            d == calls[j].id
<1>0. /\ UNCHANGED <<polls, page, filter, cursor, hasMore, loads, more, upto, crossed>> /\ c.stage = "done"
      /\ changed' = IF c.alive /\ c.op \in {"close", "delete"} /\ polls[c.id] = Gone(c.op)
                    THEN changed \ {c.id} ELSE changed
  BY DEF CallAnswers, server
<1>1. /\ LoadsGood /\ MoreGood /\ ListGood /\ ListingTyped /\ MarkingTyped /\ ServerTyped /\ PagesOK /\ CallsOK
      /\ more # None => cursor # None /\ more \in Mores /\ Below(Of(page), cursor) \in SUBSET Polls
      /\ upto # None => UpTo(Of(page), upto) \in SUBSET Polls
  BY <1>0, ListIs, TypeParts DEF TypesInv
<1>2. Newest' = Newest
  BY <1>0 DEF Newest
<1>3. CASE ~(c.alive /\ c.op \in {"close", "delete"})
  <2>1. changed' = changed
    BY <1>0, <1>3
  <2>2. list' = list
    <3>1. ~(c.alive /\ c.op = "clear")
      BY <1>0, <1>1 DEF CallsOK, CallOK
    <3>. QED  BY <1>1, <1>3, <3>1, AnsweredList
  <2>3. LoadsGood'
    BY <1>0, <1>1, <1>2, <2>1 DEF LoadsGood
  <2>4. MoreGood'
    BY <1>0, <1>1, <2>1 DEF MoreGood
  <2>5. ListGood'
    BY <1>0, <1>1, <1>2, <2>1, <2>2 DEF ListGood
  <2>. QED  BY <2>3, <2>4, <2>5
<1>4. CASE c.alive /\ c.op \in {"close", "delete"}
  <2>1. /\ filter = "all" /\ loads = <<>> /\ upto # None /\ upto \in Nat /\ d \in Polls /\ d \in Nat /\ d <= upto
        /\ cursor # None => cursor \in Nat /\ d >= cursor
        /\ d \in UpTo(Of(page), upto)
        /\ d \in Shown \/ polls[d] = "gone"
    BY <1>4, OwnIs DEF UpTo
  <2>2. changed' \in {changed, changed \ {d}}
    BY <1>0
  <2>3. LoadsGood'
    BY <1>0, <2>1 DEF LoadsGood
  \* What is asked for is below the polls that are shown.
  <2>4. MoreGood'
    <3>1. ASSUME more # None, more.stage = "served", more.got.ok
          PROVE  GoodPage(more.got.items, more.got.next, filter, Below(Of(page), cursor), polls, changed')
      <4>. DEFINE a == more.got
                  S == Below(Of(page), cursor)
                  since == changed'
      <4>1. S \in SUBSET Polls /\ GoodPage(a.items, a.next, filter, S, polls, changed)
        BY <1>1, <3>1 DEF MoreGood
      <4>2. a.items \in Seq(Entry)
        <5>1. a \in Answers
          BY <1>1, <3>1, RecordTypes
        <5>. QED  BY <3>1, <5>1, RecordTypes
      <4>3. \A p \in S : p \in changed => p \in since
        <5>1. d \notin S
          BY <1>1, <2>1, <3>1 DEF Below
        <5>. QED  BY <2>2, <5>1
      <4>. HIDE DEF a, S, since
      <4>4. GoodPage(a.items, a.next, filter, S, polls, since)
        BY <4>1, <4>2, <4>3, PageStays
      <4>. QED  BY <4>4 DEF a, S, since
    <3>. QED  BY <1>0, <1>1, <3>1 DEF MoreGood
  <2>. DEFINE S == UpTo(Of(page), upto)
              since == changed'
              t == list'
  <2>5. /\ S \in SUBSET Polls /\ GoodPage(list, cursor, "all", S, polls, changed) /\ list \in Seq(Entry)
        /\ upto <= Newest /\ hasMore = (cursor # None) /\ d \in S
    BY <1>1, <2>1 DEF ListGood, ListingTyped
  <2>6. GoodPage(t, cursor, "all", S, polls, since)
    <3>1. CASE c.op = "close"
      <4>1. /\ DOMAIN t = DOMAIN list
            /\ \A i \in DOMAIN list : t[i].id = list[i].id /\ t[i].live = IF list[i].id = d THEN FALSE ELSE list[i].live
        BY <1>1, <1>4, <3>1, AnsweredList
      <4>2. polls[d] # "live"
        BY <1>0, <1>4, <3>1 DEF OwnCallsOK, OwnOK
      <4>3. since = changed \/ (since = changed \ {d} /\ polls[d] = "closed" /\ \E i \in DOMAIN list : list[i].id = d)
        <5>1. CASE polls[d] = "closed"
          BY <2>1, <2>2, <5>1 DEF Shown
        <5>2. CASE polls[d] # "closed"
          BY <1>0, <3>1, <5>2 DEF Gone
        <5>. QED  BY <5>1, <5>2
      <4>4. cursor # None => d >= cursor
        BY <2>1
      <4>5. d \in Polls /\ d \in S /\ GoodPage(list, cursor, "all", S, polls, changed) /\ list \in Seq(Entry) /\ S \in SUBSET Polls
        BY <2>1, <2>5
      <4>. HIDE DEF S, since, t, d
      <4>6. DOMAIN t = DOMAIN list
        BY <4>1
      <4>7. \A i \in DOMAIN list : t[i].id = list[i].id /\ t[i].live = IF list[i].id = d THEN FALSE ELSE list[i].live
        BY <4>1
      <4>. USE <4>2, <4>3, <4>4, <4>5, <4>6, <4>7
      <4>8. /\ \A i, k \in DOMAIN t : i < k => t[i].id > t[k].id
            /\ \A i \in DOMAIN t : t[i].id \in S /\ (cursor # None => t[i].id >= cursor)
            /\ cursor # None => cursor \in S
        BY DEF GoodPage
      <4>9. \A p \in Polls \ since :
                (\E i \in DOMAIN t : t[i].id = p) <=>
                   /\ p \in S /\ polls[p] \in {"live", "closed"}
                   /\ cursor # None => p >= cursor
        <5>. SUFFICES ASSUME NEW p \in Polls \ since
                      PROVE  (\E i \in DOMAIN list : list[i].id = p) <=>
                                /\ p \in S /\ polls[p] \in {"live", "closed"}
                                /\ cursor # None => p >= cursor
          OBVIOUS
        <5>1. CASE p \notin changed
          BY <5>1 DEF GoodPage
        <5>2. CASE p = d /\ polls[d] = "closed" /\ \E i \in DOMAIN list : list[i].id = d
          BY <5>2
        <5>. QED  BY <5>1, <5>2
      <4>10. \A i \in DOMAIN t : t[i].id \notin since => t[i].live = (polls[t[i].id] = "live")
        <5>. SUFFICES ASSUME NEW i \in DOMAIN list, list[i].id \notin since PROVE t[i].live = (polls[list[i].id] = "live")
          OBVIOUS
        <5>1. CASE list[i].id = d
          BY <5>1
        <5>2. CASE list[i].id # d
          BY <5>2 DEF GoodPage
        <5>. QED  BY <5>1, <5>2
      <4>. QED  BY <4>8, <4>9, <4>10 DEF GoodPage
    <3>2. CASE c.op = "delete"
      <4>1. /\ \A k \in DOMAIN t : \E i \in DOMAIN list : list[i].id # d /\ t[k] = list[i]
            /\ \A i \in DOMAIN list : list[i].id # d => \E k \in DOMAIN t : t[k] = list[i]
            /\ \A k, l \in DOMAIN t : k < l => \E i, m \in DOMAIN list : i < m /\ t[k] = list[i] /\ t[l] = list[m]
        BY <1>1, <1>4, <3>2, AnsweredList
      <4>2. polls[d] = "gone"
        BY <1>0, <1>1, <3>2 DEF CallsOK, CallOK
      <4>3. since = changed \ {d}
        BY <1>0, <1>4, <3>2, <4>2 DEF Gone
      <4>. HIDE DEF S, since, t, d
      <4>4. GoodPage(t, cursor, "all", S, polls, changed \ {d})
        BY <2>1, <2>5, <4>1, <4>2, PageSifted
      <4>. QED  BY <4>3, <4>4
    <3>. QED  BY <1>4, <3>1, <3>2
  <2>7. ListGood'
    <3>1. GoodPage(list', cursor', filter', UpTo(Of(page'), upto'), polls', changed')
      BY <1>0, <2>1, <2>6
    <3>2. upto' # None /\ upto' <= Newest' /\ hasMore' = (cursor' # None)
      BY <1>0, <1>2, <2>1, <2>5
    <3>. QED  BY <3>1, <3>2 DEF ListGood
  <2>. QED  BY <2>3, <2>4, <2>7
<1>. QED  BY <1>3, <1>4

LEMMA ListKept ==
  ASSUME TypesInv, OwnCallsOK, ListInv, [Next]_vars
  PROVE  ListInv'
  BY ListStays, ListLoaded, ListExtended, ListAsked, ListAnswered, ListingMoves

\* A request to close or delete a poll stays about one that the list shows, or
\* has shown, when the list only grows or loses polls that are gone.
LEMMA OwnStays ==
  ASSUME TypesInv, OwnCallsOK, ListInv, [Next]_vars, NEW j \in DOMAIN calls, UNCHANGED <<loads, upto>>,
         cursor' = None \/ cursor' = cursor \/ (cursor # None /\ cursor' \in Nat /\ cursor' < cursor),
         \A p \in Polls : p \in Shown => p \in Shown' \/ polls'[p] = "gone",
         NEW e, e.alive => calls[j].alive, e.op = calls[j].op, e.id = calls[j].id,
         e.stage = calls[j].stage \/ (e.op = "close" /\ e.stage = "done" => polls'[e.id] # "live")
  PROVE  OwnOK(e, loads', Shown', cursor', upto', polls')
<1>. SUFFICES ASSUME e.alive, e.op \in {"close", "delete"}
              PROVE  /\ e.id \in Mine /\ loads = <<>>
                     /\ upto # None /\ e.id <= upto
                     /\ cursor' # None => e.id >= cursor'
                     /\ e.id \in Shown' \/ polls'[e.id] = "gone"
                     /\ e.op = "close" /\ e.stage = "done" => polls'[e.id] # "live"
  BY DEF OwnOK
<1>1. /\ e.id \in Polls /\ e.id \in Nat /\ e.id \in Mine
      /\ loads = <<>> /\ upto # None /\ upto \in Nat /\ e.id <= upto /\ upto <= Newest
      /\ cursor # None => cursor \in Nat /\ e.id >= cursor
      /\ e.id \in Shown \/ polls[e.id] = "gone"
  BY OwnIs
<1>2. cursor' # None => e.id >= cursor'
  BY <1>1
<1>3. e.id \in Shown' \/ polls'[e.id] = "gone"
  <2>1. polls[e.id] = "gone" => polls'[e.id] = "gone"
    BY <1>1, GoneStays, TypeParts DEF TypesInv
  <2>. QED  BY <1>1, <2>1
<1>4. ASSUME e.op = "close", e.stage = "done" PROVE polls'[e.id] # "live"
  <2>1. CASE e.stage = calls[j].stage
    <3>1. polls[e.id] # "live"
      BY <1>4, <2>1 DEF OwnCallsOK, OwnOK
    <3>2. ~(e.id > Newest)
      <4>1. Newest \in Nat
        BY NewestIs
      <4>. QED  BY <1>1, <4>1
    <3>. QED  BY <1>1, <3>1, <3>2, PollsStay
  <2>2. CASE e.op = "close" /\ e.stage = "done" => polls'[e.id] # "live"
    BY <1>4, <2>2
  <2>. QED  BY <2>1, <2>2
<1>. QED  BY <1>1, <1>2, <1>3, <1>4

\* A poll of the list that is to be closed or deleted.
LEMMA OwnAsked ==
  ASSUME TypesInv, ListInv, NEW i \in DOMAIN list, handleClosePoll(list[i]) \/ handleDeletePoll(list[i]),
         NEW e, e.id = list[i].id, e.stage = "sent"
  PROVE  OwnOK(e, loads', Shown', cursor', upto', polls')
<1>1. page = "my_polls" /\ UNCHANGED <<polls, list, cursor, loads, upto>>
  BY DEF handleClosePoll, handleDeletePoll, OwnPollClick, listing, server
<1>2. filter = "all" /\ ~crossed /\ Of(page) = Mine
  BY <1>1 DEF TypesInv, PagesOK, Of
<1>3. upto # None
  <2>1. list # <<>>
    OBVIOUS
  <2>. QED  BY <1>1, <1>2, <2>1, ListIs DEF ListGood
<1>4. loads = <<>> /\ GoodPage(list, cursor, filter, UpTo(Of(page), upto), polls, changed)
  BY <1>1, <1>2, <1>3, ListIs DEF ListGood
<1>5. list[i].id \in UpTo(Of(page), upto) /\ (cursor # None => list[i].id >= cursor)
  BY <1>4 DEF GoodPage
<1>6. list[i].id \in Mine /\ list[i].id <= upto /\ list[i].id \in Shown /\ Shown' = Shown
  BY <1>1, <1>2, <1>5 DEF UpTo, Shown
<1>. QED  BY <1>1, <1>3, <1>4, <1>5, <1>6 DEF OwnOK

LEMMA OwnKept ==
  ASSUME TypesInv, OwnCallsOK, ListInv, [Next]_vars
  PROVE  OwnCallsOK'
<1>. DEFINE Ok(k) == OwnOK(calls'[k], loads', Shown', cursor', upto', polls')
<1>. SUFFICES \A k \in DOMAIN calls' : Ok(k)
  BY DEF OwnCallsOK
<1>0. /\ ServerTyped /\ ListingTyped /\ MarkingTyped /\ PagesOK /\ CallsOK /\ marks \subseteq Marks
      /\ \A k \in DOMAIN calls : calls[k].alive /\ calls[k].op \in {"close", "delete"} => page = "my_polls" /\ loads = <<>>
  BY TypeParts, OwnIs DEF TypesInv, ServerTyped
\* A request that is not heeded, or not about one of the user's polls.
<1>1. \A k \in DOMAIN calls' : ~(calls'[k].alive /\ calls'[k].op \in {"close", "delete"}) => Ok(k)
  BY DEF OwnOK
\* The list has not lost a poll that is there.
<1>. DEFINE Quiet == /\ UNCHANGED <<loads, upto>>
                     /\ cursor' = None \/ cursor' = cursor \/ (cursor # None /\ cursor' \in Nat /\ cursor' < cursor)
                     /\ \A p \in Polls : p \in Shown => p \in Shown' \/ polls'[p] = "gone"
\* A request that has been under way.
<1>2. ASSUME Quiet, NEW k \in DOMAIN calls', NEW j \in DOMAIN calls,
             calls'[k].alive => calls[j].alive, calls'[k].op = calls[j].op, calls'[k].id = calls[j].id,
             \/ calls'[k].stage = calls[j].stage
             \/ calls'[k].op = "close" /\ calls'[k].stage = "done" => polls'[calls'[k].id] # "live"
      PROVE  Ok(k)
  <2>. DEFINE e == calls'[k]
  <2>1. /\ e.alive => calls[j].alive
        /\ e.op = calls[j].op /\ e.id = calls[j].id
        /\ e.stage = calls[j].stage \/ (e.op = "close" /\ e.stage = "done" => polls'[e.id] # "live")
    BY <1>2
  <2>2. /\ UNCHANGED <<loads, upto>>
        /\ cursor' = None \/ cursor' = cursor \/ (cursor # None /\ cursor' \in Nat /\ cursor' < cursor)
        /\ \A p \in Polls : p \in Shown => p \in Shown' \/ polls'[p] = "gone"
    BY <1>2
  <2>. HIDE DEF e, Quiet, Ok
  <2>3. OwnOK(e, loads', Shown', cursor', upto', polls')
    BY <2>1, <2>2, OwnStays
  <2>. QED  BY <2>3 DEF e, Ok
<1>. HIDE DEF Ok
<1>3. UNCHANGED <<list, cursor, loads, upto>> => Quiet
  BY DEF Shown
<1>. HIDE DEF Quiet
\* Steps that leave the requests alone.
<1>4. ASSUME Quiet, calls' = calls PROVE \A k \in DOMAIN calls' : Ok(k)
  BY <1>2, <1>4
\* Steps that add one of another kind.
<1>5. ASSUME Quiet, NEW c \in Calls, calls' = Append(calls, c), c.op \notin {"close", "delete"}
      PROVE  \A k \in DOMAIN calls' : Ok(k)
  <2>1. \A k \in DOMAIN calls' : (k \in DOMAIN calls /\ calls'[k] = calls[k]) \/ calls'[k] = c
    BY <1>0, <1>5, AskedFor
  <2>. QED  BY <1>1, <1>2, <1>5, <2>1
<1>6. ASSUME NEW i \in DOMAIN loads, LoadServed(i) \/ LoadArrives(i) PROVE \A k \in DOMAIN calls' : Ok(k)
  <2>1. calls' = calls
    BY <1>6 DEF LoadServed, LoadArrives
  <2>2. loads # <<>>
    BY <1>0, UnderWay
  <2>. QED  BY <1>0, <1>1, <2>1, <2>2
<1>7. CASE loadMore \/ MoreServed
  <2>1. calls' = calls /\ UNCHANGED <<list, cursor, loads, upto>>
    BY <1>7 DEF loadMore, MoreServed
  <2>. QED  BY <1>3, <1>4, <2>1
<1>8. CASE MoreArrives
  <2>1. calls' = calls /\ UNCHANGED <<loads, upto, polls>> /\ more # None /\ more.stage = "served"
    BY <1>8 DEF MoreArrives, server
  <2>. SUFFICES ASSUME NEW k \in DOMAIN calls, calls[k].alive, calls[k].op \in {"close", "delete"} PROVE Ok(k)
    BY <1>1, <2>1
  <2>2. page = "my_polls" /\ ~crossed
    BY OwnIs
  <2>3. MoreGood /\ cursor # None /\ cursor \in Nat /\ more \in Mores /\ \A p \in Polls : p \in Nat
    BY <2>1, <2>2, ListIs
  <2>4. CASE ~more.got.ok
    <3>1. UNCHANGED <<list, cursor>>
      BY <1>8, <2>4 DEF MoreArrives
    <3>. QED  BY <1>3, <1>4, <2>1, <3>1
  <2>5. CASE more.got.ok
    <3>. DEFINE a == more.got
    <3>1. list' = list \o a.items /\ cursor' = a.next
      BY <1>8, <2>5 DEF MoreArrives
    <3>2. a.items \in Seq(Entry) /\ a.next \in Polls \cup {None} /\ list \in Seq(Entry)
      <4>1. a \in Answers
        BY <2>3, RecordTypes
      <4>. QED  BY <1>0, <2>5, <4>1, RecordTypes DEF ListingTyped
    <3>3. GoodPage(a.items, a.next, filter, Below(Of(page), cursor), polls, changed)
      BY <2>1, <2>3, <2>5 DEF MoreGood
    <3>4. a.next # None => a.next \in Nat /\ a.next < cursor
      BY <2>3, <3>2, <3>3 DEF GoodPage, Below
    <3>. HIDE DEF a
    <3>5. \A i \in DOMAIN list : i \in DOMAIN list' /\ list'[i] = list[i]
      <4>1. DOMAIN list = 1..Len(list) /\ Len(list) \in Nat /\ Len(a.items) \in Nat
        BY <3>2
      <4>2. /\ list' \in Seq(Entry) /\ Len(list') = Len(list) + Len(a.items)
            /\ \A i \in 1..Len(list) : list'[i] = list[i]
        BY <3>1, <3>2, ConcatIs
      <4>3. DOMAIN list' = 1..Len(list')
        BY <4>2
      <4>. QED  BY <4>1, <4>2, <4>3
    <3>6. \A p \in Polls : p \in Shown => p \in Shown'
      BY <3>5 DEF Shown
    <3>7. Quiet
      BY <2>1, <2>3, <3>1, <3>4, <3>6 DEF Quiet
    <3>. QED  BY <1>4, <2>1, <3>7
  <2>. QED  BY <2>4, <2>5
<1>9. ASSUME NEW f \in Filters, SetFilter(f) PROVE \A k \in DOMAIN calls' : Ok(k)
  <2>1. calls' = calls /\ page = "home"
    BY <1>9 DEF SetFilter
  <2>. QED  BY <1>0, <1>1, <2>1
<1>10. ASSUME NEW p \in Pages, Navigate(p) PROVE \A k \in DOMAIN calls' : Ok(k)
  <2>1. /\ DOMAIN calls' = DOMAIN calls
        /\ \A k \in DOMAIN calls : /\ calls'[k].op = calls[k].op
                                   /\ calls'[k].alive => calls[k].op \in {"create", "refresh"}
    BY <1>0, <1>10, LeftBehind
  <2>. QED  BY <1>1, <2>1
<1>11. CASE UNCHANGED <<page, filter, listing>> /\ UNCHANGED <<marking, calls>>
  BY <1>3, <1>4, <1>11 DEF listing
<1>12. CASE handleCreate
  <2>1. UNCHANGED <<list, cursor, loads, upto>> /\ calls' = Append(calls, Call("create", None, FALSE))
    BY <1>12 DEF handleCreate, listing
  <2>2. Call("create", None, FALSE) \in Calls /\ Call("create", None, FALSE).op = "create"
    BY DEF Call, Calls
  <2>. QED  BY <1>3, <1>5, <2>1, <2>2
<1>13. ASSUME NEW i \in DOMAIN list, handleClosePoll(list[i]) \/ handleDeletePoll(list[i])
       PROVE  \A k \in DOMAIN calls' : Ok(k)
  <2>1. PICK op \in {"close", "delete"} : /\ UNCHANGED <<list, cursor, loads, upto>>
                                          /\ calls' = Append(calls, Call(op, list[i].id, FALSE))
    BY <1>13 DEF handleClosePoll, handleDeletePoll, OwnPollClick, listing
  <2>2. list[i].id \in Polls
    BY <1>0, RecordTypes DEF ListingTyped
  <2>. DEFINE c == Call(op, list[i].id, FALSE)
  <2>3. c \in Calls /\ c.id = list[i].id /\ c.stage = "sent"
    BY <2>2 DEF Call, Calls
  <2>4. calls' = Append(calls, c)
    BY <2>1
  <2>. HIDE DEF c
  <2>5. \A k \in DOMAIN calls' : (k \in DOMAIN calls /\ calls'[k] = calls[k]) \/ calls'[k] = c
    BY <1>0, <2>3, <2>4, AskedFor
  <2>6. OwnOK(c, loads', Shown', cursor', upto', polls')
    BY <1>13, <2>3, OwnAsked
  <2>7. ASSUME NEW k \in DOMAIN calls', calls'[k] = c PROVE Ok(k)
    BY <2>6, <2>7 DEF Ok
  <2>. QED  BY <1>2, <1>3, <2>1, <2>5, <2>7
<1>14. ASSUME NEW p \in Marks, handleBookmarkToggle(p) PROVE \A k \in DOMAIN calls' : Ok(k)
  <2>1. calls' = calls /\ UNCHANGED <<list, cursor, loads, upto>>
    BY <1>14 DEF handleBookmarkToggle, listing
  <2>. QED  BY <1>3, <1>4, <2>1
<1>15. CASE TimerFires
  <2>1. UNCHANGED <<list, cursor, loads, upto>>
    BY <1>15 DEF TimerFires, listing
  <2>2. \A k \in DOMAIN calls' : (k \in DOMAIN calls /\ calls'[k] = calls[k]) \/ calls'[k].op = "mark"
    BY <1>0, <1>15, FiredTimer
  <2>. QED  BY <1>1, <1>2, <1>3, <2>1, <2>2
<1>16. CASE BookmarksClick
  <2>1. page = "bookmarks" /\ UNCHANGED <<list, cursor, loads, upto>>
    BY <1>16 DEF BookmarksClick, listing
  <2>2. PICK op \in {"mark", "clear"}, p \in Polls \cup {None} : calls' = Append(calls, Call(op, p, FALSE))
    BY <1>16, ListsAssumption DEF BookmarksClick, BookmarkButtons
  <2>3. Call(op, p, FALSE) \in Calls /\ Call(op, p, FALSE).op \notin {"close", "delete"}
    BY DEF Call, Calls
  <2>. QED  BY <1>3, <1>5, <2>1, <2>2, <2>3
<1>17. ASSUME NEW i \in DOMAIN calls, CallServed(i) PROVE \A k \in DOMAIN calls' : Ok(k)
  <2>1. /\ DOMAIN calls' = DOMAIN calls /\ \A k \in DOMAIN calls : k # i => calls'[k] = calls[k]
        /\ calls'[i].op = calls[i].op /\ calls'[i].id = calls[i].id /\ calls'[i].alive = calls[i].alive
        /\ UNCHANGED <<list, cursor, loads, upto>>
    BY <1>0, <1>17, CallServedIs DEF listing
  <2>2. calls'[i].stage = "done" /\ calls[i].op = "close" => polls'[calls[i].id] # "live"
    BY <1>0, <1>17, ServedPolls
  <2>. QED  BY <1>2, <1>3, <2>1, <2>2
<1>18. ASSUME NEW i \in DOMAIN calls, CallFails(i) PROVE \A k \in DOMAIN calls' : Ok(k)
  <2>1. UNCHANGED <<list, cursor, loads, upto>>
    BY <1>18 DEF CallFails, listing
  <2>2. \A k \in DOMAIN calls' : (\E j \in DOMAIN calls : calls'[k] = calls[j]) \/ calls'[k].op = "refresh"
    BY <1>0, <1>18, AnsweredCalls
  <2>. QED  BY <1>1, <1>2, <1>3, <2>1, <2>2
<1>19. ASSUME NEW i \in DOMAIN calls, CallAnswers(i) PROVE \A k \in DOMAIN calls' : Ok(k)
  <2>. DEFINE c == calls[i]
  <2>1. UNCHANGED <<polls, cursor, loads, upto>> /\ c.stage = "done"
    BY <1>19 DEF CallAnswers, server
  <2>2. \A k \in DOMAIN calls' : (\E j \in DOMAIN calls : calls'[k] = calls[j]) \/ calls'[k].op = "refresh"
    BY <1>0, <1>19, AnsweredCalls
  <2>3. CASE c.alive /\ c.op = "clear"
    <3>1. page = "bookmarks"
      BY <1>0, <2>3 DEF CallsOK, CallOK
    <3>. QED  BY <1>0, <1>1, <2>2, <3>1
  <2>4. CASE ~(c.alive /\ c.op = "clear")
    <3>1. \A p \in Polls : p \in Shown => p \in Shown' \/ polls'[p] = "gone"
      <4>1. CASE ~c.alive \/ c.op \notin {"close", "delete", "clear"}
        <5>1. list' = list
          BY <1>0, <1>19, <4>1, AnsweredList
        <5>. QED  BY <5>1 DEF Shown
      <4>2. CASE c.alive /\ c.op = "close"
        <5>1. DOMAIN list' = DOMAIN list /\ \A m \in DOMAIN list : list'[m].id = list[m].id
          BY <1>0, <1>19, <4>2, AnsweredList
        <5>. QED  BY <5>1 DEF Shown
      <4>3. CASE c.alive /\ c.op = "delete"
        <5>1. \A m \in DOMAIN list : list[m].id # c.id => \E n \in DOMAIN list' : list'[n] = list[m]
          BY <1>0, <1>19, <4>3, AnsweredList
        <5>2. polls[c.id] = "gone"
          BY <1>0, <2>1, <4>3 DEF CallsOK, CallOK
        <5>. QED  BY <2>1, <5>1, <5>2 DEF Shown
      <4>. QED  BY <2>4, <4>1, <4>2, <4>3
    <3>2. Quiet
      BY <2>1, <3>1 DEF Quiet
    <3>. QED  BY <1>1, <1>2, <2>2, <3>2
  <2>. QED  BY <2>3, <2>4
<1>20. CASE UNCHANGED <<page, filter, listing>>
  BY <1>6, <1>9, <1>10, <1>11, <1>12, <1>13, <1>14, <1>15, <1>16, <1>17, <1>18, <1>19, <1>20, MarkingMoves
<1>. QED  BY <1>6, <1>7, <1>8, <1>9, <1>10, <1>19, <1>20, ListingMoves

LEMMA InitLists == Init => OwnCallsOK /\ ListInv
  BY DEF Init, OwnCallsOK, ListInv

\* A list that has been loaded and is not being extended is in order, without
\* duplicates, and lacks nothing: of the polls there were when it was loaded it
\* shows exactly those of the page and the tab, down to the point from which it
\* would ask for more, each as it is; but for polls that have changed since, and
\* for lists that mix two tabs because the first was still being loaded.
THEOREM ListsComplete == Spec => []ListIsComplete
<1>. DEFINE Inv == TypesInv /\ CommentsInv /\ OwnCallsOK /\ ListInv
<1>1. Init => Inv
  BY InitTyped, InitComments, InitLists
<1>2. Inv /\ [Next]_vars => Inv'
  <2>. SUFFICES ASSUME Inv, [Next]_vars PROVE Inv'
    OBVIOUS
  <2>1. TypesInv' /\ CommentsInv'
    BY TypesKept
  <2>2. OwnCallsOK'
    BY OwnKept
  <2>3. ListInv'
    BY ListKept
  <2>. QED  BY <2>1, <2>2, <2>3
<1>3. Inv => ListIsComplete
  <2>. SUFFICES ASSUME TypesInv, ListInv, upto # None, ~crossed, page # "bookmarks"
                PROVE  /\ \A i, j \in DOMAIN list : i < j => list[i].id > list[j].id
                       /\ \A p \in Polls \ changed :
                             p \in Shown <=> Matches(p) /\ p <= upto /\ (hasMore => p >= cursor)
                       /\ \A i \in DOMAIN list : list[i].id \notin changed =>
                             list[i].live = (polls[list[i].id] = "live")
    BY DEF ListIsComplete, Settled
  <2>1. page \in {"home", "my_polls", "past_votes"}
    BY TypeParts DEF TypesInv, PagesOK, ListingTyped, Pages
  <2>2. ListGood
    BY <2>1, ListIs
  <2>3. hasMore = (cursor # None) /\ GoodPage(list, cursor, filter, UpTo(Of(page), upto), polls, changed)
    BY <2>2 DEF ListGood
  <2>4. \A p \in Polls \ changed : p \in Shown <=> Matches(p) /\ p <= upto /\ (hasMore => p >= cursor)
    <3>. SUFFICES ASSUME NEW p \in Polls \ changed
                  PROVE  p \in Shown <=> Matches(p) /\ p <= upto /\ (hasMore => p >= cursor)
      OBVIOUS
    <3>1. p \in Shown <=> \E i \in DOMAIN list : list[i].id = p
      BY DEF Shown
    <3>2. p \in Shown <=> /\ p \in UpTo(Of(page), upto) /\ polls[p] \in {"live", "closed"}
                          /\ filter = "all" \/ polls[p] = filter
                          /\ cursor # None => p >= cursor
      BY <2>3, <3>1 DEF GoodPage
    <3>3. Matches(p) <=> /\ p \in Of(page) /\ polls[p] \in {"live", "closed"}
                         /\ filter = "all" \/ polls[p] = filter
      BY DEF Matches, Listed
    <3>4. p \in UpTo(Of(page), upto) <=> p \in Of(page) /\ p <= upto
      BY DEF UpTo
    <3>. QED  BY <2>3, <3>2, <3>3, <3>4
  <2>. QED  BY <2>3, <2>4 DEF GoodPage
<1>. QED  BY <1>1, <1>2, <1>3, PTL DEF Spec
=============================================================================
