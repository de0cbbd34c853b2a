--------------------------- MODULE SessionProofs ----------------------------
(***************************************************************************)
(* What holds of a tab's session for any accounts, any number of restores  *)
(* at once and any number of clicks, failures and events of other tabs.    *)
(***************************************************************************)
EXTENDS Session, TLAPS

-----------------------------------------------------------------------------
(* The inductive invariants.                                               *)

\* A user that is shown owns the token, or a restore is due or under way.
ShownInv ==
    user # None /\ ~stale => (token # None /\ token.user = user) \/ rerun \/ Restoring

\* Once signed out with no restore in flight, nothing brings a token back but
\* another sign-in, and a user that is still shown is about to be looked at.
OutInv ==
    out /\ ~crossing => token = None /\ ~Restoring /\ (user = None \/ rerun)

-----------------------------------------------------------------------------
(* Types.                                                                  *)

Restores == [pc: {"me", "me2"}, as: Tokens] \cup [pc: {"refresh"}, as: Users \cup {None}] \cup {Idle}
Jobs     == [op: {"login", "delete"}, as: Users] \cup [op: {"logout"}, as: {None}]
              \cup [op: {"leave"}, as: Users] \cup {NoJob}

ServerOK  == cookie \in Users \cup {None} /\ deleted \subseteq Users
TabOK     == /\ token \in Tokens \cup {None} /\ user \in Users \cup {None}
             /\ loading \in BOOLEAN /\ rerun \in BOOLEAN
RouteOK   == page \in Pages /\ index \in Pages /\ events \in 0 .. MaxEvents
HistoryOK == /\ mine \in Users \cup {None} /\ out \in BOOLEAN
             /\ crossing \in BOOLEAN /\ stale \in BOOLEAN

LEMMA TypeParts ==
    /\ TypeOK <=> /\ ServerOK /\ TabOK /\ boots \in [Boots -> Restores] /\ job \in Jobs
                  /\ RouteOK /\ HistoryOK
    /\ TypeOK' <=> /\ ServerOK' /\ TabOK' /\ boots' \in [Boots -> Restores] /\ job' \in Jobs
                   /\ RouteOK' /\ HistoryOK'
BY DEF TypeOK, ServerOK, TabOK, Restores, Jobs, RouteOK, HistoryOK

\* What a restore waits for, and as whom.
LEMMA RestoreIs ==
    ASSUME NEW x \in Restores
    PROVE  /\ x.pc \in {"me", "me2"} => x.as \in Tokens /\ x.as.user \in Users /\ x # Idle
           /\ x.pc = "refresh" => x.as \in Users \cup {None} /\ x # Idle
           /\ x.pc = "idle" => x = Idle
BY DEF Restores, Idle, Tokens

LEMMA RestoreMade ==
    /\ \A t \in Tokens : /\ [pc |-> "me", as |-> t] \in Restores /\ [pc |-> "me2", as |-> t] \in Restores
                         /\ [pc |-> "me", as |-> t] # Idle /\ [pc |-> "me2", as |-> t] # Idle
                         /\ t # None /\ t.user \in Users
    /\ \A u \in Users \cup {None} : /\ [pc |-> "refresh", as |-> u] \in Restores
                                    /\ [pc |-> "refresh", as |-> u] # Idle
    /\ \A u \in Users : Fresh(u) \in Tokens /\ Fresh(u) # None /\ Fresh(u).user = u
    /\ Idle \in Restores
<1>1. \A t \in Tokens : t # None /\ t.user \in Users
  BY SessionAssumption DEF Tokens
<1>2. \A u \in Users : Fresh(u) \in Tokens /\ Fresh(u).user = u
  BY DEF Fresh, Tokens
<1>3. \A t \in Tokens : /\ [pc |-> "me", as |-> t] \in Restores /\ [pc |-> "me2", as |-> t] \in Restores
                         /\ [pc |-> "me", as |-> t] # Idle /\ [pc |-> "me2", as |-> t] # Idle
  BY DEF Restores, Idle
<1>4. /\ \A u \in Users \cup {None} : /\ [pc |-> "refresh", as |-> u] \in Restores
                                       /\ [pc |-> "refresh", as |-> u] # Idle
      /\ Idle \in Restores
  BY DEF Restores, Idle
<1> QED
  BY <1>1, <1>2, <1>3, <1>4

LEMMA JobIs ==
    ASSUME NEW x \in Jobs
    PROVE  /\ x.op \in {"login", "delete", "leave"} => x.as \in Users
           /\ x.op = "logout" => x.as = None
BY DEF Jobs, NoJob

LEMMA JobMade ==
    /\ \A u \in Users, op \in {"login", "delete", "leave"} : [op |-> op, as |-> u] \in Jobs
    /\ [op |-> "logout", as |-> None] \in Jobs /\ NoJob \in Jobs
BY DEF Jobs

\* Happens counts the clicks, failures and events of other tabs up to the bound.
LEMMA Counted ==
    ASSUME events \in 0 .. MaxEvents, Happens \/ UNCHANGED events
    PROVE  events' \in 0 .. MaxEvents
BY SessionAssumption DEF Happens

LEMMA InitSession == Init => TypeOK /\ ShownInv /\ OutInv
<1> SUFFICES ASSUME Init
             PROVE  TypeOK /\ ShownInv /\ OutInv
  OBVIOUS
<1>1. ServerOK /\ user = None /\ ~out
  BY DEF Init, ServerOK
<1>2. PICK s \in [user: Users, fresh: {TRUE}] \cup {None},
           l \in [user: Users, fresh: {TRUE}] \cup {None} : token = getAccessToken(s, l)
  BY DEF Init
<1>3. token \in Tokens \cup {None} /\ (token # None => token.user \in Users)
  BY <1>2 DEF getAccessToken, Tokens
<1>4. TabOK /\ HistoryOK
  BY <1>3 DEF Init, TabOK, HistoryOK
<1>5. boots \in [Boots -> Restores] /\ job \in Jobs
  BY RestoreMade, JobMade DEF Init
<1>6. RouteOK
  BY SessionAssumption DEF Init, RouteOK, Pages
<1> QED
  BY <1>1, <1>4, <1>5, <1>6, TypeParts DEF ShownInv, OutInv

-----------------------------------------------------------------------------
(* Steps.                                                                  *)

SessionInv == TypeOK /\ ShownInv /\ OutInv

LEMMA InvParts ==
    ASSUME SessionInv
    PROVE  /\ ServerOK /\ TabOK /\ boots \in [Boots -> Restores] /\ job \in Jobs
           /\ RouteOK /\ HistoryOK /\ ShownInv /\ OutInv
BY TypeParts DEF SessionInv

LEMMA InvFrom ==
    ASSUME ServerOK', TabOK', boots' \in [Boots -> Restores], job' \in Jobs,
           RouteOK', HistoryOK', ShownInv', OutInv'
    PROVE  SessionInv'
BY TypeParts DEF SessionInv

LEMMA BootstrapStep ==
    ASSUME SessionInv, Bootstrap
    PROVE  SessionInv'
<1>1. /\ UNCHANGED <<cookie, deleted, token, job, page, index, mine, out, crossing, stale, events>>
      /\ rerun /\ ~rerun' /\ rerun' = FALSE
  BY DEF Bootstrap, history
<1>2. ServerOK' /\ job' \in Jobs /\ RouteOK' /\ HistoryOK'
  BY <1>1, InvParts DEF ServerOK, RouteOK, HistoryOK
<1>3. CASE token = None
  <2>1. user' = None /\ loading' = FALSE /\ UNCHANGED boots
    BY <1>3 DEF Bootstrap, hasAccessToken
  <2>2. TabOK' /\ boots' \in [Boots -> Restores]
    BY <1>1, <2>1, InvParts DEF TabOK
  <2>3. ShownInv' /\ OutInv'
    BY <1>1, <2>1, InvParts DEF ShownInv, OutInv, Restoring
  <2> QED
    BY <1>2, <2>2, <2>3, InvFrom
<1>4. CASE token # None
  <2>1. PICK b \in Boots : /\ boots' = [boots EXCEPT ![b] = [pc |-> "me", as |-> token]]
                           /\ loading' = TRUE /\ UNCHANGED user
    BY <1>4 DEF Bootstrap, hasAccessToken
  <2>2. token \in Tokens
    BY <1>4, InvParts DEF TabOK
  <2>3. TabOK' /\ boots' \in [Boots -> Restores] /\ boots'[b] # Idle
    BY <1>1, <2>1, <2>2, RestoreMade, InvParts DEF TabOK
  <2>4. ShownInv' /\ OutInv'
    BY <1>1, <1>4, <2>3, InvParts DEF ShownInv, OutInv, Restoring
  <2> QED
    BY <1>2, <2>3, <2>4, InvFrom
<1> QED
  BY <1>3, <1>4

\* The end of a restore: the user it leaves is nobody, or marked as stale
\* unless the tab's token is that user's.
LEMMA EndsStep ==
    ASSUME SessionInv, NEW b \in Boots, boots[b] # Idle, NEW u \in Users \cup {None}, NEW old \in BOOLEAN,
           Ends(b, u, old), Happens \/ UNCHANGED events,
           u # None /\ ~old => token # None /\ token.user = u,
           UNCHANGED <<cookie, deleted, token, rerun, job, page, index, mine, out, crossing>>
    PROVE  SessionInv'
<1>1. user' = u /\ stale' = old /\ loading' = FALSE /\ boots' = [boots EXCEPT ![b] = Idle]
  BY DEF Ends
<1>2. ServerOK' /\ job' \in Jobs /\ TabOK' /\ HistoryOK'
  BY <1>1, InvParts DEF ServerOK, TabOK, HistoryOK
<1>3. RouteOK'
  BY Counted, InvParts DEF RouteOK
<1>4. boots' \in [Boots -> Restores]
  BY <1>1, RestoreMade, InvParts
<1>5. Restoring
  BY DEF Restoring
<1>6. ShownInv' /\ OutInv'
  BY <1>1, <1>5, InvParts DEF ShownInv, OutInv
<1> QED
  BY <1>2, <1>3, <1>4, <1>6, InvFrom

LEMMA BootStep ==
    ASSUME SessionInv, NEW b \in Boots, BootGoesOn(b)
    PROVE  SessionInv'
<1>1. boots[b] \in Restores /\ None \notin Users
  BY InvParts, SessionAssumption
<1>2. CASE MeAnswers(b)
  <2>1. boots[b] # Idle /\ boots[b].as.user \in Users
    BY <1>1, <1>2, RestoreIs DEF MeAnswers
  <2> DEFINE old == token = None \/ token.user # boots[b].as.user
  <2>2. /\ Ends(b, boots[b].as.user, old) /\ old \in BOOLEAN
        /\ UNCHANGED <<cookie, deleted, token, rerun, job, page, index, mine, out, crossing, events>>
    BY <1>2 DEF MeAnswers
  <2>3. ~old => token # None /\ token.user = boots[b].as.user
    OBVIOUS
  <2> HIDE DEF old
  <2> QED
    BY <2>1, <2>2, <2>3, EndsStep
<1>3. CASE RefreshFails(b)
  <2>1. boots[b] # Idle
    BY <1>1, <1>3, RestoreIs DEF RefreshFails
  <2> QED
    BY <1>3, <2>1, EndsStep DEF RefreshFails
<1>4. CASE MeFails(b) /\ boots[b].pc = "me2"
  <2>1. boots[b] # Idle
    BY <1>1, <1>4, RestoreIs
  <2>2. /\ Ends(b, None, FALSE) /\ (Happens \/ UNCHANGED events)
        /\ UNCHANGED <<cookie, deleted, token, rerun, job, page, index, mine, out, crossing>>
    BY <1>4 DEF MeFails
  <2> QED
    BY <2>1, <2>2, EndsStep
<1>5. CASE MeFails(b) /\ boots[b].pc = "me"
  <2>1. /\ boots' = [boots EXCEPT ![b] = [pc |-> "refresh", as |-> cookie]]
        /\ (Happens \/ UNCHANGED events)
        /\ UNCHANGED <<user, loading, stale, cookie, deleted, token, rerun, job, page, index, mine, out, crossing>>
    BY <1>5 DEF MeFails
  <2>2. cookie \in Users \cup {None} /\ boots[b] # Idle
    BY <1>1, <1>5, RestoreIs, InvParts DEF ServerOK
  <2>3. ServerOK' /\ job' \in Jobs /\ TabOK' /\ HistoryOK'
    BY <2>1, InvParts DEF ServerOK, TabOK, HistoryOK
  <2>4. RouteOK'
    BY <2>1, Counted, InvParts DEF RouteOK
  <2>5. boots' \in [Boots -> Restores] /\ boots'[b] # Idle
    BY <2>1, <2>2, RestoreMade, InvParts
  <2>6. ShownInv' /\ OutInv'
    BY <2>1, <2>2, <2>5, InvParts DEF ShownInv, OutInv, Restoring
  <2> QED
    BY <2>3, <2>4, <2>5, <2>6, InvFrom
<1>6. CASE RefreshAnswers(b)
  <2>1. boots[b].as \in Users /\ boots[b] # Idle
    BY <1>1, <1>6, RestoreIs DEF RefreshAnswers
  <2>2. /\ cookie' = boots[b].as /\ token' = Fresh(boots[b].as) /\ rerun' = TRUE
        /\ boots' = [boots EXCEPT ![b] = [pc |-> "me2", as |-> Fresh(boots[b].as)]]
        /\ UNCHANGED <<deleted, user, loading, job, page, index, mine, out, crossing, stale, events>>
    BY <1>6 DEF RefreshAnswers, history
  <2>3. ServerOK' /\ job' \in Jobs /\ TabOK' /\ HistoryOK' /\ RouteOK'
    BY <2>1, <2>2, RestoreMade, InvParts DEF ServerOK, TabOK, HistoryOK, RouteOK
  <2>4. boots' \in [Boots -> Restores]
    BY <2>1, <2>2, RestoreMade, InvParts
  <2>5. ShownInv' /\ OutInv'
    BY <2>1, <2>2, InvParts DEF ShownInv, OutInv, Restoring
  <2> QED
    BY <2>3, <2>4, <2>5, InvFrom
<1> QED
  BY <1>2, <1>3, <1>4, <1>5, <1>6 DEF BootGoesOn, MeFails

-----------------------------------------------------------------------------
(* The user, the page, other tabs and time.                                *)

\* A step that touches neither the tab's token nor its restores.
LEMMA AsideStep ==
    ASSUME SessionInv, ServerOK', job' \in Jobs, RouteOK',
           UNCHANGED <<token, user, loading, boots, history>>, rerun' \in BOOLEAN, rerun => rerun'
    PROVE  SessionInv'
<1>1. TabOK' /\ HistoryOK' /\ boots' \in [Boots -> Restores]
  BY InvParts DEF TabOK, HistoryOK, history
<1>2. ShownInv' /\ OutInv'
  BY InvParts DEF ShownInv, OutInv, Restoring, history
<1> QED
  BY <1>1, <1>2, InvFrom

\* A load of the page starts over, with the token it finds.
LEMMA LoadStep ==
    ASSUME SessionInv, NEW t \in Tokens \cup {None}, Loads(t), Happens,
           cookie' \in Users \cup {None}, page' \in Pages, UNCHANGED <<deleted, stale>>, HistoryOK',
           out' /\ ~crossing' => t = None
    PROVE  SessionInv'
<1>1. /\ token' = t /\ user' = None /\ loading' = TRUE /\ rerun' = TRUE
      /\ boots' = [b \in Boots |-> Idle] /\ job' = NoJob /\ index' \in Pages
  BY DEF Loads, Pages
<1>2. TabOK' /\ ServerOK' /\ boots' \in [Boots -> Restores] /\ job' \in Jobs
  BY <1>1, RestoreMade, JobMade, InvParts DEF TabOK, ServerOK
<1>3. RouteOK'
  BY <1>1, Counted, InvParts DEF RouteOK
<1>4. ~Restoring'
  BY <1>1 DEF Restoring
<1> QED
  BY <1>1, <1>2, <1>3, <1>4, InvFrom DEF ShownInv, OutInv

LEMMA UserStep ==
    ASSUME SessionInv,
           (\E u \in Users : SignIn(u)) \/ handleLogout \/ handleDeleteAccount \/ Redirect \/ GoHome
    PROVE  SessionInv'
<1>1. /\ UNCHANGED <<cookie, deleted, tab, index, history>> /\ (Happens \/ UNCHANGED events)
      /\ page' \in {page, "auth", index}
  BY DEF SignIn, handleLogout, handleDeleteAccount, Redirect, GoHome
<1>2. ServerOK' /\ RouteOK'
  BY <1>1, Counted, InvParts DEF ServerOK, RouteOK, Pages
<1>3. token # None => token.user \in Users
  BY RestoreMade, InvParts DEF TabOK
<1>4. job' \in Jobs
  BY <1>3, JobMade, InvParts DEF SignIn, handleLogout, handleDeleteAccount, Redirect, GoHome
<1>5. rerun' \in BOOLEAN /\ rerun' = rerun
  BY <1>1, InvParts DEF tab, TabOK
<1> QED
  BY <1>1, <1>2, <1>4, <1>5, AsideStep DEF tab

LEMMA JobStep ==
    ASSUME SessionInv, JobGoesOn
    PROVE  SessionInv'
<1>1. job \in Jobs
  BY InvParts
<1>2. CASE SignInAnswers
  <2>1. /\ job.as \in Users /\ cookie' = job.as /\ token' = Fresh(job.as) /\ rerun' = TRUE
        /\ page' = "app" /\ job' = NoJob /\ mine' = job.as /\ out' = FALSE /\ crossing' = Restoring
        /\ UNCHANGED <<deleted, user, loading, boots, index, stale, events>>
    BY <1>1, <1>2, JobIs DEF SignInAnswers, SignedInTo
  <2>2. ServerOK' /\ TabOK' /\ RouteOK' /\ HistoryOK' /\ job' \in Jobs /\ boots' \in [Boots -> Restores]
    BY <2>1, RestoreMade, JobMade, InvParts DEF ServerOK, TabOK, RouteOK, HistoryOK, Pages, Restoring
  <2> QED
    BY <2>1, <2>2, InvFrom DEF ShownInv, OutInv
<1>3. CASE LogoutAnswers \/ LogoutFails
  <2>1. /\ token' = None /\ rerun' = TRUE /\ job' = NoJob
        /\ mine' = None /\ out' = TRUE /\ crossing' = Restoring
        /\ UNCHANGED <<deleted, loading, boots, index, stale, events>>
        /\ cookie' \in {cookie, None} /\ user' \in {user, None} /\ page' \in {page, "auth"}
    BY <1>3 DEF LogoutAnswers, LogoutFails, LeavesTab, clearAccessToken
  <2>2. ServerOK' /\ TabOK' /\ RouteOK' /\ HistoryOK' /\ job' \in Jobs /\ boots' \in [Boots -> Restores]
    BY <2>1, JobMade, InvParts DEF ServerOK, TabOK, RouteOK, HistoryOK, Pages, Restoring
  <2>3. Restoring' = Restoring
    BY <2>1 DEF Restoring
  <2> QED
    BY <2>1, <2>2, <2>3, InvFrom DEF ShownInv, OutInv
<1>4. CASE SignInFails \/ DeleteAnswers
  <2>1. UNCHANGED <<cookie, tab, page, index, history, events>>
    BY <1>4 DEF SignInFails, DeleteAnswers
  <2>2. deleted' \subseteq Users /\ job' \in Jobs
    BY <1>1, <1>4, JobIs, JobMade, InvParts DEF SignInFails, DeleteAnswers, ServerOK
  <2>3. ServerOK' /\ RouteOK' /\ rerun' \in BOOLEAN /\ rerun' = rerun
    BY <2>1, <2>2, InvParts DEF ServerOK, RouteOK, TabOK, tab
  <2> QED
    BY <2>1, <2>2, <2>3, AsideStep DEF tab
<1> QED
  BY <1>2, <1>3, <1>4 DEF JobGoesOn

LEMMA LoadsStep ==
    ASSUME SessionInv, Reload \/ GoogleFails \/ \E u \in Users : GoogleReturns(u)
    PROVE  SessionInv'
<1>1. TabOK /\ ServerOK /\ HistoryOK /\ OutInv /\ job \in Jobs /\ RouteOK
  BY InvParts
<1>2. CASE Reload
  <2>1. LateCookies \subseteq Users \cup {None}
    <3>1. \A b \in Boots : boots[b].pc = "refresh" => boots[b].as \in Users \cup {None}
      BY RestoreIs, InvParts
    <3> QED
      BY <1>1, <3>1, JobIs DEF LateCookies, ServerOK
  <2>2. /\ Loads(token) /\ Happens /\ cookie' \in Users \cup {None} /\ UNCHANGED <<deleted, history>>
        /\ page' \in {page, index'} /\ index' \in Pages
    BY <1>2, <2>1 DEF Reload, Loads, Pages
  <2>3. page' \in Pages /\ HistoryOK' /\ token \in Tokens \cup {None}
    BY <1>1, <2>2 DEF RouteOK, HistoryOK, TabOK, history
  <2>4. out' /\ ~crossing' => token = None
    BY <1>1, <2>2 DEF OutInv, history
  <2> QED
    BY <2>2, <2>3, <2>4, LoadStep DEF history
<1>3. CASE GoogleFails
  <2>1. /\ Loads(token) /\ Happens /\ cookie' \in Users \cup {None} /\ UNCHANGED <<deleted, history>>
        /\ page' \in Pages
    BY <1>1, <1>3 DEF GoogleFails, ServerOK, Pages
  <2>2. HistoryOK' /\ token \in Tokens \cup {None}
    BY <1>1, <2>1 DEF HistoryOK, TabOK, history
  <2>3. out' /\ ~crossing' => token = None
    BY <1>1, <2>1 DEF OutInv, history
  <2> QED
    BY <2>1, <2>2, <2>3, LoadStep DEF history
<1>4. ASSUME NEW u \in Users, GoogleReturns(u)
      PROVE  SessionInv'
  <2>1. /\ Loads(Fresh(u)) /\ Happens /\ cookie' \in Users \cup {None} /\ page' \in Pages
        /\ mine' = u /\ out' = FALSE /\ crossing' = FALSE /\ UNCHANGED <<deleted, stale>>
    BY <1>4 DEF GoogleReturns, Pages
  <2>2. HistoryOK' /\ Fresh(u) \in Tokens
    BY <1>1, <2>1, RestoreMade DEF HistoryOK
  <2> QED
    BY <2>1, <2>2, LoadStep
<1> QED
  BY <1>2, <1>3, <1>4

LEMMA OutsideStep ==
    ASSUME SessionInv, \/ \E u \in Users : OtherTabSignsIn(u) \/ OtherTabDeletes(u)
                       \/ OtherTabSignsOut \/ OtherTabStores \/ Expire
    PROVE  SessionInv'
<1>1. /\ Happens /\ UNCHANGED <<user, loading, boots, job, page, index, history>>
  BY DEF OtherTabSignsIn, OtherTabDeletes, OtherTabSignsOut, OtherTabStores, Expire, tab
<1>2. RouteOK' /\ job' \in Jobs
  BY <1>1, Counted, InvParts DEF RouteOK
<1>3. CASE ~Expire
  <2>1. ServerOK'
    BY <1>3, InvParts DEF OtherTabSignsIn, OtherTabDeletes, OtherTabSignsOut, OtherTabStores, ServerOK
  <2>2. UNCHANGED token /\ (rerun' = rerun \/ rerun' = TRUE)
    BY <1>3 DEF OtherTabSignsIn, OtherTabDeletes, OtherTabSignsOut, OtherTabStores, tab
  <2>3. rerun \in BOOLEAN
    BY InvParts DEF TabOK
  <2>4. rerun' \in BOOLEAN /\ (rerun => rerun')
    <3>1. CASE rerun' = rerun
      BY <2>3, <3>1
    <3>2. CASE rerun' = TRUE
      BY <3>2
    <3> QED
      BY <2>2, <3>1, <3>2
  <2> QED
    BY <1>1, <1>2, <2>1, <2>2, <2>4, AsideStep
<1>4. CASE Expire
  <2>1. token # None /\ token' = [token EXCEPT !.fresh = FALSE] /\ UNCHANGED <<cookie, deleted, rerun>>
    BY <1>4 DEF Expire
  <2>2. token \in Tokens
    BY <2>1, InvParts DEF TabOK
  <2>3. token' \in Tokens /\ token'.user = token.user
    BY <2>1, <2>2 DEF Tokens
  <2>4. ServerOK' /\ TabOK' /\ HistoryOK' /\ boots' \in [Boots -> Restores] /\ token' # None
    BY <1>1, <2>1, <2>3, RestoreMade, InvParts DEF ServerOK, TabOK, HistoryOK, history
  <2>5. ShownInv' /\ OutInv'
    BY <1>1, <2>1, <2>3, <2>4, InvParts DEF ShownInv, OutInv, Restoring, history
  <2> QED
    BY <1>2, <2>4, <2>5, InvFrom
<1> QED
  BY <1>3, <1>4

LEMMA SessionStep == SessionInv /\ [Next]_vars => SessionInv'
<1> SUFFICES ASSUME SessionInv, [Next]_vars
             PROVE  SessionInv'
  OBVIOUS
<1>1. CASE UNCHANGED vars
  <2>1. ServerOK' /\ RouteOK' /\ job' \in Jobs /\ rerun' = rerun /\ rerun' \in BOOLEAN
    BY <1>1, InvParts DEF vars, tab, ServerOK, RouteOK, TabOK
  <2> QED
    BY <1>1, <2>1, AsideStep DEF vars, tab
<1> QED
  BY <1>1, BootstrapStep, BootStep, UserStep, JobStep, LoadsStep, OutsideStep DEF Next

\* A restore is due or under way whenever the user shown may not be the
\* token's, and nothing brings back a token that a logout has removed.
THEOREM SessionInvariant == Spec => []SessionInv
<1>1. Init => SessionInv
  BY InitSession DEF SessionInv
<1> QED
  BY <1>1, SessionStep, PTL DEF Spec

\* The types of the session's state.
THEOREM SessionTypes == Spec => []TypeOK
<1>1. SessionInv => TypeOK
  BY DEF SessionInv
<1> QED
  BY <1>1, SessionInvariant, PTL

\* A tab at rest shows the user whose token it sends, unless the answer to an
\* older token came last.
THEOREM ShownUsersOwnTheirTokens == Spec => []ShownUserOwnsToken
<1>1. SessionInv => ShownUserOwnsToken
  BY DEF SessionInv, ShownInv, ShownUserOwnsToken, Quiet
<1> QED
  BY <1>1, SessionInvariant, PTL

\* A tab that was signed out while no restore was in flight rests signed out,
\* whatever fails, reloads and happens in other tabs.
THEOREM SignedOutTabsStayOut == Spec => []SignedOutStaysOut
<1>1. SessionInv => SignedOutStaysOut
  BY DEF SessionInv, OutInv, SignedOutStaysOut, Quiet
<1> QED
  BY <1>1, SessionInvariant, PTL
=============================================================================
