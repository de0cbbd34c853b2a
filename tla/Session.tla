------------------------------ MODULE Session -------------------------------
(***************************************************************************)
(* The session of one browser tab (frontend: AuthContext, lib/api, routes, *)
(* AppLayout, ProfilePage) beside the other tabs of the same browser.      *)
(*   - The access token lives in the tab's sessionStorage; the refresh     *)
(*     token is a cookie, which all tabs share and every sign-in, refresh  *)
(*     and logout replaces.                                                *)
(*   - A change of the token, or of the localStorage by another tab, makes *)
(*     the AuthProvider restore the session: an effect that starts one     *)
(*     more bootstrapAuth beside those that still wait for an answer.      *)
(*   - React runs pending effects before it renders again: AppLayout never *)
(*     redirects between a change of the token and the effect it causes.   *)
(* A request carries the token or cookie of the moment it was sent.        *)
(***************************************************************************)
EXTENDS Integers, FiniteSets

CONSTANTS
    Users,
    None,
    Boots,        \* bound: restores of the session that run at once
    MaxEvents     \* bound: clicks, events of other tabs, expiries and failures

ASSUME SessionAssumption ==
    None \notin Users \cup [user: Users, fresh: BOOLEAN] /\ MaxEvents \in Nat

VARIABLES
    cookie,       \* the account of the refresh token, shared by all tabs
    deleted,      \* server: the accounts that are deleted
    token,        \* sessionStorage: the tab's access token
    user,         \* AuthContext: the user that is shown
    loading,      \* AuthContext: isLoadingAuth
    rerun,        \* tokenChangeKey has changed and the effect has not run yet
    boots,        \* the calls of bootstrapAuth
    job,          \* the sign-in, logout or deletion the user waits for
    page,         \* a sign-in page, or one inside AppLayout
    index,        \* where "/" leads: computed once, when the scripts load
    mine,         \* history: the account the tab was last signed in to
    out,          \* history: the tab was signed out since
    crossing,     \* history: a restore was in flight at that moment
    stale,        \* history: the user was set by an answer to an old token
    events

tab     == <<token, user, loading, rerun, boots>>
history == <<mine, out, crossing, stale>>
vars    == <<cookie, deleted, tab, job, page, index, history, events>>

Tokens   == [user: Users, fresh: BOOLEAN]
Fresh(u) == [user |-> u, fresh |-> TRUE]
Idle     == [pc |-> "idle", as |-> None]
NoJob    == [op |-> "none", as |-> None]
Pages    == {"auth", "app"}

TypeOK ==
    /\ cookie \in Users \cup {None} /\ deleted \subseteq Users
    /\ token \in Tokens \cup {None} /\ user \in Users \cup {None}
    /\ loading \in BOOLEAN /\ rerun \in BOOLEAN
    /\ boots \in [Boots -> [pc: {"me", "me2"}, as: Tokens]
                             \cup [pc: {"refresh"}, as: Users \cup {None}] \cup {Idle}]
    /\ job \in [op: {"login", "delete"}, as: Users] \cup [op: {"logout"}, as: {None}]
                 \cup [op: {"leave"}, as: Users] \cup {NoJob}
    /\ page \in Pages /\ index \in Pages
    /\ mine \in Users \cup {None} /\ out \in BOOLEAN
    /\ crossing \in BOOLEAN /\ stale \in BOOLEAN
    /\ events \in 0 .. MaxEvents

\* The token of the tab; one that an older build left in localStorage is moved
\* to the tab by the first call, which hasAccessToken makes as the routes load.
getAccessToken(inSession, inLocal) == IF inSession # None THEN inSession ELSE inLocal
hasAccessToken(t) == t # None

Init ==
    /\ cookie \in Users \cup {None} /\ deleted = {}
    /\ \E s, l \in [user: Users, fresh: {TRUE}] \cup {None} : token = getAccessToken(s, l)
    /\ mine = IF token = None THEN None ELSE token.user
    /\ index = IF hasAccessToken(token) THEN "app" ELSE "auth"
    /\ page = index
    /\ user = None /\ loading = TRUE /\ rerun = TRUE
    /\ boots = [b \in Boots |-> Idle] /\ job = NoJob
    /\ out = FALSE /\ crossing = FALSE /\ stale = FALSE
    /\ events = 0

Happens == events < MaxEvents /\ events' = events + 1
Restoring == \E b \in Boots : boots[b] # Idle

-----------------------------------------------------------------------------
(* bootstrapAuth.                                                          *)

\* A slip: without a token the restore asks for one.
BootstrapAnyway ==
    /\ rerun /\ \E b \in Boots : boots[b] = Idle
    /\ rerun' = FALSE
    /\ loading' = TRUE
    /\ LET b == CHOOSE b \in Boots : boots[b] = Idle
       IN  boots' = [boots EXCEPT ![b] = IF hasAccessToken(token) THEN [pc |-> "me", as |-> token]
                                         ELSE [pc |-> "refresh", as |-> cookie]]
    /\ UNCHANGED <<cookie, deleted, token, user, job, page, index, history, events>>

\* The effect runs: without a token the user is signed out at once, with one
\* GET /users/me is sent.
Bootstrap ==
    /\ rerun /\ \E b \in Boots : boots[b] = Idle
    /\ rerun' = FALSE
    /\ IF ~hasAccessToken(token)
       THEN user' = None /\ loading' = FALSE /\ UNCHANGED boots
       ELSE /\ loading' = TRUE
            /\ LET b == CHOOSE b \in Boots : boots[b] = Idle
               IN  boots' = [boots EXCEPT ![b] = [pc |-> "me", as |-> token]]
            /\ UNCHANGED user
    /\ UNCHANGED <<cookie, deleted, token, job, page, index, history, events>>

\* The last step of a call, its finally included.
Ends(b, u, old) ==
    /\ user' = u
    /\ stale' = old
    /\ loading' = FALSE
    /\ boots' = [boots EXCEPT ![b] = Idle]

\* /users/me knows the account of a token that is valid.
Known(t) == t.fresh /\ t.user \notin deleted

MeAnswers(b) ==
    /\ boots[b].pc \in {"me", "me2"} /\ Known(boots[b].as)
    /\ Ends(b, boots[b].as.user, token = None \/ token.user # boots[b].as.user)
    /\ UNCHANGED <<cookie, deleted, token, rerun, job, page, index, mine, out, crossing, events>>

\* An error of /users/me, or of the network: POST /auth/refresh follows, once.
MeFails(b) ==
    /\ boots[b].pc \in {"me", "me2"}
    /\ IF Known(boots[b].as) THEN Happens ELSE UNCHANGED events
    /\ IF boots[b].pc = "me"
       THEN /\ boots' = [boots EXCEPT ![b] = [pc |-> "refresh", as |-> cookie]]
            /\ UNCHANGED <<user, loading, stale>>
       ELSE Ends(b, None, FALSE)
    /\ UNCHANGED <<cookie, deleted, token, rerun, job, page, index, mine, out, crossing>>

\* A slip: the token in the answer is the old one.
RefreshAnswersOld(b) ==
    /\ boots[b].pc = "refresh" /\ boots[b].as # None
    /\ cookie' = boots[b].as
    /\ token' = [user |-> boots[b].as, fresh |-> FALSE]
    /\ rerun' = TRUE
    /\ boots' = [boots EXCEPT ![b] = [pc |-> "me2", as |-> token']]
    /\ UNCHANGED <<deleted, user, loading, job, page, index, history, events>>

\* A slip: a refusal is taken for an answer.
RefreshAnswersUnchecked(b) ==
    /\ boots[b].pc = "refresh"
    /\ cookie' = boots[b].as
    /\ token' = Fresh(boots[b].as)
    /\ rerun' = TRUE
    /\ boots' = [boots EXCEPT ![b] = [pc |-> "me2", as |-> token']]
    /\ UNCHANGED <<deleted, user, loading, job, page, index, history, events>>

\* Both tokens are renewed, whether or not the account still exists;
\* setAccessToken announces the new one, and /users/me is asked again.
RefreshAnswers(b) ==
    /\ boots[b].pc = "refresh" /\ boots[b].as # None
    /\ cookie' = boots[b].as
    /\ token' = Fresh(boots[b].as)
    /\ rerun' = TRUE
    /\ boots' = [boots EXCEPT ![b] = [pc |-> "me2", as |-> token']]
    /\ UNCHANGED <<deleted, user, loading, job, page, index, history, events>>

RefreshFails(b) ==
    /\ boots[b].pc = "refresh"
    /\ IF boots[b].as # None THEN Happens ELSE UNCHANGED events
    /\ Ends(b, None, FALSE)
    /\ UNCHANGED <<cookie, deleted, token, rerun, job, page, index, mine, out, crossing>>

BootGoesOn(b) == MeAnswers(b) \/ MeFails(b) \/ RefreshAnswers(b) \/ RefreshFails(b)

-----------------------------------------------------------------------------
(* The user signs in and out.                                              *)

SignedInTo(u) == mine' = u /\ out' = FALSE /\ crossing' = Restoring

\* One of the sign-in pages sends its request.
SignIn(u) ==
    /\ page = "auth" /\ job = NoJob /\ u \notin deleted /\ Happens
    /\ job' = [op |-> "login", as |-> u]
    /\ UNCHANGED <<cookie, deleted, tab, page, index, history>>

\* setAccessToken, then navigate('/home').
SignInAnswers ==
    /\ job.op = "login"
    /\ cookie' = job.as /\ token' = Fresh(job.as) /\ rerun' = TRUE
    /\ page' = "app" /\ job' = NoJob
    /\ SignedInTo(job.as)
    /\ UNCHANGED <<deleted, user, loading, boots, index, stale, events>>

SignInFails ==
    /\ job.op = "login"
    /\ job' = NoJob
    /\ UNCHANGED <<cookie, deleted, tab, page, index, history, events>>

\* The buttons of ProfilePage, which AppLayout shows only to a user.
OnProfile == page = "app" /\ ~loading /\ user # None /\ job = NoJob

handleLogout ==
    /\ OnProfile /\ Happens
    /\ job' = [op |-> "logout", as |-> None]
    /\ UNCHANGED <<cookie, deleted, tab, page, index, history>>

\* With an expired token the request is refused and nothing changes.
handleDeleteAccount ==
    /\ OnProfile /\ token # None /\ token.fresh /\ Happens
    /\ job' = [op |-> "delete", as |-> token.user]
    /\ UNCHANGED <<cookie, deleted, tab, page, index, history>>

\* The account is deleted and logout is called; an answer that is lost leaves
\* the user signed in, as does a request that never arrived.
DeleteAnswers ==
    /\ job.op = "delete"
    /\ \/ deleted' = deleted \cup {job.as} /\ job' = [op |-> "leave", as |-> job.as]
       \/ deleted' = deleted \cup {job.as} /\ job' = NoJob
       \/ job' = NoJob /\ UNCHANGED deleted
    /\ UNCHANGED <<cookie, tab, page, index, history, events>>

\* A slip: nobody hears of the token's removal.
clearAccessTokenQuietly == token' = None /\ UNCHANGED rerun
clearAccessToken == token' = None /\ rerun' = TRUE

LeavesTab ==
    /\ clearAccessToken
    /\ job' = NoJob
    /\ mine' = None /\ out' = TRUE /\ crossing' = Restoring

LogoutAnswers ==
    /\ job.op \in {"logout", "leave"}
    /\ LeavesTab
    /\ cookie' = None /\ user' = None /\ page' = "auth"
    /\ UNCHANGED <<deleted, loading, boots, index, stale, events>>

\* The token is removed all the same, but the cookie stays, the user is left
\* to the restore that follows and the page to AppLayout.
LogoutFails ==
    /\ job.op \in {"logout", "leave"}
    /\ LeavesTab
    /\ UNCHANGED <<cookie, deleted, user, loading, boots, page, index, stale, events>>

JobGoesOn == SignInAnswers \/ SignInFails \/ DeleteAnswers \/ LogoutAnswers \/ LogoutFails

\* <Navigate to="/login"> of AppLayout, which leads to the sign-in pages.
Redirect ==
    /\ page = "app" /\ ~loading /\ ~rerun /\ user = None
    /\ page' = "auth"
    /\ UNCHANGED <<cookie, deleted, tab, job, index, history, events>>

\* "Go home" on a page that does not exist, reached with the back button.
GoHome ==
    /\ page # index /\ Happens
    /\ page' = index
    /\ UNCHANGED <<cookie, deleted, tab, job, index, history>>

-----------------------------------------------------------------------------
(* Loads of the page, other tabs and time.                                 *)

\* Answers on their way may still set the cookie when their page is gone.
LateCookies ==
    {cookie} \cup {boots[b].as : b \in {c \in Boots : boots[c].pc = "refresh"}}
             \cup (IF job.op = "login" THEN {job.as} ELSE {})
             \cup (IF job.op \in {"logout", "leave"} THEN {None} ELSE {})

Loads(t) ==
    /\ token' = t /\ user' = None /\ loading' = TRUE /\ rerun' = TRUE
    /\ boots' = [b \in Boots |-> Idle] /\ job' = NoJob
    /\ index' = IF hasAccessToken(t) THEN "app" ELSE "auth"

Reload ==
    /\ Happens
    /\ Loads(token)
    /\ cookie' \in LateCookies
    /\ page' \in {page, index'}
    /\ UNCHANGED <<deleted, history>>

\* Google sends the browser back with a token in the address: the effect of
\* the callback page stores it before that of the AuthProvider looks for one.
GoogleReturns(u) ==
    /\ page = "auth" /\ u \notin deleted /\ Happens
    /\ Loads(Fresh(u))
    /\ cookie' = u /\ page' = "app"
    /\ mine' = u /\ out' = FALSE /\ crossing' = FALSE
    /\ UNCHANGED <<deleted, stale>>

\* Without one it leads back to the sign-in pages.
GoogleFails ==
    /\ page = "auth" /\ Happens
    /\ Loads(token)
    /\ page' = "auth"
    /\ UNCHANGED <<cookie, deleted, history>>

OtherTabSignsIn(u) ==
    /\ u \notin deleted /\ Happens
    /\ cookie' = u
    /\ UNCHANGED <<deleted, tab, job, page, index, history>>

OtherTabSignsOut ==
    /\ cookie # None /\ Happens
    /\ cookie' = None
    /\ UNCHANGED <<deleted, tab, job, page, index, history>>

OtherTabDeletes(u) ==
    /\ u \notin deleted /\ Happens
    /\ deleted' = deleted \cup {u}
    /\ UNCHANGED <<cookie, tab, job, page, index, history>>

\* Another tab writes to localStorage (a theme, a setting): a storage event.
OtherTabStores ==
    /\ ~rerun /\ Happens
    /\ rerun' = TRUE
    /\ UNCHANGED <<cookie, deleted, token, user, loading, boots, job, page, index, history>>

\* The access token expires, two days after it was made.
Expire ==
    /\ token # None /\ token.fresh /\ Happens
    /\ token' = [token EXCEPT !.fresh = FALSE]
    /\ UNCHANGED <<cookie, deleted, user, loading, rerun, boots, job, page, index, history>>

-----------------------------------------------------------------------------
Next ==
    \/ Bootstrap
    \/ \E b \in Boots : BootGoesOn(b)
    \/ \E u \in Users : SignIn(u) \/ GoogleReturns(u) \/ OtherTabSignsIn(u) \/ OtherTabDeletes(u)
    \/ handleLogout \/ handleDeleteAccount \/ JobGoesOn
    \/ Redirect \/ GoHome \/ Reload \/ GoogleFails
    \/ OtherTabSignsOut \/ OtherTabStores \/ Expire

Spec == Init /\ [][Next]_vars

\* The browser runs effects and redirects; every request ends, with an answer
\* or an error.  Failures of the network are among the bounded events.
Fairness ==
    /\ WF_vars(Bootstrap) /\ WF_vars(Redirect) /\ WF_vars(JobGoesOn)
    /\ \A b \in Boots : WF_vars(BootGoesOn(b))

FairSpec == Spec /\ Fairness

-----------------------------------------------------------------------------
(* Properties.                                                             *)

Quiet == ~Restoring /\ ~rerun /\ job = NoJob

\* When nothing is under way, the user that is shown is the one whose token
\* the tab sends with its votes and polls, unless the answer to an older token
\* came last: bootstrapAuth does not look whether another one has started.
ShownUserOwnsToken ==
    Quiet /\ user # None /\ ~stale => token # None /\ token.user = user

\* After a logout or a deletion, also one whose request failed, the tab comes
\* to rest signed out, though the cookie may still be there or be another
\* tab's, unless a restore was waiting for an answer when it was signed out.
SignedOutStaysOut ==
    Quiet /\ out /\ ~crossing => token = None /\ user = None

\* The restores of the session come to an end, unless the cookie is that of a
\* deleted account: it is renewed without a look at the account, each renewal
\* starts a restore, and each restore finds that the account is gone.
RestoresEnd == ~Quiet ~> (Quiet \/ cookie \in deleted)

\* "Keep token isolated per tab so multiple accounts can be used in parallel":
\* a tab stays with the account it was signed in to.
TabKeepsItsAccount == token # None /\ mine # None => token.user = mine
=============================================================================
