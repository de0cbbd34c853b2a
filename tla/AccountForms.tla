---------------------------- MODULE AccountForms ----------------------------
(***************************************************************************)
(* The pages on which users sign up, sign in and set a password (frontend: *)
(* AuthPage, LoginPasswordPage, LoginOTPPage, SignupOTPPage,               *)
(* GoogleCompleteProfilePage, ForgotPasswordPage and the password dialog   *)
(* of ProfilePage).  The router mounts one page at a time; its state is    *)
(* gone with it, the requests it has sent are not.                         *)
(*                                                                         *)
(* What the server answers is left open: Accounts and UsernameFilter       *)
(* model it.  A text is one of a few values, "" the empty one.             *)
(***************************************************************************)
EXTENDS Integers, Sequences

CONSTANTS
    Names,        \* what is typed as a username or identifier
    ShortNames,   \* those of fewer than three characters
    Emails,
    MaxChecks,    \* bound: checks of a name that are under way at once
    None

ASSUME FormsAssumption ==
    /\ ShortNames \subseteq Names /\ MaxChecks \in Nat \ {0}
    /\ None \notin Names \cup {""}

VARIABLES
    page,
    form,         \* the state of the page that is mounted
    timer,        \* the debounced check of a name: the name, or None
    checks,       \* the checks under way, the oldest first
    req,          \* the request of the mounted page
    orphan,       \* the request of a page that has been left
    shownFor,     \* history: the name the availability shown was found for
    late          \* history: that answer was overtaken by one to a later check

naming == <<timer, checks, shownFor, late>>
vars   == <<page, form, req, orphan, naming>>

Passwords == {"", "short", "fine"}
Blank == [kind |-> "email",        \* login_otp: the tab that is open
          id |-> "", email |-> "", pw |-> "", pw2 |-> "", code |-> FALSE,
          loading |-> FALSE,
          sent |-> FALSE,          \* otpSent; forgot_password: the second step
          token |-> None,          \* the address the verification token is for
          avail |-> None,          \* usernameAvailable
          checking |-> FALSE,
          codeFor |-> None,        \* history: whom the code was sent to
          switched |-> FALSE,      \* history: the tab changed during a request
          early |-> FALSE]         \* history: asked for a code before its name was free

\* The routes and the links between them; "home" is all that is inside
\* AppLayout, and /login and /signup redirect to /auth.
Links == [auth |-> {"login_otp", "login_password", "signup_otp"},
          login_otp |-> {"auth"}, signup_otp |-> {"auth"}, complete_profile |-> {"auth"},
          login_password |-> {"forgot_password"}, forgot_password |-> {"auth"},
          home |-> {"profile"}, profile |-> {"home", "auth"}]

IsLong(n)   == n \notin ShortNames \cup {""}
NoneChecked == timer = None /\ checks = <<>>
NameForms == {"signup_otp", "complete_profile"}
SignIns   == {"login", "signup", "complete"}
Targets   == [kind: {"email", "username"}, of: Names \cup Emails \cup {""}]
Requests  == [op: {"otp", "verify", "reset", "password"} \cup SignIns, to: Targets]
NoRequest == [op |-> "none", to |-> None]

TypeOK ==
    /\ page \in DOMAIN Links
    /\ form \in [kind: {"email", "username"}, id: Names \cup {""}, email: Emails \cup {""},
                 pw: Passwords, pw2: Passwords, code: BOOLEAN, loading: BOOLEAN, sent: BOOLEAN,
                 token: Emails \cup {None}, avail: BOOLEAN \cup {None}, checking: BOOLEAN,
                 codeFor: Targets \cup {None}, switched: BOOLEAN, early: BOOLEAN]
    /\ timer \in Names \cup {"", None}
    /\ checks \in Seq([name: Names \ ShortNames, old: BOOLEAN]) /\ Len(checks) <= MaxChecks
    /\ req \in Requests \cup {NoRequest} /\ orphan \in Requests \cup {NoRequest}
    /\ shownFor \in Names \cup {None} /\ late \in BOOLEAN

Mounted(p) == page' = p /\ form' = Blank /\ timer' = None /\ checks' = <<>>
              /\ req' = NoRequest /\ shownFor' = None /\ late' = FALSE

Init ==
    /\ page = "auth" /\ form = Blank /\ timer = None /\ checks = <<>>
    /\ req = NoRequest /\ orphan = NoRequest /\ shownFor = None /\ late = FALSE

-----------------------------------------------------------------------------
(* The router.                                                             *)

\* A page that is left has cleared its timer; the answer to its request may
\* still sign the tab in, or lead it away.
Open(p) ==
    /\ p \in Links[page]
    /\ req # NoRequest => orphan = NoRequest
    /\ orphan' = IF req.op \in SignIns \cup {"reset"} THEN req ELSE orphan
    /\ Mounted(p)

\* Full loads of the page: to Google, and back to choose a name.
startGoogle ==
    /\ page = "auth"
    /\ orphan' = NoRequest
    /\ Mounted("complete_profile")

\* setAccessToken and navigate('/home'); after a reset navigate('/login').
OrphanAnswers ==
    /\ orphan # NoRequest
    /\ orphan' = NoRequest
    /\ \/ Mounted(IF orphan.op = "reset" THEN "auth" ELSE "home")
       \/ UNCHANGED <<page, form, req, naming>>

-----------------------------------------------------------------------------
(* What each page offers: the fields that are open and the buttons that    *)
(* are there and not disabled, or whose handler does not refuse.           *)

When(c, controls) == IF c THEN controls ELSE {}

LoginPasswordPage ==
    {"id", "pw"} \cup When(~form.loading /\ form.id # "" /\ form.pw # "", {"login"})

LoginOTPPage ==
    {"tabs"} \cup When(~form.loading /\ ~form.sent, {"id"} \cup When(form.id # "", {"otp"}))
             \cup When(~form.loading /\ form.sent, {"code", "again"} \cup When(form.code, {"login"}))

CanComplete == form.token # None /\ form.avail = TRUE /\ IsLong(form.id)

\* A slip: the name stays open while the code is on its way.
SignupOTPPageNameOpen ==
    When(~form.loading,
         {"pw", "id"} \cup When(~form.sent, {"email"} \cup When(form.email # "", {"otp"}))
                \cup When(form.sent /\ form.token = None, {"code"} \cup When(form.code, {"verify"}))
                \cup When(CanComplete /\ form.pw # "", {"signup"}))

SignupOTPPage ==
    When(~form.loading,
         {"pw"} \cup When(~form.sent, {"id", "email"} \cup When(form.email # "", {"otp"}))
                \cup When(form.sent /\ form.token = None, {"code"} \cup When(form.code, {"verify"}))
                \cup When(CanComplete /\ form.pw # "", {"signup"}))

GoogleCompleteProfilePage ==
    When(~form.loading,
         {"id", "pw"} \cup When(/\ ~form.checking /\ form.avail # FALSE
                                /\ IsLong(form.id) /\ form.pw = "fine", {"complete"}))

NewPasswordIsFine == form.pw = "fine" /\ form.pw2 = form.pw

ForgotPasswordPage ==
    IF ~form.sent THEN {"email"} \cup When(form.email # "", {"next"})
    ELSE {"pw", "pw2"} \cup When(NewPasswordIsFine, {"reset"})

\* The dialog never looks at the current password, nor sends it.
ChangePasswordDialog == {"pw", "pw2"} \cup When(NewPasswordIsFine, {"password"})

Offers ==
    CASE page = "login_password"   -> LoginPasswordPage
      [] page = "login_otp"        -> LoginOTPPage
      [] page = "signup_otp"       -> SignupOTPPage
      [] page = "complete_profile" -> GoogleCompleteProfilePage
      [] page = "forgot_password"  -> ForgotPasswordPage
      [] page = "profile"          -> ChangePasswordDialog
      [] OTHER                     -> {}

-----------------------------------------------------------------------------
(* Typing.                                                                 *)

Set(f) == form' = f /\ UNCHANGED <<page, req, orphan>>

\* A slip: a check that waits already is left to its name.
handleInputChangeThrottled(n) ==
    /\ Set([form EXCEPT !.id = n, !.avail = None])
    /\ timer' = IF timer = None THEN n ELSE timer

\* The signup page forgets what it has shown for the name before.
handleInputChange(n) ==
    /\ Set([form EXCEPT !.id = n, !.avail = None])
    /\ timer' = n

\* The Google page does not; both check the name half a second later.
DebounceEffect(n) ==
    /\ Set([form EXCEPT !.id = n])
    /\ timer' = n

TypeName(n) ==
    /\ "id" \in Offers /\ n # form.id
    /\ CASE page = "signup_otp"       -> handleInputChange(n)
         [] page = "complete_profile" -> DebounceEffect(n)
         [] OTHER                     -> Set([form EXCEPT !.id = n]) /\ UNCHANGED timer
    /\ UNCHANGED <<checks, shownFor, late>>

TypeEmail(e) ==
    /\ "email" \in Offers /\ e # form.email
    /\ Set([form EXCEPT !.email = e])
    /\ UNCHANGED naming

TypeCode ==
    /\ "code" \in Offers
    /\ Set([form EXCEPT !.code = ~@])
    /\ UNCHANGED naming

TypePassword(t) ==
    /\ \/ "pw" \in Offers /\ Set([form EXCEPT !.pw = t])
       \/ "pw2" \in Offers /\ Set([form EXCEPT !.pw2 = t])
    /\ UNCHANGED naming

\* A slip: the other tab keeps what was sent for this one.
SwitchTabKeepsCode(k) ==
    /\ "tabs" \in Offers /\ k # form.kind
    /\ Set([form EXCEPT !.kind = k, !.id = "", !.code = FALSE, !.switched = form.loading])
    /\ UNCHANGED naming

\* The tabs of LoginOTPPage; they are not locked during a request.
SwitchTab(k) ==
    /\ "tabs" \in Offers /\ k # form.kind
    /\ Set([form EXCEPT !.kind = k, !.id = "", !.code = FALSE, !.sent = FALSE,
                        !.switched = form.loading])
    /\ UNCHANGED naming

SendAgain ==
    /\ "again" \in Offers
    /\ Set([form EXCEPT !.sent = FALSE, !.code = FALSE, !.switched = FALSE])
    /\ UNCHANGED naming

-----------------------------------------------------------------------------
(* The check of a name.                                                    *)

\* A short name is not asked for; the signup page shows nothing then, the
\* Google page what it showed before.
TimerFires ==
    /\ timer # None
    /\ timer' = None
    /\ IF ~IsLong(timer)
       THEN /\ form' = IF page = "signup_otp" THEN [form EXCEPT !.avail = None] ELSE form
            /\ UNCHANGED checks
       ELSE /\ Len(checks) < MaxChecks
            /\ form' = [form EXCEPT !.checking = TRUE]
            /\ checks' = Append(checks, [name |-> timer, old |-> FALSE])
    /\ UNCHANGED <<page, req, orphan, shownFor, late>>

\* An error shows nothing on the signup page, and "taken" on the Google page.
validateUsernameAvailability == BOOLEAN \cup {None}
checkUsernameAvailability    == BOOLEAN

CheckAnswers(i) ==
    /\ i \in 1 .. Len(checks)
    /\ checks' = [j \in 1 .. Len(checks) - 1 |->
                     IF j < i THEN [checks[j] EXCEPT !.old = TRUE] ELSE checks[j + 1]]
    /\ \E a \in IF page = "signup_otp" THEN validateUsernameAvailability
                                       ELSE checkUsernameAvailability :
          form' = [form EXCEPT !.avail = a, !.checking = FALSE]
    /\ shownFor' = checks[i].name /\ late' = checks[i].old
    /\ UNCHANGED <<page, timer, req, orphan>>

-----------------------------------------------------------------------------
(* Requests.  "loading" is set while one is under way, except on the pages *)
(* without it, where a second click would only repeat it.                  *)

Sends(button, kind, of, f) ==
    /\ button \in Offers /\ req = NoRequest
    /\ req' = [op |-> button, to |-> [kind |-> kind, of |-> of]]
    /\ form' = f
    /\ UNCHANGED <<page, orphan, naming>>

Loading == [form EXCEPT !.loading = TRUE]

requestOTPHandler == page = "login_otp" /\ Sends("otp", form.kind, form.id, [Loading EXCEPT !.switched = FALSE])

requestOTP ==
    /\ page = "signup_otp"
    /\ Sends("otp", "email", form.email,
             [Loading EXCEPT !.early = ~(form.avail = TRUE /\ IsLong(form.id) /\ NoneChecked)])

handleLogin         == page = "login_password" /\ Sends("login", form.kind, form.id, Loading)
loginWithOTPHandler == page = "login_otp" /\ Sends("login", form.kind, form.id, Loading)
verifyOtp           == Sends("verify", "email", form.email, Loading)
completeSignup      == Sends("signup", "email", form.email, Loading)
handleSubmit        == Sends("complete", "username", form.id, Loading)
handleResetSubmit   == Sends("reset", "email", form.email, form)
handleChangePassword == \E e \in Emails : Sends("password", "email", e, form)

handleEmailSubmit ==
    /\ "next" \in Offers
    /\ Set([form EXCEPT !.sent = TRUE])
    /\ UNCHANGED naming

Stays(f) == form' = f /\ req' = NoRequest /\ UNCHANGED <<page, naming>>

\* Every page that signs in goes home; the password dialog is emptied.
ReqAnswers ==
    /\ req # NoRequest
    /\ CASE req.op \in SignIns    -> Mounted("home")
         [] req.op = "reset"      -> Mounted("auth")
         [] req.op = "otp"        -> Stays([form EXCEPT !.loading = FALSE, !.sent = TRUE, !.codeFor = req.to])
         [] req.op = "verify"     -> Stays([form EXCEPT !.loading = FALSE, !.token = req.to.of])
         [] req.op = "password"   -> Stays(Blank)
    /\ UNCHANGED orphan

\* An error, or an answer without a token.
ReqFails ==
    /\ req # NoRequest
    /\ Stays([form EXCEPT !.loading = FALSE])
    /\ UNCHANGED orphan

-----------------------------------------------------------------------------
Next ==
    \/ \E p \in DOMAIN Links : Open(p)
    \/ startGoogle \/ OrphanAnswers
    \/ \E n \in Names \cup {""} : TypeName(n)
    \/ \E e \in Emails \cup {""} : TypeEmail(e)
    \/ \E t \in Passwords : TypePassword(t)
    \/ \E k \in {"email", "username"} : SwitchTab(k)
    \/ TypeCode \/ SendAgain
    \/ TimerFires \/ \E i \in 1 .. MaxChecks : CheckAnswers(i)
    \/ requestOTPHandler \/ requestOTP \/ handleLogin \/ loginWithOTPHandler \/ verifyOtp \/ completeSignup \/ handleSubmit
    \/ handleEmailSubmit \/ handleResetSubmit \/ handleChangePassword
    \/ ReqAnswers \/ ReqFails

Spec == Init /\ [][Next]_vars

-----------------------------------------------------------------------------
(* Properties.                                                             *)

AtRest == NoneChecked /\ req = NoRequest

\* When nothing is under way, the availability next to a name was found for
\* that name, unless an answer came after one to a later check: the debounce,
\* the reset and the order of the answers together see to it.
NameShownWasChecked ==
    AtRest /\ page \in NameForms /\ form.avail # None /\ IsLong(form.id) /\ ~late
        => shownFor = form.id

\* The code field, and the verification token, belong to the name or address
\* in the form, though it could be edited before and the request took its
\* time; unless the tab of LoginOTPPage was changed meanwhile.
CodeBelongsToForm ==
    /\ page = "login_otp" /\ form.sent /\ ~form.switched
          => form.codeFor = [kind |-> form.kind, of |-> form.id]
    /\ page = "signup_otp" /\ form.sent => form.codeFor = [kind |-> "email", of |-> form.email]
    /\ form.token # None => form.token = form.email

\* A signup whose address is verified can be completed.  The name is locked as
\* soon as a code is sent and nothing unlocks it again: who asks for the code
\* before all checks of the name are answered, and it is free, can get stuck.
SignupIsNotStuck ==
    AtRest /\ form.token # None /\ ~form.early => CanComplete
=============================================================================
