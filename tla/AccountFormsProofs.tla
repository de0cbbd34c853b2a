------------------------- MODULE AccountFormsProofs -------------------------
(***************************************************************************)
(* What holds of the account pages for any names and addresses that are    *)
(* typed and any number of checks of a name under way.                     *)
(***************************************************************************)
EXTENDS AccountForms, SequenceTheorems, TLAPS

-----------------------------------------------------------------------------
(* The inductive invariant.                                                *)

\* Where a request comes from, and that its page is locked meanwhile.
RequestInv ==
    /\ req.op = "otp" => page \in {"login_otp", "signup_otp"}
    /\ req.op = "verify" => page = "signup_otp" /\ form.sent /\ req.to.of = form.email
    /\ req.op = "password" => page = "profile"
    /\ page \in {"login_otp", "signup_otp"} /\ req # NoRequest => form.loading

\* A code is asked for, and then entered, for what the form still says.
CodeInv ==
    LET here == [kind |-> form.kind, of |-> form.id]
        mail == [kind |-> "email", of |-> form.email]
    IN  /\ page = "login_otp" /\ ~form.switched => /\ form.sent => form.codeFor = here
                                                   /\ req.op = "otp" => req.to = here
        /\ page = "signup_otp" => /\ form.sent => form.codeFor = mail
                                  /\ req.op = "otp" => req.to = mail
                                  /\ form.sent \/ req.op = "otp" => form.email # ""
        /\ form.token # None => page = "signup_otp" /\ form.sent /\ form.token = form.email

\* The timer waits with the name in the form; without one the latest check is
\* that of the name, or overtaken; without checks the answer shown is.
NameInv ==
    /\ timer # None => page \in NameForms /\ timer = form.id
    /\ page \in NameForms /\ timer = None /\ IsLong(form.id) =>
         /\ checks # <<>> => LET last == checks[Len(checks)]
                             IN  last.name = form.id \/ last.old
         /\ checks = <<>> /\ form.avail # None /\ ~late => shownFor = form.id

\* Who asks for a code when the name is known to be free has locked it.
LockInv ==
    page = "signup_otp" /\ (form.sent \/ req.op = "otp") /\ ~form.early
        => form.avail = TRUE /\ IsLong(form.id) /\ NoneChecked

FormsInv == TypeOK /\ RequestInv /\ CodeInv /\ NameInv /\ LockInv

-----------------------------------------------------------------------------
(* Types.                                                                  *)

Forms == [kind: {"email", "username"}, id: Names \cup {""}, email: Emails \cup {""},
          pw: Passwords, pw2: Passwords, code: BOOLEAN, loading: BOOLEAN, sent: BOOLEAN,
          token: Emails \cup {None}, avail: BOOLEAN \cup {None}, checking: BOOLEAN,
          codeFor: Targets \cup {None}, switched: BOOLEAN, early: BOOLEAN]
Sent  == Requests \cup {NoRequest}
Check == [name: Names \ ShortNames, old: BOOLEAN]

PagesOK  == page \in DOMAIN Links /\ req \in Sent /\ orphan \in Sent
NamingOK == /\ timer \in Names \cup {"", None}
            /\ checks \in Seq(Check) /\ Len(checks) <= MaxChecks
            /\ shownFor \in Names \cup {None} /\ late \in BOOLEAN

LEMMA TypeParts ==
    /\ TypeOK <=> PagesOK /\ form \in Forms /\ NamingOK
    /\ TypeOK' <=> PagesOK' /\ form' \in Forms /\ NamingOK'
BY DEF TypeOK, PagesOK, NamingOK, Forms, Sent, Check

LEMMA InvParts ==
    ASSUME FormsInv
    PROVE  PagesOK /\ form \in Forms /\ NamingOK /\ RequestInv /\ CodeInv /\ NameInv /\ LockInv
BY TypeParts DEF FormsInv

LEMMA InvFrom ==
    ASSUME PagesOK', form' \in Forms, NamingOK', RequestInv', CodeInv', NameInv', LockInv'
    PROVE  FormsInv'
BY TypeParts DEF FormsInv

\* On which page, and in which of its states, each field and button is there.
LEMMA Offered ==
    /\ "id" \in Offers => \/ page \in {"login_password", "complete_profile"}
                          \/ page \in {"login_otp", "signup_otp"} /\ ~form.loading /\ ~form.sent
    /\ "email" \in Offers => \/ page = "forgot_password"
                             \/ page = "signup_otp" /\ ~form.loading /\ ~form.sent
    /\ "tabs" \in Offers => page = "login_otp"
    /\ "again" \in Offers => page = "login_otp" /\ ~form.loading
    /\ "otp" \in Offers => ~form.loading /\ ~form.sent /\ (page = "signup_otp" => form.email # "")
    /\ "verify" \in Offers => page = "signup_otp" /\ form.sent /\ ~form.loading
    /\ "login" \in Offers => page \in {"login_password", "login_otp"}
    /\ "signup" \in Offers => page = "signup_otp"
    /\ "complete" \in Offers => page = "complete_profile"
    /\ "next" \in Offers \/ "reset" \in Offers => page = "forgot_password"
    /\ "password" \in Offers => page = "profile"
BY DEF Offers, LoginPasswordPage, LoginOTPPage, SignupOTPPage, GoogleCompleteProfilePage,
       ForgotPasswordPage, ChangePasswordDialog, When

LEMMA BlankForm == Blank \in Forms /\ ~IsLong(Blank.id)
BY DEF Blank, Forms, Passwords, IsLong

LEMMA NoChecks == <<>> \in Seq(Check) /\ Len(<<>>) <= MaxChecks
<1>1. <<>> \in Seq(Check) /\ Len(<<>>) = 0
  BY EmptySeq
<1>2. MaxChecks \in Nat
  BY FormsAssumption
<1> QED
  BY <1>1, <1>2

\* A page that is mounted starts over, whatever was there before.
LEMMA Mounts ==
    ASSUME NEW p \in DOMAIN Links, Mounted(p), orphan' \in Sent
    PROVE  FormsInv'
<1>1. /\ page' = p /\ form' = Blank /\ timer' = None /\ checks' = <<>>
      /\ req' = NoRequest /\ shownFor' = None /\ late' = FALSE /\ NoRequest.op = "none"
  BY DEF Mounted, NoRequest
<1>2. PagesOK' /\ form' \in Forms
  BY <1>1, BlankForm DEF PagesOK, Sent
<1>3. NamingOK'
  BY <1>1, NoChecks DEF NamingOK
<1>4. RequestInv' /\ CodeInv' /\ LockInv'
  BY <1>1 DEF RequestInv, CodeInv, LockInv, Blank
<1>5. NameInv'
  BY <1>1, BlankForm DEF NameInv
<1> QED
  BY <1>2, <1>3, <1>4, <1>5, InvFrom

\* Passwords and the code entered are nobody's business here.
LEMMA Edits ==
    ASSUME FormsInv, form' \in Forms, UNCHANGED <<page, req, orphan, naming>>,
           /\ form'.kind = form.kind /\ form'.id = form.id /\ form'.email = form.email
           /\ form'.loading = form.loading /\ form'.sent = form.sent /\ form'.token = form.token
           /\ form'.avail = form.avail /\ form'.codeFor = form.codeFor
           /\ form'.switched = form.switched /\ form'.early = form.early
    PROVE  FormsInv'
<1>1. PagesOK' /\ NamingOK'
  BY InvParts DEF PagesOK, NamingOK, naming
<1>2. RequestInv' /\ CodeInv'
  BY InvParts DEF RequestInv, CodeInv
<1>3. LockInv'
  BY InvParts DEF LockInv, NoneChecked, naming
<1>4. NameInv'
  BY InvParts DEF NameInv, NoneChecked, naming
<1> QED
  BY <1>1, <1>2, <1>3, <1>4, InvFrom

-----------------------------------------------------------------------------
(* The router.                                                             *)

LEMMA InitForms == Init => FormsInv
<1> SUFFICES ASSUME Init
             PROVE  FormsInv
  OBVIOUS
<1>1. /\ page = "auth" /\ form = Blank /\ timer = None /\ checks = <<>>
      /\ req = NoRequest /\ orphan = NoRequest /\ shownFor = None /\ late = FALSE
      /\ NoRequest.op = "none"
  BY DEF Init, NoRequest
<1>2. PagesOK /\ form \in Forms
  BY <1>1, BlankForm DEF PagesOK, Sent, Links
<1>3. NamingOK
  BY <1>1, NoChecks DEF NamingOK
<1>4. RequestInv /\ CodeInv /\ LockInv
  BY <1>1 DEF RequestInv, CodeInv, LockInv, Blank
<1>5. NameInv
  BY <1>1, BlankForm DEF NameInv
<1> QED
  BY <1>2, <1>3, <1>4, <1>5, TypeParts DEF FormsInv

LEMMA RouterStep ==
    ASSUME FormsInv, (\E p \in DOMAIN Links : Open(p)) \/ startGoogle \/ OrphanAnswers
    PROVE  FormsInv'
<1>1. req \in Sent /\ orphan \in Sent /\ NoRequest \in Sent
  BY InvParts DEF PagesOK, Sent
<1>2. {"complete_profile", "auth", "home"} \subseteq DOMAIN Links
  BY DEF Links
<1>3. ASSUME NEW p \in DOMAIN Links, Open(p)
      PROVE  FormsInv'
  BY <1>1, <1>3, Mounts DEF Open
<1>4. ASSUME startGoogle
      PROVE  FormsInv'
  BY <1>1, <1>2, <1>4, Mounts DEF startGoogle
<1>5. ASSUME OrphanAnswers
      PROVE  FormsInv'
  <2>1. CASE Mounted("auth") \/ Mounted("home")
    BY <1>1, <1>2, <1>5, <2>1, Mounts DEF OrphanAnswers
  <2>2. CASE UNCHANGED <<page, form, req, naming>>
    <3>1. orphan' = NoRequest
      BY <1>5 DEF OrphanAnswers
    <3>2. PagesOK' /\ NamingOK' /\ form' \in Forms
      BY <1>1, <2>2, <3>1, InvParts DEF PagesOK, NamingOK, naming
    <3>3. RequestInv' /\ CodeInv'
      BY <2>2, InvParts DEF RequestInv, CodeInv
    <3>4. LockInv'
      BY <2>2, InvParts DEF LockInv, NoneChecked, naming
    <3>5. NameInv'
      BY <2>2, InvParts DEF NameInv, NoneChecked, naming
    <3> QED
      BY <3>2, <3>3, <3>4, <3>5, InvFrom
  <2> QED
    BY <1>5, <2>1, <2>2 DEF OrphanAnswers
<1> QED
  BY <1>3, <1>4, <1>5

-----------------------------------------------------------------------------
(* Typing.                                                                 *)

LEMMA TypeNameStep ==
    ASSUME FormsInv, NEW n \in Names \cup {""}, TypeName(n)
    PROVE  FormsInv'
<1>1. /\ form \in Forms /\ "id" \in Offers /\ UNCHANGED <<page, req, orphan, checks, shownFor, late>>
      /\ form' \in {[form EXCEPT !.id = n], [form EXCEPT !.id = n, !.avail = None]}
  BY InvParts DEF TypeName, handleInputChange, DebounceEffect, Set
<1>2. /\ form' \in Forms /\ form'.id = n
      /\ form'.kind = form.kind /\ form'.email = form.email
      /\ form'.loading = form.loading /\ form'.sent = form.sent /\ form'.token = form.token
      /\ form'.codeFor = form.codeFor /\ form'.switched = form.switched /\ form'.early = form.early
  BY <1>1 DEF Forms
<1>3. timer' = IF page \in NameForms THEN n ELSE timer
  BY DEF TypeName, handleInputChange, DebounceEffect, NameForms
<1>4. page \in {"login_otp", "signup_otp"} => ~form.sent /\ req = NoRequest
  BY <1>1, InvParts, Offered DEF RequestInv
<1>5. PagesOK' /\ NamingOK'
  BY <1>1, <1>3, InvParts DEF PagesOK, NamingOK
<1>6. NoRequest.op = "none"
  BY DEF NoRequest
<1>7. RequestInv' /\ CodeInv' /\ LockInv'
  BY <1>1, <1>2, <1>4, <1>6, InvParts DEF RequestInv, CodeInv, LockInv
<1>8. n # None
  BY FormsAssumption
<1>9. NameInv'
  BY <1>1, <1>2, <1>3, <1>8, InvParts DEF NameInv
<1> QED
  BY <1>2, <1>5, <1>7, <1>9, InvFrom

LEMMA TypeEmailStep ==
    ASSUME FormsInv, NEW e \in Emails \cup {""}, TypeEmail(e)
    PROVE  FormsInv'
<1>1. /\ form \in Forms /\ "email" \in Offers /\ UNCHANGED <<page, req, orphan, naming>>
      /\ form' = [form EXCEPT !.email = e]
  BY InvParts DEF TypeEmail, Set
<1>2. /\ form' \in Forms /\ form'.email = e
      /\ form'.kind = form.kind /\ form'.id = form.id /\ form'.avail = form.avail
      /\ form'.loading = form.loading /\ form'.sent = form.sent /\ form'.token = form.token
      /\ form'.codeFor = form.codeFor /\ form'.switched = form.switched /\ form'.early = form.early
  BY <1>1 DEF Forms
<1>3. page # "login_otp" /\ (page = "signup_otp" => ~form.sent /\ req = NoRequest)
  BY <1>1, InvParts, Offered DEF RequestInv
<1>4. NoRequest.op = "none"
  BY DEF NoRequest
<1>5. PagesOK' /\ NamingOK'
  BY <1>1, InvParts DEF PagesOK, NamingOK, naming
<1>6. RequestInv' /\ CodeInv' /\ LockInv'
  BY <1>1, <1>2, <1>3, <1>4, InvParts DEF RequestInv, CodeInv, LockInv
<1>7. NameInv'
  BY <1>1, <1>2, InvParts DEF NameInv, naming
<1> QED
  BY <1>2, <1>5, <1>6, <1>7, InvFrom

LEMMA TypeElseStep ==
    ASSUME FormsInv, TypeCode \/ \E t \in Passwords : TypePassword(t)
    PROVE  FormsInv'
<1>1. form \in Forms /\ UNCHANGED <<page, req, orphan, naming>>
  BY InvParts DEF TypeCode, TypePassword, Set
<1>2. ASSUME NEW t \in Passwords,
             form' \in {[form EXCEPT !.pw = t], [form EXCEPT !.pw2 = t], [form EXCEPT !.code = ~@]}
      PROVE  FormsInv'
  <2>1. /\ form' \in Forms
        /\ form'.kind = form.kind /\ form'.id = form.id /\ form'.email = form.email
        /\ form'.loading = form.loading /\ form'.sent = form.sent /\ form'.token = form.token
        /\ form'.avail = form.avail /\ form'.codeFor = form.codeFor
        /\ form'.switched = form.switched /\ form'.early = form.early
    BY <1>1, <1>2 DEF Forms
  <2> QED
    BY <1>1, <2>1, Edits
<1>3. "" \in Passwords
  BY DEF Passwords
<1> QED
  BY <1>2, <1>3 DEF TypeCode, TypePassword, Set

\* A tab that is opened during a request is noted in form.switched.
LEMMA SwitchTabStep ==
    ASSUME FormsInv, NEW k \in {"email", "username"}, SwitchTab(k)
    PROVE  FormsInv'
<1>1. /\ form \in Forms /\ "tabs" \in Offers /\ UNCHANGED <<page, req, orphan, naming>>
      /\ form' = [form EXCEPT !.kind = k, !.id = "", !.code = FALSE, !.sent = FALSE,
                              !.switched = form.loading]
  BY InvParts DEF SwitchTab, Set
<1>2. /\ form' \in Forms /\ form'.kind = k /\ form'.id = "" /\ ~form'.sent
      /\ form'.switched = form.loading /\ form'.email = form.email /\ form'.avail = form.avail
      /\ form'.loading = form.loading /\ form'.token = form.token
      /\ form'.codeFor = form.codeFor /\ form'.early = form.early
  BY <1>1 DEF Forms
<1>3. page = "login_otp" /\ (req # NoRequest => form.loading) /\ timer = None /\ form.token = None
  BY <1>1, InvParts, Offered DEF RequestInv, NameInv, NameForms, CodeInv
<1>4. NoRequest.op = "none"
  BY DEF NoRequest
<1>5. PagesOK' /\ NamingOK'
  BY <1>1, InvParts DEF PagesOK, NamingOK, naming
<1>6. RequestInv' /\ CodeInv' /\ LockInv'
  BY <1>1, <1>2, <1>3, <1>4, InvParts DEF RequestInv, CodeInv, LockInv
<1>7. NameInv'
  BY <1>1, <1>3 DEF NameInv, NameForms, naming
<1> QED
  BY <1>2, <1>5, <1>6, <1>7, InvFrom

LEMMA SendAgainStep ==
    ASSUME FormsInv, SendAgain
    PROVE  FormsInv'
<1>1. /\ form \in Forms /\ "again" \in Offers /\ UNCHANGED <<page, req, orphan, naming>>
      /\ form' = [form EXCEPT !.sent = FALSE, !.code = FALSE, !.switched = FALSE]
  BY InvParts DEF SendAgain, Set
<1>2. /\ form' \in Forms /\ ~form'.sent
      /\ form'.kind = form.kind /\ form'.id = form.id /\ form'.email = form.email
      /\ form'.avail = form.avail /\ form'.loading = form.loading /\ form'.token = form.token
      /\ form'.codeFor = form.codeFor /\ form'.early = form.early
  BY <1>1 DEF Forms
<1>3. page = "login_otp" /\ req = NoRequest /\ timer = None /\ form.token = None
  BY <1>1, InvParts, Offered DEF RequestInv, NameInv, NameForms, CodeInv
<1>4. NoRequest.op = "none"
  BY DEF NoRequest
<1>5. PagesOK' /\ NamingOK'
  BY <1>1, InvParts DEF PagesOK, NamingOK, naming
<1>6. RequestInv' /\ CodeInv' /\ LockInv'
  BY <1>1, <1>2, <1>3, <1>4 DEF RequestInv, CodeInv, LockInv
<1>7. NameInv'
  BY <1>1, <1>3 DEF NameInv, NameForms, naming
<1> QED
  BY <1>2, <1>5, <1>6, <1>7, InvFrom

-----------------------------------------------------------------------------
(* The check of a name.                                                    *)

LEMMA SomeChecks == MaxChecks \in Nat
BY FormsAssumption

LEMMA Asked ==
    ASSUME NEW s \in Seq(Check), NEW c \in Check
    PROVE  /\ Append(s, c) \in Seq(Check) /\ Len(s) \in Nat /\ Len(Append(s, c)) = Len(s) + 1
           /\ Append(s, c)[Len(s) + 1] = c /\ Append(s, c) # <<>>
OBVIOUS

LEMMA TimerStep ==
    ASSUME FormsInv, TimerFires
    PROVE  FormsInv'
<1>1. /\ form \in Forms /\ timer # None /\ timer' = None /\ timer = form.id
      /\ timer \in Names \cup {""} /\ checks \in Seq(Check)
      /\ UNCHANGED <<page, req, orphan, shownFor, late>>
  BY InvParts DEF TimerFires, NameInv, NamingOK
<1>2. PagesOK' /\ ~(page = "signup_otp" /\ (form.sent \/ req.op = "otp") /\ ~form.early)
  BY <1>1, InvParts DEF PagesOK, LockInv, NoneChecked
<1>3. form' \in {form, [form EXCEPT !.avail = None], [form EXCEPT !.checking = TRUE]}
  BY DEF TimerFires
<1>4. /\ form' \in Forms
      /\ form'.kind = form.kind /\ form'.id = form.id /\ form'.email = form.email
      /\ form'.loading = form.loading /\ form'.sent = form.sent /\ form'.token = form.token
      /\ form'.codeFor = form.codeFor /\ form'.switched = form.switched /\ form'.early = form.early
  BY <1>1, <1>3 DEF Forms
<1>5. RequestInv' /\ CodeInv' /\ LockInv'
  BY <1>1, <1>2, <1>4, InvParts DEF RequestInv, CodeInv, LockInv
<1>6. CASE ~IsLong(timer)
  <2>1. UNCHANGED checks
    BY <1>6 DEF TimerFires
  <2>2. NamingOK'
    BY <1>1, <2>1, InvParts DEF NamingOK
  <2>3. NameInv'
    BY <1>1, <1>4, <1>6 DEF NameInv, IsLong
  <2> QED
    BY <1>2, <1>4, <1>5, <2>2, <2>3, InvFrom
<1>7. CASE IsLong(timer)
  <2> DEFINE check == [name |-> timer, old |-> FALSE]
  <2>1. Len(checks) < MaxChecks /\ checks' = Append(checks, check)
    BY <1>7 DEF TimerFires
  <2>2. check \in Check /\ check.name = timer
    BY <1>1, <1>7 DEF Check, IsLong
  <2> HIDE DEF check
  <2>3. /\ checks' \in Seq(Check) /\ Len(checks) \in Nat /\ Len(checks') = Len(checks) + 1
        /\ checks'[Len(checks')] = check /\ checks' # <<>>
    BY <1>1, <2>1, <2>2, Asked
  <2>4. Len(checks') <= MaxChecks
    BY <2>1, <2>3, SomeChecks
  <2>5. NamingOK'
    BY <1>1, <2>3, <2>4, InvParts DEF NamingOK
  <2>6. NameInv'
    BY <1>1, <1>4, <2>2, <2>3 DEF NameInv
  <2> QED
    BY <1>2, <1>4, <1>5, <2>5, <2>6, InvFrom
<1> QED
  BY <1>6, <1>7

\* The checks that are left when one is answered: those before it are old.
LEMMA Answered ==
    ASSUME NEW s \in Seq(Check), NEW i \in 1 .. Len(s), NEW t,
           t = [j \in 1 .. Len(s) - 1 |-> IF j < i THEN [s[j] EXCEPT !.old = TRUE] ELSE s[j + 1]]
    PROVE  /\ Len(s) \in Nat \ {0} /\ t \in Seq(Check) /\ Len(t) = Len(s) - 1
           /\ t = <<>> => i = Len(s)
           /\ t # <<>> => \/ t[Len(t)].old
                          \/ t[Len(t)] = s[Len(s)]
<1>1. Len(s) \in Nat \ {0} /\ i \in Int /\ \A j \in 1 .. Len(s) : s[j] \in Check
  OBVIOUS
<1>2. \A j \in 1 .. Len(s) - 1 : j \in Int /\ j \in 1 .. Len(s) /\ j + 1 \in 1 .. Len(s)
  BY <1>1
<1>3. ASSUME NEW c \in Check
      PROVE  [c EXCEPT !.old = TRUE] \in Check /\ [c EXCEPT !.old = TRUE].old = TRUE
  BY DEF Check
<1>4. \A j \in 1 .. Len(s) - 1 : t[j] \in Check
  BY <1>1, <1>2, <1>3
<1>5. Len(s) - 1 \in Nat /\ DOMAIN t = 1 .. Len(s) - 1
  BY <1>1
<1>6. t \in [1 .. Len(s) - 1 -> Check]
  BY <1>4, <1>5
<1>7. t \in Seq(Check) /\ Len(t) = Len(s) - 1
  <2>1. \A m \in Nat : \A u \in [1 .. m -> Check] : u \in Seq(Check) /\ Len(u) = m
    BY SeqDef, LenProperties
  <2> QED
    BY <1>5, <1>6, <2>1
<1>8. t = <<>> => i = Len(s)
  BY <1>1, <1>7
<1>9. ASSUME t # <<>>
      PROVE  t[Len(t)].old \/ t[Len(t)] = s[Len(s)]
  <2>1. Len(t) # 0
    BY <1>7, <1>9, EmptySeq
  <2>2. Len(t) \in 1 .. Len(s) - 1 /\ Len(t) + 1 = Len(s)
    <3> DEFINE m == Len(s)
               n == Len(t)
    <3>1. m \in Nat \ {0} /\ n = m - 1 /\ n # 0
      BY <1>1, <1>7, <2>1
    <3> HIDE DEF m, n
    <3>2. n \in 1 .. m - 1 /\ n + 1 = m
      BY <3>1
    <3> QED
      BY <3>2 DEF m, n
  <2>3. t[Len(t)] = IF Len(t) < i THEN [s[Len(t)] EXCEPT !.old = TRUE] ELSE s[Len(t) + 1]
    BY <2>2
  <2> QED
    BY <1>1, <1>2, <1>3, <2>2, <2>3
<1> QED
  BY <1>1, <1>7, <1>8, <1>9

LEMMA CheckStep ==
    ASSUME FormsInv, NEW i \in 1 .. MaxChecks, CheckAnswers(i)
    PROVE  FormsInv'
<1>1. /\ form \in Forms /\ checks \in Seq(Check) /\ i \in 1 .. Len(checks)
      /\ UNCHANGED <<page, timer, req, orphan>>
      /\ shownFor' = checks[i].name /\ late' = checks[i].old
  BY InvParts DEF CheckAnswers, NamingOK
<1>2. PICK a \in BOOLEAN \cup {None} : form' = [form EXCEPT !.avail = a, !.checking = FALSE]
  BY DEF CheckAnswers, validateUsernameAvailability, checkUsernameAvailability
<1>3. /\ form' \in Forms
      /\ form'.kind = form.kind /\ form'.id = form.id /\ form'.email = form.email
      /\ form'.loading = form.loading /\ form'.sent = form.sent /\ form'.token = form.token
      /\ form'.codeFor = form.codeFor /\ form'.switched = form.switched /\ form'.early = form.early
  BY <1>1, <1>2 DEF Forms
<1>4. /\ Len(checks) \in Nat \ {0} /\ checks' \in Seq(Check) /\ Len(checks') = Len(checks) - 1
      /\ checks' = <<>> => i = Len(checks)
      /\ checks' # <<>> => checks'[Len(checks')].old \/ checks'[Len(checks')] = checks[Len(checks)]
  <2>1. checks' = [j \in 1 .. Len(checks) - 1 |-> IF j < i THEN [checks[j] EXCEPT !.old = TRUE] ELSE checks[j + 1]]
    BY DEF CheckAnswers
  <2>2. Len(checks) \in Nat \ {0} /\ checks' \in Seq(Check) /\ Len(checks') = Len(checks) - 1
    BY <1>1, <2>1, Answered
  <2>3. checks' = <<>> => i = Len(checks)
    BY <1>1, <2>1, Answered
  <2>4. checks' # <<>> => checks'[Len(checks')].old \/ checks'[Len(checks')] = checks[Len(checks)]
    BY <1>1, <2>1, Answered
  <2> QED
    BY <2>2, <2>3, <2>4
<1>5. checks # <<>> /\ checks[i] \in Check
  BY <1>1, <1>4
<1>6. PagesOK' /\ ~(page = "signup_otp" /\ (form.sent \/ req.op = "otp") /\ ~form.early)
  BY <1>1, <1>5, InvParts DEF PagesOK, LockInv, NoneChecked
<1>7. RequestInv' /\ CodeInv' /\ LockInv'
  BY <1>1, <1>3, <1>6, InvParts DEF RequestInv, CodeInv, LockInv
<1>8. NamingOK'
  <2>1. Len(checks') <= MaxChecks
    <3> DEFINE m == Len(checks)
               n == Len(checks')
    <3>1. m <= MaxChecks
      BY InvParts DEF NamingOK
    <3>2. m \in Nat \ {0} /\ n = m - 1
      BY <1>4
    <3> HIDE DEF m, n
    <3>3. n <= MaxChecks
      BY <3>1, <3>2, SomeChecks
    <3> QED
      BY <3>3 DEF n
  <2>2. shownFor' \in Names /\ late' \in BOOLEAN
    BY <1>1, <1>5 DEF Check
  <2> QED
    BY <1>1, <1>4, <2>1, <2>2, InvParts DEF NamingOK
<1>9. NameInv'
  BY <1>1, <1>3, <1>4, <1>5, InvParts DEF NameInv
<1> QED
  BY <1>3, <1>6, <1>7, <1>8, <1>9, InvFrom

-----------------------------------------------------------------------------
(* Requests.                                                               *)

Buttons == {"otp", "verify", "reset", "password", "login", "signup", "complete"}

LEMMA SendStep ==
    ASSUME FormsInv, requestOTPHandler \/ requestOTP \/ handleLogin \/ loginWithOTPHandler \/ verifyOtp
                     \/ completeSignup \/ handleSubmit \/ handleResetSubmit \/ handleChangePassword
    PROVE  FormsInv'
<1> DEFINE Sending(button, kind, of) ==
             /\ button \in Offers /\ req = NoRequest /\ UNCHANGED <<page, orphan, naming>>
             /\ req' = [op |-> button, to |-> [kind |-> kind, of |-> of]]
<1>1. form \in Forms /\ form.id \in Names \cup {""} /\ form.email \in Emails \cup {""}
      /\ form.kind \in {"email", "username"}
  BY InvParts DEF Forms
<1>2. PICK button \in Buttons, kind \in {"email", "username"}, of \in Names \cup Emails \cup {""} :
        /\ Sending(button, kind, of)
        /\ button = "otp" => \/ page = "login_otp" /\ kind = form.kind /\ of = form.id
                             \/ page = "signup_otp" /\ kind = "email" /\ of = form.email
        /\ button = "verify" => of = form.email
        /\ \/ form' = form /\ button \in {"reset", "password"}
           \/ form' = [form EXCEPT !.loading = TRUE] /\ button \notin {"reset", "password", "otp"}
           \/ /\ form' = [[form EXCEPT !.loading = TRUE] EXCEPT !.switched = FALSE]
              /\ button = "otp" /\ page = "login_otp"
           \/ /\ form' = [[form EXCEPT !.loading = TRUE] EXCEPT
                            !.early = ~(form.avail = TRUE /\ IsLong(form.id) /\ NoneChecked)]
              /\ button = "otp" /\ page = "signup_otp"
  BY <1>1 DEF requestOTPHandler, requestOTP, handleLogin, loginWithOTPHandler, verifyOtp,
              completeSignup, handleSubmit, handleResetSubmit, handleChangePassword, Sends, Loading,
              Buttons
<1>3. /\ form' \in Forms
      /\ form'.kind = form.kind /\ form'.id = form.id /\ form'.email = form.email
      /\ form'.sent = form.sent /\ form'.token = form.token /\ form'.avail = form.avail
      /\ form'.codeFor = form.codeFor
      /\ button \notin {"reset", "password"} => form'.loading
      /\ ~(page = "login_otp" /\ button = "otp") => form'.switched = form.switched
      /\ ~(page = "signup_otp" /\ button = "otp") => form'.early = form.early
      /\ page = "signup_otp" /\ button = "otp" =>
           form'.early = ~(form.avail = TRUE /\ IsLong(form.id) /\ NoneChecked)
  <2>1. CASE form' = form /\ button \in {"reset", "password"}
    BY <1>1, <2>1
  <2>2. CASE form' = [form EXCEPT !.loading = TRUE] /\ button \notin {"reset", "password", "otp"}
    BY <1>1, <2>2 DEF Forms
  <2>3. CASE /\ form' = [[form EXCEPT !.loading = TRUE] EXCEPT !.switched = FALSE]
             /\ button = "otp" /\ page = "login_otp"
    BY <1>1, <2>3 DEF Forms
  <2>4. CASE /\ form' = [[form EXCEPT !.loading = TRUE] EXCEPT
                            !.early = ~(form.avail = TRUE /\ IsLong(form.id) /\ NoneChecked)]
             /\ button = "otp" /\ page = "signup_otp"
    <3> DEFINE was == ~(form.avail = TRUE /\ IsLong(form.id) /\ NoneChecked)
    <3>1. was \in BOOLEAN /\ form' = [[form EXCEPT !.loading = TRUE] EXCEPT !.early = was]
      BY <2>4
    <3>2. form'.early = was
      BY <1>1, <3>1 DEF Forms
    <3> HIDE DEF was
    <3>3. /\ form' \in Forms
          /\ form'.kind = form.kind /\ form'.id = form.id /\ form'.email = form.email
          /\ form'.sent = form.sent /\ form'.token = form.token /\ form'.avail = form.avail
          /\ form'.codeFor = form.codeFor /\ form'.loading /\ form'.switched = form.switched
      BY <1>1, <3>1 DEF Forms
    <3> QED
      BY <2>4, <3>2, <3>3 DEF was
  <2> QED
    BY <1>2, <2>1, <2>2, <2>3, <2>4
<1> HIDE DEF Sending
<1>4. /\ button \in Offers /\ req = NoRequest /\ UNCHANGED <<page, orphan, naming>>
      /\ req'.op = button /\ req'.to = [kind |-> kind, of |-> of] /\ req'.to.of = of
  BY <1>2 DEF Sending
<1>5. req' \in Sent
  BY <1>2 DEF Sending, Sent, Requests, Targets, Buttons, SignIns
<1>6. PagesOK' /\ NamingOK'
  BY <1>4, <1>5, InvParts DEF PagesOK, NamingOK, naming
<1>7. /\ button = "verify" => page = "signup_otp" /\ form.sent
      /\ button = "otp" => ~form.sent /\ (page = "signup_otp" => form.email # "")
      /\ button = "password" => page = "profile"
      /\ button = "reset" => page = "forgot_password"
  BY <1>4, Offered
<1>8. RequestInv'
  BY <1>2, <1>3, <1>4, <1>7 DEF RequestInv
<1>9. CodeInv'
  <2>1. CodeInv /\ page' = page
    BY <1>4, InvParts
  <2>2. CASE page = "login_otp" /\ button = "otp"
    <3>1. ~form.sent /\ kind = form.kind /\ of = form.id
      BY <1>2, <1>7, <2>2
    <3> QED
      BY <1>3, <1>4, <2>1, <2>2, <3>1 DEF CodeInv
  <2>5. CASE page = "login_otp" /\ button # "otp"
    BY <1>3, <1>4, <2>1, <2>5 DEF CodeInv
  <2>3. CASE page = "signup_otp"
    BY <1>2, <1>3, <1>4, <1>7, <2>1, <2>3 DEF CodeInv
  <2>4. CASE page \notin {"login_otp", "signup_otp"}
    BY <1>3, <1>4, <2>1, <2>4 DEF CodeInv
  <2> QED
    BY <2>2, <2>3, <2>4, <2>5
<1>10. LockInv'
  BY <1>3, <1>4, <1>7, InvParts DEF LockInv, NoneChecked, naming
<1>11. NameInv'
  BY <1>3, <1>4, InvParts DEF NameInv, naming
<1> QED
  BY <1>3, <1>6, <1>8, <1>9, <1>10, <1>11, InvFrom

LEMMA NextFormStep ==
    ASSUME FormsInv, handleEmailSubmit
    PROVE  FormsInv'
<1>1. /\ form \in Forms /\ page = "forgot_password" /\ UNCHANGED <<page, req, orphan, naming>>
      /\ form' = [form EXCEPT !.sent = TRUE]
  BY InvParts, Offered DEF handleEmailSubmit, Set
<1>2. /\ form' \in Forms /\ form'.token = form.token /\ form'.id = form.id
  BY <1>1 DEF Forms
<1>3. PagesOK' /\ NamingOK'
  BY <1>1, InvParts DEF PagesOK, NamingOK, naming
<1>4. RequestInv' /\ CodeInv' /\ LockInv'
  BY <1>1, <1>2, InvParts DEF RequestInv, CodeInv, LockInv
<1>5. NameInv'
  BY <1>1, <1>2, InvParts DEF NameInv, NameForms, naming
<1> QED
  BY <1>2, <1>3, <1>4, <1>5, InvFrom

\* An answer is taken by the page whose fields were locked meanwhile.
LEMMA AnswerStep ==
    ASSUME FormsInv, ReqAnswers \/ ReqFails
    PROVE  FormsInv'
<1>1. form \in Forms /\ req \in Sent /\ orphan \in Sent /\ req # NoRequest /\ UNCHANGED orphan
  BY InvParts DEF ReqAnswers, ReqFails, PagesOK
<1>2. req.op \in Buttons /\ req.to \in Targets /\ NoRequest \in Sent
      /\ NoRequest.op = "none" /\ {"home", "auth"} \subseteq DOMAIN Links
  BY <1>1 DEF Sent, Requests, Buttons, SignIns, NoRequest, Links
<1> DEFINE Answer(f) == form' = f /\ req' = NoRequest /\ UNCHANGED <<page, naming>>
<1>3. ASSUME NEW f \in Forms, Answer(f)
      PROVE  PagesOK' /\ NamingOK' /\ form' \in Forms /\ RequestInv'
  BY <1>1, <1>2, <1>3, InvParts DEF PagesOK, NamingOK, naming, RequestInv
<1>4. CASE ReqAnswers /\ req.op \in SignIns
  <2>1. Mounted("home")
    BY <1>4 DEF ReqAnswers, SignIns
  <2> QED
    BY <1>1, <1>2, <2>1, Mounts
<1>5. CASE ReqAnswers /\ req.op = "reset"
  BY <1>1, <1>2, <1>5, Mounts DEF ReqAnswers, SignIns
<1>6. CASE ReqAnswers /\ req.op = "otp"
  <2> DEFINE f == [form EXCEPT !.loading = FALSE, !.sent = TRUE, !.codeFor = req.to]
  <2>1. Answer(f)
    BY <1>6 DEF ReqAnswers, Stays, SignIns
  <2>2. /\ f \in Forms /\ f.sent /\ f.codeFor = req.to /\ f.kind = form.kind /\ f.id = form.id
        /\ f.email = form.email /\ f.token = form.token /\ f.avail = form.avail
        /\ f.switched = form.switched /\ f.early = form.early
    BY <1>1, <1>2 DEF Forms
  <2> HIDE DEF f
  <2>3. CodeInv' /\ LockInv' /\ NameInv'
    BY <1>2, <1>6, <2>1, <2>2, InvParts DEF CodeInv, LockInv, NameInv, NoneChecked, naming
  <2> QED
    BY <1>3, <2>1, <2>2, <2>3, InvFrom
<1>7. CASE ReqAnswers /\ req.op = "verify"
  <2> DEFINE f == [form EXCEPT !.loading = FALSE, !.token = req.to.of]
  <2>1. Answer(f)
    BY <1>7 DEF ReqAnswers, Stays, SignIns
  <2>2. page = "signup_otp" /\ form.sent /\ req.to.of = form.email /\ form.email \in Emails
    BY <1>1, <1>7, InvParts DEF RequestInv, CodeInv, Forms
  <2>3. /\ f \in Forms /\ f.sent /\ f.codeFor = form.codeFor /\ f.kind = form.kind /\ f.id = form.id
        /\ f.email = form.email /\ f.token = req.to.of /\ f.avail = form.avail
        /\ f.switched = form.switched /\ f.early = form.early
    BY <1>1, <2>2 DEF Forms
  <2> HIDE DEF f
  <2>4. CodeInv' /\ LockInv' /\ NameInv'
    BY <1>2, <2>1, <2>2, <2>3, InvParts DEF CodeInv, LockInv, NameInv, NoneChecked, naming
  <2> QED
    BY <1>3, <2>1, <2>3, <2>4, InvFrom
<1>8. CASE ReqAnswers /\ req.op = "password"
  <2>1. Answer(Blank)
    BY <1>8 DEF ReqAnswers, Stays, SignIns
  <2>2. page = "profile" /\ timer = None
    BY <1>8, InvParts DEF RequestInv, NameInv, NameForms
  <2>3. CodeInv' /\ LockInv' /\ NameInv'
    BY <1>2, <2>1, <2>2 DEF CodeInv, LockInv, NameInv, NameForms, naming, Blank
  <2> QED
    BY <1>3, <2>1, <2>3, BlankForm, InvFrom
<1>9. CASE ReqFails
  <2> DEFINE f == [form EXCEPT !.loading = FALSE]
  <2>1. Answer(f)
    BY <1>9 DEF ReqFails, Stays
  <2>2. /\ f \in Forms /\ f.sent = form.sent /\ f.codeFor = form.codeFor /\ f.kind = form.kind
        /\ f.id = form.id /\ f.email = form.email /\ f.token = form.token /\ f.avail = form.avail
        /\ f.switched = form.switched /\ f.early = form.early
    BY <1>1 DEF Forms
  <2> HIDE DEF f
  <2>3. CodeInv' /\ LockInv' /\ NameInv'
    BY <1>2, <2>1, <2>2, InvParts DEF CodeInv, LockInv, NameInv, NoneChecked, naming
  <2> QED
    BY <1>3, <2>1, <2>2, <2>3, InvFrom
<1> QED
  BY <1>2, <1>4, <1>5, <1>6, <1>7, <1>8, <1>9 DEF Buttons, SignIns

-----------------------------------------------------------------------------
LEMMA FormsStep == FormsInv /\ [Next]_vars => FormsInv'
<1> SUFFICES ASSUME FormsInv, [Next]_vars
             PROVE  FormsInv'
  OBVIOUS
<1>1. CASE UNCHANGED vars
  <2>1. form \in Forms
    BY InvParts
  <2> QED
    BY <1>1, <2>1, Edits DEF vars
<1> QED
  BY <1>1, RouterStep, TypeNameStep, TypeEmailStep, TypeElseStep, SwitchTabStep, SendAgainStep,
     TimerStep, CheckStep, SendStep, NextFormStep, AnswerStep DEF Next

\* The pages lock what a request was sent for, and keep the checks of a name in
\* order: the invariant that the properties follow from.
THEOREM FormsInvariant == Spec => []FormsInv
BY InitForms, FormsStep, PTL DEF Spec

\* The types of the pages' state, the bound on the checks included.
THEOREM FormTypes == Spec => []TypeOK
<1>1. FormsInv => TypeOK
  BY DEF FormsInv
<1> QED
  BY <1>1, FormsInvariant, PTL

\* The code that is entered was sent for what the form says, and the token
\* that a signup is completed with is that of the address in the form.
THEOREM CodesBelong == Spec => []CodeBelongsToForm
<1>1. FormsInv => CodeBelongsToForm
  BY InvParts DEF CodeInv, CodeBelongsToForm
<1> QED
  BY <1>1, FormsInvariant, PTL

\* The availability next to a name at rest was found for that name.
THEOREM ShownNamesWereChecked == Spec => []NameShownWasChecked
<1>1. FormsInv => NameShownWasChecked
  BY InvParts DEF NameInv, NameShownWasChecked, AtRest, NoneChecked
<1> QED
  BY <1>1, FormsInvariant, PTL

\* Who waits for the name's checks before asking for a code can complete the
\* signup once the code is entered.
THEOREM SignupsCanBeCompleted == Spec => []SignupIsNotStuck
<1>1. FormsInv => SignupIsNotStuck
  <2> SUFFICES ASSUME FormsInv, AtRest, form.token # None, ~form.early
               PROVE  CanComplete
    BY DEF SignupIsNotStuck
  <2>1. page = "signup_otp" /\ form.sent
    BY InvParts DEF CodeInv
  <2>2. form.avail = TRUE /\ IsLong(form.id)
    BY <2>1, InvParts DEF LockInv
  <2> QED
    BY <2>2 DEF CanComplete
<1> QED
  BY <1>1, FormsInvariant, PTL
=============================================================================
