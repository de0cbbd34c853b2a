--------------------------- MODULE AccountsProofs ---------------------------
(***************************************************************************)
(* What holds of accounts for any names, addresses, times and numbers of   *)
(* concurrent requests.                                                    *)
(***************************************************************************)
EXTENDS Accounts, TLAPS

-----------------------------------------------------------------------------
(* Types.                                                                  *)

Stored == [code: 0..MaxCodes, until: Times]

MailOK ==
    /\ otp \in [Emails -> Stored] /\ send \in [Senders -> Sends]
    /\ codes \in 0..MaxCodes /\ mailbox \in [Emails -> 0..MaxCodes] /\ mixed \subseteq Emails
ProofsOK == token \in [Emails -> Times] /\ cookie \in [Emails -> Times] /\ verified \subseteq Emails
DocsOK   == users \subseteq Docs /\ \A d, e \in users : d.id = e.id => d = e
RestOK   == time \in Seconds /\ req \in [Requests -> Calls] /\ session \subseteq Seconds

LEMMA TypeParts ==
    /\ TypeOK <=> MailOK /\ ProofsOK /\ DocsOK /\ RestOK
    /\ TypeOK' <=> MailOK' /\ ProofsOK' /\ DocsOK' /\ RestOK'
BY DEF TypeOK, MailOK, ProofsOK, DocsOK, RestOK, Stored

LEMMA TimesAre ==
    /\ Never \in Times /\ 0 \in Seconds /\ Seconds \subseteq Times /\ Seconds \subseteq Ids
    /\ \A s \in Seconds : s + CodeTtl \in Times /\ s + TokenTtl \in Times
BY AccountsAssumption, SMT DEF Never, Times, Seconds, Ids

LEMMA InitTypes == Init => TypeOK
<1> SUFFICES ASSUME Init PROVE MailOK /\ ProofsOK /\ DocsOK /\ RestOK
  BY TypeParts
<1>1. NoCode \in Stored /\ NoSend \in Sends /\ NoCall \in Calls
  BY AccountsAssumption, TimesAre DEF NoCode, Stored, Sends, Calls
<1>2. 0 \in 0..MaxCodes
  BY AccountsAssumption
<1> QED
  BY <1>1, <1>2, TimesAre DEF Init, MailOK, ProofsOK, DocsOK, RestOK

\* The primary key: a document with an id of its own may be added.
LEMMA DocAdded ==
    ASSUME TypeOK, NEW doc \in Docs, \A d \in users : d.id # doc.id, users' = users \cup {doc}
    PROVE  DocsOK'
BY TypeParts DEF DocsOK

LEMMA MailTypes ==
    ASSUME TypeOK, Mailing
    PROVE  TypeOK'
<1> USE TypeParts DEF MailOK
<1>1. ASSUME NEW s \in Senders, NEW e \in CodeEmails, SendOTPEmail(s, e)
      PROVE  MailOK'
  <2>1. codes' \in 0..MaxCodes
    BY <1>1, AccountsAssumption DEF SendOTPEmail
  <2>2. e \in Emails
    BY AccountsAssumption
  <2>3. [pc |-> "begin", email |-> e, code |-> codes'] \in Sends
    BY <2>1, <2>2 DEF Sends
  <2> QED
    BY <1>1, <2>1, <2>2, <2>3 DEF SendOTPEmail
<1>2. ASSUME NEW s \in Senders, StoreOTP(s)
      PROVE  MailOK'
  <2>1. send[s] \in Sends
    OBVIOUS
  <2>2. [code |-> send[s].code, until |-> time + CodeTtl] \in Stored
    BY <1>2, <2>1, TimesAre DEF StoreOTP, Sends, NoSend, Stored, RestOK
  <2>3. [send[s] EXCEPT !.pc = "stored"] \in Sends
    BY <1>2, <2>1 DEF StoreOTP, Sends, NoSend
  <2>4. send' \in [Senders -> Sends]
    BY <1>2, <2>3 DEF StoreOTP
  <2>5. otp' \in [Emails -> Stored]
    BY <1>2, <2>2 DEF StoreOTP
  <2> QED
    BY <1>2, <2>4, <2>5 DEF StoreOTP
<1>3. ASSUME NEW s \in Senders, MailArrives(s) \/ SendFails(s)
      PROVE  MailOK'
  <2>1. send[s] \in Sends /\ NoSend \in Sends
    BY DEF Sends
  <2>2. send[s].email \in Emails /\ send[s].code \in 0..MaxCodes
    BY <1>3, <2>1 DEF MailArrives, SendFails, Sends, NoSend
  <2>3. send' \in [Senders -> Sends]
    BY <1>3, <2>1 DEF MailArrives, SendFails
  <2>4. mailbox' \in [Emails -> 0..MaxCodes]
    BY <1>3, <2>2 DEF MailArrives, SendFails
  <2>5. otp' = otp /\ codes' = codes
    BY <1>3 DEF MailArrives, SendFails
  <2>6. mixed' \subseteq Emails
    BY <1>3, <2>2 DEF MailArrives, SendFails
  <2> QED
    BY <2>3, <2>4, <2>5, <2>6
<1>4. ASSUME NEW e \in Emails, VerifyOTP(e)
      PROVE  MailOK' /\ ProofsOK'
  BY <1>4, TimesAre DEF VerifyOTP, mail, ProofsOK, RestOK
<1>5. ASSUME MailOK', UNCHANGED <<time, users, token, cookie, req, session, verified>>
      PROVE  TypeOK'
  BY <1>5 DEF ProofsOK, DocsOK, RestOK
<1>6. ASSUME NEW e \in Emails, VerifyOTP(e)
      PROVE  TypeOK'
  <2>1. DocsOK' /\ RestOK'
    BY <1>6 DEF VerifyOTP, DocsOK, RestOK
  <2> QED
    BY <1>4, <1>6, <2>1
<1>7. ASSUME NEW s \in Senders, NEW e \in CodeEmails, SendOTPEmail(s, e)
      PROVE  TypeOK'
  BY <1>1, <1>5, <1>7 DEF SendOTPEmail
<1>8. ASSUME NEW s \in Senders, StoreOTP(s) \/ MailArrives(s) \/ SendFails(s)
      PROVE  TypeOK'
  BY <1>2, <1>3, <1>5, <1>8 DEF StoreOTP, MailArrives, SendFails
<1> QED
  BY <1>6, <1>7, <1>8 DEF Mailing

\* What Note leaves: the calls, with nothing but their "seen" changed.
LEMMA NoteCalls ==
    ASSUME TypeOK, NEW r, NEW ids \in SUBSET Ids
    PROVE  /\ Note(r, ids) \in [Requests -> Calls]
           /\ \A q \in Requests :
                \/ Note(r, ids)[q] = NoCall
                \/ /\ Note(r, ids)[q].pc = req[q].pc /\ Note(r, ids)[q].name = req[q].name
                   /\ Note(r, ids)[q].email = req[q].email
                   /\ Note(r, ids)[q].proven = req[q].proven
                   /\ req[q].seen \subseteq Note(r, ids)[q].seen
                   /\ req[q].pc \in {"named", "mailed"} => ids \subseteq Note(r, ids)[q].seen
           /\ \A q \in Requests : q # r /\ req[q].pc # "idle" => Note(r, ids)[q] # NoCall
           /\ \A q \in Requests : Note(r, ids)[q] # NoCall => req[q] # NoCall
           /\ r \in Requests => Note(r, ids)[r] = NoCall
<1> DEFINE grown(q) == [req[q] EXCEPT !.seen = @ \cup ids]
<1>1. \A q \in Requests : req[q] \in Calls
  BY TypeParts DEF RestOK
<1>2. \A q \in Requests : Note(r, ids)[q] =
        IF q = r THEN NoCall ELSE IF req[q].pc \in {"named", "mailed"} THEN grown(q) ELSE req[q]
  BY DEF Note
<1>3. ASSUME NEW q \in Requests, req[q].pc \in {"named", "mailed"}
      PROVE  /\ grown(q) \in Calls /\ grown(q) # NoCall
             /\ grown(q).pc = req[q].pc /\ grown(q).name = req[q].name
             /\ grown(q).email = req[q].email /\ grown(q).proven = req[q].proven
             /\ grown(q).seen = req[q].seen \cup ids /\ req[q] # NoCall
  <2>1. req[q] \in [pc: {"begin", "named", "mailed"}, name: Names, email: Emails,
                    seen: SUBSET Ids, proven: BOOLEAN]
    BY <1>1, <1>3 DEF Calls, NoCall
  <2> QED
    BY <1>3, <2>1 DEF Calls, NoCall
<1>4. NoCall \in Calls
  BY DEF Calls
<1>5. Note(r, ids) \in [Requests -> Calls]
  <2>1. \A q \in Requests : Note(r, ids)[q] \in Calls
    BY <1>1, <1>2, <1>3, <1>4
  <2> QED
    BY <2>1 DEF Note
<1>6. \A q \in Requests : req[q].pc # "idle" => req[q] # NoCall
  BY DEF NoCall
<1> HIDE DEF grown
<1> QED
  BY <1>2, <1>3, <1>5, <1>6

LEMMA SignupTypes ==
    ASSUME TypeOK, Signup
    PROVE  TypeOK'
<1> USE TypeParts
<1> SUFFICES ASSUME NEW r \in Requests,
                    \/ \E n \in Names, e \in Emails : Begins(r, n, e)
                    \/ FindUsername(r) \/ FindEmail(r) \/ InsertUser(r) \/ SignupFails(r)
             PROVE  TypeOK'
  BY DEF Signup, SignupWithOTP, CompleteGoogleSignup
<1>1. ASSUME req' \in [Requests -> Calls],
             UNCHANGED <<time, users, token, cookie, session, verified, mail>>
      PROVE  TypeOK'
  BY <1>1 DEF mail, MailOK, ProofsOK, DocsOK, RestOK
<1>2. req[r] \in Calls
  BY DEF RestOK
<1>3. ASSUME NEW n \in Names, NEW e \in Emails, Begins(r, n, e)
      PROVE  TypeOK'
  <2>1. [pc |-> "begin", name |-> n, email |-> e, seen |-> {}, proven |-> e \in verified] \in Calls
    BY DEF Calls
  <2> QED
    BY <1>1, <1>3, <2>1 DEF Begins, RestOK
<1>4. CASE FindUsername(r) \/ FindEmail(r)
  <2>1. ASSUME NEW p \in {"named", "mailed"}
        PROVE  [req[r] EXCEPT !.pc = p] \in Calls
    BY <1>2, <1>4 DEF Calls, NoCall, FindUsername, FindEmail
  <2> QED
    BY <1>1, <1>4, <2>1 DEF FindUsername, FindEmail, RestOK
<1>5. CASE SignupFails(r)
  BY <1>1, <1>5 DEF SignupFails, RestOK, Calls
<1>6. CASE InsertUser(r)
  <2> DEFINE new == [id |-> time, name |-> req[r].name, email |-> req[r].email, live |-> TRUE,
                     alongside |-> req[r].seen, moved |-> FALSE, proven |-> req[r].proven]
  <2>1. time \in Ids /\ time \in Seconds
    BY TimesAre DEF RestOK
  <2>2. new \in Docs
    BY <1>2, <1>6, <2>1 DEF InsertUser, Docs, Calls, NoCall
  <2>3. DocsOK'
    <3>1. users' = users \cup {new} /\ new.id = time /\ \A d \in users : d.id # time
      BY <1>6 DEF InsertUser
    <3> HIDE DEF new
    <3> QED
      BY <2>2, <3>1, DocAdded
  <2>4. req' \in [Requests -> Calls]
    BY <1>6, <2>1, NoteCalls DEF InsertUser
  <2>5. session' \subseteq Seconds /\ time' = time
    BY <1>6, <2>1 DEF InsertUser, RestOK
  <2> QED
    BY <1>6, <2>3, <2>4, <2>5 DEF InsertUser, mail, MailOK, ProofsOK, RestOK
<1> QED
  BY <1>3, <1>4, <1>5, <1>6

LEMMA SessionTypes ==
    ASSUME TypeOK, Sessions
    PROVE  TypeOK'
<1> USE TypeParts
<1>1. ASSUME NEW ds, LogIn(ds)
      PROVE  TypeOK'
  BY <1>1 DEF LogIn, FetchUser, mail, MailOK, ProofsOK, DocsOK, RestOK
<1>2. ASSUME NEW e \in GoogleEmails, GoogleCallback(e)
      PROVE  TypeOK'
  <2>1. e \in Emails /\ time + TokenTtl \in Times
    BY AccountsAssumption, TimesAre DEF RestOK
  <2>2. ProofsOK'
    BY <1>2, <2>1 DEF GoogleCallback, ProofsOK
  <2>3. session' \subseteq Seconds
    BY <1>2 DEF GoogleCallback, FetchUser, RestOK
  <2> QED
    BY <1>2, <2>2, <2>3 DEF GoogleCallback, mail, MailOK, DocsOK, RestOK
<1> QED
  BY <1>1, <1>2 DEF Sessions, Login, LoginWithOTP, LoginWithOTPUsername

LEMMA ChangeTypes ==
    ASSUME TypeOK, Changes
    PROVE  TypeOK'
<1> USE TypeParts
<1>1. ASSUME NEW e \in ResetEmails, ResetPassword(e)
      PROVE  TypeOK'
  <2>1. e \in Emails /\ e \in Ids
    BY AccountsAssumption DEF Ids
  <2> DEFINE new == [id |-> e, name |-> None, email |-> e, live |-> TRUE,
                     alongside |-> {}, moved |-> FALSE, proven |-> FALSE]
  <2>2. new \in Docs
    BY <2>1 DEF Docs
  <2>3. DocsOK'
    <3>1. users' = users \cup {new} /\ new.id = e /\ \A d \in users : d.id # e
      BY <1>1 DEF ResetPassword
    <3> HIDE DEF new
    <3> QED
      BY <2>2, <3>1, DocAdded
  <2>4. req' \in [Requests -> Calls]
    BY <1>1, <2>1, NoteCalls DEF ResetPassword
  <2> QED
    BY <1>1, <2>3, <2>4 DEF ResetPassword, mail, MailOK, ProofsOK, RestOK
<1>2. ASSUME NEW d \in users, NEW new \in Docs, new.id = d.id, Replace(d, new)
      PROVE  TypeOK'
  <2>1. DocsOK'
    BY <1>2 DEF Replace, DocsOK
  <2>2. MailOK' /\ ProofsOK'
    BY <1>2 DEF Replace, mail, MailOK, ProofsOK
  <2>3. RestOK'
    BY <1>2 DEF Replace, mail, RestOK
  <2> QED
    BY <2>1, <2>2, <2>3
<1>3. ASSUME NEW d \in users, NEW n \in Names, NEW e \in Emails
      PROVE  /\ [d EXCEPT !.name = n, !.email = e, !.moved = TRUE] \in Docs
             /\ [d EXCEPT !.name = n, !.email = e, !.moved = TRUE].id = d.id
  BY DEF DocsOK, Docs
<1>4. ASSUME NEW d \in users
      PROVE  [d EXCEPT !.live = FALSE] \in Docs /\ [d EXCEPT !.live = FALSE].id = d.id
  BY DEF DocsOK, Docs
<1>5. ASSUME NEW d \in users, DeleteUser(d)
      PROVE  TypeOK'
  BY <1>2, <1>4, <1>5 DEF DeleteUser
<1>6. ASSUME NEW d \in users, NEW n \in Names, NEW e \in Emails, UpdateUser(d, n, e)
      PROVE  TypeOK'
  BY <1>2, <1>3, <1>6 DEF UpdateUser
<1> QED
  BY <1>1, <1>5, <1>6 DEF Changes

LEMMA NextTypes == TypeOK /\ [Next]_vars => TypeOK'
<1> SUFFICES ASSUME TypeOK, [Next]_vars PROVE TypeOK'
  OBVIOUS
<1> USE TypeParts
<1>1. CASE Tick
  <2>1. time' \in Seconds
    BY <1>1, AccountsAssumption DEF Tick, RestOK, Seconds
  <2> QED
    BY <1>1, <2>1 DEF Tick, mail, MailOK, ProofsOK, DocsOK, RestOK
<1>2. CASE UNCHANGED vars
  BY <1>2 DEF vars, mail, MailOK, ProofsOK, DocsOK, RestOK
<1> QED
  BY <1>1, <1>2, MailTypes, SignupTypes, SessionTypes, ChangeTypes DEF Next

(* Every state is well typed; in particular every session is that of an    *)
(* account that signed up, never of a document a password reset made.      *)
THEOREM AccountTypes == Spec => []TypeOK
BY InitTypes, NextTypes, PTL DEF Spec

-----------------------------------------------------------------------------
(* What a step does to the documents and to the calls that made lookups.   *)

New(r) == [id |-> time, name |-> req[r].name, email |-> req[r].email, live |-> TRUE,
           alongside |-> req[r].seen, moved |-> FALSE, proven |-> req[r].proven]

Upserted(e) == [id |-> e, name |-> None, email |-> e, live |-> TRUE,
                alongside |-> {}, moved |-> FALSE, proven |-> FALSE]

\* A step replaces a live user, adds one, or leaves the documents alone.
LEMMA StepsOfUsers ==
    ASSUME [Next]_vars
    PROVE  \/ users' = users /\ req' = req
           \/ users' = users /\ Signup
           \/ \E r \in Requests : InsertUser(r) /\ users' = users \cup {New(r)}
           \/ \E e \in ResetEmails : ResetPassword(e) /\ users' = users \cup {Upserted(e)}
           \/ \E d \in users, n \in Names, e \in Emails :
                d.live /\ Replace(d, [d EXCEPT !.name = n, !.email = e, !.moved = TRUE])
           \/ \E d \in users : d.live /\ Replace(d, [d EXCEPT !.live = FALSE])
<1>1. CASE UNCHANGED vars \/ Tick
  BY <1>1 DEF vars, Tick
<1>2. CASE Mailing
  BY <1>2 DEF Mailing, SendOTPEmail, StoreOTP, MailArrives, SendFails, VerifyOTP
<1>3. CASE Sessions
  <2>1. ASSUME NEW ds, LogIn(ds)
        PROVE  users' = users /\ req' = req
    BY <2>1 DEF LogIn
  <2> QED
    BY <1>3, <2>1 DEF Sessions, Login, LoginWithOTP, LoginWithOTPUsername, GoogleCallback
<1>4. CASE Changes
  BY <1>4 DEF Changes, ResetPassword, Upserted, UpdateUser, DeleteUser
<1>5. CASE Signup
  <2>1. PICK r \in Requests :
          \/ \E n \in Names, e \in Emails :
               (\E t \in Emails : SignupWithOTP(r, n, e, t)) \/ CompleteGoogleSignup(r, n, e)
          \/ FindUsername(r) \/ FindEmail(r) \/ InsertUser(r) \/ SignupFails(r)
    BY <1>5 DEF Signup
  <2>2. CASE InsertUser(r)
    BY <2>2 DEF InsertUser, New
  <2>3. CASE ~InsertUser(r)
    BY <1>5, <2>1, <2>3 DEF SignupWithOTP, CompleteGoogleSignup, Begins, FindUsername, FindEmail, SignupFails
  <2> QED
    BY <2>2, <2>3
<1> QED
  BY <1>1, <1>2, <1>3, <1>4, <1>5 DEF Next

(* A deleted user is never changed or brought back.                        *)
THEOREM DeletionIsFinal == Spec => DeletedUsersRest
<1>1. ASSUME [Next]_vars
      PROVE  \A d \in users : ~d.live => d \in users'
  BY <1>1, StepsOfUsers DEF Replace
<1> QED
  BY <1>1, PTL DEF Spec, DeletedUsersRest

-----------------------------------------------------------------------------
(* Signup follows verification.                                            *)

\* Tokens and cookies are made by verifications, calls begin with one of them,
\* and documents are made by calls.
ProvenInv ==
    /\ \A e \in Emails : token[e] # Never \/ cookie[e] # Never => e \in verified
    /\ \A r \in Requests : req[r] # NoCall => req[r].proven
    /\ SignupFollowsVerification

LEMMA ProvenStep == TypeOK /\ ProvenInv /\ [Next]_vars => ProvenInv'
<1> SUFFICES ASSUME TypeOK, ProvenInv, [Next]_vars PROVE ProvenInv'
  OBVIOUS
<1> USE DEF ProvenInv
<1>1. \A e \in Emails : token'[e] # Never \/ cookie'[e] # Never => e \in verified'
  <2>1. CASE \E e \in Emails : VerifyOTP(e)
    BY <2>1, TypeParts DEF VerifyOTP, ProofsOK
  <2>2. CASE \E e \in GoogleEmails : GoogleCallback(e)
    BY <2>2, TypeParts DEF GoogleCallback, ProofsOK
  <2>3. CASE UNCHANGED <<token, cookie, verified>>
    BY <2>3
  <2>4. ASSUME NEW ds, LogIn(ds)
        PROVE  UNCHANGED <<token, cookie, verified>>
    BY <2>4 DEF LogIn
  <2>5. Signup => UNCHANGED <<token, cookie, verified>>
    BY DEF Signup, SignupWithOTP, CompleteGoogleSignup, Begins, FindUsername, FindEmail,
           InsertUser, SignupFails
  <2>6. Changes => UNCHANGED <<token, cookie, verified>>
    BY DEF Changes, ResetPassword, UpdateUser, DeleteUser, Replace
  <2>7. Mailing \/ Tick \/ UNCHANGED vars =>
          UNCHANGED <<token, cookie, verified>> \/ \E e \in Emails : VerifyOTP(e)
    BY DEF Mailing, SendOTPEmail, StoreOTP, MailArrives, SendFails, Tick, vars
  <2>8. Sessions => UNCHANGED <<token, cookie, verified>> \/ \E e \in GoogleEmails : GoogleCallback(e)
    BY <2>4 DEF Sessions, Login, LoginWithOTP, LoginWithOTPUsername
  <2> QED
    BY <2>1, <2>2, <2>3, <2>5, <2>6, <2>7, <2>8 DEF Next
<1>2. \A r \in Requests : req'[r] # NoCall => req'[r].proven
  <2>1. ASSUME NEW r \in Requests, NEW n \in Names, NEW e \in Emails,
               \/ \E t \in Emails : SignupWithOTP(r, n, e, t)
               \/ CompleteGoogleSignup(r, n, e)
        PROVE  \A q \in Requests : req'[q] # NoCall => req'[q].proven
    <3>1. token[e] # Never \/ cookie[e] # Never
      BY <2>1, TypeParts DEF SignupWithOTP, CompleteGoogleSignup, Alive, Never, RestOK, Seconds
    <3>2. e \in verified /\ Begins(r, n, e)
      BY <2>1, <3>1 DEF SignupWithOTP, CompleteGoogleSignup
    <3> QED
      BY <3>2, TypeParts DEF Begins, RestOK
  <2>2. ASSUME NEW r \in Requests, FindUsername(r) \/ FindEmail(r) \/ SignupFails(r)
        PROVE  \A q \in Requests : req'[q] # NoCall => req'[q].proven
    <3>1. \/ req' = [req EXCEPT ![r] = NoCall]
          \/ /\ req[r] # NoCall
             /\ \E s \in {"named", "mailed"} : req' = [req EXCEPT ![r] = [req[r] EXCEPT !.pc = s]]
      BY <2>2 DEF FindUsername, FindEmail, SignupFails, NoCall
    <3>2. ASSUME NEW s \in {"named", "mailed"}, req[r] # NoCall
          PROVE  [req[r] EXCEPT !.pc = s].proven = req[r].proven
      BY <3>2, TypeParts DEF RestOK, Calls
    <3>3. req \in [Requests -> Calls]
      BY TypeParts DEF RestOK
    <3>4. req'[r] # NoCall => req'[r].proven
      BY <3>1, <3>2, <3>3
    <3>5. \A q \in Requests \ {r} : req'[q] = req[q]
      BY <3>1, <3>3
    <3> QED
      BY <3>4, <3>5
  <2>3. ASSUME NEW r, NEW ids \in SUBSET Ids, req' = Note(r, ids)
        PROVE  \A q \in Requests : req'[q] # NoCall => req'[q].proven
    BY <2>3, NoteCalls
  <2>4. ASSUME NEW r \in Requests, InsertUser(r)
        PROVE  \A q \in Requests : req'[q] # NoCall => req'[q].proven
    BY <2>3, <2>4, TimesAre, TypeParts DEF InsertUser, RestOK
  <2>5. ASSUME NEW e \in ResetEmails, ResetPassword(e)
        PROVE  \A q \in Requests : req'[q] # NoCall => req'[q].proven
    BY <2>3, <2>5, AccountsAssumption DEF ResetPassword, Ids
  <2>6. Signup => \A q \in Requests : req'[q] # NoCall => req'[q].proven
    BY <2>1, <2>2, <2>4 DEF Signup
  <2> QED
    BY StepsOfUsers, <2>4, <2>5, <2>6 DEF Replace
<1>3. SignupFollowsVerification'
  <2> USE DEF SignupFollowsVerification
  <2>1. ASSUME NEW r \in Requests, InsertUser(r), users' = users \cup {New(r)}
        PROVE  SignupFollowsVerification'
    <3>1. New(r).proven
      BY <2>1 DEF InsertUser, New, NoCall
    <3> QED
      BY <2>1, <3>1
  <2>2. ASSUME NEW e \in ResetEmails, users' = users \cup {Upserted(e)}
        PROVE  SignupFollowsVerification'
    BY <2>2 DEF Upserted
  <2>3. ASSUME NEW d \in users, NEW n \in Names, NEW e \in Emails,
               Replace(d, [d EXCEPT !.name = n, !.email = e, !.moved = TRUE])
        PROVE  SignupFollowsVerification'
    BY <2>3, TypeParts DEF Replace, DocsOK, Docs
  <2>4. ASSUME NEW d \in users, Replace(d, [d EXCEPT !.live = FALSE])
        PROVE  SignupFollowsVerification'
    BY <2>4, TypeParts DEF Replace, DocsOK, Docs
  <2> QED
    BY StepsOfUsers, <2>1, <2>2, <2>3, <2>4
<1> QED
  BY <1>1, <1>2, <1>3

(* No account signs up with an address that was not verified before.       *)
THEOREM SignupsAreVerified == Spec => []SignupFollowsVerification
<1>1. Init => ProvenInv
  BY DEF Init, ProvenInv, SignupFollowsVerification
<1>2. ProvenInv => SignupFollowsVerification
  BY DEF ProvenInv
<1> QED
  BY <1>1, <1>2, ProvenStep, AccountTypes, PTL DEF Spec

-----------------------------------------------------------------------------
(* Names and addresses are shared only by accounts that raced.             *)

\* A call that has found a name free has seen every document that took it
\* since, and so with the address.
Saw(c) ==
    /\ c.pc \in {"named", "mailed"} =>
         \A d \in Live : ~d.moved /\ d.name = c.name => d.id \in c.seen
    /\ c.pc = "mailed" =>
         \A d \in Live : ~d.moved /\ d.email = c.email => d.id \in c.seen

RaceInv == (\A r \in Requests : Saw(req[r])) /\ SharedOnlyIfRaced

LEMMA IdleSaw == Saw(NoCall) /\ Saw(NoCall)'
BY DEF Saw, NoCall

\* A document that appears is seen by the calls it matters to.
LEMMA SawAdded ==
    ASSUME TypeOK, RaceInv, NEW doc, doc.live, doc.id \in Ids, NEW r,
           users' = users \cup {doc}, req' = Note(r, {doc.id})
    PROVE  \A q \in Requests : Saw(req[q])'
<1>1. Live' = Live \cup {doc}
  BY DEF Live
<1> TAKE q \in Requests
<1>2. CASE req'[q] = NoCall
  BY <1>2, IdleSaw DEF Saw, NoCall
<1>3. CASE req'[q] # NoCall
  <2>1. /\ req'[q].pc = req[q].pc /\ req'[q].name = req[q].name /\ req'[q].email = req[q].email
        /\ req[q].seen \subseteq req'[q].seen
        /\ req[q].pc \in {"named", "mailed"} => doc.id \in req'[q].seen
    <3> DEFINE ids == {doc.id}
    <3>1. ids \in SUBSET Ids /\ doc.id \in ids /\ req' = Note(r, ids)
      OBVIOUS
    <3> HIDE DEF ids
    <3>2. \A p \in Requests :
            \/ Note(r, ids)[p] = NoCall
            \/ /\ Note(r, ids)[p].pc = req[p].pc /\ Note(r, ids)[p].name = req[p].name
               /\ Note(r, ids)[p].email = req[p].email
               /\ Note(r, ids)[p].proven = req[p].proven
               /\ req[p].seen \subseteq Note(r, ids)[p].seen
               /\ req[p].pc \in {"named", "mailed"} => ids \subseteq Note(r, ids)[p].seen
      BY <3>1, NoteCalls, Zenon
    <3> QED
      BY <1>3, <3>1, <3>2
  <2> QED
    BY <1>1, <2>1 DEF RaceInv, Saw
<1> QED
  BY <1>2, <1>3

\* A document may be added that has seen all it shares with.
LEMMA SharedAdded ==
    ASSUME RaceInv, NEW doc, doc.live, users' = users \cup {doc},
           \A e \in Live : ~e.moved /\ (e.email = doc.email \/ (e.name = doc.name /\ e.name # None))
                            => e.id \in doc.alongside
    PROVE  SharedOnlyIfRaced'
BY DEF RaceInv, SharedOnlyIfRaced, Live

\* A document may be replaced by one that is deleted or moved.
LEMMA RaceReplaced ==
    ASSUME RaceInv, NEW d \in users, NEW new, ~new.live \/ new.moved, Replace(d, new)
    PROVE  RaceInv'
<1>1. \A e \in Live' : e \in Live \/ e.moved
  BY DEF Live, Replace
<1>2. req' = req
  BY DEF Replace
<1> QED
  BY <1>1, <1>2 DEF RaceInv, Saw, SharedOnlyIfRaced

LEMMA RaceStep == TypeOK /\ RaceInv /\ [Next]_vars => RaceInv'
<1> SUFFICES ASSUME TypeOK, RaceInv, [Next]_vars PROVE RaceInv'
  OBVIOUS
<1>1. CASE users' = users /\ req' = req
  BY <1>1 DEF RaceInv, Saw, SharedOnlyIfRaced, Live
<1>2. ASSUME NEW r \in Requests, InsertUser(r), users' = users \cup {New(r)}
      PROVE  RaceInv'
  <2>1. New(r).live /\ New(r).id = time /\ time \in Ids
    BY TypeParts, TimesAre DEF New, RestOK
  <2>2. /\ New(r).name = req[r].name /\ New(r).email = req[r].email
        /\ New(r).alongside = req[r].seen
    BY DEF New
  <2>3. Saw(req[r]) /\ req[r].pc = "mailed" /\ req' = Note(r, {time})
    BY <1>2 DEF InsertUser, RaceInv
  <2>4. \A e \in Live : ~e.moved /\ (e.email = New(r).email \/ e.name = New(r).name)
                            => e.id \in New(r).alongside
    BY <2>2, <2>3 DEF Saw
  <2>5. SharedOnlyIfRaced'
    BY <1>2, <2>1, <2>4, SharedAdded
  <2>6. \A q \in Requests : Saw(req[q])'
    BY <1>2, <2>1, <2>3, SawAdded
  <2> QED
    BY <2>5, <2>6 DEF RaceInv
<1>3. ASSUME NEW e \in ResetEmails, ResetPassword(e), users' = users \cup {Upserted(e)}
      PROVE  RaceInv'
  <2>1. /\ Upserted(e).live /\ Upserted(e).id = e /\ e \in Ids
        /\ Upserted(e).name = None /\ Upserted(e).email = e
    BY AccountsAssumption DEF Upserted, Ids
  <2>2. Mailed(e) = {} /\ req' = Note(None, {e})
    BY <1>3 DEF ResetPassword
  <2>3. SharedOnlyIfRaced'
    BY <1>3, <2>1, <2>2, SharedAdded DEF Mailed
  <2>4. \A q \in Requests : Saw(req[q])'
    BY <1>3, <2>1, <2>2, SawAdded
  <2> QED
    BY <2>3, <2>4 DEF RaceInv
<1>4. CASE users' = users /\ Signup
  <2>1. Live' = Live /\ SharedOnlyIfRaced'
    BY <1>4 DEF RaceInv, SharedOnlyIfRaced, Live
  <2>2. PICK r \in Requests :
          \/ \E n \in Names, e \in Emails : Begins(r, n, e)
          \/ FindUsername(r) \/ FindEmail(r) \/ InsertUser(r) \/ SignupFails(r)
    BY <1>4 DEF Signup, SignupWithOTP, CompleteGoogleSignup
  <2>3. CASE InsertUser(r)
    BY <1>2, <2>3 DEF InsertUser, New
  <2>4. CASE ~InsertUser(r)
    <3>1. req \in [Requests -> Calls]
      BY TypeParts DEF RestOK
    <3>2. \A q \in Requests \ {r} : req'[q] = req[q]
      BY <2>2, <2>4, <3>1 DEF Begins, FindUsername, FindEmail, SignupFails
    <3>3. Saw(req[r])'
      <4>1. CASE \E n \in Names, e \in Emails : Begins(r, n, e)
        BY <3>1, <4>1 DEF Begins, Saw
      <4>2. CASE SignupFails(r)
        BY <3>1, <4>2, IdleSaw DEF SignupFails, Saw, NoCall
      <4>3. ASSUME NEW s \in {"named", "mailed"}, req[r] # NoCall
            PROVE  LET c == [req[r] EXCEPT !.pc = s]
                   IN  c.pc = s /\ c.name = req[r].name /\ c.email = req[r].email /\ c.seen = req[r].seen
        BY <3>1, <4>3 DEF Calls
      <4>4. CASE FindUsername(r)
        <5>1. Named(req[r].name) = {} /\ req'[r] = [req[r] EXCEPT !.pc = "named"] /\ req[r] # NoCall
          BY <3>1, <4>4 DEF FindUsername, NoCall
        <5>2. req'[r].pc = "named" /\ req'[r].name = req[r].name
          BY <4>3, <5>1
        <5> QED
          BY <2>1, <5>1, <5>2 DEF Saw, Named
      <4>5. CASE FindEmail(r)
        <5>1. /\ Mailed(req[r].email) = {} /\ req'[r] = [req[r] EXCEPT !.pc = "mailed"]
              /\ req[r] # NoCall /\ req[r].pc = "named"
          BY <3>1, <4>5 DEF FindEmail, NoCall
        <5>2. /\ req'[r].pc = "mailed" /\ req'[r].name = req[r].name
              /\ req'[r].email = req[r].email /\ req'[r].seen = req[r].seen
          BY <4>3, <5>1
        <5> QED
          BY <2>1, <5>1, <5>2 DEF Saw, Mailed, RaceInv
      <4> QED
        BY <2>2, <2>4, <4>1, <4>2, <4>4, <4>5
    <3>4. \A q \in Requests \ {r} : Saw(req[q])'
      BY <2>1, <3>2 DEF RaceInv, Saw
    <3> QED
      BY <2>1, <3>3, <3>4 DEF RaceInv
  <2> QED
    BY <2>3, <2>4
<1>5. ASSUME NEW d \in users, NEW n \in Names, NEW e \in Emails,
             Replace(d, [d EXCEPT !.name = n, !.email = e, !.moved = TRUE])
      PROVE  RaceInv'
  <2>1. [d EXCEPT !.name = n, !.email = e, !.moved = TRUE].moved
    BY TypeParts DEF DocsOK, Docs
  <2> QED
    BY <1>5, <2>1, RaceReplaced
<1>6. ASSUME NEW d \in users, Replace(d, [d EXCEPT !.live = FALSE])
      PROVE  RaceInv'
  <2>1. ~[d EXCEPT !.live = FALSE].live
    BY TypeParts DEF DocsOK, Docs
  <2> QED
    BY <1>6, <2>1, RaceReplaced
<1> QED
  BY StepsOfUsers, <1>1, <1>2, <1>3, <1>4, <1>5, <1>6

(* Only accounts that were renamed, or whose signups overlapped, share a   *)
(* name or an address.                                                     *)
THEOREM SharingNeedsARace == Spec => []SharedOnlyIfRaced
<1>1. Init => RaceInv
  BY DEF Init, RaceInv, Saw, SharedOnlyIfRaced, Live, NoCall
<1>2. RaceInv => SharedOnlyIfRaced
  BY DEF RaceInv
<1> QED
  BY <1>1, <1>2, RaceStep, AccountTypes, PTL DEF Spec

-----------------------------------------------------------------------------
(* Codes by mail.                                                          *)

\* An address has one send under way, unless sends have overlapped or failed;
\* the code stored for it is that of the send once it is stored, and that of
\* the last mail before.
OneSend(e) ==
    /\ \A s, t \in Sending(e) : s = t
    /\ \A s \in Sending(e) : send[s].pc = "stored" => otp[e].code = send[s].code
    /\ mailbox[e] # 0 /\ (\A s \in Sending(e) : send[s].pc = "begin") => otp[e].code = mailbox[e]

MailInv == \A e \in Emails \ mixed : OneSend(e)

LEMMA SendIs ==
    ASSUME TypeOK, NEW s \in Senders
    PROVE  /\ send[s].pc \in {"idle", "begin", "stored"}
           /\ send[s].pc = "idle" <=> send[s].email = None
           /\ send[s].pc # "idle" => send[s].email \in Emails
           /\ NoSend.email = None /\ None \notin Emails
<1>1. send[s] \in Sends
  BY TypeParts DEF MailOK
<1> QED
  BY <1>1, AccountsAssumption DEF Sends, NoSend

\* A step of a send for one address says nothing of the others.
LEMMA OtherAddress ==
    ASSUME TypeOK, NEW s \in Senders, NEW e \in Emails, NEW f \in Emails \ {e}, OneSend(f),
           \A t \in Senders \ {s} : send'[t] = send[t],
           send[s].email \in {e, None}, send'[s].email \in {e, None},
           otp'[f] = otp[f], mailbox'[f] = mailbox[f]
    PROVE  OneSend(f)'
<1>1. Sending(f)' = Sending(f) /\ \A t \in Sending(f) : send'[t] = send[t]
  BY AccountsAssumption DEF Sending
<1> QED
  BY <1>1 DEF OneSend

LEMMA SendOTPEmailStep ==
    ASSUME TypeOK, MailInv, NEW s \in Senders, NEW e \in Emails, SendOTPEmail(s, e)
    PROVE  MailInv'
<1>1. send \in [Senders -> Sends] /\ send[s].email = None /\ e # None
  BY SendIs, TypeParts DEF SendOTPEmail, MailOK
<1>2. /\ send'[s].pc = "begin" /\ send'[s].email = e
      /\ \A t \in Senders \ {s} : send'[t] = send[t]
      /\ mixed' = IF Sending(e) = {} THEN mixed ELSE mixed \cup {e}
      /\ UNCHANGED <<otp, mailbox>>
  BY <1>1 DEF SendOTPEmail
<1>3. ASSUME e \notin mixed'
      PROVE  OneSend(e)'
  <2>1. Sending(e) = {} /\ e \notin mixed
    BY <1>2, <1>3
  <2>2. Sending(e)' = {s}
    BY <1>2, <2>1 DEF Sending
  <2>3. mailbox[e] # 0 => otp[e].code = mailbox[e]
    BY <2>1 DEF MailInv, OneSend
  <2> QED
    BY <1>2, <2>2, <2>3 DEF OneSend
<1>4. ASSUME NEW f \in Emails \ {e}, f \notin mixed'
      PROVE  OneSend(f)'
  <2>1. OneSend(f)
    BY <1>2, <1>4 DEF MailInv
  <2> QED
    BY <1>1, <1>2, <2>1, OtherAddress
<1> QED
  BY <1>3, <1>4 DEF MailInv

LEMMA StoreOTPStep ==
    ASSUME TypeOK, MailInv, NEW s \in Senders, StoreOTP(s)
    PROVE  MailInv'
<1> DEFINE e == send[s].email
<1>1. send[s] \in Sends /\ send[s].pc = "begin" /\ e \in Emails /\ otp \in [Emails -> Stored]
      /\ send \in [Senders -> Sends]
  BY SendIs, TypeParts DEF StoreOTP, MailOK
<1>2. [send[s] EXCEPT !.pc = "stored"].pc = "stored"
      /\ [send[s] EXCEPT !.pc = "stored"].email = send[s].email
      /\ [send[s] EXCEPT !.pc = "stored"].code = send[s].code
  BY <1>1 DEF Sends, NoSend
<1>3. /\ send'[s].pc = "stored" /\ send'[s].email = send[s].email /\ send'[s].code = send[s].code
      /\ \A t \in Senders \ {s} : send'[t] = send[t]
      /\ otp'[send[s].email].code = send[s].code /\ UNCHANGED <<mailbox, mixed>>
      /\ \A f \in Emails \ {send[s].email} : otp'[f] = otp[f]
  BY <1>1, <1>2 DEF StoreOTP
<1> PICK a \in Emails : a = send[s].email
  BY <1>1
<1>4. ASSUME a \notin mixed
      PROVE  OneSend(a)'
  <2>1. OneSend(a) /\ s \in Sending(a)
    BY <1>4 DEF MailInv, Sending
  <2>2. Sending(a) = {s}
    BY <2>1 DEF OneSend
  <2>3. Sending(a)' = {s}
    BY <1>3, <2>2 DEF Sending
  <2> QED
    BY <1>3, <2>3 DEF OneSend
<1>5. ASSUME NEW f \in Emails \ {a}, f \notin mixed
      PROVE  OneSend(f)'
  <2>1. OneSend(f)
    BY <1>5 DEF MailInv
  <2> QED
    BY <1>3, <2>1, OtherAddress
<1> QED
  BY <1>3, <1>4, <1>5 DEF MailInv

LEMMA SendEndsStep ==
    ASSUME TypeOK, MailInv, NEW s \in Senders, MailArrives(s) \/ SendFails(s)
    PROVE  MailInv'
<1>1. /\ send \in [Senders -> Sends] /\ send[s].pc # "idle" /\ send[s].email \in Emails
      /\ mailbox \in [Emails -> 0..MaxCodes] /\ NoSend.email = None /\ None \notin Emails
  BY SendIs, TypeParts DEF MailArrives, SendFails, MailOK
<1>2. send'[s] = NoSend /\ \A t \in Senders \ {s} : send'[t] = send[t]
  BY <1>1 DEF MailArrives, SendFails
<1> PICK a \in Emails : a = send[s].email
  BY <1>1
<1>3. s \in Sending(a) /\ Sending(a)' = Sending(a) \ {s}
  BY <1>1, <1>2 DEF Sending
<1>4. UNCHANGED otp /\ (\A f \in Emails \ {a} : mailbox'[f] = mailbox[f])
      /\ (mixed' \cup {a} = mixed \cup {a})
  BY <1>1 DEF MailArrives, SendFails
<1>5. ASSUME NEW f \in Emails \ {a}, f \notin mixed'
      PROVE  OneSend(f)'
  <2>1. OneSend(f)
    BY <1>4, <1>5 DEF MailInv
  <2> QED
    BY <1>2, <1>1, <1>4, <2>1, OtherAddress
<1>6. ASSUME a \notin mixed'
      PROVE  Sending(a) = {s} /\ (mailbox'[a] # 0 => otp[a].code = mailbox'[a])
  <2>1. CASE SendFails(s)
    <3>1. send[s].pc = "begin" /\ a \notin mixed /\ UNCHANGED mailbox
      BY <1>6, <2>1, SendIs DEF SendFails
    <3>2. OneSend(a)
      BY <3>1 DEF MailInv
    <3>3. Sending(a) = {s}
      BY <1>3, <3>2 DEF OneSend
    <3> QED
      BY <3>1, <3>2, <3>3 DEF OneSend
  <2>2. CASE MailArrives(s)
    <3>1. mailbox'[a] = send[s].code /\ send[s].pc = "stored"
      BY <1>1, <2>2 DEF MailArrives
    <3>2. CASE a \in mixed
      BY <1>6, <2>2, <3>1, <3>2 DEF MailArrives
    <3>3. CASE a \notin mixed
      BY <1>3, <3>1, <3>3 DEF MailInv, OneSend
    <3> QED
      BY <3>2, <3>3
  <2> QED
    BY <2>1, <2>2
<1>7. ASSUME a \notin mixed'
      PROVE  OneSend(a)'
  <2>1. Sending(a)' = {}
    BY <1>3, <1>6, <1>7
  <2> QED
    BY <1>4, <1>6, <1>7, <2>1 DEF OneSend
<1> QED
  BY <1>5, <1>7 DEF MailInv

LEMMA MailStep == TypeOK /\ MailInv /\ [Next]_vars => MailInv'
<1> SUFFICES ASSUME TypeOK, MailInv, [Next]_vars
             PROVE  MailInv'
  OBVIOUS
<1>1. CASE UNCHANGED mail
  BY <1>1 DEF mail, MailInv, OneSend, Sending
<1>2. CASE Mailing /\ ~UNCHANGED mail
  <2>1. PICK s \in Senders :
          (\E e \in CodeEmails : SendOTPEmail(s, e)) \/ StoreOTP(s) \/ MailArrives(s) \/ SendFails(s)
    BY <1>2 DEF Mailing, VerifyOTP
  <2> QED
    BY <2>1, AccountsAssumption, SendOTPEmailStep, StoreOTPStep, SendEndsStep
<1>3. CASE Tick \/ Signup \/ Sessions \/ Changes
  BY <1>1, <1>3 DEF Tick, Signup, SignupWithOTP, CompleteGoogleSignup, Begins, FindUsername, FindEmail,
                    InsertUser, SignupFails, Sessions, Login, LogIn, LoginWithOTP, LoginWithOTPUsername,
                    GoogleCallback, Changes, ResetPassword, DeleteUser, UpdateUser, Replace
<1> QED
  BY <1>1, <1>2, <1>3 DEF Next, vars, mail

\* The code in the last mail is accepted until it expires, unless the sends for
\* that address have overlapped or failed since.
THEOREM MailedCodesAreAccepted == Spec => []LastMailHoldsTheCode
<1>1. Init => MailInv
  <2>1. Init => \A e \in Emails : mailbox[e] = 0 /\ Sending(e) = {}
    BY AccountsAssumption DEF Init, Sending, NoSend
  <2> QED
    BY <2>1 DEF MailInv, OneSend
<1>2. MailInv => LastMailHoldsTheCode
  BY DEF MailInv, OneSend, LastMailHoldsTheCode, CodeIsValid
<1> QED
  BY <1>1, <1>2, MailStep, AccountTypes, PTL DEF Spec
=============================================================================
