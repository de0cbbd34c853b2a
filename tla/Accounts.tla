------------------------------ MODULE Accounts ------------------------------
(***************************************************************************)
(* User documents in MongoDB and the codes, tokens and cookies that lead   *)
(* to them: pkg/mailing, pkg/middleware and the writes of pkg/user.        *)
(*                                                                         *)
(* MongoDB has no unique index on names or addresses.  CreateUser looks up *)
(* the name, then the address, then inserts, with an id made of the second *)
(* it runs in; the primary key alone is unique.  UsernameFilter models     *)
(* what CreateUser does to the filter.                                     *)
(*                                                                         *)
(* Passwords, roles and the contents of sessions are left out.  Codes are  *)
(* numbers, and no two are the same.  "seen", "alongside", "moved",        *)
(* "proven", "verified" and "mixed" are history variables and fields.      *)
(***************************************************************************)
EXTENDS Integers, FiniteSets

CONSTANTS
    Names, Emails,
    CodeEmails,   \* bound: addresses that codes are sent to
    GoogleEmails, \* addresses of Google accounts
    ResetEmails,  \* bound: addresses that passwords are reset for
    Requests,     \* concurrent calls of CreateUser
    Senders,      \* concurrent calls of GetOTP
    CodeTtl,      \* expiredTimeOUT, 2 minutes
    TokenTtl,     \* 10 minutes, of tokens and of the Google cookie alike
    MaxTime,      \* bound: seconds, and the ids made of them
    MaxCodes,     \* bound: codes generated
    None

ASSUME AccountsAssumption ==
    /\ CodeTtl \in Nat /\ TokenTtl \in Nat /\ MaxTime \in Nat /\ MaxCodes \in Nat
    /\ None \notin Names \cup Emails \cup Requests
    /\ CodeEmails \cup GoogleEmails \cup ResetEmails \subseteq Emails
    /\ Emails \cap Int = {}

VARIABLES
    time,
    users,        \* MongoDB: the documents of the users collection
    otp,          \* Redis: otp:<email>
    token,        \* Redis: until when the latest otp_verified token of an address lasts
    cookie,       \* until when the latest google_email_pending of an address lasts
    req,          \* the CreateUser calls and the handlers around them
    send,         \* the GetOTP calls
    codes,        \* codes generated so far
    mailbox,      \* the code of the last mail to an address
    session,      \* ids that token pairs were made for
    verified,     \* addresses verified by a code or by Google
    mixed         \* addresses with sends that failed or overlapped

mail   == <<otp, send, codes, mailbox, mixed>>
vars   == <<time, users, token, cookie, req, session, verified, mail>>

Never    == -1
Times    == Never .. MaxTime + CodeTtl + TokenTtl
Seconds  == 0 .. MaxTime
Ids      == Seconds \cup Emails    \* an ObjectID, for a document made by an upsert
NoCode   == [code |-> 0, until |-> Never]
NoCall   == [pc |-> "idle", name |-> None, email |-> None, seen |-> {}, proven |-> FALSE]
NoSend   == [pc |-> "idle", email |-> None, code |-> 0]
Calls    == {NoCall} \cup [pc: {"begin", "named", "mailed"}, name: Names, email: Emails,
                           seen: SUBSET Ids, proven: BOOLEAN]
Sends    == {NoSend} \cup [pc: {"begin", "stored"}, email: Emails, code: 0..MaxCodes]
Docs     == [id: Ids, name: Names \cup {None}, email: Emails, live: BOOLEAN,
             alongside: SUBSET Ids, moved: BOOLEAN, proven: BOOLEAN]

TypeOK ==
    /\ time \in Seconds
    /\ users \subseteq Docs /\ \A d, e \in users : d.id = e.id => d = e
    /\ otp \in [Emails -> [code: 0..MaxCodes, until: Times]]
    /\ token \in [Emails -> Times] /\ cookie \in [Emails -> Times]
    /\ verified \subseteq Emails
    /\ req \in [Requests -> Calls] /\ send \in [Senders -> Sends]
    /\ codes \in 0..MaxCodes /\ mailbox \in [Emails -> 0..MaxCodes]
    /\ session \subseteq Seconds
    /\ mixed \subseteq Emails

Live        == {d \in users : d.live}
Named(n)    == {d \in Live : d.name = n}
Mailed(e)   == {d \in Live : d.email = e}
Alive(t)    == time < t

Init ==
    /\ time = 0 /\ users = {}
    /\ otp = [e \in Emails |-> NoCode]
    /\ token = [e \in Emails |-> Never] /\ cookie = [e \in Emails |-> Never]
    /\ req = [r \in Requests |-> NoCall] /\ send = [s \in Senders |-> NoSend]
    /\ codes = 0 /\ mailbox = [e \in Emails |-> 0]
    /\ session = {} /\ verified = {} /\ mixed = {}

Tick ==
    /\ time < MaxTime /\ time' = time + 1
    /\ UNCHANGED <<users, token, cookie, req, session, verified, mail>>

-----------------------------------------------------------------------------
(* Codes by mail.                                                          *)

Sending(e) == {s \in Senders : send[s].email = e}

\* SendOTPEmail to an address, or SendOTPEmailByUsername to that of a user.
SendOTPEmail(s, e) ==
    /\ send[s].pc = "idle" /\ codes < MaxCodes
    /\ codes' = codes + 1
    /\ send' = [send EXCEPT ![s] = [pc |-> "begin", email |-> e, code |-> codes']]
    /\ mixed' = IF Sending(e) = {} THEN mixed ELSE mixed \cup {e}
    /\ UNCHANGED <<time, users, token, cookie, req, session, verified, otp, mailbox>>

\* A slip: SETNX keeps a code that has not expired.
StoreOTPOnce(s) ==
    LET e == send[s].email IN
    /\ send[s].pc = "begin"
    /\ otp' = IF Alive(otp[e].until) THEN otp
              ELSE [otp EXCEPT ![e] = [code |-> send[s].code, until |-> time + CodeTtl]]
    /\ send' = [send EXCEPT ![s].pc = "stored"]
    /\ UNCHANGED <<time, users, token, cookie, req, session, verified, codes, mailbox, mixed>>

\* The new code replaces the old one and its expiry.
StoreOTP(s) ==
    /\ send[s].pc = "begin"
    /\ otp' = [otp EXCEPT ![send[s].email] = [code |-> send[s].code, until |-> time + CodeTtl]]
    /\ send' = [send EXCEPT ![s].pc = "stored"]
    /\ UNCHANGED <<time, users, token, cookie, req, session, verified, codes, mailbox, mixed>>

MailArrives(s) ==
    /\ send[s].pc = "stored"
    /\ mailbox' = [mailbox EXCEPT ![send[s].email] = send[s].code]
    /\ mixed' = IF Sending(send[s].email) = {s} /\ otp[send[s].email].code = send[s].code
                THEN mixed \ {send[s].email} ELSE mixed
    /\ send' = [send EXCEPT ![s] = NoSend]
    /\ UNCHANGED <<time, users, token, cookie, req, session, verified, otp, codes>>

\* Redis or the mail server report an error.
SendFails(s) ==
    /\ send[s].pc # "idle"
    /\ mixed' = IF send[s].pc = "stored" THEN mixed \cup {send[s].email} ELSE mixed
    /\ send' = [send EXCEPT ![s] = NoSend]
    /\ UNCHANGED <<time, users, token, cookie, req, session, verified, otp, codes, mailbox>>

\* The code entered is the one that is stored; it stays stored.
CodeIsValid(e, code) == otp[e].code = code /\ Alive(otp[e].until)
Codes == 1..codes

\* VerifyOTP answers with a verification token.
VerifyOTP(e) ==
    /\ \E code \in Codes : CodeIsValid(e, code)
    /\ token' = [token EXCEPT ![e] = time + TokenTtl]
    /\ verified' = verified \cup {e}
    /\ UNCHANGED <<time, users, cookie, req, session, mail>>

-----------------------------------------------------------------------------
(* Signup.                                                                 *)

Begins(r, n, e) ==
    /\ req[r].pc = "idle"
    /\ req' = [req EXCEPT ![r] = [pc |-> "begin", name |-> n, email |-> e, seen |-> {},
                                  proven |-> e \in verified]]
    /\ UNCHANGED <<time, users, token, cookie, session, verified, mail>>

\* A slip: the address of the token is not compared with that of the request.
SignupWithOTPAnyAddress(r, n, e, t) == Alive(token[t]) /\ Begins(r, n, e)

\* The token was made for address t; the request names e.
SignupWithOTP(r, n, e, t) == Alive(token[t]) /\ e = t /\ Begins(r, n, e)

CompleteGoogleSignup(r, n, e) == Alive(cookie[e]) /\ Begins(r, n, e)

\* A slip: whoever has the name is not looked for.
FindUsernameUnchecked(r) ==
    /\ req[r].pc = "begin"
    /\ req' = [req EXCEPT ![r].pc = "named"]
    /\ UNCHANGED <<time, users, token, cookie, session, verified, mail>>

FindUsername(r) ==
    /\ req[r].pc = "begin" /\ Named(req[r].name) = {}
    /\ req' = [req EXCEPT ![r].pc = "named"]
    /\ UNCHANGED <<time, users, token, cookie, session, verified, mail>>

FindEmail(r) ==
    /\ req[r].pc = "named" /\ Mailed(req[r].email) = {}
    /\ req' = [req EXCEPT ![r].pc = "mailed"]
    /\ UNCHANGED <<time, users, token, cookie, session, verified, mail>>

\* The calls that have looked up a name see the documents that appear.
Note(r, ids) ==
    [q \in Requests |-> IF q = r THEN NoCall
                        ELSE IF req[q].pc \in {"named", "mailed"}
                        THEN [req[q] EXCEPT !.seen = @ \cup ids] ELSE req[q]]

\* generateID: the id is the second.  An insert may report an error though
\* it was executed; the client gets no session then.  That the browser of a
\* Google signup forgets its cookie says nothing of another browser's.
InsertUser(r) ==
    /\ req[r].pc = "mailed" /\ \A d \in users : d.id # time
    /\ users' = users \cup
         {[id |-> time, name |-> req[r].name, email |-> req[r].email, live |-> TRUE,
           alongside |-> req[r].seen, moved |-> FALSE, proven |-> req[r].proven]}
    /\ req' = Note(r, {time})
    /\ session' = session \cup {time} \/ UNCHANGED session
    /\ UNCHANGED <<time, token, cookie, verified, mail>>

\* The name or the address is taken, the id is, or a store fails.
SignupFails(r) ==
    /\ req[r].pc # "idle"
    /\ req' = [req EXCEPT ![r] = NoCall]
    /\ UNCHANGED <<time, users, token, cookie, session, verified, mail>>

-----------------------------------------------------------------------------
(* Login.                                                                  *)

\* A slip: the id is not decoded, so that of an upserted document passes too.
FetchUserAnyId(ds) == {d.id : d \in ds}

\* FetchUserByUsername and FetchUserByEmail decode the id as an int64.
FetchUser(ds) == {d.id : d \in ds} \cap Seconds

LogIn(ds) ==
    /\ \E id \in FetchUser(ds) : session' = session \cup {id}
    /\ UNCHANGED <<time, users, token, cookie, req, verified, mail>>

\* With the right password.
Login == (\E n \in Names : LogIn(Named(n))) \/ (\E e \in Emails : LogIn(Mailed(e)))

LoginWithOTP(e) == (\E code \in Codes : CodeIsValid(e, code)) /\ LogIn(Mailed(e))

\* The address of a user of that name is looked up, then the user once more.
LoginWithOTPUsername(n) == 
    \E d \in Named(n), code \in Codes : CodeIsValid(d.email, code) /\ LogIn(Named(n))

\* A known address is logged in.  Any other is kept for the profile page, and
\* so is one whose user cannot be read, because MongoDB reports an error or
\* the id is not decoded.
GoogleCallback(e) ==
    /\ verified' = verified \cup {e}
    /\ \/ /\ \E id \in FetchUser(Mailed(e)) : session' = session \cup {id}
          /\ UNCHANGED cookie
       \/ /\ cookie' = [cookie EXCEPT ![e] = time + TokenTtl]
          /\ UNCHANGED session
    /\ UNCHANGED <<time, users, token, req, mail>>

-----------------------------------------------------------------------------
(* Changes to a user.                                                      *)

\* An upsert: without a user of that address it makes a document that has
\* no name.
ResetPassword(e) ==
    /\ Mailed(e) = {} /\ \A d \in users : d.id # e
    /\ users' = users \cup
         {[id |-> e, name |-> None, email |-> e, live |-> TRUE,
           alongside |-> {}, moved |-> FALSE, proven |-> FALSE]}
    /\ req' = Note(None, {e})
    /\ UNCHANGED <<time, token, cookie, session, verified, mail>>

Replace(d, new) ==
    /\ users' = (users \ {d}) \cup {new}
    /\ UNCHANGED <<time, token, cookie, req, session, verified, mail>>

\* A slip: deleted users are not excluded.
UpdateUserAny(d, n, e) ==
    /\ d.id \in session
    /\ Replace(d, [d EXCEPT !.name = n, !.email = e, !.moved = TRUE])

\* Neither the name nor the address is looked up.
UpdateUser(d, n, e) ==
    /\ d.id \in session /\ d.live
    /\ Replace(d, [d EXCEPT !.name = n, !.email = e, !.moved = TRUE])

DeleteUser(d) ==
    /\ d.id \in session /\ d.live
    /\ Replace(d, [d EXCEPT !.live = FALSE])

-----------------------------------------------------------------------------
Mailing ==
    \/ \E s \in Senders : (\E e \in CodeEmails : SendOTPEmail(s, e)) \/ StoreOTP(s) \/ MailArrives(s) \/ SendFails(s)
    \/ \E e \in Emails : VerifyOTP(e)

Signup == \E r \in Requests :
    \/ \E n \in Names, e \in Emails :
         (\E t \in Emails : SignupWithOTP(r, n, e, t)) \/ CompleteGoogleSignup(r, n, e)
    \/ FindUsername(r) \/ FindEmail(r) \/ InsertUser(r) \/ SignupFails(r)

Sessions ==
    \/ Login
    \/ \E e \in Emails : LoginWithOTP(e)
    \/ \E e \in GoogleEmails : GoogleCallback(e)
    \/ \E n \in Names : LoginWithOTPUsername(n)

Changes ==
    \/ \E e \in ResetEmails : ResetPassword(e)
    \/ \E d \in users : DeleteUser(d) \/ \E n \in Names, e \in Emails : UpdateUser(d, n, e)

Next == Tick \/ Mailing \/ Signup \/ Sessions \/ Changes

Spec == Init /\ [][Next]_vars

-----------------------------------------------------------------------------
(* Two users share a name or an address only if one of them was renamed,   *)
(* or one's signup was between its lookup and its insert when the other's  *)
(* document appeared.                                                      *)
SharedOnlyIfRaced == \A d, e \in Live :
    d # e /\ ~d.moved /\ ~e.moved /\ (d.email = e.email \/ (d.name = e.name /\ d.name # None)) =>
        d.id \in e.alongside \/ e.id \in d.alongside

(* OTP-first onboarding: every account that signed up has an address that  *)
(* had been verified before, by a code stored for it or by Google.         *)
SignupFollowsVerification == \A d \in users : d.name # None /\ ~d.moved => d.proven

(* The code in the last mail is the one that is accepted, until it expires *)
(* or another send for the address has started, failed or overlapped.      *)
LastMailHoldsTheCode == \A e \in Emails \ mixed :
    mailbox[e] # 0 /\ Sending(e) = {} /\ Alive(otp[e].until) =>
        CodeIsValid(e, mailbox[e])

(* A deleted user is never changed or brought back, whoever still holds a  *)
(* session of it.                                                          *)
DeletedUsersRest == [][\A d \in users : ~d.live => d \in users']_vars
=============================================================================
