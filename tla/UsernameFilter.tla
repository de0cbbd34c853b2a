--------------------------- MODULE UsernameFilter ---------------------------
(***************************************************************************)
(* The Bloom filter of usernames (pkg/bloom), with the code that fills and *)
(* asks it: CreateUser of pkg/middleware, and checkUsernameExists, rename  *)
(* and deletion of pkg/user.                                               *)
(*                                                                         *)
(* The filter lives in three places: the bits in memory, a copy in Redis   *)
(* and the names of MongoDB it is seeded from on a cold start.  Each Add   *)
(* starts a goroutine that copies the bits under the lock and sends the    *)
(* copy to Redis after it has let the lock go.                             *)
(*                                                                         *)
(* "fresh", "unadded" and the saw fields are history variables.            *)
(***************************************************************************)
EXTENDS Naturals, FiniteSets

CONSTANTS
    Names,
    Bits,         \* positions in the bit array
    Positions,    \* Positions[n]: the positions that the hashes of n give
    Accounts,     \* places for user documents
    Signups,      \* concurrent calls of CreateUser
    Checks,       \* concurrent calls of checkUsernameExists
    Goroutines,   \* bound: persists under way at a time
    MaxBoots,     \* bound: starts of the server
    None

ASSUME FilterAssumption ==
    /\ Positions \in [Names -> SUBSET Bits] /\ \A n \in Names : Positions[n] # {}
    /\ None \notin Names /\ None \notin Bits
    /\ "main" \notin Goroutines
    /\ MaxBoots \in Nat

VARIABLES
    name,         \* MongoDB: the username of each user that is not deleted
    bits,         \* Filter.bits: the positions that are set
    saved,        \* Redis: bloom:usernames
    phase,        \* where the server is
    origin,       \* what the filter was built from
    left,         \* names the seeding cursor has yet to return
    saver,        \* the PersistToRedis calls
    signup, check,
    boots,
    fresh,        \* this process has written bloom:usernames
    unadded       \* names in use that this process's filter was never given

stores == <<name, saved>>
server == <<bits, phase, origin, left, boots>>
ghosts == <<fresh, unadded>>
filterVars == <<stores, server, saver, signup, check, ghosts>>

NoCopy  == {None}                     \* nothing stored (redis.Nil)
Main    == "main"                     \* the call InitBloomFilter makes itself
Savers  == Goroutines \cup {Main}
Resting == [pc |-> "idle", copy |-> {}, overtaken |-> FALSE]
NoCall  == [pc |-> "idle", name |-> None]
NoCheck == [pc |-> "idle", name |-> None, sawOpen |-> FALSE, sawTaken |-> FALSE]

FilterTypeOK ==
    /\ name \in [Accounts -> Names \cup {None}]
    /\ bits \subseteq Bits /\ saved \in (SUBSET Bits) \cup {NoCopy}
    /\ phase \in {"down", "seed", "persist", "serve"}
    /\ origin \in {"redis", "mongo"}
    /\ left \subseteq Names
    /\ saver \in [Savers -> [pc: {"idle", "copy", "set"}, copy: SUBSET Bits, overtaken: BOOLEAN]]
    /\ signup \in [Signups -> {NoCall} \cup [pc: {"free", "inserted"}, name: Names]]
    /\ check \in [Checks -> {NoCheck} \cup
                   [pc: {"filter", "verify", "taken", "free"}, name: Names,
                    sawOpen: BOOLEAN, sawTaken: BOOLEAN]]
    /\ boots \in 0..MaxBoots
    /\ fresh \in BOOLEAN /\ unadded \subseteq Names

InUse         == {name[a] : a \in Accounts} \ {None}
MightExist(n) == Positions[n] \subseteq bits

\* Names in use whose signup has got as far as Add.
Joining == {signup[s].name : s \in {t \in Signups : signup[t].pc = "inserted"}}
Settled == InUse \ (Joining \cup unadded)

\* Users of an earlier deployment may be there before the first start.
FilterInit ==
    /\ name \in [Accounts -> Names \cup {None}]
    /\ \A a, b \in Accounts : name[a] = name[b] => a = b \/ name[a] = None
    /\ bits = {} /\ saved = NoCopy /\ phase = "down" /\ origin = "mongo" /\ left = {}
    /\ saver = [g \in Savers |-> Resting]
    /\ signup = [s \in Signups |-> NoCall] /\ check = [c \in Checks |-> NoCheck]
    /\ boots = 0 /\ fresh = FALSE /\ unadded = {}

\* What the checks under way have seen of the name they ask for.
Watch ==
    check' = [c \in Checks |->
        IF check[c].pc \notin {"filter", "verify"} THEN check[c]
        ELSE [check[c] EXCEPT !.sawOpen  = @ \/ check[c].name \notin Settled',
                              !.sawTaken = @ \/ check[c].name \in InUse']]

-----------------------------------------------------------------------------
(* Add and PersistToRedis.                                                 *)

\* Add sets the bits and starts a goroutine that persists them.
Add(n) ==
    /\ bits' = bits \cup Positions[n]
    /\ \E g \in Goroutines :
         /\ saver[g].pc = "idle"
         /\ saver' = [saver EXCEPT ![g].pc = "copy"]

\* json.Marshal(f.bits) under the read lock.
CopyBits(g) ==
    /\ saver[g].pc = "copy"
    /\ saver' = [saver EXCEPT ![g] = [pc |-> "set", copy |-> bits, overtaken |-> FALSE]]
    /\ UNCHANGED <<stores, server, signup, check, ghosts>>

\* main goes on whether or not its own call has succeeded.
Returns(g) == phase' = IF g = Main THEN "serve" ELSE phase

\* Redis executes the SET; whether its answer arrives makes no difference.
SetCopy(g) ==
    /\ saver[g].pc = "set"
    /\ saved' = saver[g].copy /\ fresh' = TRUE
    /\ saver' = [h \in Savers |->
                   IF h = g THEN Resting
                   ELSE [saver[h] EXCEPT !.overtaken = saver[h].pc = "set"]]
    /\ Returns(g)
    /\ UNCHANGED <<name, bits, origin, left, boots, signup, check, unadded>>

\* The SET times out and is not executed.
SetFails(g) ==
    /\ saver[g].pc = "set"
    /\ saver' = [saver EXCEPT ![g] = Resting]
    /\ Returns(g)
    /\ UNCHANGED <<stores, bits, origin, left, boots, signup, check, ghosts>>

PersistToRedis == \E g \in Savers : CopyBits(g) \/ SetCopy(g) \/ SetFails(g)

-----------------------------------------------------------------------------
(* Start and end of the server.                                            *)

\* A slip: the copy is read and not installed.
LoadFromRedisForgets ==
    /\ saved # NoCopy
    /\ bits' = {} /\ phase' = "serve" /\ origin' = "redis"
    /\ unadded' = {n \in InUse : ~(Positions[n] \subseteq saved)}
    /\ UNCHANGED left

LoadFromRedis ==
    /\ saved # NoCopy
    /\ bits' = saved /\ phase' = "serve" /\ origin' = "redis"
    /\ unadded' = {n \in InUse : ~(Positions[n] \subseteq saved)}
    /\ UNCHANGED left

\* Nothing is stored, or it cannot be read: the filter is seeded.
ColdStart ==
    /\ bits' = {} /\ phase' = "seed" /\ origin' = "mongo"
    /\ left' = InUse /\ unadded' = {}

Start ==
    /\ phase = "down" /\ boots < MaxBoots
    /\ boots' = boots + 1 /\ fresh' = FALSE
    /\ LoadFromRedis \/ ColdStart
    /\ UNCHANGED <<stores, saver, signup, check>>

SeedFromMongoDB ==
    /\ phase = "seed"
    /\ \E n \in left : Add(n) /\ left' = left \ {n}
    /\ UNCHANGED <<stores, phase, origin, boots, signup, check, ghosts>>

\* A slip: an error of the cursor is taken for its end.
SeededAtError ==
    /\ phase = "seed"
    /\ phase' = "persist" /\ left' = {}
    /\ saver' = [saver EXCEPT ![Main].pc = "copy"]
    /\ UNCHANGED <<stores, bits, origin, boots, signup, check, ghosts>>

Seeded ==
    /\ phase = "seed" /\ left = {}
    /\ phase' = "persist"
    /\ saver' = [saver EXCEPT ![Main].pc = "copy"]
    /\ UNCHANGED <<stores, bits, origin, left, boots, signup, check, ghosts>>

\* The process ends: a crash, or the panic of main when seeding fails.
Crash ==
    /\ phase # "down"
    /\ phase' = "down" /\ bits' = {} /\ left' = {}
    /\ saver' = [g \in Savers |-> Resting]
    /\ signup' = [s \in Signups |-> NoCall] /\ check' = [c \in Checks |-> NoCheck]
    /\ UNCHANGED <<stores, origin, boots, ghosts>>

-----------------------------------------------------------------------------
(* CreateUser, UpdateUser, DeleteUser.                                     *)

\* The username has been looked up and is free.
FindUsername(s, n) ==
    /\ phase = "serve" /\ signup[s].pc = "idle" /\ n \notin InUse
    /\ signup' = [signup EXCEPT ![s] = [pc |-> "free", name |-> n]]
    /\ UNCHANGED <<stores, server, saver, check, ghosts>>

\* InsertOne; an insert that reports an error may have been executed, and
\* then the name is never added.
InsertUser(s, a) ==
    /\ signup[s].pc = "free" /\ name[a] = None
    /\ name' = [name EXCEPT ![a] = signup[s].name]
    /\ \/ signup' = [signup EXCEPT ![s].pc = "inserted"] /\ UNCHANGED unadded
       \/ signup' = [signup EXCEPT ![s] = NoCall] /\ unadded' = unadded \cup {signup[s].name}
    /\ UNCHANGED <<saved, server, saver, fresh>>
    /\ Watch

InsertFails(s) ==
    /\ signup[s].pc = "free"
    /\ signup' = [signup EXCEPT ![s] = NoCall]
    /\ UNCHANGED <<stores, server, saver, check, ghosts>>

AddUsername(s) ==
    /\ signup[s].pc = "inserted"
    /\ Add(signup[s].name)
    /\ signup' = [signup EXCEPT ![s] = NoCall]
    /\ unadded' = unadded \ {signup[s].name}
    /\ UNCHANGED <<stores, phase, origin, left, boots, check, fresh>>

\* A rename does not touch the filter.
UpdateUser(a, n) ==
    /\ phase = "serve" /\ name[a] # None /\ n # name[a]
    /\ name' = [name EXCEPT ![a] = n]
    /\ unadded' = unadded \cup {n}
    /\ UNCHANGED <<saved, server, saver, signup, fresh>>
    /\ Watch

DeleteUser(a) ==
    /\ phase = "serve" /\ name[a] # None
    /\ name' = [name EXCEPT ![a] = None]
    /\ UNCHANGED <<saved, server, saver, signup, ghosts>>
    /\ Watch

-----------------------------------------------------------------------------
(* checkUsernameExists.                                                    *)

Ask(c, n) ==
    /\ phase = "serve" /\ check[c].pc = "idle"
    /\ check' = [check EXCEPT ![c] = [pc |-> "filter", name |-> n,
                                      sawOpen |-> n \notin Settled, sawTaken |-> n \in InUse]]
    /\ UNCHANGED <<stores, server, saver, signup, ghosts>>

\* A slip: the filter's answer is believed.
AskFilterOnly(c) ==
    /\ check[c].pc = "filter"
    /\ check' = [check EXCEPT ![c].pc = IF MightExist(check[c].name) THEN "taken" ELSE "free"]
    /\ UNCHANGED <<stores, server, saver, signup, ghosts>>

AskFilter(c) ==
    /\ check[c].pc = "filter"
    /\ check' = [check EXCEPT ![c].pc = IF MightExist(check[c].name) THEN "verify" ELSE "free"]
    /\ UNCHANGED <<stores, server, saver, signup, ghosts>>

VerifyInMongo(c) ==
    /\ check[c].pc = "verify"
    /\ check' = [check EXCEPT ![c].pc = IF check[c].name \in InUse THEN "taken" ELSE "free"]
    /\ UNCHANGED <<stores, server, saver, signup, ghosts>>

\* The answer is sent, or the verification has failed.
Answer(c) ==
    /\ check[c].pc \in {"verify", "taken", "free"}
    /\ check' = [check EXCEPT ![c] = NoCheck]
    /\ UNCHANGED <<stores, server, saver, signup, ghosts>>

CreateUser == \E s \in Signups :
    \/ \E n \in Names : FindUsername(s, n)
    \/ \E a \in Accounts : InsertUser(s, a)
    \/ InsertFails(s) \/ AddUsername(s)

ChangeUser == \E a \in Accounts : DeleteUser(a) \/ \E n \in Names : UpdateUser(a, n)

CheckUsernameExists == \E c \in Checks :
    \/ \E n \in Names : Ask(c, n)
    \/ AskFilter(c) \/ VerifyInMongo(c) \/ Answer(c)

FilterNext ==
    \/ Start \/ SeedFromMongoDB \/ Seeded \/ Crash
    \/ PersistToRedis \/ CreateUser \/ ChangeUser \/ CheckUsernameExists

FilterSpec == FilterInit /\ [][FilterNext]_filterVars

-----------------------------------------------------------------------------
(* The filter has no false negatives: once the server serves, it knows     *)
(* every name in use but those it was never given: a name a user has       *)
(* changed to, the name of an insert that reported an error, and what the  *)
(* copy loaded from Redis lacked.                                          *)
FilterCovers == phase = "serve" => \A n \in Settled : MightExist(n)

(* checkUsernameExists answers "taken" only if somebody had the name while *)
(* it ran, hash collisions and deleted users notwithstanding, and "free"   *)
(* only if for some moment no settled user had it.                         *)
ChecksAreRight == \A c \in Checks :
    /\ check[c].pc = "taken" => check[c].sawTaken
    /\ check[c].pc = "free" => check[c].sawOpen

(* What is stored in Redis loses a name in two cases only: a copy arrives  *)
(* after a later one, or a filter that is seeded anew replaces what an     *)
(* earlier process had stored.  A filter that was loaded takes over all of *)
(* the copy before it first writes it back.                                *)
CopyForgetsOnlyIfOvertaken ==
    [][saved # NoCopy /\ ~(saved \subseteq saved') =>
         \/ origin = "mongo" /\ ~fresh
         \/ \E g \in Savers : saver[g].overtaken /\ saver'[g].pc = "idle"]_filterVars
=============================================================================
