------------------------------ MODULE Accounts ------------------------------
(***************************************************************************)
(* Registering, logging in and being recognised by a token                 *)
(* (api/api_register.cc, api/api_login.cc, VerifyToken of base/common.cc), *)
(* by the worker threads and the loop thread of the server at once, with   *)
(* the connections of both pools these requests hold (ServerPools).        *)
(*                                                                         *)
(* The workers execute registrations and logins, the loop thread all other *)
(* requests.  A request is a script of calls; a call on a store is one     *)
(* step, so that the calls of several threads interleave.                  *)
(***************************************************************************)
EXTENDS ServerPools

CONSTANTS
  Names,        \* the names users register and log in with
  Pwds,         \* their passwords
  Loop,         \* the thread of the event loop
  UniqueNames,  \* user_info has the key uq_user_name, as in picbed_db.sql
  Requests,     \* bound: requests of a behaviour
  MaxFaults     \* bound: calls that fail and tokens that expire together

ASSUME AccountsAssumption ==
  /\ Loop \in Threads /\ UniqueNames \in BOOLEAN
  /\ Requests \in Nat /\ MaxFaults \in Nat

VARIABLES
  accounts,  \* rows of user_info; id is its AUTO_INCREMENT column
  tokens,    \* the keys of redis named like a user
  job,       \* the request of a thread: op, name, pwd or token, ret, row
  left,      \* requests that may still come
  down,      \* the process has crashed
  faults,    \* calls that have failed, tokens that have expired
  issued,    \* every token drawn, with its user and the password he gave
  given,     \* the tokens that successful logins have answered
  lost,      \* tokens that redis did not store
  expired,   \* tokens that were stored and expired
  told       \* registrations answered 0

storeVars == <<accounts, tokens>>
pastVars  == <<issued, given, lost, expired, told>>
vars == <<poolVars, storeVars, job, left, down, faults, pastVars>>

NoJob   == [op |-> "none"]
NoToken == 0
Count   == -1   \* the value INCR gives to a key that did not exist

(* The connections a request takes from the pools.  All of them take a     *)
(* MySQL connection before a redis connection when they hold both.         *)
RegisterScript == <<"db", "find", "insert", "free db", "answer">>

(* A login checks the password, draws a token and loads the counters. *)
CheckPart == <<"db", "check", "free db">>
TokenPart == <<"cache", "set", "free cache">>
LoadPart  == <<"db", "cache", "load", "free cache", "free db", "answer">>

LoginScript_TokenFirst == TokenPart \o CheckPart \o LoadPart

LoginScript == CheckPart \o TokenPart \o LoadPart

(* Requests that verify a token before they work on both stores (md5,      *)
(* myfiles, dealfile) or on MySQL only (pv of dealfile); uploads, which    *)
(* verify nothing, and the other requests that verify nothing.             *)
Verified  == <<"cache", "verify", "free cache">>
BothWork  == <<"db", "cache", "work", "free cache", "free db", "answer">>
DbWork    == <<"db", "work", "free db", "answer">>
Upload    == <<"db", "cache", "work", "incr", "free cache", "free db", "answer">>

InlineScripts == {Verified \o BothWork, Verified \o DbWork, Upload, BothWork}

(* A thread is given a request. *)
Start(t, j, s) ==
  /\ ~down
  /\ job[t] = NoJob /\ left > 0
  /\ left' = left - 1
  /\ job' = [job EXCEPT ![t] = j]
  /\ script' = [script EXCEPT ![t] = s]
  /\ UNCHANGED <<dbVars, cacheVars, storeVars, down, faults, pastVars>>

Begin(t) ==
  \/ /\ t # Loop
     /\ \E n \in Names, p \in Pwds :
          \/ Start(t, [op |-> "register", name |-> n, pwd |-> p, ret |-> 0,
                       row |-> 0], RegisterScript)
          \/ Start(t, [op |-> "login", name |-> n, pwd |-> p, ret |-> 0,
                       token |-> NoToken], LoginScript)
  \/ /\ t = Loop
     /\ \E g \in given, s \in InlineScripts :
          Start(t, [op |-> "other", name |-> g.name, token |-> g.token,
                    ret |-> 0], s)

(* A call of the script on a store, with the connections it holds. *)
Call(t, what) ==
  /\ ~down /\ Doing(t, what)
  /\ UNCHANGED <<dbVars, cacheVars, left>>

HasDb(t)    == dbHas[t] # Db!NoConn
HasCache(t) == cacheHas[t] # Cache!NoConn

Fails == faults < MaxFaults /\ faults' = faults + 1

(* The handler returns: what is left of its script is to give back what it *)
(* holds, and to answer.                                                   *)
Return(t, ret) ==
  /\ job' = [job EXCEPT ![t].ret = ret]
  /\ script' = [script EXCEPT ![t] =
                  (IF HasCache(t) \/ cacheAt[t] = "null" THEN <<"free cache">>
                                                         ELSE <<>>)
                    \o (IF HasDb(t) \/ dbAt[t] = "null" THEN <<"free db">>
                                                        ELSE <<>>)
                    \o <<"answer">>]

(* A handler that was given no connection and uses it crashes the server. *)
Crash ==
  /\ down' = TRUE
  /\ UNCHANGED <<script, storeVars, job, faults, pastVars>>

RowsOf(n) == {r \in accounts : r.name = n}

(* registerUser looks for the name.  A query that fails looks like one     *)
(* without rows.                                                           *)
FindUser(t) ==
  /\ Call(t, "find")
  /\ \/ ~HasDb(t) /\ Crash
     \/ /\ HasDb(t)
        /\ \/ RowsOf(job[t].name) # {} /\ Return(t, 2) /\ UNCHANGED faults
           \/ RowsOf(job[t].name) = {} /\ Advance(t) /\ UNCHANGED <<job, faults>>
           \/ Fails /\ Advance(t) /\ UNCHANGED job
        /\ UNCHANGED <<storeVars, down, pastVars>>

Insertable_Always(n) == TRUE

(* The key uq_user_name refuses a second row of a name. *)
Insertable(n) == UniqueNames => RowsOf(n) = {}

NewRow(t) ==
  [id |-> Cardinality(accounts) + 1, name |-> job[t].name, pwd |-> job[t].pwd]

(* The insert of registerUser: it is refused (1); it inserts a row (0); it *)
(* cannot be prepared, and the answer stays 0; it fails, before or after   *)
(* MySQL has executed it (1).                                              *)
InsertUser(t) ==
  /\ Call(t, "insert")
  /\ Advance(t)
  /\ LET row == NewRow(t) IN
       \/ /\ ~Insertable(row.name)
          /\ job' = [job EXCEPT ![t].ret = 1]
          /\ UNCHANGED <<accounts, faults>>
       \/ /\ Insertable(row.name)
          /\ accounts' = accounts \cup {row}
          /\ \/ /\ job' = [job EXCEPT ![t].row = row.id]
                /\ UNCHANGED faults
             \/ Fails /\ job' = [job EXCEPT ![t].ret = 1]
       \/ Fails /\ UNCHANGED <<accounts, job>>
       \/ Fails /\ job' = [job EXCEPT ![t].ret = 1] /\ UNCHANGED accounts
  /\ UNCHANGED <<tokens, down, pastVars>>

(* verifyUserPassword. *)
CheckPassword(t) ==
  /\ Call(t, "check")
  /\ \/ ~HasDb(t) /\ Crash
     \/ /\ HasDb(t)
        /\ \/ /\ \E r \in RowsOf(job[t].name) : r.pwd = job[t].pwd
              /\ Advance(t) /\ UNCHANGED <<job, faults>>
           \/ /\ \A r \in RowsOf(job[t].name) : r.pwd # job[t].pwd
              /\ Return(t, 1) /\ UNCHANGED faults
           \/ Fails /\ Return(t, 1)
        /\ UNCHANGED <<storeVars, down, pastVars>>

(* setToken draws a token and stores it.  Whether SETEX succeeds is not    *)
(* looked at.  Tokens are numbered in the order they are drawn, and taken  *)
(* to be different, though nobody seeds rand() (base/common.cc:162).       *)
SetToken(t) ==
  /\ Call(t, "set")
  /\ LET n == Len(issued) + 1 IN
       \/ /\ ~HasCache(t)
          /\ Return(t, 1)
          /\ UNCHANGED <<tokens, faults, issued, lost>>
       \/ /\ HasCache(t)
          /\ Advance(t)
          /\ issued' = Append(issued, [name |-> job[t].name, pwd |-> job[t].pwd])
          /\ job' = [job EXCEPT ![t].token = n]
          /\ \/ /\ tokens' = [tokens EXCEPT ![job[t].name] = n]
                /\ UNCHANGED <<faults, lost>>
             \/ Fails /\ lost' = lost \cup {n} /\ UNCHANGED tokens
  /\ UNCHANGED <<accounts, down, given, expired, told>>

(* loadMyfilesCountAndSharepictureCount; FileStore and PictureStore have   *)
(* its counters.                                                           *)
LoadCounts(t) ==
  /\ Call(t, "load")
  /\ \/ ~(HasDb(t) /\ HasCache(t)) /\ Crash
     \/ /\ HasDb(t) /\ HasCache(t)
        /\ \/ Advance(t) /\ UNCHANGED <<job, faults>>
           \/ Fails /\ Return(t, 1)
        /\ UNCHANGED <<storeVars, down, pastVars>>

(* VerifyToken: a failing GET gives the empty string, which is no token. *)
VerifyToken(t) ==
  /\ Call(t, "verify")
  /\ \/ /\ HasCache(t) /\ tokens[job[t].name] = job[t].token
        /\ Advance(t) /\ UNCHANGED <<job, faults>>
     \/ /\ ~HasCache(t) \/ tokens[job[t].name] # job[t].token
        /\ Return(t, 1) /\ UNCHANGED faults
     \/ Fails /\ Return(t, 1)
  /\ UNCHANGED <<storeVars, down, pastVars>>

(* The work of another handler on the stores, see FileStore. *)
OtherWork(t) ==
  /\ Call(t, "work")
  /\ \/ /\ dbAt[t] = "null" \/ cacheAt[t] = "null"
        /\ Crash
     \/ /\ dbAt[t] # "null" /\ cacheAt[t] # "null"
        /\ Advance(t)
        /\ UNCHANGED <<storeVars, job, down, faults, pastVars>>

Incremented_Overwrites(v) == Count

(* INCR: a key without a value counts from 0; a token is no number, and    *)
(* the reply is an error, which CacheConn::Incr does not tell.             *)
Incremented(v) == IF v \in {NoToken, Count} THEN Count ELSE v

(* storeFileinfo counts the uploaded file under the name of its user. *)
CountUpload(t) ==
  /\ Call(t, "incr")
  /\ tokens' = [tokens EXCEPT ![job[t].name] = Incremented(@)]
  /\ Advance(t)
  /\ UNCHANGED <<accounts, job, down, faults, pastVars>>

(* The request is answered. *)
Answer(t) ==
  /\ Call(t, "answer")
  /\ Advance(t)
  /\ job' = [job EXCEPT ![t] = NoJob]
  /\ LET j == job[t] IN
       /\ given' = IF j.op = "login" /\ j.ret = 0
                   THEN given \cup {[name |-> j.name, token |-> j.token]}
                   ELSE given
       /\ told' = IF j.op = "register" /\ j.ret = 0
                   THEN told \cup {[name |-> j.name, pwd |-> j.pwd, row |-> j.row]}
                   ELSE told
  /\ UNCHANGED <<storeVars, down, faults, issued, lost, expired>>

(* 86400 seconds are over. *)
TokenExpires(n) ==
  /\ ~down /\ tokens[n] > NoToken
  /\ Fails
  /\ expired' = expired \cup {tokens[n]}
  /\ tokens' = [tokens EXCEPT ![n] = NoToken]
  /\ UNCHANGED <<poolVars, accounts, job, left, down, issued, given, lost, told>>

Pools(t) ==
  /\ ~down
  /\ DbStep(t) \/ CacheStep(t)
  /\ UNCHANGED <<storeVars, job, left, down, faults, pastVars>>

(* The server starts with the accounts of earlier runs: none, or one. *)
AccountsInit ==
  /\ Init
  /\ \/ accounts = {}
     \/ \E n \in Names, p \in Pwds : accounts = {[id |-> 1, name |-> n, pwd |-> p]}
  /\ tokens = [n \in Names |-> NoToken]
  /\ job = [t \in Threads |-> NoJob]
  /\ left = Requests
  /\ down = FALSE /\ faults = 0
  /\ issued = <<>> /\ given = {} /\ lost = {} /\ expired = {} /\ told = {}

Thread(t) ==
  \/ Begin(t) \/ Pools(t)
  \/ FindUser(t) \/ InsertUser(t) \/ CheckPassword(t) \/ SetToken(t)
  \/ LoadCounts(t) \/ VerifyToken(t) \/ OtherWork(t) \/ CountUpload(t)
  \/ Answer(t)

Wakeup ==
  /\ ~down /\ Spurious
  /\ UNCHANGED <<storeVars, job, left, down, faults, pastVars>>

Next ==
  \/ \E t \in Threads : Thread(t)
  \/ \E n \in Names : TokenExpires(n)
  \/ Wakeup

Spec == AccountsInit /\ [][Next]_vars

(* The threads keep running. *)
FairSpec == Spec /\ \A t \in Threads : WF_vars(Thread(t))

-----------------------------------------------------------------------------
(* A name has one account, although registerUser looks for the name and    *)
(* inserts it with two statements between which another worker inserts:    *)
(* who is told that he is registered (0) can log in with the password he   *)
(* gave, unless the statement could not be prepared (row is 0 then).       *)
RegisteredOnce ==
  /\ \A r, s \in accounts : r.name = s.name => r = s
  /\ \A j \in told :
       j.row # 0 => [id |-> j.row, name |-> j.name, pwd |-> j.pwd] \in accounts

(* The token of a user was issued to a login with the password of his      *)
(* account, whatever other registrations and logins did meanwhile.         *)
TokenOfAccount ==
  \A n \in Names : tokens[n] > 0 =>
    /\ issued[tokens[n]].name = n
    /\ \E r \in RowsOf(n) : r.pwd = issued[tokens[n]].pwd

(* A token that a login answered is accepted until it expires or the same  *)
(* user logs in again: nothing else that threads do with the key of the    *)
(* user, the count of his uploads included, puts it out of force.          *)
TokenStays ==
  \A g \in given :
    \/ tokens[g.name] = g.token
    \/ g.token \in lost \cup expired
    \/ \E m \in (g.token + 1 .. Len(issued)) \ lost : issued[m].name = g.name

(* Every request that is begun is answered: no thread waits for ever for a *)
(* connection, with fewer connections of both kinds than threads.          *)
RequestsEnd ==
  \A t \in Threads : (job[t] # NoJob) ~> (job[t] = NoJob \/ down)

(* When all requests are answered, all connections are back in the pools.  *)
AllReturned ==
  (\A t \in Threads : job[t] = NoJob) =>
    Len(dbFree) = dbCur /\ Len(cacheFree) = cacheCur
=============================================================================
