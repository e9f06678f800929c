----------------------------- MODULE ServerPools -----------------------------
(***************************************************************************)
(* The two pools of the server: the MySQL pool "tuchuang_slave" and the    *)
(* redis pool "token", and how a handler takes connections from them and   *)
(* gives them back (AutoRelDBCon, AutoRelCacheCon).  All calls wait        *)
(* without limit.  What a handler does is a script of calls; module        *)
(* Accounts has the scripts.                                               *)
(***************************************************************************)
EXTENDS Integers, Sequences, FiniteSets

CONSTANTS
  Threads,   \* the loop thread and the workers
  DbMin, DbMax, CacheMin, CacheMax   \* see ConnPool

ASSUME ServerPoolsAssumption ==
  /\ IsFiniteSet(Threads)
  /\ DbMin \in Nat /\ DbMax \in Nat
  /\ CacheMin \in Nat /\ CacheMax \in Nat

VARIABLES
  dbFree, dbCur, dbAt, dbLimit, dbHas,
  cacheFree, cacheCur, cacheAt, cacheLimit, cacheHas,
  script     \* the calls a thread has still to make for its request

Db == INSTANCE ConnPool
        WITH Users <- Threads, MinConns <- DbMin, MaxConns <- DbMax,
             Careless <- {}, free <- dbFree, cur <- dbCur, at <- dbAt,
             limit <- dbLimit, has <- dbHas

Cache == INSTANCE ConnPool
           WITH Users <- Threads, MinConns <- CacheMin, MaxConns <- CacheMax,
                Careless <- {}, free <- cacheFree, cur <- cacheCur,
                at <- cacheAt, limit <- cacheLimit, has <- cacheHas

dbVars    == <<dbFree, dbCur, dbAt, dbLimit, dbHas>>
cacheVars == <<cacheFree, cacheCur, cacheAt, cacheLimit, cacheHas>>
poolVars  == <<dbVars, cacheVars, script>>

(* The handler goes on to its next call. *)
Advance(t) == script' = [script EXCEPT ![t] = Tail(@)]

Doing(t, what) == script[t] # <<>> /\ Head(script[t]) = what

(* GetXConn is called, and returns with the next step.                     *)
DbStep(t) ==
  /\ \/ Doing(t, "db") /\ Db!Get(t, FALSE) /\ UNCHANGED script
     \/ Db!Wake(t) /\ UNCHANGED script
     \/ /\ Doing(t, "db") /\ (dbHas[t] # Db!NoConn \/ dbAt[t] = "null")
        /\ Advance(t) /\ UNCHANGED dbVars
     \/ Doing(t, "free db") /\ Db!Release(t) /\ Advance(t)
     \/ Doing(t, "free db") /\ Db!ReleaseNull(t) /\ Advance(t)
  /\ UNCHANGED cacheVars

CacheStep(t) ==
  /\ \/ Doing(t, "cache") /\ Cache!Get(t, FALSE) /\ UNCHANGED script
     \/ Cache!Wake(t) /\ UNCHANGED script
     \/ /\ Doing(t, "cache") /\ (cacheHas[t] # Cache!NoConn \/ cacheAt[t] = "null")
        /\ Advance(t) /\ UNCHANGED cacheVars
     \/ Doing(t, "free cache") /\ Cache!Release(t) /\ Advance(t)
     \/ Doing(t, "free cache") /\ Cache!ReleaseNull(t) /\ Advance(t)
  /\ UNCHANGED dbVars

Spurious ==
  \/ Db!Spurious /\ UNCHANGED <<cacheVars, script>>
  \/ Cache!Spurious /\ UNCHANGED <<dbVars, script>>

Init ==
  /\ Db!Init /\ Cache!Init
  /\ script = [t \in Threads |-> <<>>]
=============================================================================
