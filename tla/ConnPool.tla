------------------------------ MODULE ConnPool ------------------------------
(***************************************************************************)
(* A pool of connections to MySQL (CDBPool, mysql/db_pool.cc) or to redis  *)
(* (CachePool, redis/cache_pool.cpp).  The two classes have the same       *)
(* GetXConn and RelXConn; they differ in the number of connections made at *)
(* the start, which is the constant MinConns here.                         *)
(*                                                                         *)
(* A step is a critical section of the pool's mutex.  The server never     *)
(* deletes a pool, so abort_request_ stays false and is left out.          *)
(***************************************************************************)
EXTENDS Integers, Sequences, FiniteSets

CONSTANTS
  Users,     \* the threads that use the pool
  MinConns,  \* MIN_DB_CONN_CNT, MIN_CACHE_CONN_CNT
  MaxConns,  \* db_max_conn_cnt_, max_conn_cnt_
  Careless   \* users that may give a connection back twice in a row

ASSUME ConnPoolAssumption ==
  /\ IsFiniteSet(Users)
  /\ MinConns \in Nat
  /\ MaxConns \in Nat
  /\ Careless \subseteq Users

VARIABLES
  free,   \* free_list_
  cur,    \* db_cur_conn_cnt_, cur_conn_cnt_
  at,     \* where a user is in GetXConn
  limit,  \* the user has given a time limit
  has     \* the connection GetXConn returned and RelXConn has not got back

vars == <<free, cur, at, limit, has>>

(* Connections are numbered in the order they are created. *)
Capacity == IF MinConns > MaxConns THEN MinConns ELSE MaxConns
Conns    == 1 .. Capacity
NoConn   == 0

TypeOK ==
  /\ free \in Seq(Conns)
  /\ cur \in MinConns .. Capacity
  /\ at \in [Users -> {"out", "asleep", "woken", "null"}]
  /\ limit \in [Users -> BOOLEAN]
  /\ has \in [Users -> Conns \cup {NoConn}]

InFree(c) == \E i \in DOMAIN free : free[i] = c
Asleep    == {u \in Users : at[u] = "asleep"}
Woken     == {u \in Users : at[u] = "woken"}

-----------------------------------------------------------------------------
(* Variants named Operator_What are faults, see HttpConn.                  *)

(* The first free connection is lent. *)
TakeFree(u) ==
  /\ free # <<>>
  /\ has' = [has EXCEPT ![u] = Head(free)]
  /\ at' = [at EXCEPT ![u] = "out"]
  /\ free' = Tail(free)

MayCreate_OneMore == cur <= MaxConns

MayCreate == cur < MaxConns

(* GetXConn, called with or without a time limit.  A connection that is    *)
(* created goes through the free list; when connecting fails, NULL is      *)
(* returned.                                                               *)
Get(u, lim) ==
  /\ at[u] = "out" /\ has[u] = NoConn
  /\ limit' = [limit EXCEPT ![u] = lim]
  /\ \/ TakeFree(u) /\ UNCHANGED cur
     \/ /\ free = <<>> /\ MayCreate
        /\ cur' = cur + 1
        /\ has' = [has EXCEPT ![u] = cur + 1]
        /\ UNCHANGED <<free, at>>
     \/ /\ free = <<>> /\ MayCreate
        /\ at' = [at EXCEPT ![u] = "null"]
        /\ UNCHANGED <<free, cur, has>>
     \/ /\ free = <<>> /\ ~MayCreate
        /\ at' = [at EXCEPT ![u] = "asleep"]
        /\ UNCHANGED <<free, cur, has>>

(* A woken user looks again whether there is a free connection. *)
Wake(u) ==
  /\ at[u] = "woken"
  /\ \/ TakeFree(u)
     \/ /\ free = <<>>
        /\ at' = [at EXCEPT ![u] = "asleep"]
        /\ UNCHANGED <<free, has>>
  /\ UNCHANGED <<cur, limit>>

(* wait_for returns since the time is up. *)
TimeOut(u) ==
  /\ limit[u] /\ at[u] \in {"asleep", "woken"}
  /\ \/ TakeFree(u)
     \/ /\ free = <<>>
        /\ at' = [at EXCEPT ![u] = "null"]
        /\ UNCHANGED <<free, has>>
  /\ UNCHANGED <<cur, limit>>

NotifyOne_Nobody == UNCHANGED at

NotifyOne ==
  \/ \E u \in Asleep : at' = [at EXCEPT ![u] = "woken"]
  \/ Asleep = {} /\ UNCHANGED at

GiveBack_Dropped(c) == UNCHANGED <<free, at>>

GiveBack_Twice(c) == free' = Append(free, c) /\ NotifyOne

(* RelXConn(c): a connection that is in the free list is not added again.  *)
GiveBack(c) ==
  \/ InFree(c) /\ UNCHANGED <<free, at>>
  \/ ~InFree(c) /\ free' = Append(free, c) /\ NotifyOne

Release(u) ==
  /\ has[u] # NoConn
  /\ has' = [has EXCEPT ![u] = NoConn]
  /\ GiveBack(has[u])
  /\ UNCHANGED <<cur, limit>>

(* CXManager::RelXConn ignores NULL. *)
ReleaseNull(u) ==
  /\ at[u] = "null"
  /\ at' = [at EXCEPT ![u] = "out"]
  /\ UNCHANGED <<free, cur, limit, has>>

(* A careless user gives a connection back which is free already.  (Once   *)
(* it has been lent on, RelXConn cannot tell; the server's users give each *)
(* connection back once, from the destructor of AutoRelXCon.)              *)
ReleaseAgain(u) ==
  /\ u \in Careless
  /\ \E c \in 1 .. cur : InFree(c) /\ GiveBack(c)
  /\ UNCHANGED <<cur, limit, has>>

Spurious ==
  /\ \E u \in Asleep : at' = [at EXCEPT ![u] = "woken"]
  /\ UNCHANGED <<free, cur, limit, has>>

(* The pool after Init() has succeeded. *)
Init ==
  /\ free = [i \in 1 .. MinConns |-> i]
  /\ cur = MinConns
  /\ at = [u \in Users |-> "out"]
  /\ limit = [u \in Users |-> FALSE]
  /\ has = [u \in Users |-> NoConn]

User(u) ==
  \/ \E lim \in BOOLEAN : Get(u, lim)
  \/ Wake(u) \/ TimeOut(u) \/ Release(u) \/ ReleaseNull(u) \/ ReleaseAgain(u)

Next == Spurious \/ \E u \in Users : User(u)

Spec == Init /\ [][Next]_vars

-----------------------------------------------------------------------------
(* Properties.                                                             *)

(* A connection is lent to at most one thread at a time, and never while   *)
(* it is in the free list: two requests never share a MySQL or redis       *)
(* connection, whose replies would then be mixed up.                       *)
NotShared ==
  /\ \A u, v \in Users : has[u] # NoConn /\ has[u] = has[v] => u = v
  /\ \A u \in Users : ~InFree(has[u])
  /\ \A i, j \in DOMAIN free : free[i] = free[j] => i = j

(* No connection leaks: all that were created are free or lent.            *)
NoneLost ==
  \A c \in 1 .. cur : InFree(c) \/ \E u \in Users : has[u] = c

(* No thread sleeps while there is a free connection nobody was woken for, *)
(* although others may take the connection before the woken thread.        *)
NoSleepOnFree == Asleep # {} => Len(free) <= Cardinality(Woken)
=============================================================================
