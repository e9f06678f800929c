--------------------------- MODULE ConnPoolProofs ---------------------------
(* Theorems about ConnPool, for any number of users and connections.       *)
EXTENDS ConnPool, FiniteSetTheorems, SequenceTheorems, TLAPS

-----------------------------------------------------------------------------
(* Sequences without InFree: the facts the steps need.                     *)

LEMMA FreeType ==
  ASSUME TypeOK
  PROVE  /\ Len(free) \in Nat /\ DOMAIN free = 1 .. Len(free)
         /\ \A i \in 1 .. Len(free) : free[i] \in Conns
         /\ free # <<>> => /\ Len(free) > 0
                           /\ Head(free) = free[1]
                           /\ Head(free) \in Conns
                           /\ Tail(free) \in Seq(Conns)
                           /\ Len(Tail(free)) = Len(free) - 1
                           /\ \A i \in 1 .. Len(free) - 1 :
                                Tail(free)[i] = free[i + 1]
         /\ free = <<>> => Len(free) = 0
<1>1. free \in Seq(Conns)
  BY DEF TypeOK
<1>2. Len(free) \in Nat /\ DOMAIN free = 1 .. Len(free)
  BY <1>1, LenProperties
<1>3. \A i \in 1 .. Len(free) : free[i] \in Conns
  BY <1>1, ElementOfSeq
<1>4. free = <<>> => Len(free) = 0
  OBVIOUS
<1>5. free # <<>> => /\ Len(free) > 0
                     /\ Head(free) = free[1]
                     /\ Head(free) \in Conns
                     /\ Tail(free) \in Seq(Conns)
                     /\ Len(Tail(free)) = Len(free) - 1
                     /\ \A i \in 1 .. Len(free) - 1 :
                          Tail(free)[i] = free[i + 1]
  BY <1>1, <1>2, <1>3, HeadTailProperties, EmptySeq
<1> QED
  BY <1>2, <1>3, <1>4, <1>5

LEMMA AppendFree ==
  ASSUME TypeOK, NEW c \in Conns
  PROVE  /\ Append(free, c) \in Seq(Conns)
         /\ Len(Append(free, c)) = Len(free) + 1
         /\ DOMAIN Append(free, c) = 1 .. Len(free) + 1
         /\ \A i \in 1 .. Len(free) : Append(free, c)[i] = free[i]
         /\ Append(free, c)[Len(free) + 1] = c
  BY AppendProperties, LenProperties DEF TypeOK

-----------------------------------------------------------------------------
(* Types.                                                                  *)

LEMMA PoolInit == Init => TypeOK
<1> SUFFICES ASSUME Init PROVE TypeOK
  OBVIOUS
<1>1. free \in Seq(Conns)
  <2>1. \A i \in 1 .. MinConns : i \in Conns
    BY ConnPoolAssumption DEF Conns, Capacity
  <2> QED
    BY <2>1, ConnPoolAssumption, IsASeq DEF Init
<1>2. cur \in MinConns .. Capacity
  BY ConnPoolAssumption DEF Init, Capacity
<1> QED
  BY <1>1, <1>2 DEF Init, TypeOK

LEMMA GiveBackType ==
  ASSUME TypeOK, NEW c \in Conns, GiveBack(c)
  PROVE  /\ free' \in Seq(Conns)
         /\ at' \in [Users -> {"out", "asleep", "woken", "null"}]
<1>1. CASE UNCHANGED <<free, at>>
  BY <1>1 DEF TypeOK
<1>2. CASE free' = Append(free, c) /\ NotifyOne
  BY <1>2, AppendFree DEF NotifyOne, TypeOK
<1> QED
  BY <1>1, <1>2 DEF GiveBack

LEMMA TakeFreeType ==
  ASSUME TypeOK, NEW u \in Users, TakeFree(u)
  PROVE  /\ free' \in Seq(Conns)
         /\ at' \in [Users -> {"out", "asleep", "woken", "null"}]
         /\ has' \in [Users -> Conns \cup {NoConn}]
  BY FreeType DEF TakeFree, TypeOK

LEMMA TypeStep == TypeOK /\ [Next]_vars => TypeOK'
<1> SUFFICES ASSUME TypeOK, [Next]_vars PROVE TypeOK'
  OBVIOUS
<1>1. CASE UNCHANGED vars
  BY <1>1 DEF vars, TypeOK
<1>2. CASE Spurious
  BY <1>2 DEF Spurious, TypeOK
<1>3. ASSUME NEW u \in Users, NEW lim \in BOOLEAN, Get(u, lim)
      PROVE  TypeOK'
  <2>1. limit' \in [Users -> BOOLEAN]
    BY <1>3 DEF Get, TypeOK
  <2>2. CASE TakeFree(u) /\ UNCHANGED cur
    BY <2>1, <2>2, TakeFreeType DEF TypeOK
  <2>3. CASE /\ MayCreate /\ cur' = cur + 1
             /\ has' = [has EXCEPT ![u] = cur + 1]
             /\ UNCHANGED <<free, at>>
    <3>1. cur + 1 \in MinConns .. Capacity /\ cur + 1 \in Conns
      BY <2>3, ConnPoolAssumption DEF TypeOK, MayCreate, Capacity, Conns
    <3> QED
      BY <2>1, <2>3, <3>1 DEF TypeOK
  <2>4. CASE /\ \/ at' = [at EXCEPT ![u] = "null"]
                \/ at' = [at EXCEPT ![u] = "asleep"]
             /\ UNCHANGED <<free, cur, has>>
    BY <2>1, <2>4 DEF TypeOK
  <2> QED
    BY <1>3, <2>2, <2>3, <2>4 DEF Get
<1>4. ASSUME NEW u \in Users, Wake(u) \/ TimeOut(u)
      PROVE  TypeOK'
  BY <1>4, TakeFreeType DEF Wake, TimeOut, TypeOK
<1>5. ASSUME NEW u \in Users, Release(u)
      PROVE  TypeOK'
  <2>1. has[u] \in Conns
    BY <1>5 DEF Release, TypeOK
  <2> QED
    BY <1>5, <2>1, GiveBackType DEF Release, TypeOK
<1>6. ASSUME NEW u \in Users, ReleaseNull(u)
      PROVE  TypeOK'
  BY <1>6 DEF ReleaseNull, TypeOK
<1>7. ASSUME NEW u \in Users, ReleaseAgain(u)
      PROVE  TypeOK'
  <2>1. 1 .. cur \subseteq Conns
    BY ConnPoolAssumption DEF TypeOK, Conns, Capacity
  <2> QED
    BY <1>7, <2>1, GiveBackType DEF ReleaseAgain, TypeOK
<1> QED
  BY <1>1, <1>2, <1>3, <1>4, <1>5, <1>6, <1>7 DEF Next, User

(* Every variable keeps its type: a pool never has more connections than   *)
(* its capacity.                                                           *)
THEOREM TypeCorrect == Spec => []TypeOK
  BY PoolInit, TypeStep, PTL DEF Spec

-----------------------------------------------------------------------------
(* No connection is shared.                                                *)

(* A connection that is free or lent has been created. *)
Created ==
  /\ \A i \in 1 .. Len(free) : free[i] \in 1 .. cur
  /\ \A u \in Users : has[u] # NoConn => has[u] \in 1 .. cur

(* NotShared, and that a user holds nothing while it is in GetXConn. *)
EmptyHanded == \A u \in Users : at[u] # "out" => has[u] = NoConn

OneHolder ==
  /\ \A u, v \in Users : has[u] # NoConn /\ has[u] = has[v] => u = v
  /\ \A u \in Users, i \in 1 .. Len(free) : free[i] # has[u]
  /\ \A i, j \in 1 .. Len(free) : free[i] = free[j] => i = j

ShareInv == TypeOK /\ Created /\ EmptyHanded /\ OneHolder

LEMMA ShareImplies == ShareInv => NotShared
  BY FreeType DEF ShareInv, OneHolder, NotShared, InFree

LEMMA ShareInit == Init => ShareInv
<1> SUFFICES ASSUME Init PROVE ShareInv
  OBVIOUS
<1>1. TypeOK
  BY PoolInit
<1>2. Len(free) = MinConns /\ \A i \in 1 .. Len(free) : free[i] = i
  BY ConnPoolAssumption DEF Init
<1>3. \A u \in Users : has[u] = NoConn /\ at[u] = "out"
  BY DEF Init
<1> QED
  BY <1>1, <1>2, <1>3, ConnPoolAssumption
     DEF Init, ShareInv, Created, EmptyHanded, OneHolder, NoConn

LEMMA TakeFreeShare ==
  ASSUME ShareInv, NEW u \in Users, has[u] = NoConn, TakeFree(u), cur' = cur
  PROVE  Created' /\ EmptyHanded' /\ OneHolder'
<1>1. /\ free # <<>> /\ free' = Tail(free)
      /\ Len(free) \in Nat /\ Len(free) > 0 /\ Len(free') = Len(free) - 1
      /\ \A i \in 1 .. Len(free) - 1 : free'[i] = free[i + 1]
  BY FreeType DEF ShareInv, TakeFree
<1>2. /\ has'[u] = free[1] /\ at'[u] = "out"
      /\ \A v \in Users \ {u} : has'[v] = has[v] /\ at'[v] = at[v]
  BY FreeType DEF ShareInv, TypeOK, TakeFree
<1>3. /\ 1 \in 1 .. Len(free)
      /\ \A i \in 1 .. Len(free') : i + 1 \in 1 .. Len(free) /\ i + 1 # 1
  BY <1>1
<1>4. Created'
  BY <1>1, <1>2, <1>3 DEF ShareInv, Created
<1>5. EmptyHanded'
  BY <1>2 DEF ShareInv, EmptyHanded
<1>6. \A i, j \in 1 .. Len(free') : free'[i] = free'[j] => i = j
  <2> SUFFICES ASSUME NEW i \in 1 .. Len(free'), NEW j \in 1 .. Len(free'),
                      free'[i] = free'[j]
               PROVE  i = j
    OBVIOUS
  <2>1. i + 1 = j + 1
    BY <1>1, <1>3 DEF ShareInv, OneHolder
  <2> QED
    BY <1>1, <2>1
<1>7. \A v \in Users, i \in 1 .. Len(free') : free'[i] # has'[v]
  BY <1>1, <1>2, <1>3 DEF ShareInv, OneHolder
<1>8. \A v, w \in Users : has'[v] # NoConn /\ has'[v] = has'[w] => v = w
  BY <1>2, <1>3 DEF ShareInv, OneHolder
<1> QED
  BY <1>4, <1>5, <1>6, <1>7, <1>8 DEF OneHolder

(* A new connection is nobody's yet. *)
LEMMA CreateShare ==
  ASSUME ShareInv, NEW u \in Users, has' = [has EXCEPT ![u] = cur + 1],
         cur' = cur + 1, at[u] = "out", UNCHANGED <<free, at>>
  PROVE  Created' /\ EmptyHanded' /\ OneHolder'
<1>1. /\ cur \in Nat
      /\ \A v \in Users : has'[v] = IF v = u THEN cur + 1 ELSE has[v]
      /\ \A v \in Users : has[v] # cur + 1
      /\ \A i \in 1 .. Len(free) : free[i] # cur + 1
  BY ConnPoolAssumption DEF ShareInv, TypeOK, Created, Capacity, NoConn
<1> QED
  BY <1>1 DEF ShareInv, Created, EmptyHanded, OneHolder

LEMMA ReleaseShare ==
  ASSUME ShareInv, NEW u \in Users, Release(u)
  PROVE  Created' /\ EmptyHanded' /\ OneHolder'
<1> DEFINE c == has[u]
<1>1. /\ c \in Conns /\ c # NoConn /\ c \in 1 .. cur
      /\ cur' = cur
      /\ \A v \in Users : has'[v] = IF v = u THEN NoConn ELSE has[v]
  BY DEF ShareInv, TypeOK, Release, Created
<1>2. ~InFree(c)
  BY FreeType DEF ShareInv, OneHolder, InFree
<1>3. free' = Append(free, c) /\ NotifyOne
  BY <1>2 DEF Release, GiveBack
<1>4. /\ Len(free) \in Nat /\ Len(free') = Len(free) + 1
      /\ \A i \in 1 .. Len(free) : free'[i] = free[i]
      /\ free'[Len(free) + 1] = c
  BY <1>1, <1>3, AppendFree, FreeType DEF ShareInv
<1>5. \A i \in 1 .. Len(free') : i \in 1 .. Len(free) \/ i = Len(free) + 1
  BY <1>4
<1>6. Created'
  BY <1>1, <1>4, <1>5 DEF ShareInv, Created
<1>7. \A v \in Users : at'[v] # "out" => at[v] # "out"
  BY <1>3 DEF NotifyOne, Asleep, ShareInv, TypeOK
<1>8. EmptyHanded'
  BY <1>1, <1>7 DEF ShareInv, EmptyHanded
<1>9. \A i \in 1 .. Len(free) : free[i] # NoConn
  BY FreeType DEF ShareInv, Conns, NoConn
<1>10. OneHolder'
  BY <1>1, <1>4, <1>5, <1>9 DEF ShareInv, OneHolder
<1> QED
  BY <1>6, <1>8, <1>10

LEMMA ShareStep == ShareInv /\ [Next]_vars => ShareInv'
<1> SUFFICES ASSUME ShareInv, [Next]_vars PROVE ShareInv'
  OBVIOUS
<1>1. TypeOK'
  BY TypeStep DEF ShareInv
<1>2. ASSUME /\ UNCHANGED <<free, cur, has>>
             /\ \A u \in Users : at'[u] # "out" => at[u] # "out" \/ has[u] = NoConn
      PROVE  Created' /\ EmptyHanded' /\ OneHolder'
  BY <1>2 DEF ShareInv, Created, EmptyHanded, OneHolder
<1>3. CASE UNCHANGED vars
  BY <1>1, <1>2, <1>3 DEF vars, ShareInv
<1>4. CASE Spurious
  BY <1>1, <1>2, <1>4 DEF Spurious, Asleep, ShareInv, TypeOK
<1>5. ASSUME NEW u \in Users, NEW lim \in BOOLEAN, Get(u, lim)
      PROVE  ShareInv'
  <2>1. CASE TakeFree(u) /\ UNCHANGED cur
    BY <1>1, <1>5, <2>1, TakeFreeShare DEF Get, ShareInv
  <2>2. CASE /\ has' = [has EXCEPT ![u] = cur + 1] /\ cur' = cur + 1
             /\ UNCHANGED <<free, at>>
    BY <1>1, <1>5, <2>2, CreateShare DEF Get, ShareInv
  <2>3. CASE /\ \/ at' = [at EXCEPT ![u] = "null"]
                \/ at' = [at EXCEPT ![u] = "asleep"]
             /\ UNCHANGED <<free, cur, has>>
    BY <1>1, <1>2, <1>5, <2>3 DEF Get, ShareInv, TypeOK
  <2> QED
    BY <1>5, <2>1, <2>2, <2>3 DEF Get
<1>6. ASSUME NEW u \in Users, Wake(u) \/ TimeOut(u)
      PROVE  ShareInv'
  <2>1. has[u] = NoConn /\ cur' = cur
    BY <1>6 DEF Wake, TimeOut, ShareInv, EmptyHanded
  <2>2. CASE TakeFree(u)
    BY <1>1, <2>1, <2>2, TakeFreeShare DEF ShareInv
  <2>3. CASE /\ \/ at' = [at EXCEPT ![u] = "null"]
                \/ at' = [at EXCEPT ![u] = "asleep"]
             /\ UNCHANGED <<free, has>>
    BY <1>1, <1>2, <2>1, <2>3 DEF ShareInv, TypeOK
  <2> QED
    BY <1>6, <2>2, <2>3 DEF Wake, TimeOut
<1>7. ASSUME NEW u \in Users, Release(u)
      PROVE  ShareInv'
  BY <1>1, <1>7, ReleaseShare DEF ShareInv
<1>8. ASSUME NEW u \in Users, ReleaseNull(u)
      PROVE  ShareInv'
  BY <1>1, <1>2, <1>8 DEF ReleaseNull, ShareInv, TypeOK
<1>9. ASSUME NEW u \in Users, ReleaseAgain(u)
      PROVE  ShareInv'
  BY <1>1, <1>2, <1>9 DEF ReleaseAgain, GiveBack, ShareInv
<1> QED
  BY <1>3, <1>4, <1>5, <1>6, <1>7, <1>8, <1>9 DEF Next, User

LEMMA ShareAlways == Spec => []ShareInv
  BY ShareInit, ShareStep, PTL DEF Spec

(* No two threads ever hold one connection, also when a connection is      *)
(* given back again while it is free.                                      *)
THEOREM NeverShared == Spec => []NotShared
  BY ShareAlways, ShareImplies, PTL

-----------------------------------------------------------------------------
(* No connection leaks.                                                    *)

LEMMA LostInit == Init => NoneLost
<1> SUFFICES ASSUME Init, NEW c \in 1 .. cur PROVE InFree(c)
  BY DEF NoneLost
<1>1. c \in 1 .. MinConns /\ free[c] = c /\ c \in DOMAIN free
  BY DEF Init
<1> QED
  BY <1>1 DEF InFree

LEMMA TakeFreeKeeps ==
  ASSUME ShareInv, NoneLost, NEW u \in Users, has[u] = NoConn, TakeFree(u),
         cur' = cur
  PROVE  NoneLost'
<1>1. /\ Len(free) \in Nat /\ Len(free) > 0 /\ Len(free') = Len(free) - 1
      /\ DOMAIN free' = 1 .. Len(free) - 1 /\ DOMAIN free = 1 .. Len(free)
      /\ \A i \in 1 .. Len(free) - 1 : free'[i] = free[i + 1]
  BY FreeType, LenProperties DEF ShareInv, TakeFree
<1>2. /\ has'[u] = free[1]
      /\ \A v \in Users \ {u} : has'[v] = has[v]
  BY FreeType DEF ShareInv, TypeOK, TakeFree
<1> SUFFICES ASSUME NEW c \in 1 .. cur
             PROVE  InFree(c)' \/ \E v \in Users : has'[v] = c
  BY DEF NoneLost, InFree
<1>3. CASE \E v \in Users : has[v] = c
  BY <1>2, <1>3 DEF NoConn
<1>4. CASE InFree(c)
  <2>1. PICK i \in 1 .. Len(free) : free[i] = c
    BY <1>1, <1>4 DEF InFree
  <2>2. CASE i = 1
    BY <1>2, <2>1, <2>2
  <2>3. CASE i # 1
    <3>1. i - 1 \in 1 .. Len(free) - 1 /\ free'[i - 1] = free[(i - 1) + 1]
      BY <1>1, <2>1, <2>3
    <3>2. free'[i - 1] = c
      BY <2>1, <3>1
    <3> QED
      BY <1>1, <3>1, <3>2 DEF InFree
  <2> QED
    BY <2>2, <2>3
<1> QED
  BY <1>3, <1>4 DEF NoneLost

LEMMA LostStep == ShareInv /\ NoneLost /\ [Next]_vars => NoneLost'
<1> SUFFICES ASSUME ShareInv, NoneLost, [Next]_vars PROVE NoneLost'
  OBVIOUS
<1>1. CASE UNCHANGED <<free, cur, has>>
  BY <1>1 DEF NoneLost, InFree
<1>2. ASSUME NEW u \in Users, TakeFree(u), cur' = cur,
             Wake(u) \/ TimeOut(u) \/ \E lim \in BOOLEAN : Get(u, lim)
      PROVE  NoneLost'
  <2>1. has[u] = NoConn
    BY <1>2 DEF Wake, TimeOut, Get, ShareInv, EmptyHanded
  <2> QED
    BY <1>2, <2>1, TakeFreeKeeps
<1>3. ASSUME NEW u \in Users, has[u] = NoConn, cur' = cur + 1,
             has' = [has EXCEPT ![u] = cur + 1], free' = free
      PROVE  NoneLost'
  <2>1. /\ cur \in Nat
        /\ \A v \in Users : has'[v] = IF v = u THEN cur + 1 ELSE has[v]
    BY <1>3, ConnPoolAssumption DEF ShareInv, TypeOK, Capacity
  <2> SUFFICES ASSUME NEW c \in 1 .. cur + 1
               PROVE  InFree(c)' \/ \E v \in Users : has'[v] = c
    BY <1>3 DEF NoneLost, InFree
  <2>2. CASE c = cur + 1
    BY <2>1, <2>2
  <2>3. CASE c # cur + 1
    <3>1. c \in 1 .. cur /\ c # NoConn
      BY <2>1, <2>3 DEF NoConn
    <3> QED
      BY <1>3, <2>1, <3>1 DEF NoneLost, InFree
  <2> QED
    BY <2>2, <2>3
<1>4. ASSUME NEW u \in Users, Release(u)
      PROVE  NoneLost'
  <2> PICK d \in Conns : d = has[u]
    BY <1>4 DEF Release, ShareInv, TypeOK
  <2>1. /\ cur' = cur /\ free \in Seq(Conns)
        /\ \A v \in Users : has'[v] = IF v = u THEN NoConn ELSE has[v]
    BY <1>4 DEF Release, ShareInv, TypeOK
  <2>2. /\ \A c \in Conns : InFree(c) => InFree(c)'
        /\ InFree(d)'
    <3>1. CASE InFree(d) /\ free' = free
      BY <3>1 DEF InFree
    <3>2. CASE free' = Append(free, d)
      <4>1. /\ DOMAIN free' = 1 .. Len(free) + 1 /\ DOMAIN free = 1 .. Len(free)
            /\ Len(free) \in Nat
            /\ \A i \in 1 .. Len(free) : free'[i] = free[i]
            /\ free'[Len(free) + 1] = d
        BY <2>1, <3>2, AppendFree, FreeType DEF ShareInv
      <4>2. Len(free) + 1 \in DOMAIN free'
        BY <4>1
      <4>3. \A i \in DOMAIN free : i \in DOMAIN free'
        BY <4>1
      <4> QED
        BY <4>1, <4>2, <4>3 DEF InFree
    <3> QED
      BY <1>4, <3>1, <3>2 DEF Release, GiveBack
  <2> SUFFICES ASSUME NEW c \in 1 .. cur
               PROVE  InFree(c)' \/ \E v \in Users : has'[v] = c
    BY <2>1 DEF NoneLost, InFree
  <2>3. c \in Conns
    BY ConnPoolAssumption DEF ShareInv, TypeOK, Conns, Capacity
  <2>4. CASE InFree(c)
    BY <2>2, <2>3, <2>4
  <2>5. CASE ~InFree(c)
    BY <2>1, <2>2, <2>5 DEF NoneLost
  <2> QED
    BY <2>4, <2>5
<1>5. CASE Spurious
  BY <1>1, <1>5 DEF Spurious
<1>6. ASSUME NEW u \in Users, User(u)
      PROVE  NoneLost'
  <2>1. CASE \E lim \in BOOLEAN : Get(u, lim)
    BY <1>1, <1>2, <1>3, <2>1 DEF Get
  <2>2. CASE Wake(u) \/ TimeOut(u)
    BY <1>1, <1>2, <2>2 DEF Wake, TimeOut
  <2>3. CASE ReleaseNull(u) \/ ReleaseAgain(u)
    BY <1>1, <2>3 DEF ReleaseNull, ReleaseAgain, GiveBack
  <2> QED
    BY <1>4, <1>6, <2>1, <2>2, <2>3 DEF User
<1> QED
  BY <1>1, <1>5, <1>6 DEF Next, vars

(* All connections that were ever created are lent or in the free list.    *)
THEOREM NoLeak == Spec => []NoneLost
  BY ShareAlways, LostInit, LostStep, PTL DEF Spec

(* When no user holds a connection, all that were created are free. *)
LEMMA AllFree ==
  ASSUME ShareInv, NoneLost, \A u \in Users : has[u] = NoConn
  PROVE  Len(free) = cur
<1>1. /\ Len(free) \in Nat /\ DOMAIN free = 1 .. Len(free)
      /\ cur \in Nat
  BY FreeType, ConnPoolAssumption DEF ShareInv, TypeOK, Capacity
<1>2. free \in [1 .. Len(free) -> 1 .. cur]
  BY <1>1 DEF ShareInv, TypeOK, Created
<1>3. \A c \in 1 .. cur : \E i \in 1 .. Len(free) : free[i] = c
  BY <1>1 DEF NoneLost, InFree, NoConn
<1>4. free \in Bijection(1 .. Len(free), 1 .. cur)
  BY <1>2, <1>3 DEF Bijection, Injection, Surjection, IsInjective, ShareInv, OneHolder
<1>5. Cardinality(1 .. cur) = Len(free)
  BY <1>1, <1>4, FS_CountingElements DEF ExistsBijection
<1>6. Cardinality(1 .. cur) = IF 1 > cur THEN 0 ELSE cur - 1 + 1
  BY <1>1, FS_Interval
<1>7. \A n \in Nat : (IF 1 > n THEN 0 ELSE n - 1 + 1) = n
  OBVIOUS
<1>8. Cardinality(1 .. cur) = cur
  BY <1>1, <1>6, <1>7
<1> QED
  BY <1>5, <1>8

-----------------------------------------------------------------------------
(* No thread sleeps beside a free connection.                              *)

LEMMA CountUsers ==
  ASSUME NEW S \in SUBSET Users, NEW u \in Users
  PROVE  /\ Cardinality(S) \in Nat
         /\ u \notin S => Cardinality(S \cup {u}) = Cardinality(S) + 1
         /\ u \in S => Cardinality(S \ {u}) = Cardinality(S) - 1
  BY ConnPoolAssumption, FS_Subset, FS_CardinalityType, FS_AddElement,
     FS_RemoveElement

LEMMA WokenType == Cardinality(Woken) \in Nat /\ Cardinality(Woken') \in Nat
<1>1. Woken \in SUBSET Users /\ Woken' \in SUBSET Users
  BY DEF Woken
<1> QED
  BY <1>1, ConnPoolAssumption, FS_Subset, FS_CardinalityType

LEMMA NotifyCounts ==
  ASSUME TypeOK, NEW u \in Asleep, at' = [at EXCEPT ![u] = "woken"]
  PROVE  Cardinality(Woken') = Cardinality(Woken) + 1
<1>1. u \in Users /\ u \notin Woken /\ Woken \in SUBSET Users
  BY DEF Asleep, Woken
<1>2. Woken' = Woken \cup {u}
  BY DEF Asleep, Woken, TypeOK
<1> QED
  BY <1>1, <1>2, CountUsers

(* A user that leaves the condition variable takes at most one woken user. *)
LEMMA LeaveCounts ==
  ASSUME TypeOK, NEW u \in Users, NEW a \in {"out", "asleep", "null"},
         at' = [at EXCEPT ![u] = a]
  PROVE  /\ Cardinality(Woken') >= Cardinality(Woken) - 1
         /\ at[u] # "woken" => Cardinality(Woken') = Cardinality(Woken)
<1>1. Woken \in SUBSET Users
  BY DEF Woken
<1>2. CASE at[u] = "woken"
  <2>1. Woken' = Woken \ {u} /\ u \in Woken
    BY <1>2 DEF Woken, TypeOK
  <2>2. Cardinality(Woken') = Cardinality(Woken) - 1
    BY <1>1, <2>1, CountUsers
  <2> QED
    BY <1>2, <2>2, WokenType
<1>3. CASE at[u] # "woken"
  <2>1. Woken' = Woken
    BY <1>3 DEF Woken, TypeOK
  <2> QED
    BY <2>1, WokenType
<1> QED
  BY <1>2, <1>3

LEMMA TakeFreeSleep ==
  ASSUME TypeOK, NoSleepOnFree, NEW u \in Users, TakeFree(u)
  PROVE  NoSleepOnFree'
<1>1. Len(free') = Len(free) - 1 /\ Len(free) \in Nat
  BY FreeType DEF TakeFree
<1>2. Cardinality(Woken') >= Cardinality(Woken) - 1
  BY LeaveCounts DEF TakeFree
<1>3. Asleep' \subseteq Asleep
  BY DEF TakeFree, Asleep, TypeOK
<1> QED
  BY <1>1, <1>2, <1>3, WokenType DEF NoSleepOnFree

LEMMA GiveBackSleep ==
  ASSUME TypeOK, NoSleepOnFree, NEW c \in Conns, GiveBack(c)
  PROVE  NoSleepOnFree'
<1>1. CASE UNCHANGED <<free, at>>
  BY <1>1 DEF NoSleepOnFree, Asleep, Woken
<1>2. ASSUME NEW u \in Asleep, at' = [at EXCEPT ![u] = "woken"],
             free' = Append(free, c)
      PROVE  NoSleepOnFree'
  <2>1. Cardinality(Woken') = Cardinality(Woken) + 1
    BY <1>2, NotifyCounts
  <2>2. Len(free') = Len(free) + 1 /\ Len(free) \in Nat
    BY <1>2, AppendFree, FreeType
  <2> QED
    BY <2>1, <2>2, WokenType DEF NoSleepOnFree
<1>3. CASE Asleep = {} /\ UNCHANGED at
  BY <1>3 DEF NoSleepOnFree, Asleep
<1> QED
  BY <1>1, <1>2, <1>3 DEF GiveBack, NotifyOne

LEMMA SleepStep == TypeOK /\ NoSleepOnFree /\ [Next]_vars => NoSleepOnFree'
<1> SUFFICES ASSUME TypeOK, NoSleepOnFree, [Next]_vars PROVE NoSleepOnFree'
  OBVIOUS
<1>1. CASE UNCHANGED <<free, at>>
  BY <1>1 DEF NoSleepOnFree, Asleep, Woken
<1>2. CASE free' = <<>>
  BY <1>2, WokenType DEF NoSleepOnFree
<1>3. ASSUME NEW u \in Users, TakeFree(u)
      PROVE  NoSleepOnFree'
  BY <1>3, TakeFreeSleep
<1>4. CASE Spurious
  <2>1. PICK u \in Asleep : at' = [at EXCEPT ![u] = "woken"]
    BY <1>4 DEF Spurious
  <2>2. Cardinality(Woken') = Cardinality(Woken) + 1 /\ Len(free) \in Nat
    BY <2>1, NotifyCounts, FreeType
  <2> QED
    BY <1>4, <2>1, <2>2, WokenType DEF Spurious, NoSleepOnFree
<1>5. ASSUME NEW u \in Users, NEW lim \in BOOLEAN, Get(u, lim)
      PROVE  NoSleepOnFree'
  BY <1>1, <1>2, <1>3, <1>5 DEF Get
<1>6. ASSUME NEW u \in Users, Wake(u) \/ TimeOut(u)
      PROVE  NoSleepOnFree'
  BY <1>2, <1>3, <1>6 DEF Wake, TimeOut
<1>7. ASSUME NEW u \in Users, Release(u)
      PROVE  NoSleepOnFree'
  BY <1>7, GiveBackSleep DEF Release, TypeOK
<1>8. ASSUME NEW u \in Users, ReleaseNull(u)
      PROVE  NoSleepOnFree'
  <2>1. Cardinality(Woken') = Cardinality(Woken)
    BY <1>8, LeaveCounts DEF ReleaseNull
  <2>2. Asleep' = Asleep
    BY <1>8 DEF ReleaseNull, Asleep, TypeOK
  <2> QED
    BY <1>8, <2>1, <2>2 DEF ReleaseNull, NoSleepOnFree
<1>9. ASSUME NEW u \in Users, ReleaseAgain(u)
      PROVE  NoSleepOnFree'
  <2>1. 1 .. cur \subseteq Conns
    BY ConnPoolAssumption DEF TypeOK, Conns, Capacity
  <2> QED
    BY <1>9, <2>1, GiveBackSleep DEF ReleaseAgain
<1> QED
  BY <1>1, <1>4, <1>5, <1>6, <1>7, <1>8, <1>9 DEF Next, User, vars

(* One notify_one per returned connection is enough: no thread sleeps      *)
(* while there is a free connection that no woken thread will take.        *)
THEOREM NobodySleepsOnFree == Spec => []NoSleepOnFree
<1>1. Init => NoSleepOnFree
  BY DEF Init, NoSleepOnFree, Asleep
<1> QED
  BY <1>1, SleepStep, TypeCorrect, PTL DEF Spec
=============================================================================
