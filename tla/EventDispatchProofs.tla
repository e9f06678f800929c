------------------------ MODULE EventDispatchProofs ------------------------
(* Theorems about EventDispatch, for any number of clients, descriptors    *)
(* and segments: reference counts are exact, a handle leads to the socket  *)
(* it was accepted on, no event is handled for another connection, and     *)
(* no edge of epoll is forgotten.                                          *)
EXTENDS EventDispatch, SequenceTheorems, FiniteSetTheorems,
        WellFoundedInduction, TLAPS

(* A set of descriptors that is not empty has a lowest one: of the         *)
(* intervals up to its members there is one that is minimal.               *)
LEMMA LowestFd ==
  ASSUME NEW S, S \subseteq Fds, S # {}
  PROVE  Min(S) \in S
<1> DEFINE upTo(n) == 1 .. n
           T == {upTo(n) : n \in S}
<1>1. IsWellFoundedOn(StrictSubsetOrdering(Nat), FiniteSubsetsOf(Nat))
  BY FS_StrictSubsetOrderingWellFounded
<1>2. \A n \in S : n \in Nat
  BY DispatchAssumption DEF Fds
<1>3. T \subseteq FiniteSubsetsOf(Nat)
  <2>1. SUFFICES ASSUME NEW n \in S
                 PROVE  upTo(n) \in FiniteSubsetsOf(Nat)
    OBVIOUS
  <2>2. IsFiniteSet(upTo(n))
    BY <1>2, FS_Interval
  <2>3. upTo(n) \subseteq Nat
    BY <1>2
  <2> QED
    BY <2>2, <2>3 DEF FiniteSubsetsOf
<1>4. PICK t \in T : \A u \in T : <<u, t>> \notin StrictSubsetOrdering(Nat)
  <2>1. T # {}
    OBVIOUS
  <2> HIDE DEF T
  <2> QED
    BY <1>1, <1>3, <2>1, WFMin
<1>5. PICK m \in S : t = upTo(m)
  OBVIOUS
<1>6. ASSUME NEW n \in S
      PROVE  m <= n
  <2>1. SUFFICES ASSUME n < m
                 PROVE  FALSE
    BY <1>2
  <2>2. upTo(n) \subseteq upTo(m) /\ upTo(n) # upTo(m)
    <3>1. m \in upTo(m) /\ m \notin upTo(n)
      BY <1>2, <2>1 DEF Fds
    <3> QED
      BY <1>2, <2>1, <3>1
  <2>3. upTo(n) \in T /\ upTo(n) \subseteq Nat /\ upTo(m) \subseteq Nat
    BY <1>2
  <2> QED
    BY <1>4, <1>5, <2>2, <2>3 DEF StrictSubsetOrdering
<1> QED
  BY <1>6 DEF Min

-----------------------------------------------------------------------------
(* The inductive invariant.                                                *)

(* Peers are accepted in the order in which they connected, so that object *)
(* and connection n belong to peer n.                                      *)
Queueing ==
  /\ alloc + Len(backlog) <= NConn
  /\ \A i \in 1 .. Len(backlog) : backlog[i] = alloc + i
  /\ \A p \in Conns : client[p] # "none" <=> p <= alloc + Len(backlog)

(* The map of sockets is the descriptor table, and its objects are those   *)
(* of the open connections; an object keeps its descriptor and its         *)
(* callback after it is closed.                                            *)
Sockets ==
  /\ socketMap = fdPeer
  /\ \A fd \in Fds : fdPeer[fd] # Nobody =>
       fdPeer[fd] \in httpMap /\ connFd[fdPeer[fd]] = fd
  /\ \A h \in httpMap : h <= alloc /\ fdPeer[connFd[h]] = h
  /\ \A o \in 1 .. alloc :
       connFd[o] \in Fds /\ sockFd[o] = connFd[o] /\ callback[o] = o
  /\ \A fd \in ready : fd \in Fds => fdPeer[fd] # Nobody

(* What the loop is at: outside a batch no event is left, the events of    *)
(* one descriptor are those of the object found for it, and its descriptor *)
(* is not used again before they are done.                                 *)
Turns ==
  /\ phase # "events" => cur = NoFd /\ \A fd \in Fds \cup {Listening} :
                                      batch[fd].flags = {}
  /\ curSock = Nobody <=> cur \in {NoFd, Listening}
  /\ curSock # Nobody =>
       /\ curSock <= alloc /\ cur = sockFd[curSock]
       /\ fdPeer[cur] \in {Nobody, curSock}
  /\ cur = Listening => batch[Listening].flags # {}
  /\ batch[Listening].flags \subseteq {"IN"}

(* EventsAreOwn, and an event is about somebody. *)
Events ==
  \A fd \in Fds \ {cur} :
    batch[fd].flags # {} => fdPeer[fd] = batch[fd].of /\ batch[fd].of # Nobody

(* EdgeKept for one connection. *)
ConnEdges(h) ==
  /\ unread[h] > 0 => Coming(connFd[h], "IN")
  /\ client[h] = "rst" => Coming(connFd[h], "HUP")
  /\ unsent[h] # 0 /\ ~full[h] => Coming(connFd[h], "OUT")

ListenEdge == backlog # <<>> => Coming(Listening, "IN") \/ starved

Edges == (\A h \in httpMap : ConnEdges(h)) /\ ListenEdge

DispatchInv ==
  TypeOK /\ Queueing /\ Sockets /\ Turns /\ Events /\ RefsExact /\ Edges

(* The invariant implies what the runs check. *)
LEMMA InvImplies ==
  ASSUME DispatchInv
  PROVE  RefsExact /\ OwnSocket /\ EventsAreOwn /\ EdgeKept
<1>1. RefsExact /\ EventsAreOwn /\ EdgeKept
  BY DEF DispatchInv, EventsAreOwn, Events, EdgeKept, Edges, ConnEdges,
         ListenEdge
<1>2. OwnSocket
  <2>1. SUFFICES ASSUME NEW h \in httpMap
                 PROVE  LET o == socketMap[connFd[h]] IN
                        /\ o = h /\ callback[o] = h
                        /\ sockFd[o] = connFd[h] /\ fdPeer[sockFd[o]] = h
    BY DEF OwnSocket
  <2>2. h \in 1 .. alloc
    BY DEF DispatchInv, Sockets, TypeOK, Conns
  <2> QED
    BY <2>1, <2>2 DEF DispatchInv, Sockets
<1> QED
  BY <1>1, <1>2

LEMMA InitInv ==
  ASSUME Init
  PROVE  DispatchInv
<1> USE DispatchAssumption
<1>1. TypeOK
  <2>1. batch \in [Fds \cup {Listening} ->
                     [flags : SUBSET Flags, of : Conns \cup {Nobody}]]
    BY DEF Init, NoEvents
  <2>2. backlog \in Seq(Conns) /\ respList \in Seq(Conns)
    BY EmptySeq DEF Init
  <2>3. /\ client \in [Conns -> {"none", "open", "fin", "rst"}]
        /\ sent \in [Conns -> 0 .. MaxSend]
        /\ unread \in [Conns -> Nat]
        /\ full \in [Conns -> BOOLEAN] /\ fdPeer \in [Fds -> Conns \cup {Nobody}]
    BY DEF Init
  <2>4. /\ socketMap \in [Fds -> Conns \cup {Nobody}]
        /\ sockFd \in [Conns -> Fds \cup {NoFd}]
        /\ refs \in [Conns -> Int] /\ unsent \in [Conns -> Nat]
        /\ callback \in [Conns -> Conns \cup {Nobody}]
        /\ connFd \in [Conns -> Fds \cup {NoFd}]
    BY DEF Init
  <2>5. /\ ready \subseteq Fds \cup {Listening} /\ alloc \in 0 .. NConn
        /\ phase \in {"wait", "events", "loop"}
        /\ cur \in Fds \cup {Listening, NoFd}
        /\ curSock \in Conns \cup {Nobody}
        /\ httpMap \subseteq Conns /\ asked \subseteq Conns
    BY DEF Init
  <2>6. starved \in BOOLEAN
    BY DEF Init
  <2> QED
    BY <2>1, <2>2, <2>3, <2>4, <2>5, <2>6 DEF TypeOK
<1>2. Queueing
  BY EmptySeq DEF Init, Queueing, Conns
<1>3. Sockets /\ RefsExact
  BY DEF Init, Sockets, RefsExact
<1>4. Turns /\ Events
  BY DEF Init, Turns, Events, NoEvents, NoFd, Nobody, Listening
<1>5. Edges
  BY DEF Init, Edges, ListenEdge
<1> QED
  BY <1>1, <1>2, <1>3, <1>4, <1>5 DEF DispatchInv

-----------------------------------------------------------------------------
(* What a handler may do to its connection h.                              *)

(* The state of other connections stays, and h keeps to the types. *)
WritesOnly(h) ==
  /\ unsent' \in [Conns -> Nat] /\ full' \in [Conns -> BOOLEAN]
  /\ \A g \in Conns \ {h} : unsent'[g] = unsent[g] /\ full'[g] = full[g]

ReadsOnly(h) ==
  /\ unread' \in [Conns -> Nat]
  /\ \A g \in Conns \ {h} : unread'[g] = unread[g]

(* It is closed, *)
Closes(h) ==
  /\ httpMap' = httpMap \ {h}
  /\ ready' = ready \ {connFd[h]}
  /\ socketMap' = [socketMap EXCEPT ![connFd[h]] = Nobody]
  /\ fdPeer' = [fdPeer EXCEPT ![connFd[h]] = Nobody]
  /\ refs' = [refs EXCEPT ![h] = @ - 1]

(* or stays open. *)
StaysOpen == UNCHANGED httpMap /\ KeepSocket

(* Unsent data that have room were there before. *)
NoNewEdge(h) ==
  unsent'[h] # 0 /\ ~full'[h] => unsent[h] # 0 /\ ~full[h]

LEMMA ConnOfSocket ==
  ASSUME TypeOK, Sockets, NEW h \in httpMap
  PROVE  /\ h \in Conns /\ h \in 1 .. alloc /\ connFd[h] \in Fds
         /\ socketMap[connFd[h]] = h /\ sockFd[h] = connFd[h]
         /\ Reach(connFd[h]) = h
<1>1. h \in Conns /\ h \in 1 .. alloc
  BY DEF TypeOK, Sockets, Conns
<1>2. connFd[h] \in Fds /\ sockFd[h] = connFd[h] /\ fdPeer[connFd[h]] = h
  BY <1>1 DEF Sockets
<1> QED
  BY <1>1, <1>2 DEF Reach, FindBaseSocket, Sockets, Nobody, Conns

LEMMA CloseConnCloses ==
  ASSUME TypeOK, Sockets, NEW h \in httpMap, CloseConn(h)
  PROVE  Closes(h) /\ unsent' = [unsent EXCEPT ![h] = 0]
<1>1. /\ h \in Conns /\ h # Nobody /\ FindBaseSocket(connFd[h]) = h
      /\ sockFd[h] = connFd[h]
  BY ConnOfSocket DEF FindBaseSocket, Nobody, Conns
<1>2. CloseSocket(h) /\ refs' = ReleaseRef(ReleaseRef(AddRef(refs, h), h), h)
  BY <1>1 DEF CloseConn, netlib_close
<1>3. refs' = [refs EXCEPT ![h] = @ - 1]
  <2>1. refs \in [Conns -> Int]
    BY DEF TypeOK
  <2> QED
    BY <1>1, <1>2, <2>1 DEF ReleaseRef, AddRef
<1> QED
  BY <1>1, <1>2, <1>3 DEF Closes, CloseSocket, RemoveBaseSocket, CloseConn

LEMMA WriteOutcome ==
  ASSUME TypeOK, Sockets, NEW h \in httpMap, NEW n \in Nat \ {0}, Write(h, n)
  PROVE  WritesOnly(h) /\ (Closes(h) \/ (StaysOpen /\ full'[h]))
<1>1. h \in Conns /\ h # Nobody /\ Reach(connFd[h]) = h
  BY ConnOfSocket DEF Nobody, Conns
<1>2. PICK k \in KernelTakes(h, n) :
        /\ full' = [full EXCEPT ![h] = k < n]
        /\ \/ /\ k < n
              /\ unsent' = [unsent EXCEPT ![h] = n - k]
              /\ UNCHANGED httpMap /\ KeepSocket
           \/ k = n /\ CloseConn(h)
  BY <1>1 DEF Write
<1>3. k \in 0 .. n
  BY <1>1, <1>2 DEF KernelTakes
<1>4. unsent \in [Conns -> Nat] /\ full \in [Conns -> BOOLEAN]
  BY DEF TypeOK
<1>5. full' \in [Conns -> BOOLEAN]
      /\ \A g \in Conns \ {h} : full'[g] = full[g]
  BY <1>1, <1>2, <1>4
<1>6. CASE /\ k < n
           /\ unsent' = [unsent EXCEPT ![h] = n - k]
           /\ UNCHANGED httpMap /\ KeepSocket
  <2>1. full'[h]
    BY <1>1, <1>2, <1>4, <1>6
  <2>2. n - k \in Nat
    BY <1>3, <1>6
  <2> QED
    BY <1>1, <1>4, <1>5, <1>6, <2>1, <2>2 DEF WritesOnly, StaysOpen
<1>7. CASE k = n /\ CloseConn(h)
  BY <1>1, <1>4, <1>5, <1>7, CloseConnCloses DEF WritesOnly
<1> QED
  BY <1>2, <1>6, <1>7

LEMMA SendOutcome ==
  ASSUME TypeOK, Sockets, NEW h \in httpMap, Send(h)
  PROVE  WritesOnly(h) /\ (Closes(h) \/ (StaysOpen /\ NoNewEdge(h)))
<1>1. h \in Conns
  BY ConnOfSocket
<1>2. CASE /\ unsent[h] # 0
           /\ unsent' = [unsent EXCEPT ![h] = @ + RespLen]
           /\ UNCHANGED <<httpMap, full>> /\ KeepSocket
  BY <1>1, <1>2, DispatchAssumption
     DEF WritesOnly, StaysOpen, NoNewEdge, TypeOK
<1>3. CASE Write(h, RespLen)
  BY <1>3, WriteOutcome, DispatchAssumption DEF NoNewEdge
<1> QED
  BY <1>2, <1>3 DEF Send

LEMMA OnReadOutcome ==
  ASSUME TypeOK, Sockets, NEW h \in httpMap, OnRead(h)
  PROVE  /\ WritesOnly(h) /\ ReadsOnly(h) /\ asked' \subseteq Conns
         /\ Closes(h) \/ (StaysOpen /\ NoNewEdge(h) /\ unread'[h] = 0)
<1>1. h \in Conns /\ h # Nobody /\ Reach(connFd[h]) = h
  BY ConnOfSocket DEF Nobody, Conns
<1>2. ReadsOnly(h) /\ unread'[h] = 0
  <2>1. unread' = [unread EXCEPT ![h] = 0]
    BY <1>1 DEF OnRead, RecvAll
  <2> QED
    BY <1>1, <2>1, DispatchAssumption DEF ReadsOnly, TypeOK
<1>3. asked' \subseteq Conns
  BY <1>1 DEF OnRead, TypeOK
<1>4. CASE UNCHANGED <<httpMap, unsent, full>> /\ KeepSocket
  BY <1>2, <1>3, <1>4 DEF WritesOnly, StaysOpen, NoNewEdge, TypeOK
<1>5. CASE CloseConn(h) /\ UNCHANGED full
  <2>1. Closes(h) /\ unsent' = [unsent EXCEPT ![h] = 0]
    BY <1>5, CloseConnCloses
  <2>2. WritesOnly(h)
    BY <1>1, <1>5, <2>1 DEF WritesOnly, TypeOK
  <2> QED
    BY <1>2, <1>3, <2>1, <2>2
<1>6. CASE Send(h)
  BY <1>2, <1>6, <1>3, SendOutcome
<1> QED
  BY <1>2, <1>4, <1>5, <1>6, <1>3 DEF OnRead

-----------------------------------------------------------------------------
(* What such a handler keeps.                                              *)

ObjectsStay ==
  UNCHANGED <<client, sent, backlog, starved, alloc, sockFd, callback, connFd,
              phase, cur, curSock>>

Effect(h) ==
  /\ h \in httpMap /\ WritesOnly(h) /\ ReadsOnly(h)
  /\ Closes(h) \/ StaysOpen

(* Closing touches no descriptor but that of h. *)
LEMMA ClosesOne ==
  ASSUME TypeOK, Sockets, NEW h \in httpMap, Closes(h)
  PROVE  /\ \A fd \in Fds \ {connFd[h]} :
              fdPeer'[fd] = fdPeer[fd] /\ socketMap'[fd] = socketMap[fd]
         /\ fdPeer'[connFd[h]] = Nobody /\ socketMap'[connFd[h]] = Nobody
         /\ \A g \in httpMap' : g # h /\ g \in httpMap /\ connFd[g] # connFd[h]
<1>1. connFd[h] \in Fds /\ fdPeer[connFd[h]] = h
  BY ConnOfSocket DEF Sockets
<1>2. fdPeer \in [Fds -> Conns \cup {Nobody}]
      /\ socketMap \in [Fds -> Conns \cup {Nobody}]
  BY DEF TypeOK
<1>3. ASSUME NEW g \in httpMap'
      PROVE  g # h /\ g \in httpMap /\ connFd[g] # connFd[h]
  <2>1. g # h /\ g \in httpMap
    BY DEF Closes
  <2>2. fdPeer[connFd[g]] = g
    BY <2>1 DEF Sockets
  <2> QED
    BY <1>1, <2>1, <2>2
<1> QED
  BY <1>1, <1>2, <1>3 DEF Closes

LEMMA EffectTypes ==
  ASSUME TypeOK, Sockets, NEW h, Effect(h), ObjectsStay
  PROVE  /\ unsent' \in [Conns -> Nat] /\ full' \in [Conns -> BOOLEAN]
         /\ unread' \in [Conns -> Nat]
         /\ fdPeer' \in [Fds -> Conns \cup {Nobody}]
         /\ socketMap' \in [Fds -> Conns \cup {Nobody}]
         /\ ready' \subseteq Fds \cup {Listening}
         /\ refs' \in [Conns -> Int] /\ httpMap' \subseteq Conns
<1>1. h \in httpMap /\ h \in Conns
  BY ConnOfSocket DEF Effect
<1>2. CASE StaysOpen
  BY <1>2 DEF Effect, WritesOnly, ReadsOnly, StaysOpen, KeepSocket, TypeOK
<1>3. CASE Closes(h)
  <2>1. refs' \in [Conns -> Int]
    BY <1>1, <1>3 DEF Closes, TypeOK
  <2>2. fdPeer' \in [Fds -> Conns \cup {Nobody}]
        /\ socketMap' \in [Fds -> Conns \cup {Nobody}]
    BY <1>3 DEF Closes, TypeOK
  <2> QED
    BY <1>3, <2>1, <2>2 DEF Effect, WritesOnly, ReadsOnly, Closes, TypeOK
<1> QED
  BY <1>2, <1>3 DEF Effect

LEMMA EffectSockets ==
  ASSUME TypeOK, Sockets, NEW h, Effect(h), ObjectsStay
  PROVE  Sockets'
<1>1. h \in httpMap
  BY DEF Effect
<1>2. CASE StaysOpen
  BY <1>2 DEF ObjectsStay, StaysOpen, KeepSocket, Sockets
<1>3. CASE Closes(h)
  <2>1. (socketMap = fdPeer)'
    BY <1>3 DEF Closes, Sockets
  <2>2. ASSUME NEW fd \in Fds, fdPeer'[fd] # Nobody
        PROVE  fdPeer'[fd] \in httpMap' /\ connFd'[fdPeer'[fd]] = fd
    <3>1. fd # connFd[h] /\ fdPeer'[fd] = fdPeer[fd]
      BY <1>1, <1>3, <2>2, ClosesOne
    <3>2. fdPeer[fd] \in httpMap /\ connFd[fdPeer[fd]] = fd
      BY <2>2, <3>1 DEF Sockets
    <3> QED
      BY <1>3, <3>1, <3>2 DEF Closes, ObjectsStay
  <2>3. ASSUME NEW g \in httpMap'
        PROVE  g <= alloc' /\ fdPeer'[connFd'[g]] = g
    <3>1. g \in httpMap /\ connFd[g] # connFd[h]
      BY <1>1, <1>3, ClosesOne
    <3>2. connFd[g] \in Fds
      BY <3>1, ConnOfSocket
    <3> QED
      BY <1>1, <1>3, <3>1, <3>2, ClosesOne DEF ObjectsStay, Sockets
  <2>4. \A fd \in ready' : fd \in Fds => fdPeer'[fd] # Nobody
    BY <1>1, <1>3, ClosesOne DEF Closes, Sockets
  <2>5. \A o \in 1 .. alloc' :
          connFd'[o] \in Fds /\ sockFd'[o] = connFd'[o] /\ callback'[o] = o
    BY DEF ObjectsStay, Sockets
  <2> QED
    BY <2>1, <2>2, <2>3, <2>4, <2>5 DEF Sockets
<1> QED
  BY <1>2, <1>3 DEF Effect

LEMMA EffectRefs ==
  ASSUME TypeOK, Sockets, RefsExact, NEW h, Effect(h), ObjectsStay
  PROVE  RefsExact'
<1>1. h \in httpMap /\ h \in Conns
  BY ConnOfSocket DEF Effect
<1>2. CASE StaysOpen
  BY <1>2 DEF ObjectsStay, StaysOpen, KeepSocket, RefsExact
<1>3. CASE Closes(h)
  <2> SUFFICES ASSUME NEW o \in 1 .. alloc
               PROVE  refs'[o] =
                        (IF \E fd \in Fds : socketMap'[fd] = o THEN 1 ELSE 0)
                          + (IF curSock = o THEN 1 ELSE 0)
    BY DEF ObjectsStay, RefsExact
  <2>1. o \in Conns /\ o # Nobody
    BY DispatchAssumption DEF TypeOK, Conns, Nobody
  <2>2. connFd[h] \in Fds /\ socketMap[connFd[h]] = h
    BY <1>1, ConnOfSocket
  <2>3. CASE o = h
    <3>1. \A fd \in Fds : socketMap'[fd] # h
      BY <1>1, <1>3, <2>1, <2>3, ClosesOne DEF Sockets
    <3>2. refs'[h] = refs[h] - 1
      BY <1>1, <1>3 DEF Closes, TypeOK
    <3>3. refs[h] = 1 + (IF curSock = h THEN 1 ELSE 0)
      BY <2>2, <2>3 DEF RefsExact
    <3> QED
      BY <2>3, <3>1, <3>2, <3>3
  <2>4. CASE o # h
    <3>1. (\E fd \in Fds : socketMap'[fd] = o) <=> \E fd \in Fds : socketMap[fd] = o
      BY <1>1, <1>3, <2>1, <2>2, <2>4, ClosesOne
    <3>2. refs'[o] = refs[o]
      BY <1>3, <2>1, <2>4 DEF Closes, TypeOK
    <3> QED
      BY <3>1, <3>2 DEF RefsExact
  <2> QED
    BY <2>3, <2>4
<1> QED
  BY <1>2, <1>3 DEF Effect

-----------------------------------------------------------------------------
(* The handlers of the events of curSock.                                  *)

(* What is left of h is nothing the handled event f was about. *)
Settled(f, h) ==
  /\ NoNewEdge(h) /\ unread'[h] \in {0, unread[h]}
  /\ f = "IN" => unread'[h] = 0
  /\ f = "OUT" => unsent'[h] = 0 \/ full'[h]
  /\ f # "HUP"

(* The handler of f finds the connection gone, closes it, or settles f. *)
Handled(f) ==
  \/ curSock \notin httpMap /\ nothingDone
  \/ /\ Effect(curSock) /\ asked' \subseteq Conns
     /\ Closes(curSock) \/ (StaysOpen /\ Settled(f, curSock))

(* The batch without f, and where curSock is. *)
LEMMA HandledBatch ==
  ASSUME DispatchInv, NEW f, Handle(f)
  PROVE  /\ curSock \in Conns /\ curSock \in 1 .. alloc /\ cur \in Fds
         /\ cur = connFd[curSock] /\ cur # Listening /\ cur # NoFd
         /\ ObjectsStay /\ asked \subseteq Conns
         /\ batch' \in [Fds \cup {Listening} ->
                          [flags : SUBSET Flags, of : Conns \cup {Nobody}]]
         /\ \A fd \in (Fds \cup {Listening}) \ {cur} : batch'[fd] = batch[fd]
         /\ batch'[cur].flags = batch[cur].flags \ {f}
<1> USE DEF DispatchInv
<1>1. curSock # Nobody
  BY DEF Handle
<1>2. curSock \in Conns /\ curSock \in 1 .. alloc
  BY <1>1, DispatchAssumption DEF TypeOK, Turns, Conns
<1>3. cur \in Fds /\ cur = connFd[curSock] /\ cur # Listening /\ cur # NoFd
  BY <1>1, <1>2 DEF Turns, Sockets
<1>4. batch' = [batch EXCEPT ![cur].flags = @ \ {f}]
  BY DEF Handle
<1>5. batch \in [Fds \cup {Listening} ->
                  [flags : SUBSET Flags, of : Conns \cup {Nobody}]]
  BY DEF TypeOK
<1>6. /\ batch' \in [Fds \cup {Listening} ->
                      [flags : SUBSET Flags, of : Conns \cup {Nobody}]]
      /\ \A fd \in (Fds \cup {Listening}) \ {cur} : batch'[fd] = batch[fd]
      /\ batch'[cur].flags = batch[cur].flags \ {f}
  BY <1>3, <1>4, <1>5
<1>7. ObjectsStay /\ asked \subseteq Conns
  BY DEF Handle, ObjectsStay, peerVars, TypeOK
<1> QED
  BY <1>2, <1>3, <1>6, <1>7

(* After it, only the descriptor of curSock may have changed hands. *)
LEMMA HandledFds ==
  ASSUME DispatchInv, NEW f, Handle(f), Handled(f)
  PROVE  /\ \A fd \in Fds \ {cur} : fdPeer'[fd] = fdPeer[fd]
         /\ fdPeer'[cur] \in {Nobody, curSock}
         /\ ready' = ready \/ (ready' = ready \ {cur} /\ Closes(curSock))
<1> USE DEF DispatchInv
<1>1. cur = connFd[curSock] /\ curSock # Nobody
  BY HandledBatch DEF Conns, Nobody
<1>2. fdPeer[cur] \in {Nobody, curSock}
  BY <1>1 DEF Turns
<1>3. CASE Effect(curSock) /\ Closes(curSock)
  <2>1. curSock \in httpMap
    BY <1>3 DEF Effect
  <2>2. fdPeer'[cur] = Nobody
        /\ \A fd \in Fds \ {cur} : fdPeer'[fd] = fdPeer[fd]
    BY <1>1, <1>3, <2>1, ClosesOne
  <2> QED
    BY <1>1, <1>3, <2>2 DEF Closes
<1>4. CASE UNCHANGED <<fdPeer, ready>>
  BY <1>2, <1>4
<1> QED
  BY <1>3, <1>4 DEF Handled, StaysOpen, nothingDone, KeepSocket

LEMMA HandledTypes ==
  ASSUME DispatchInv, NEW f, Handle(f), Handled(f)
  PROVE  TypeOK' /\ Sockets' /\ RefsExact' /\ Queueing'
<1> USE DEF DispatchInv
<1>1. ObjectsStay /\ asked \subseteq Conns
      /\ batch' \in [Fds \cup {Listening} ->
                      [flags : SUBSET Flags, of : Conns \cup {Nobody}]]
  BY HandledBatch
<1>2. Queueing'
  BY <1>1 DEF Queueing, ObjectsStay
<1>3. UNCHANGED <<phase, cur, curSock, starved, respList, sent>>
  BY DEF Handle, peerVars
<1>4. CASE curSock \notin httpMap /\ nothingDone
  <2>1. TypeOK'
    BY <1>1, <1>3, <1>4 DEF nothingDone, KeepSocket, ObjectsStay, TypeOK
  <2>2. Sockets' /\ RefsExact'
    BY <1>1, <1>3, <1>4
       DEF nothingDone, KeepSocket, ObjectsStay, Sockets, RefsExact
  <2> QED
    BY <1>2, <2>1, <2>2
<1>5. CASE Effect(curSock) /\ asked' \subseteq Conns
  <2>1. Sockets' /\ RefsExact'
    BY <1>1, <1>5, EffectSockets, EffectRefs
  <2>2. TypeOK'
    BY <1>1, <1>3, <1>5, EffectTypes DEF ObjectsStay, TypeOK
  <2> QED
    BY <1>2, <2>1, <2>2
<1> QED
  BY <1>4, <1>5 DEF Handled

LEMMA HandledTurns ==
  ASSUME DispatchInv, NEW f, Handle(f), Handled(f)
  PROVE  Turns' /\ Events'
<1> USE DEF DispatchInv
<1>1. phase = "events" /\ UNCHANGED <<phase, cur, curSock, alloc, sockFd>>
  BY DEF Handle
<1>2. Turns'
  BY <1>1, HandledBatch, HandledFds DEF Turns
<1>3. Events'
  <2> SUFFICES ASSUME NEW fd \in Fds \ {cur}, batch'[fd].flags # {}
               PROVE  fdPeer'[fd] = batch'[fd].of /\ batch'[fd].of # Nobody
    BY <1>1 DEF Events
  <2>1. batch'[fd] = batch[fd] /\ fdPeer'[fd] = fdPeer[fd]
    BY HandledBatch, HandledFds
  <2> QED
    BY <2>1 DEF Events
<1> QED
  BY <1>2, <1>3

(* No edge is forgotten: those of other connections are where they were,   *)
(* and the handled one is settled.                                         *)
LEMMA HandledEdges ==
  ASSUME DispatchInv, NEW f, Handle(f), Handled(f)
  PROVE  Edges'
<1> USE DEF DispatchInv
<1>1. /\ phase = "events" /\ phase' = phase /\ connFd' = connFd
      /\ UNCHANGED <<client, backlog, starved, cur, curSock>>
  BY HandledBatch DEF Handle, ObjectsStay
<1>2. ListenEdge'
  <2>1. Coming(Listening, "IN") => Coming(Listening, "IN")'
    BY <1>1, HandledBatch, HandledFds DEF Coming
  <2> QED
    BY <1>1, <2>1 DEF Edges, ListenEdge
<1>3. ASSUME NEW g \in httpMap', g # curSock
      PROVE  ConnEdges(g)'
  <2>1. g \in httpMap /\ connFd[g] # cur /\ connFd[g] \in Fds
    <3>1. g \in httpMap
      BY DEF Handled, Effect, Closes, StaysOpen, nothingDone
    <3>2. fdPeer[connFd[g]] = g /\ connFd[g] \in Fds /\ g # Nobody
      BY <3>1, ConnOfSocket DEF Sockets, Conns, Nobody
    <3>3. fdPeer[cur] \in {Nobody, curSock}
      BY HandledBatch DEF Turns, Conns, Nobody
    <3> QED
      BY <1>3, <3>1, <3>2, <3>3
  <2>2. \A e : Coming(connFd[g], e) => Coming(connFd[g], e)'
    BY <1>1, <2>1, HandledBatch, HandledFds DEF Coming
  <2>3. unread'[g] = unread[g] /\ unsent'[g] = unsent[g] /\ full'[g] = full[g]
    <3>1. g \in Conns
      BY <2>1 DEF TypeOK
    <3> QED
      BY <1>3, <3>1 DEF Handled, Effect, WritesOnly, ReadsOnly, nothingDone
  <2>4. ConnEdges(g)
    BY <2>1 DEF Edges
  <2> QED
    BY <1>1, <2>2, <2>3, <2>4 DEF ConnEdges
<1>4. ASSUME curSock \in httpMap'
      PROVE  ConnEdges(curSock)'
  <2>1. StaysOpen /\ Settled(f, curSock) /\ curSock \in httpMap
    BY <1>4 DEF Handled, Closes, nothingDone, Effect
  <2>2. \A e : e # f /\ Coming(cur, e) => Coming(cur, e)'
    BY <1>1, <2>1, HandledBatch DEF Coming, StaysOpen, KeepSocket
  <2>3. ConnEdges(curSock) /\ cur = connFd[curSock]
    BY <2>1, HandledBatch DEF Edges
  <2>4. unread'[curSock] > 0 => Coming(cur, "IN")'
    BY <2>1, <2>2, <2>3 DEF ConnEdges, Settled
  <2>5. client'[curSock] = "rst" => Coming(cur, "HUP")'
    BY <1>1, <2>1, <2>2, <2>3 DEF ConnEdges, Settled
  <2>6. unsent'[curSock] # 0 /\ ~full'[curSock] => Coming(cur, "OUT")'
    BY <2>1, <2>2, <2>3 DEF ConnEdges, Settled, NoNewEdge
  <2> QED
    BY <1>1, <2>3, <2>4, <2>5, <2>6 DEF ConnEdges
<1>5. \A g \in httpMap' : ConnEdges(g)'
  BY <1>1, <1>3, <1>4 DEF ConnEdges
<1> QED
  BY <1>2, <1>5 DEF Edges

(* A handler that only closes. *)
LEMMA CloseEffect ==
  ASSUME TypeOK, Sockets, NEW h \in httpMap, CloseConn(h),
         UNCHANGED <<unread, full, asked>>
  PROVE  Effect(h) /\ Closes(h) /\ asked' \subseteq Conns
<1>1. Closes(h) /\ unsent' = [unsent EXCEPT ![h] = 0]
  BY CloseConnCloses
<1>2. WritesOnly(h) /\ ReadsOnly(h) /\ asked' \subseteq Conns
  BY <1>1 DEF WritesOnly, ReadsOnly, TypeOK
<1> QED
  BY <1>1, <1>2 DEF Effect

LEMMA HandledInv ==
  ASSUME DispatchInv, NEW f, Handle(f), Handled(f)
  PROVE  DispatchInv'
  BY HandledTypes, HandledTurns, HandledEdges DEF DispatchInv

LEMMA ReadInv ==
  ASSUME DispatchInv, ReadEvent
  PROVE  DispatchInv'
<1> USE DEF DispatchInv
<1>1. Handle("IN")
  BY DEF ReadEvent
<1>2. callback[curSock] = curSock
  BY <1>1, HandledBatch DEF Sockets
<1>3. CASE curSock \notin httpMap /\ nothingDone
  BY <1>1, <1>3, HandledInv DEF Handled
<1>4. CASE /\ curSock \in httpMap /\ CloseConn(curSock)
           /\ UNCHANGED <<unread, full, asked>>
  BY <1>1, <1>4, HandledInv, CloseEffect DEF Handled
<1>5. CASE curSock \in httpMap /\ OnRead(curSock)
  BY <1>1, <1>5, HandledInv, OnReadOutcome DEF Handled, Effect, Settled
<1> QED
  BY <1>1, <1>2, <1>3, <1>4, <1>5 DEF ReadEvent

LEMMA WriteInv ==
  ASSUME DispatchInv, WriteEvent
  PROVE  DispatchInv'
<1> USE DEF DispatchInv
<1>1. Handle("OUT") /\ curSock \in Conns /\ callback[curSock] = curSock
  BY HandledBatch DEF WriteEvent, Sockets
<1>2. CASE curSock \notin httpMap /\ nothingDone
  BY <1>1, <1>2, HandledInv DEF Handled
<1>3. CASE curSock \in httpMap /\ unsent[curSock] = 0 /\ nothingDone
  <2>1. WritesOnly(curSock) /\ ReadsOnly(curSock) /\ asked' \subseteq Conns
    BY <1>3 DEF WritesOnly, ReadsOnly, nothingDone, TypeOK
  <2>2. StaysOpen /\ Settled("OUT", curSock)
    BY <1>3 DEF StaysOpen, Settled, NoNewEdge, nothingDone
  <2> QED
    BY <1>1, <1>3, <2>1, <2>2, HandledInv DEF Handled, Effect
<1>4. CASE /\ curSock \in httpMap /\ unsent[curSock] # 0
           /\ Write(curSock, unsent[curSock]) /\ UNCHANGED <<unread, asked>>
  <2>1. unsent[curSock] \in Nat \ {0}
    BY <1>1, <1>4 DEF TypeOK
  <2>2. /\ WritesOnly(curSock)
        /\ Closes(curSock) \/ (StaysOpen /\ full'[curSock])
    BY <1>4, <2>1, WriteOutcome
  <2>3. ReadsOnly(curSock) /\ asked' \subseteq Conns
    BY <1>4 DEF ReadsOnly, TypeOK
  <2>4. full'[curSock] => Settled("OUT", curSock)
    BY <1>4 DEF Settled, NoNewEdge
  <2> QED
    BY <1>1, <1>4, <2>2, <2>3, <2>4, HandledInv DEF Handled, Effect
<1> QED
  BY <1>1, <1>2, <1>3, <1>4 DEF WriteEvent

LEMMA CloseInv ==
  ASSUME DispatchInv, CloseEvent
  PROVE  DispatchInv'
<1> USE DEF DispatchInv
<1>1. Handle("HUP") /\ callback[curSock] = curSock
  BY HandledBatch DEF CloseEvent, Sockets
<1>2. CASE curSock \notin httpMap /\ nothingDone
  BY <1>1, <1>2, HandledInv DEF Handled
<1>3. CASE /\ curSock \in httpMap /\ CloseConn(curSock)
           /\ UNCHANGED <<unread, full, asked>>
  BY <1>1, <1>3, HandledInv, CloseEffect DEF Handled
<1> QED
  BY <1>1, <1>2, <1>3 DEF CloseEvent

-----------------------------------------------------------------------------
(* The responses of the workers, sent when no event is left.               *)

LEMMA LoopEffect ==
  ASSUME DispatchInv, phase = "loop", NEW h, Effect(h), ObjectsStay,
         Closes(h) \/ (StaysOpen /\ NoNewEdge(h)),
         UNCHANGED <<batch, asked, unread>>, respList' \in Seq(Conns)
  PROVE  DispatchInv'
<1> USE DEF DispatchInv
<1>1. Sockets' /\ RefsExact'
  BY EffectSockets, EffectRefs
<1>2. TypeOK'
  BY EffectTypes DEF ObjectsStay, TypeOK
<1>3. Queueing'
  BY DEF ObjectsStay, Queueing
<1>4. cur = NoFd /\ curSock = Nobody /\ \A fd \in Fds : batch[fd].flags = {}
  BY DEF Turns, NoFd
<1>5. Turns'
  BY <1>4 DEF ObjectsStay, Turns
<1>6. Events'
  BY <1>4 DEF ObjectsStay, Events
<1>7. ASSUME NEW g \in httpMap', g # h
      PROVE  ConnEdges(g)'
  <2>1. g \in httpMap /\ g \in Conns /\ connFd[g] # connFd[h]
    <3>1. g \in httpMap /\ h \in httpMap
      BY DEF Effect, Closes, StaysOpen
    <3> QED
      BY <1>7, <3>1, ConnOfSocket
  <2>2. \A e : Coming(connFd[g], e) => Coming(connFd[g], e)'
    BY <2>1 DEF Coming, ObjectsStay, Effect, Closes, StaysOpen, KeepSocket
  <2>3. unsent'[g] = unsent[g] /\ full'[g] = full[g]
    BY <1>7, <2>1 DEF Effect, WritesOnly
  <2> QED
    BY <2>1, <2>2, <2>3 DEF ConnEdges, Edges, ObjectsStay
<1>8. ASSUME h \in httpMap'
      PROVE  ConnEdges(h)'
  <2>1. StaysOpen /\ NoNewEdge(h) /\ h \in httpMap
    BY <1>8 DEF Closes, Effect
  <2>2. \A e : Coming(connFd[h], e) => Coming(connFd[h], e)'
    BY <2>1 DEF Coming, ObjectsStay, StaysOpen, KeepSocket
  <2> QED
    BY <2>1, <2>2 DEF ConnEdges, Edges, ObjectsStay, NoNewEdge
<1>9. ListenEdge'
  <2>1. connFd[h] # Listening
    BY ConnOfSocket DEF Effect, Fds, Listening
  <2>2. Coming(Listening, "IN") => Coming(Listening, "IN")'
    BY <2>1 DEF Coming, ObjectsStay, Closes, StaysOpen, KeepSocket
  <2> QED
    BY <2>2 DEF Edges, ListenEdge, ObjectsStay
<1>10. Edges'
  BY <1>7, <1>8, <1>9 DEF Edges
<1> QED
  BY <1>1, <1>2, <1>3, <1>5, <1>6, <1>10

LEMMA SendResponseInv ==
  ASSUME DispatchInv, SendResponse
  PROVE  DispatchInv'
<1> USE DEF DispatchInv
<1>1. phase = "loop" /\ respList' \in Seq(Conns) /\ Head(respList) \in Conns
  <2>1. respList \in Seq(Conns) /\ respList # <<>>
    BY DEF SendResponse, TypeOK
  <2> QED
    BY <2>1, HeadTailProperties DEF SendResponse, MaySend
<1>2. ObjectsStay /\ UNCHANGED <<batch, asked, unread>>
  BY DEF SendResponse, ObjectsStay, peerVars, loopVars
<1>3. CASE UNCHANGED <<httpMap, unsent, full>> /\ KeepSocket
  <2>1. TypeOK'
    BY <1>1, <1>2, <1>3 DEF ObjectsStay, KeepSocket, TypeOK
  <2>2. Queueing' /\ Sockets' /\ Turns' /\ Events' /\ RefsExact'
    BY <1>2, <1>3
       DEF ObjectsStay, KeepSocket, Queueing, Sockets, Turns, Events, RefsExact
  <2>3. Edges'
    BY <1>2, <1>3
       DEF ObjectsStay, KeepSocket, Edges, ConnEdges, ListenEdge, Coming
  <2> QED
    BY <2>1, <2>2, <2>3
<1>4. CASE Head(respList) \in httpMap /\ Send(Head(respList))
  <2> DEFINE h == Head(respList)
  <2>1. WritesOnly(h) /\ (Closes(h) \/ (StaysOpen /\ NoNewEdge(h)))
    BY <1>4, SendOutcome
  <2>2. ReadsOnly(h)
    BY <1>2 DEF ReadsOnly, TypeOK
  <2>3. Effect(h)
    BY <1>4, <2>1, <2>2 DEF Effect
  <2> HIDE DEF h
  <2> QED
    BY <1>1, <1>2, <2>1, <2>3, LoopEffect
<1> QED
  BY <1>3, <1>4 DEF SendResponse

-----------------------------------------------------------------------------
(* The peers.                                                              *)

(* More may be ready; the loop and the connections stay. *)
Arrives ==
  /\ ready \subseteq ready' /\ ready' \subseteq Fds \cup {Listening}
  /\ \A fd \in ready' \ ready : fd \in Fds => fdPeer[fd] # Nobody
  /\ UNCHANGED <<fdPeer, loopVars, sockVars, connVars, workVars>>

LEMMA ArrivesKeeps ==
  ASSUME DispatchInv, Arrives
  PROVE  /\ Sockets' /\ Turns' /\ Events' /\ RefsExact'
         /\ \A fd, e : Coming(fd, e) => Coming(fd, e)'
         /\ UNCHANGED <<httpMap, connFd, unsent, starved, alloc>>
<1> USE DEF Arrives, loopVars, sockVars, connVars
<1>1. Sockets'
  BY DEF DispatchInv, Sockets
<1>2. Turns' /\ Events' /\ RefsExact'
  BY DEF DispatchInv, Turns, Events, RefsExact
<1> QED
  BY <1>1, <1>2 DEF Coming

LEMMA ConnectInv ==
  ASSUME DispatchInv, NEW p \in Conns, ClientConnect(p)
  PROVE  DispatchInv'
<1> USE DEF DispatchInv
<1>1. backlog \in Seq(Conns) /\ alloc \in Nat /\ Len(backlog) \in Nat
  BY LenProperties, DispatchAssumption DEF TypeOK
<1>2. /\ backlog' = Append(backlog, p) /\ backlog' \in Seq(Conns)
      /\ Len(backlog') = Len(backlog) + 1
      /\ \A i \in 1 .. Len(backlog) : backlog'[i] = backlog[i]
      /\ backlog'[Len(backlog) + 1] = p
  BY <1>1, AppendProperties DEF ClientConnect
<1>3. p = alloc + Len(backlog) + 1
  <2>1. p > alloc + Len(backlog)
    BY <1>1 DEF ClientConnect, Queueing, Conns
  <2>2. p - 1 \in Conns => p - 1 <= alloc + Len(backlog)
    BY <1>1, DispatchAssumption DEF ClientConnect, Queueing, Conns
  <2> QED
    BY <1>1, <2>1, <2>2, DispatchAssumption DEF Conns
<1>4. Arrives
  BY DEF ClientConnect, Arrives, TypeOK, Fds, Listening
<1>5. client' = [client EXCEPT ![p] = "open"] /\ UNCHANGED <<sent, unread, full>>
  BY DEF ClientConnect
<1>6. TypeOK'
  BY <1>2, <1>4, <1>5 DEF TypeOK, Arrives, loopVars, sockVars, connVars, workVars
<1>7. Queueing'
  <2>1. alloc' = alloc
    BY <1>4, ArrivesKeeps
  <2>2. ASSUME NEW q \in Conns
        PROVE  client'[q] # "none" <=> q <= alloc + Len(backlog')
    <3>1. CASE q = p
      BY <1>1, <1>2, <1>3, <1>5, <3>1 DEF TypeOK
    <3>2. CASE q # p
      <4>1. client'[q] = client[q]
        BY <1>5, <3>2 DEF TypeOK
      <4>2. client[q] # "none" <=> q <= alloc + Len(backlog)
        BY DEF Queueing
      <4>3. q \in Nat
        BY DispatchAssumption DEF Conns
      <4> QED
        BY <1>1, <1>2, <1>3, <3>2, <4>1, <4>2, <4>3
    <3> QED
      BY <3>1, <3>2
  <2>3. \A i \in 1 .. Len(backlog') : backlog'[i] = alloc + i
    BY <1>1, <1>2, <1>3 DEF Queueing
  <2> QED
    BY <1>1, <1>2, <1>3, <2>1, <2>2, <2>3, DispatchAssumption
       DEF Queueing, Conns
<1>8. Edges'
  <2>1. Coming(Listening, "IN")'
    BY DEF ClientConnect, Coming
  <2>2. \A h \in httpMap : client'[h] = client[h]
    BY <1>1, <1>3, <1>5 DEF Sockets, TypeOK, Conns
  <2> QED
    BY <1>4, <1>5, <2>1, <2>2, ArrivesKeeps DEF Edges, ConnEdges, ListenEdge
<1> QED
  BY <1>4, <1>6, <1>7, <1>8, ArrivesKeeps

(* Something happens on the socket of p. *)
LEMMA SocketEdge ==
  ASSUME DispatchInv, NEW p \in Conns, ready' = ready \cup FdsOf(p),
         kernelStays
  PROVE  /\ Arrives /\ UNCHANGED <<backlog, starved, alloc>>
         /\ p \in httpMap => \A e : Coming(connFd[p], e)'
<1> USE DEF DispatchInv
<1>1. Arrives
  BY DEF Arrives, FdsOf, kernelStays, TypeOK, Conns, Nobody
<1>2. UNCHANGED <<backlog, starved, alloc, connFd>>
  BY DEF kernelStays, loopVars, sockVars, connVars
<1>3. p \in httpMap => connFd[p] \in FdsOf(p)
  BY ConnOfSocket DEF FdsOf, Sockets
<1> QED
  BY <1>1, <1>2, <1>3 DEF Coming

LEMMA ClientInv ==
  ASSUME DispatchInv, NEW p \in Conns,
         \/ ClientSend(p) \/ ClientDrain(p)
         \/ \E how \in {"fin", "rst"} : ClientGone(p, how)
  PROVE  DispatchInv'
<1> USE DEF DispatchInv
<1>1. ready' = ready \cup FdsOf(p) /\ kernelStays
  BY DEF ClientSend, ClientDrain, ClientGone
<1>2. /\ client' \in [Conns -> {"none", "open", "fin", "rst"}]
      /\ sent' \in [Conns -> 0 .. MaxSend] /\ unread' \in [Conns -> Nat]
      /\ full' \in [Conns -> BOOLEAN]
      /\ \A q \in Conns : client'[q] # "none" <=> client[q] # "none"
      /\ \A q \in Conns \ {p} : /\ client'[q] = client[q]
                               /\ unread'[q] = unread[q] /\ full'[q] = full[q]
  <2>1. CASE ClientSend(p)
    <3>1. /\ sent' = [sent EXCEPT ![p] = sent[p] + 1] /\ sent[p] < MaxSend
          /\ unread' = [unread EXCEPT ![p] = unread[p] + 1]
          /\ UNCHANGED <<client, full>>
      BY <2>1 DEF ClientSend
    <3>2. sent[p] + 1 \in 0 .. MaxSend /\ unread[p] + 1 \in Nat
      BY <3>1, DispatchAssumption DEF TypeOK
    <3> QED
      BY <3>1, <3>2 DEF TypeOK
  <2>2. CASE ClientDrain(p)
    BY <2>2 DEF ClientDrain, peerVars, TypeOK
  <2>3. CASE \E how \in {"fin", "rst"} : ClientGone(p, how)
    <3>1. PICK how \in {"fin", "rst"} : ClientGone(p, how)
      BY <2>3
    <3>2. /\ client' = [client EXCEPT ![p] = how] /\ client[p] # "none"
          /\ UNCHANGED <<sent, unread, full>>
      BY <3>1 DEF ClientGone, TypeOK
    <3> QED
      BY <3>2 DEF TypeOK
  <2> QED
    BY <2>1, <2>2, <2>3
<1>3. TypeOK'
  BY <1>1, <1>2, SocketEdge
     DEF TypeOK, Arrives, kernelStays, loopVars, sockVars, connVars, workVars
<1>4. Queueing'
  BY <1>1, <1>2, SocketEdge DEF Queueing
<1>5. ASSUME NEW h \in httpMap
      PROVE  ConnEdges(h)'
  <2>1. h \in Conns /\ connFd' = connFd /\ unsent' = unsent
    BY <1>1, SocketEdge, ArrivesKeeps DEF TypeOK
  <2>2. CASE h = p
    BY <1>1, <2>1, <2>2, SocketEdge DEF ConnEdges
  <2>3. CASE h # p
    BY <1>1, <1>2, <2>1, <2>3, SocketEdge, ArrivesKeeps DEF ConnEdges, Edges
  <2> QED
    BY <2>2, <2>3
<1>6. Edges'
  BY <1>1, <1>5, SocketEdge, ArrivesKeeps DEF Edges, ListenEdge
<1> QED
  BY <1>1, <1>3, <1>4, <1>6, SocketEdge, ArrivesKeeps

LEMMA WorkerInv ==
  ASSUME DispatchInv, NEW h \in Conns, WorkerAnswers(h)
  PROVE  DispatchInv'
<1> USE DEF DispatchInv, WorkerAnswers, peerVars, loopVars, sockVars, connVars
<1>1. respList' \in Seq(Conns)
  BY AppendProperties DEF TypeOK
<1>2. TypeOK'
  BY <1>1 DEF TypeOK
<1>3. Queueing' /\ Sockets' /\ Turns' /\ Events' /\ RefsExact'
  BY DEF Queueing, Sockets, Turns, Events, RefsExact
<1>4. Edges'
  BY DEF Edges, ConnEdges, ListenEdge, Coming
<1> QED
  BY <1>2, <1>3, <1>4

-----------------------------------------------------------------------------
(* The loop.                                                               *)

(* epoll_wait returns what is ready; every edge was ready before. *)
LEMMA EpollInv ==
  ASSUME DispatchInv, EpollWait
  PROVE  DispatchInv'
<1> USE DEF DispatchInv
<1>1. /\ phase = "wait" /\ phase' = "events" /\ ready' = {}
      /\ cur = NoFd /\ curSock = Nobody
      /\ UNCHANGED <<peerVars, unread, full, backlog, fdPeer, cur, curSock,
                     starved, sockVars, connVars, workVars>>
  BY DEF EpollWait, Turns, NoFd
<1>2. /\ batch' \in [Fds \cup {Listening} ->
                      [flags : SUBSET Flags, of : Conns \cup {Nobody}]]
      /\ \A fd \in Fds \cup {Listening} :
           batch'[fd].flags = IF fd \in ready THEN EventMask(fd) ELSE {}
      /\ \A fd \in Fds : batch'[fd].flags # {} => batch'[fd].of = fdPeer[fd]
  <2> DEFINE B(fd) == IF fd \notin ready \/ EventMask(fd) = {} THEN NoEvents
                      ELSE [flags |-> EventMask(fd),
                            of |-> IF fd = Listening THEN Nobody
                                                     ELSE fdPeer[fd]]
  <2>1. batch' = [fd \in Fds \cup {Listening} |-> B(fd)]
    BY DEF EpollWait
  <2>2. ASSUME NEW fd \in Fds \cup {Listening}
        PROVE  /\ B(fd) \in [flags : SUBSET Flags, of : Conns \cup {Nobody}]
               /\ B(fd).flags = IF fd \in ready THEN EventMask(fd) ELSE {}
               /\ fd \in Fds /\ B(fd).flags # {} => B(fd).of = fdPeer[fd]
    <3>1. EventMask(fd) \subseteq Flags
      BY DEF EventMask, Flags
    <3>2. fd \in Fds => fd # Listening /\ fdPeer[fd] \in Conns \cup {Nobody}
      BY DEF TypeOK, Fds, Listening
    <3>3. CASE fd \notin ready \/ EventMask(fd) = {}
      BY <3>3 DEF NoEvents
    <3>4. CASE fd \in ready /\ EventMask(fd) # {}
      BY <3>1, <3>2, <3>4
    <3> QED
      BY <3>3, <3>4
  <2> HIDE DEF B
  <2> QED
    BY <2>1, <2>2
<1>3. TypeOK'
  BY <1>1, <1>2
     DEF TypeOK, peerVars, sockVars, connVars, workVars
<1>4. Queueing' /\ Sockets' /\ RefsExact'
  BY <1>1 DEF peerVars, sockVars, connVars, Queueing, Sockets, RefsExact
<1>5. Turns'
  <2>1. EventMask(Listening) \subseteq {"IN"}
    BY DEF EventMask
  <2> QED
    BY <1>1, <1>2, <2>1 DEF Turns, Nobody, NoFd, Listening
<1>6. Events'
  BY <1>1, <1>2 DEF Events, Sockets
<1>7. ASSUME NEW h \in httpMap
      PROVE  ConnEdges(h)'
  <2>1. connFd[h] \in Fds /\ connFd[h] # Listening /\ fdPeer[connFd[h]] = h
    BY ConnOfSocket DEF Sockets, Fds, Listening
  <2>2. ASSUME NEW e, e \in EventMask(connFd[h]), Coming(connFd[h], e)
        PROVE  Coming(connFd[h], e)'
    BY <1>1, <1>2, <2>1, <2>2 DEF Coming, connVars
  <2>3. unread[h] > 0 => "IN" \in EventMask(connFd[h])
    BY <2>1 DEF EventMask, Flags
  <2>4. client[h] = "rst" => "HUP" \in EventMask(connFd[h])
    BY <2>1 DEF EventMask, Flags
  <2>5. ~full[h] => "OUT" \in EventMask(connFd[h])
    BY <2>1 DEF EventMask, Flags
  <2> QED
    BY <1>1, <2>2, <2>3, <2>4, <2>5
       DEF ConnEdges, Edges, connVars, peerVars
<1>8. ListenEdge'
  <2>1. backlog # <<>> => "IN" \in EventMask(Listening)
    BY DEF EventMask
  <2> QED
    BY <1>1, <1>2, <2>1 DEF ListenEdge, Edges, Coming
<1>9. Edges'
  BY <1>1, <1>7, <1>8 DEF Edges, connVars
<1> QED
  BY <1>3, <1>4, <1>5, <1>6, <1>9

LEMMA TakeEventsInv ==
  ASSUME DispatchInv, NEW fd \in Fds \cup {Listening}, TakeEvents(fd)
  PROVE  DispatchInv'
<1> USE DEF DispatchInv
<1>1. /\ phase = "events" /\ phase' = phase /\ cur = NoFd /\ curSock = Nobody
      /\ batch[fd].flags # {}
      /\ UNCHANGED <<client, sent, unread, full, backlog, fdPeer, ready,
                     starved, alloc, socketMap, sockFd, callback,
                     httpMap, connFd, unsent, asked, respList>>
  BY DEF TakeEvents, handlerStays, peerVars, connVars, workVars, Turns, NoFd
<1>2. Queueing' /\ Sockets'
  BY <1>1 DEF Queueing, Sockets
<1>3. fd # NoFd /\ (fd \in Fds => fd # Listening)
  BY DEF Fds, Listening, NoFd
<1>4. CASE fd = Listening /\ cur' = fd /\ UNCHANGED <<batch, curSock, refs>>
  <2>1. TypeOK' /\ RefsExact'
    BY <1>1, <1>4 DEF TypeOK, RefsExact
  <2>2. Turns'
    BY <1>1, <1>4 DEF Turns
  <2>3. Events' /\ Edges'
    BY <1>1, <1>3, <1>4
       DEF Events, Edges, ConnEdges, ListenEdge, Coming, NoFd, Fds
  <2> QED
    BY <1>2, <2>1, <2>2, <2>3
<1>5. CASE /\ fd \in Fds /\ socketMap[fd] # Nobody
           /\ cur' = fd /\ curSock' = socketMap[fd]
           /\ refs' = AddRef(refs, socketMap[fd])
           /\ UNCHANGED batch
  <2> DEFINE o == socketMap[fd]
  <2>1. /\ o \in httpMap /\ o \in Conns /\ o \in 1 .. alloc
        /\ sockFd[o] = fd /\ fdPeer[fd] = o
    BY <1>5, ConnOfSocket DEF Sockets
  <2>2. refs' = [refs EXCEPT ![o] = @ + 1] /\ refs' \in [Conns -> Int]
    BY <1>5, <2>1 DEF AddRef, TypeOK
  <2>3. TypeOK'
    BY <1>1, <1>5, <2>1, <2>2 DEF TypeOK
  <2>4. Turns'
    BY <1>1, <1>3, <1>5, <2>1 DEF Turns, Conns, Nobody
  <2>5. Events' /\ Edges'
    BY <1>1, <1>3, <1>5
       DEF Events, Edges, ConnEdges, ListenEdge, Coming, NoFd, Fds
  <2>6. RefsExact'
    <3> SUFFICES ASSUME NEW q \in 1 .. alloc
                 PROVE  refs'[q] =
                          (IF \E x \in Fds : socketMap[x] = q THEN 1 ELSE 0)
                            + (IF curSock' = q THEN 1 ELSE 0)
      BY <1>1 DEF RefsExact
    <3>1. q \in Conns /\ q # Nobody
      BY DispatchAssumption DEF TypeOK, Conns, Nobody
    <3>2. refs[q] = (IF \E x \in Fds : socketMap[x] = q THEN 1 ELSE 0)
                      + (IF curSock = q THEN 1 ELSE 0)
      BY DEF RefsExact
    <3>3. refs'[q] = IF q = o THEN refs[q] + 1 ELSE refs[q]
      BY <2>2, <3>1 DEF TypeOK
    <3>4. curSock' = o
      BY <1>5
    <3> HIDE DEF o
    <3> QED
      BY <1>1, <3>1, <3>2, <3>3, <3>4
  <2> QED
    BY <1>2, <2>3, <2>4, <2>5, <2>6
<1>6. CASE fd \in Fds /\ socketMap[fd] = Nobody
  BY <1>1, <1>3, <1>6 DEF Events, Sockets, NoFd, Fds
<1> QED
  BY <1>3, <1>4, <1>5, <1>6 DEF TakeEvents, FindBaseSocket

LEMMA OneDoneInv ==
  ASSUME DispatchInv, EventsOfOneDone
  PROVE  DispatchInv'
<1> USE DEF DispatchInv
<1>1. /\ curSock # Nobody /\ curSock' = Nobody /\ cur' = NoFd
      /\ batch[cur].flags = {} /\ refs' = ReleaseRef(refs, curSock)
      /\ UNCHANGED <<client, sent, unread, full, backlog, fdPeer, ready, phase,
                     batch, starved, alloc, socketMap, sockFd, callback,
                     httpMap, connFd, unsent, asked, respList>>
  BY DEF EventsOfOneDone, handlerStays, peerVars, connVars, workVars
<1>2. curSock \in Conns /\ curSock \in 1 .. alloc
  BY <1>1, DispatchAssumption DEF TypeOK, Turns, Conns
<1>3. refs' = [refs EXCEPT ![curSock] = @ - 1] /\ refs' \in [Conns -> Int]
  BY <1>1, <1>2 DEF ReleaseRef, TypeOK
<1>4. TypeOK'
  BY <1>1, <1>3 DEF TypeOK
<1>5. Queueing' /\ Sockets'
  BY <1>1 DEF Queueing, Sockets
<1>6. Turns'
  BY <1>1 DEF Turns, NoFd, Listening
<1>7. Events' /\ Edges'
  BY <1>1 DEF Events, Edges, ConnEdges, ListenEdge, Coming
<1>8. RefsExact'
  <2> SUFFICES ASSUME NEW q \in 1 .. alloc
               PROVE  refs'[q] =
                        (IF \E x \in Fds : socketMap[x] = q THEN 1 ELSE 0)
                          + (IF curSock' = q THEN 1 ELSE 0)
    BY <1>1 DEF RefsExact
  <2>1. q \in Conns /\ q # Nobody
    BY DispatchAssumption DEF TypeOK, Conns, Nobody
  <2>2. refs[q] = (IF \E x \in Fds : socketMap[x] = q THEN 1 ELSE 0)
                    + (IF curSock = q THEN 1 ELSE 0)
    BY DEF RefsExact
  <2>3. refs'[q] = IF q = curSock THEN refs[q] - 1 ELSE refs[q]
    BY <1>3, <2>1 DEF TypeOK
  <2> QED
    BY <1>1, <2>1, <2>2, <2>3
<1> QED
  BY <1>4, <1>5, <1>6, <1>7, <1>8

LEMMA BatchDoneInv ==
  ASSUME DispatchInv, BatchDone \/ LoopDone
  PROVE  DispatchInv'
<1> USE DEF DispatchInv
<1>1. /\ cur = NoFd /\ phase' \in {"wait", "loop"}
      /\ \A fd \in Fds \cup {Listening} : batch[fd].flags = {}
      /\ UNCHANGED <<peerVars, unread, full, backlog, fdPeer, ready, batch, cur,
                     curSock, starved, sockVars, connVars, workVars>>
  BY DEF BatchDone, LoopDone, handlerStays, Turns, TypeOK
<1> USE DEF peerVars, sockVars, connVars, workVars
<1>2. TypeOK'
  BY <1>1 DEF TypeOK
<1>3. Queueing' /\ Sockets' /\ RefsExact' /\ Events'
  BY <1>1 DEF Queueing, Sockets, RefsExact, Events
<1>4. Turns'
  BY <1>1 DEF Turns
<1>5. Edges'
  <2>1. \A fd \in Fds \cup {Listening} : \A e : Coming(fd, e) => Coming(fd, e)'
    BY <1>1 DEF Coming
  <2>2. \A h \in httpMap : connFd[h] \in Fds
    BY ConnOfSocket
  <2> QED
    BY <1>1, <2>1, <2>2 DEF Edges, ConnEdges, ListenEdge
<1> QED
  BY <1>2, <1>3, <1>4, <1>5

-----------------------------------------------------------------------------
(* Accepting.                                                              *)

(* While the listening socket is handled its event is still in the batch. *)
LEMMA Accepting ==
  ASSUME DispatchInv, cur = Listening
  PROVE  /\ phase = "events" /\ "IN" \in batch[Listening].flags
         /\ curSock = Nobody /\ Coming(Listening, "IN")
  BY DEF DispatchInv, Turns, Coming, NoFd, Listening

LEMMA AcceptDoneInv ==
  ASSUME DispatchInv, AcceptDone
  PROVE  DispatchInv'
<1> USE DEF DispatchInv
<1>1. /\ phase = "events" /\ curSock = Nobody /\ cur' = NoFd
      /\ batch' = [batch EXCEPT ![Listening] = NoEvents]
      /\ starved' = (backlog # <<>> /\ FreeFds = {})
      /\ backlog = <<>> \/ FreeFds = {}
      /\ UNCHANGED <<client, sent, unread, full, backlog, fdPeer, ready, phase,
                     curSock, alloc, socketMap, sockFd, refs, callback,
                     httpMap, connFd, unsent, asked, respList>>
  BY Accepting
     DEF AcceptDone, AcceptEnds, handlerStays, peerVars, sockVars, connVars,
         workVars
<1>2. /\ batch' \in [Fds \cup {Listening} ->
                      [flags : SUBSET Flags, of : Conns \cup {Nobody}]]
      /\ \A fd \in Fds : batch'[fd] = batch[fd]
      /\ batch'[Listening].flags = {}
  BY <1>1 DEF TypeOK, NoEvents, Fds, Listening
<1>3. starved' \in BOOLEAN
  BY <1>1
<1>4. TypeOK'
  BY <1>1, <1>2, <1>3 DEF TypeOK
<1>5. Queueing' /\ Sockets' /\ RefsExact'
  BY <1>1 DEF Queueing, Sockets, RefsExact
<1>6. Turns'
  BY <1>1, <1>2 DEF Turns, NoFd, Listening
<1>7. cur = Listening
  BY DEF AcceptDone
<1>8. Events'
  BY <1>1, <1>2, <1>7 DEF Events, Fds, Listening
<1>9. Edges'
  <2>1. \A h \in httpMap : ConnEdges(h)'
    BY <1>1, <1>2, ConnOfSocket DEF Edges, ConnEdges, Coming
  <2>2. ListenEdge'
    BY <1>1 DEF ListenEdge
  <2> QED
    BY <1>1, <2>1, <2>2 DEF Edges
<1> QED
  BY <1>4, <1>5, <1>6, <1>8, <1>9

LEMMA AcceptOneInv ==
  ASSUME DispatchInv, AcceptOne
  PROVE  DispatchInv'
<1> USE DEF DispatchInv
<1>0. PICK fd, n : fd = Min(FreeFds) /\ n = alloc + 1
  OBVIOUS
<1>1. fd \in Fds /\ fdPeer[fd] = Nobody /\ socketMap[fd] = Nobody
  <2>1. FreeFds \subseteq Fds /\ FreeFds # {}
    BY DEF AcceptOne, FreeFds
  <2>2. fd \in FreeFds
    BY <1>0, <2>1, LowestFd
  <2>3. fd \in Fds /\ fdPeer[fd] = Nobody
    BY <2>2 DEF FreeFds
  <2>4. socketMap = fdPeer
    BY DEF Sockets
  <2> QED
    BY <2>3, <2>4
<1>2. backlog \in Seq(Conns) /\ backlog # <<>> /\ Len(backlog) \in Nat \ {0}
  BY EmptySeq, LenProperties DEF AcceptOne, TypeOK
<1>3. n \in Conns /\ n # Nobody /\ Head(backlog) = n /\ alloc \in Nat
  <2>1. Head(backlog) = backlog[1]
    BY <1>2, HeadTailProperties
  <2>2. alloc \in Nat /\ NConn \in Nat
    BY DispatchAssumption DEF TypeOK
  <2> QED
    BY <1>0, <1>2, <2>1, <2>2 DEF Queueing, Conns, Nobody
<1>4. /\ backlog' = Tail(backlog) /\ backlog' \in Seq(Conns)
      /\ Len(backlog') = Len(backlog) - 1
      /\ \A i \in 1 .. Len(backlog') : backlog'[i] = backlog[i + 1]
  BY <1>2, HeadTailProperties DEF AcceptOne
<1>5. /\ fdPeer' = [fdPeer EXCEPT ![fd] = n]
      /\ socketMap' = [socketMap EXCEPT ![fd] = n]
      /\ callback' = [callback EXCEPT ![n] = n]
  <2>1. /\ fdPeer' = [fdPeer EXCEPT ![fd] = Head(backlog)]
        /\ socketMap' = AddBaseSocket(socketMap, fd, n)
        /\ SetCallback(AddBaseSocket(socketMap, fd, n), fd, n)
    BY <1>0 DEF AcceptOne
  <2>2. AddBaseSocket(socketMap, fd, n) = [socketMap EXCEPT ![fd] = n]
    BY <1>1 DEF AddBaseSocket
  <2>3. [socketMap EXCEPT ![fd] = n][fd] = n
    BY <1>1 DEF TypeOK
  <2> QED
    BY <1>3, <2>1, <2>2, <2>3 DEF SetCallback
<1>6. /\ ready' = ready \cup {fd} /\ alloc' = n
      /\ sockFd' = [sockFd EXCEPT ![n] = fd] /\ refs' = [refs EXCEPT ![n] = 1]
      /\ httpMap' = httpMap \cup {n} /\ connFd' = [connFd EXCEPT ![n] = fd]
      /\ cur = Listening /\ UNCHANGED <<phase, batch, cur, curSock, starved>>
      /\ UNCHANGED <<client, sent, unread, full, unsent, asked, respList>>
  BY <1>0 DEF AcceptOne, peerVars, loopVars, workVars
<1>7. /\ fdPeer'[fd] = n /\ socketMap'[fd] = n /\ callback'[n] = n
      /\ sockFd'[n] = fd /\ connFd'[n] = fd /\ refs'[n] = 1
      /\ \A x \in Fds \ {fd} : fdPeer'[x] = fdPeer[x]
                             /\ socketMap'[x] = socketMap[x]
      /\ \A o \in Conns \ {n} :
           /\ callback'[o] = callback[o] /\ sockFd'[o] = sockFd[o]
           /\ connFd'[o] = connFd[o] /\ refs'[o] = refs[o]
  BY <1>1, <1>3, <1>5, <1>6 DEF TypeOK
<1>8. TypeOK'
  <2>1. /\ fdPeer' \in [Fds -> Conns \cup {Nobody}]
        /\ socketMap' \in [Fds -> Conns \cup {Nobody}]
        /\ callback' \in [Conns -> Conns \cup {Nobody}]
        /\ sockFd' \in [Conns -> Fds \cup {NoFd}]
        /\ connFd' \in [Conns -> Fds \cup {NoFd}] /\ refs' \in [Conns -> Int]
    BY <1>1, <1>3, <1>5, <1>6 DEF TypeOK
  <2>2. alloc' \in 0 .. NConn
    BY <1>3, <1>6, DispatchAssumption DEF Conns
  <2> QED
    BY <1>1, <1>3, <1>4, <1>6, <2>1, <2>2 DEF TypeOK
<1>9. Queueing'
  <2>1. /\ alloc' + Len(backlog') = alloc + Len(backlog)
        /\ alloc' \in Nat /\ Len(backlog') \in Nat
    BY <1>0, <1>2, <1>3, <1>4, <1>6
  <2>2. ASSUME NEW i \in 1 .. Len(backlog')
        PROVE  backlog'[i] = alloc' + i
    BY <1>0, <1>2, <1>3, <1>4, <1>6, <2>1 DEF Queueing
  <2> QED
    BY <1>6, <2>1, <2>2 DEF Queueing
<1>10. \A o \in 1 .. alloc : o \in Conns /\ o # n /\ o # Nobody
  BY <1>0, <1>3, DispatchAssumption DEF TypeOK, Conns, Nobody
<1>11. \A h \in httpMap : /\ h \in 1 .. alloc /\ connFd[h] \in Fds \ {fd}
                          /\ connFd'[h] = connFd[h]
  BY <1>1, <1>7, <1>10, ConnOfSocket
<1>12. Sockets'
  <2>1. (socketMap = fdPeer)'
    BY <1>5 DEF Sockets
  <2>2. ASSUME NEW x \in Fds, fdPeer'[x] # Nobody
        PROVE  fdPeer'[x] \in httpMap' /\ connFd'[fdPeer'[x]] = x
    BY <1>6, <1>7, <1>11, <2>2 DEF Sockets
  <2>3. ASSUME NEW h \in httpMap'
        PROVE  h <= alloc' /\ fdPeer'[connFd'[h]] = h
    BY <1>0, <1>3, <1>6, <1>7, <1>11 DEF Sockets
  <2>4. ASSUME NEW o \in 1 .. alloc'
        PROVE  /\ connFd'[o] \in Fds /\ sockFd'[o] = connFd'[o]
               /\ callback'[o] = o
    <3>1. o = n \/ o \in 1 .. alloc
      BY <1>0, <1>3, <1>6
    <3> QED
      BY <1>1, <1>7, <1>10, <3>1 DEF Sockets
  <2>5. \A x \in ready' : x \in Fds => fdPeer'[x] # Nobody
    BY <1>3, <1>6, <1>7 DEF Sockets
  <2> QED
    BY <2>1, <2>2, <2>3, <2>4, <2>5 DEF Sockets
<1>13. Turns'
  BY <1>6, Accepting DEF Turns
<1>14. Events'
  <2> SUFFICES ASSUME NEW x \in Fds, batch[x].flags # {}
               PROVE  fdPeer'[x] = batch[x].of /\ batch[x].of # Nobody
    BY <1>6 DEF Events
  <2>1. fdPeer[x] = batch[x].of /\ batch[x].of # Nobody
    BY <1>6 DEF Events, Fds, Listening
  <2> QED
    BY <1>1, <1>7, <2>1
<1>15. RefsExact'
  <2> SUFFICES ASSUME NEW o \in 1 .. alloc'
               PROVE  refs'[o] =
                        (IF \E x \in Fds : socketMap'[x] = o THEN 1 ELSE 0)
                          + (IF curSock' = o THEN 1 ELSE 0)
    BY DEF RefsExact
  <2>1. o = n \/ o \in 1 .. alloc
    BY <1>0, <1>3, <1>6
  <2>2. CASE o = n
    BY <1>1, <1>3, <1>6, <1>7, <2>2, Accepting
  <2>3. CASE o \in 1 .. alloc
    <3>1. o # n /\ o # Nobody /\ refs'[o] = refs[o]
      BY <1>7, <1>10, <2>3
    <3>2. (\E x \in Fds : socketMap'[x] = o) <=> \E x \in Fds : socketMap[x] = o
      BY <1>1, <1>7, <3>1
    <3>3. refs[o] = (IF \E x \in Fds : socketMap[x] = o THEN 1 ELSE 0)
                      + (IF curSock = o THEN 1 ELSE 0)
      BY <2>3 DEF RefsExact
    <3> QED
      BY <1>6, <3>1, <3>2, <3>3
  <2> QED
    BY <2>1, <2>2, <2>3
<1>16. Edges'
  <2>1. \A x, e : Coming(x, e) => Coming(x, e)'
    BY <1>6 DEF Coming
  <2>2. \A h \in httpMap : ConnEdges(h)'
    BY <1>6, <1>11, <2>1 DEF ConnEdges, Edges
  <2>3. ConnEdges(n)'
    <3>1. \A e : Coming(fd, e)'
      BY <1>6 DEF Coming
    <3> QED
      BY <1>6, <1>7, <3>1 DEF ConnEdges
  <2>4. ListenEdge'
    BY <1>6, <2>1, Accepting DEF ListenEdge
  <2> QED
    BY <1>6, <2>2, <2>3, <2>4 DEF Edges
<1> QED
  BY <1>8, <1>9, <1>12, <1>13, <1>14, <1>15, <1>16

-----------------------------------------------------------------------------
(* The theorems.                                                           *)

LEMMA NextInv ==
  ASSUME DispatchInv, [Next]_vars
  PROVE  DispatchInv'
<1>1. CASE \E p \in Conns :
             \/ ClientConnect(p) \/ ClientSend(p) \/ ClientDrain(p)
             \/ \E how \in {"fin", "rst"} : ClientGone(p, how)
             \/ WorkerAnswers(p)
  BY <1>1, ConnectInv, ClientInv, WorkerInv
<1>2. CASE EpollWait \/ BatchDone \/ SendResponse \/ LoopDone
  BY <1>2, EpollInv, BatchDoneInv, SendResponseInv
<1>3. CASE \E fd \in Fds \cup {Listening} : TakeEvents(fd)
  BY <1>3, TakeEventsInv
<1>4. CASE ReadEvent \/ WriteEvent \/ CloseEvent \/ EventsOfOneDone
  BY <1>4, ReadInv, WriteInv, CloseInv, OneDoneInv
<1>5. CASE AcceptOne \/ AcceptDone
  BY <1>5, AcceptOneInv, AcceptDoneInv
<1>6. CASE UNCHANGED vars
  <2> USE <1>6 DEF vars, peerVars, loopVars, sockVars, connVars, workVars
  <2>1. TypeOK'
    BY DEF DispatchInv, TypeOK
  <2>2. Queueing' /\ Sockets' /\ Turns' /\ Events' /\ RefsExact'
    BY DEF DispatchInv, Queueing, Sockets, Turns, Events, RefsExact
  <2>3. Edges'
    BY DEF DispatchInv, Edges, ConnEdges, ListenEdge, Coming
  <2> QED
    BY <2>1, <2>2, <2>3 DEF DispatchInv
<1> QED
  BY <1>1, <1>2, <1>3, <1>4, <1>5, <1>6 DEF Next

LEMMA Invariance == Spec => []DispatchInv
  BY InitInv, NextInv, PTL DEF Spec

(* Every variable keeps its type, for any number of clients, descriptors   *)
(* and segments.                                                           *)
THEOREM TypeCorrect == Spec => []TypeOK
<1>1. DispatchInv => TypeOK
  BY DEF DispatchInv
<1> QED
  BY <1>1, Invariance, PTL

(* A CBaseSocket is deleted when the map and the loop are done with it,    *)
(* neither before nor never: its reference count is exact.                 *)
THEOREM ReferencesExact == Spec => []RefsExact
  BY InvImplies, Invariance, PTL

(* The handle of an open connection leads to its own socket and peer, and  *)
(* the events of that socket to the connection, although the kernel uses   *)
(* descriptors again.                                                      *)
THEOREM HandlesLeadHome == Spec => []OwnSocket
  BY InvImplies, Invariance, PTL

(* No event of a batch is handled for another connection.                  *)
THEOREM EventsReachTheirOwn == Spec => []EventsAreOwn
  BY InvImplies, Invariance, PTL

(* No edge of epoll is forgotten, unless accept ran out of descriptors.    *)
THEOREM NoEdgeForgotten == Spec => []EdgeKept
  BY InvImplies, Invariance, PTL
=============================================================================
