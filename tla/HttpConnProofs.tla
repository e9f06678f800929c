--------------------------- MODULE HttpConnProofs ---------------------------
(* Theorems about HttpConn, for any number of connections, workers, memory *)
(* blocks and segments.                                                    *)
EXTENDS HttpConn, SequenceTheorems, FiniteSetTheorems, TLAPS

(* Cutting a stream of segments leaves streams of such segments. *)
LEMMA CutType ==
  ASSUME NEW S, NEW s \in Seq(S), NEW n \in 0 .. Len(s)
  PROVE  /\ SubSeq(s, 1, n) \in Seq(S)
         /\ Remaining(s, n) \in Seq(S)
<1>1. Len(s) \in Nat
  BY LenProperties
<1>2. \A i \in 1 .. n : s[i] \in S
  BY <1>1, ElementOfSeq
<1>3. \A i \in n + 1 .. Len(s) : s[i] \in S
  BY <1>1, ElementOfSeq
<1>4. SubSeq(s, 1, n) \in Seq(S)
  BY <1>2, SubSeqProperties
<1>5. SubSeq(s, n + 1, Len(s)) \in Seq(S)
  BY <1>1, <1>3, SubSeqProperties
<1> QED
  BY <1>4, <1>5 DEF Remaining

LEMMA ResponseType ==
  ASSUME NEW c \in Conns
  PROVE  Response(c) \in Seq(Segments)
  BY ConnAssumption DEF Response, Segments

-----------------------------------------------------------------------------
(* Types.                                                                  *)

LEMMA CloseConnType ==
  ASSUME ConnTypeOK, NEW c \in Conns, CloseConn(c)
  PROVE  ConnTypeOK'
  BY ConnAssumption, EmptySeq DEF ConnTypeOK, CloseConn, Unregister

LEMMA KeepConnType ==
  ASSUME ConnTypeOK, NEW c \in Conns, NEW b \in BOOLEAN,
         NEW out \in Seq(Segments), KeepConn(c, b, out),
         inBuf' \in [Conns -> 0 .. InMax]
  PROVE  ConnTypeOK'
  BY DEF ConnTypeOK, KeepConn

LEMMA PutOnWireType ==
  ASSUME SocketTypeOK, NEW c \in Conns, NEW data \in Seq(Segments),
         NEW n \in 0 .. Len(data), PutOnWire(c, data, n)
  PROVE  SocketTypeOK'
  BY CutType, ConcatProperties, LenProperties DEF SocketTypeOK, PutOnWire

LEMMA KernelTakesType ==
  ASSUME NEW c \in Conns, NEW data \in Seq(Segments),
         NEW n \in KernelTakes(c, Len(data))
  PROVE  n \in 0 .. Len(data)
  BY LenProperties DEF KernelTakes

LEMMA SendType ==
  ASSUME TypeOK, NEW c \in Conns, NEW data \in Seq(Segments),
         NEW in \in 0 .. InMax, Send(c, data, in)
  PROVE  ConnTypeOK' /\ SocketTypeOK'
<1> USE DEF TypeOK
<1>1. outBuf[c] \in Seq(Segments) /\ inBuf \in [Conns -> 0 .. InMax]
  BY DEF ConnTypeOK
<1>2. CASE /\ KeepConn(c, TRUE, outBuf[c] \o data)
           /\ inBuf' = [inBuf EXCEPT ![c] = in]
           /\ UNCHANGED <<wire, full>>
  <2>1. outBuf[c] \o data \in Seq(Segments)
    BY <1>1, ConcatProperties
  <2> QED
    BY <1>1, <1>2, <2>1, KeepConnType DEF SocketTypeOK
<1>3. ASSUME NEW n \in KernelTakes(c, Len(data)), PutOnWire(c, data, n),
             \/ /\ KeepConn(c, TRUE, outBuf[c] \o Remaining(data, n))
                /\ inBuf' = [inBuf EXCEPT ![c] = in]
             \/ OnWriteComlete(c)
      PROVE  ConnTypeOK' /\ SocketTypeOK'
  <2>1. n \in 0 .. Len(data)
    BY KernelTakesType
  <2>2. SocketTypeOK'
    BY <1>3, <2>1, PutOnWireType
  <2>3. outBuf[c] \o Remaining(data, n) \in Seq(Segments)
    BY <1>1, <2>1, CutType, ConcatProperties
  <2>4. ConnTypeOK'
    BY <1>1, <1>3, <2>3, KeepConnType, CloseConnType DEF OnWriteComlete
  <2> QED
    BY <2>2, <2>4
<1> QED
  BY <1>2, <1>3 DEF Send

LEMMA OnWriteType ==
  ASSUME TypeOK, NEW c \in Conns, OnWrite(c)
  PROVE  ConnTypeOK' /\ SocketTypeOK'
<1> USE DEF TypeOK
<1>1. CASE UNCHANGED <<objVars, wire, full, ready>>
  BY <1>1 DEF objVars, ConnTypeOK, SocketTypeOK, HistoryTypeOK
<1>2. ASSUME NEW n \in KernelTakes(c, Len(outBuf[c])),
             PutOnWire(c, outBuf[c], n),
             \/ /\ KeepConn(c, TRUE, Remaining(outBuf[c], n))
                /\ UNCHANGED inBuf
             \/ OnWriteComlete(c)
      PROVE  ConnTypeOK' /\ SocketTypeOK'
  <2>1. outBuf[c] \in Seq(Segments) /\ inBuf \in [Conns -> 0 .. InMax]
    BY DEF ConnTypeOK
  <2>2. n \in 0 .. Len(outBuf[c])
    BY <2>1, KernelTakesType
  <2>3. SocketTypeOK'
    BY <1>2, <2>1, <2>2, PutOnWireType
  <2>4. Remaining(outBuf[c], n) \in Seq(Segments)
    BY <2>1, <2>2, CutType
  <2>5. ConnTypeOK'
    BY <1>2, <2>1, <2>4, KeepConnType, CloseConnType DEF OnWriteComlete
  <2> QED
    BY <1>2, <2>3, <2>5 DEF HistoryTypeOK
<1> QED
  BY <1>1, <1>2 DEF OnWrite

(* Which connections exist: those numbered up to alloc, each with a block. *)
Allocated ==
  \A c \in Conns : /\ obj[c] = "none" <=> c > alloc
                   /\ obj[c] # "none" => addr[c] \in Addrs

(* A step of OnRead keeps every variable in its type. *)
LEMMA OnReadType ==
  ASSUME TypeOK, NEW c \in Conns, addr[c] \in Addrs, OnRead(c)
  PROVE  /\ rcvq' \in [Conns -> Nat] /\ ConnTypeOK' /\ SocketTypeOK'
         /\ tasks' \in Seq(Tasks) /\ HistoryTypeOK'
<1> DEFINE in == inBuf[c] + rcvq[c]
<1> USE DEF TypeOK
<1>1. in \in Nat /\ (~TooMuch(in) => in \in 0 .. InMax)
  BY ConnAssumption DEF ConnTypeOK, NetTypeOK, TooMuch
<1>2. rcvq' \in [Conns -> Nat]
  BY DEF OnRead, NetTypeOK
<1>3. CASE NoExecute /\ CloseConn(c)
  BY <1>2, <1>3, CloseConnType
     DEF NoExecute, PoolTypeOK, HistoryTypeOK, SocketTypeOK
<1>4. CASE /\ NoExecute /\ ~TooMuch(in)
           /\ inBuf' = [inBuf EXCEPT ![c] = in]
           /\ UNCHANGED <<obj, addr, httpMap, uuidMap, ready, busy, outBuf>>
  BY <1>1, <1>2, <1>4
     DEF NoExecute, ConnTypeOK, PoolTypeOK, HistoryTypeOK, SocketTypeOK
<1>5. CASE ~TooMuch(in) /\ kind[c] = "register"
           /\ Submit(c, RegisterTask(c), in)
  <2>1. RegisterTask(c) \in Tasks
    BY DEF RegisterTask, Tasks
  <2>2. tasks' \in Seq(Tasks)
    BY <1>5, <2>1, AppendProperties DEF Submit, PoolTypeOK
  <2> QED
    BY <1>1, <1>2, <1>5, <2>2
       DEF Submit, ConnTypeOK, HistoryTypeOK, SocketTypeOK
<1>6. CASE ~TooMuch(in) /\ kind[c] = "login" /\ Submit(c, LoginTask(c), in)
  <2>1. LoginTask(c) \in Tasks
    BY DEF LoginTask, Tasks
  <2>2. tasks' \in Seq(Tasks)
    BY <1>6, <2>1, AppendProperties DEF Submit, PoolTypeOK
  <2> QED
    BY <1>1, <1>2, <1>6, <2>2
       DEF Submit, ConnTypeOK, HistoryTypeOK, SocketTypeOK
<1>7. CASE ~TooMuch(in) /\ ExecuteInline(c, in)
  <2>1. ConnTypeOK' /\ SocketTypeOK'
    BY <1>1, <1>7, ResponseType, SendType DEF ExecuteInline
  <2> QED
    BY <1>2, <1>7, <2>1 DEF ExecuteInline, PoolTypeOK, HistoryTypeOK
<1> QED
  BY <1>3, <1>4, <1>5, <1>6, <1>7 DEF OnRead, Dispatch

-----------------------------------------------------------------------------
(* The connection maps.                                                    *)

ConnInv == TypeOK /\ MapsAgree /\ Allocated

(* What a handler that runs for the live connection c may do to it. *)
Handled(c) ==
  /\ obj' = obj \/ obj' = [obj EXCEPT ![c] = "deleted"]
  /\ httpMap' = {d \in httpMap : obj'[d] = "live"}
  /\ uuidMap' = {d \in uuidMap : obj'[d] = "live"}
  /\ ready' = {d \in ready : obj'[d] = "live"}
  /\ UNCHANGED addr

LEMMA HandledAgree ==
  ASSUME ConnInv, NEW c \in Conns, obj[c] = "live", Handled(c), alloc' = alloc
  PROVE  MapsAgree' /\ Allocated'
  BY DEF ConnInv, TypeOK, ConnTypeOK, MapsAgree, Allocated, Handled

LEMMA CloseHandles ==
  ASSUME ConnInv, NEW c \in Conns, obj[c] = "live", CloseConn(c)
  PROVE  Handled(c)
  BY DEF ConnInv, TypeOK, ConnTypeOK, MapsAgree, CloseConn, Unregister, Handled

LEMMA KeepHandles ==
  ASSUME ConnInv, NEW c \in Conns, UNCHANGED <<obj, addr, httpMap, uuidMap, ready>>
  PROVE  Handled(c)
  BY DEF ConnInv, TypeOK, ConnTypeOK, MapsAgree, Handled

LEMMA SendHandles ==
  ASSUME ConnInv, NEW c \in Conns, obj[c] = "live", NEW data, NEW in,
         Send(c, data, in)
  PROVE  Handled(c)
  BY CloseHandles, KeepHandles DEF Send, KeepConn, OnWriteComlete

LEMMA OnWriteHandles ==
  ASSUME ConnInv, NEW c \in Conns, obj[c] = "live", OnWrite(c)
  PROVE  Handled(c)
  BY CloseHandles, KeepHandles DEF OnWrite, KeepConn, OnWriteComlete, objVars

LEMMA OnReadHandles ==
  ASSUME ConnInv, NEW c \in Conns, obj[c] = "live", OnRead(c)
  PROVE  Handled(c)
  BY CloseHandles, KeepHandles, SendHandles
     DEF OnRead, Dispatch, Submit, ExecuteInline

-----------------------------------------------------------------------------
(* The inductive invariant.  MapsAgree alone is not inductive: that a new  *)
(* connection is in no map yet needs Allocated.                            *)

LEMMA ConnInit == Init => ConnInv
<1> SUFFICES ASSUME Init PROVE ConnInv
  OBVIOUS
<1>1. TypeOK
  BY ConnAssumption, EmptySeq
     DEF Init, TypeOK, NetTypeOK, LoopTypeOK, ConnTypeOK, SocketTypeOK,
         PoolTypeOK, HistoryTypeOK, Conns, NoConn
<1>2. MapsAgree /\ Allocated
  BY ConnAssumption DEF Init, MapsAgree, Allocated, Conns
<1> QED
  BY <1>1, <1>2 DEF ConnInv

(* The peers only change what the network holds. *)
LEMMA PeerStep ==
  ASSUME ConnInv, NEW c \in Conns, Peer(c)
  PROVE  ConnInv'
<1>1. c \in httpMap
  BY DEF Peer, ClientSend, ClientFin, ClientReset, ClientDrain, SocketOpen,
         ConnInv, MapsAgree
<1>2. NetTypeOK' /\ SocketTypeOK'
  <2> USE DEF ConnInv, TypeOK, NetTypeOK, SocketTypeOK
  <2>1. CASE ClientSend(c)
    BY <2>1, ConnAssumption DEF ClientSend
  <2>2. CASE ClientFin(c)
    BY <2>2 DEF ClientFin
  <2>3. CASE ClientReset(c)
    BY <2>3 DEF ClientReset
  <2>4. CASE ClientDrain(c)
    BY <2>4 DEF ClientDrain, netVars
  <2> QED
    BY <2>1, <2>2, <2>3, <2>4 DEF Peer
<1>3. UNCHANGED <<loopVars, objVars, poolVars, dispatched>>
  BY DEF Peer, ClientSend, ClientFin, ClientReset, ClientDrain
<1>4. ready' = ready \cup {c}
  BY DEF Peer, ClientSend, ClientFin, ClientReset, ClientDrain
<1>5. TypeOK'
  BY <1>2, <1>3, <1>4
     DEF ConnInv, TypeOK, LoopTypeOK, ConnTypeOK, PoolTypeOK, HistoryTypeOK,
         loopVars, objVars, poolVars
<1>6. MapsAgree' /\ Allocated'
  BY <1>1, <1>3, <1>4
     DEF ConnInv, MapsAgree, Allocated, loopVars, objVars
<1> QED
  BY <1>5, <1>6 DEF ConnInv

LEMMA AcceptStep ==
  ASSUME ConnInv, NEW k \in Kinds, Accept(k)
  PROVE  ConnInv'
<1> DEFINE c == alloc + 1
<1>1. c \in Conns /\ obj[c] = "none"
  BY ConnAssumption
     DEF Accept, ConnInv, TypeOK, LoopTypeOK, Allocated, Conns
<1>2. PICK a \in Addrs : addr' = [addr EXCEPT ![c] = a]
  BY DEF Accept
<1>3. /\ obj' = [obj EXCEPT ![c] = "live"]
      /\ httpMap' = httpMap \cup {c} /\ uuidMap' = uuidMap \cup {c}
      /\ alloc' = alloc + 1 /\ alloc' \in 0 .. NConn
      /\ UNCHANGED <<ready, inBuf, busy, outBuf, phase, todo, cur, full, wire,
                     tasks, work, respList, dispatched>>
  BY ConnAssumption DEF Accept, ConnInv, TypeOK, LoopTypeOK, poolVars
<1>4. NetTypeOK'
  BY <1>1 DEF Accept, ConnInv, TypeOK, NetTypeOK
<1>5. LoopTypeOK' /\ SocketTypeOK' /\ PoolTypeOK' /\ HistoryTypeOK'
  BY <1>3 DEF ConnInv, TypeOK, LoopTypeOK, SocketTypeOK, PoolTypeOK,
              HistoryTypeOK
<1>6. ConnTypeOK'
  BY <1>1, <1>2, <1>3 DEF ConnInv, TypeOK, ConnTypeOK
<1>7. MapsAgree'
  BY <1>1, <1>3 DEF ConnInv, TypeOK, ConnTypeOK, MapsAgree
<1>8. Allocated'
  BY ConnAssumption, <1>1, <1>2, <1>3
     DEF ConnInv, TypeOK, ConnTypeOK, LoopTypeOK, Allocated, Conns
<1> QED
  BY <1>4, <1>5, <1>6, <1>7, <1>8 DEF ConnInv, TypeOK

LEMMA EpollStep ==
  ASSUME ConnInv, EpollWait \/ EventsDone \/ ResponsesDone
  PROVE  ConnInv'
<1>1. UNCHANGED <<netVars, full, wire, cur, alloc, objVars, poolVars,
                  dispatched>>
  BY DEF EpollWait, EventsDone, ResponsesDone
<1>2. /\ phase' \in {"wait", "events", "responses"}
      /\ todo' \in [Conns -> SUBSET Flags]
      /\ ready' = {} \/ ready' = ready
  BY DEF EpollWait, EventsDone, ResponsesDone, EventMask, ConnInv, TypeOK,
         LoopTypeOK
<1> QED
  BY <1>1, <1>2
     DEF ConnInv, TypeOK, NetTypeOK, LoopTypeOK, ConnTypeOK, SocketTypeOK,
         PoolTypeOK, HistoryTypeOK, MapsAgree, Allocated, netVars, objVars,
         poolVars

(* What the event handlers leave alone. *)
LEMMA TakeEventType ==
  ASSUME ConnInv, NEW c \in Conns, NEW f, TakeEvent(c, f)
  PROVE  /\ LoopTypeOK' /\ alloc' = alloc
         /\ UNCHANGED <<client, kind, sent, work, respList>>
  BY DEF TakeEvent, ConnInv, TypeOK, LoopTypeOK, NoConn

LEMMA EventStep ==
  ASSUME ConnInv, NEW c \in Conns,
         \/ ReadEvent(c) \/ WriteEvent(c) \/ CloseEvent(c)
         \/ \E f \in Flags : StaleEvent(c, f)
  PROVE  ConnInv'
<1> USE DEF TypeOK
<1>1. /\ LoopTypeOK' /\ alloc' = alloc
      /\ UNCHANGED <<client, kind, sent, work, respList>>
  BY TakeEventType DEF ReadEvent, WriteEvent, CloseEvent, StaleEvent
<1>2. CASE \E f \in Flags : StaleEvent(c, f)
  <2>1. UNCHANGED <<rcvq, full, wire, ready, objVars, tasks, dispatched>>
    BY <1>2 DEF StaleEvent
  <2>2. NetTypeOK' /\ PoolTypeOK' /\ HistoryTypeOK' /\ SocketTypeOK'
    BY <1>1, <2>1
       DEF ConnInv, NetTypeOK, PoolTypeOK, HistoryTypeOK, SocketTypeOK
  <2>3. ConnTypeOK' /\ MapsAgree' /\ Allocated'
    BY <1>1, <2>1 DEF ConnInv, ConnTypeOK, MapsAgree, Allocated, objVars
  <2> QED
    BY <1>1, <2>2, <2>3 DEF ConnInv
<1>3. CASE c \in httpMap /\ (ReadEvent(c) \/ WriteEvent(c) \/ CloseEvent(c))
  <2>1. obj[c] = "live" /\ addr[c] \in Addrs
    BY <1>3 DEF ConnInv, MapsAgree, Allocated
  <2>2. Handled(c)
    BY <1>3, <2>1, CloseHandles, OnReadHandles, OnWriteHandles
       DEF ReadEvent, WriteEvent, CloseEvent
  <2>3. CASE ReadEvent(c) /\ OnRead(c)
    <3>1. /\ rcvq' \in [Conns -> Nat] /\ ConnTypeOK' /\ SocketTypeOK'
          /\ tasks' \in Seq(Tasks) /\ HistoryTypeOK'
      BY <2>1, <2>3, OnReadType DEF ConnInv
    <3> QED
      BY <1>1, <2>1, <2>2, <3>1, HandledAgree
         DEF ConnInv, NetTypeOK, PoolTypeOK
  <2>4. CASE WriteEvent(c)
    <3>1. ConnTypeOK' /\ SocketTypeOK'
      BY <2>4, OnWriteType DEF WriteEvent, ConnInv
    <3> QED
      BY <1>1, <2>1, <2>2, <2>4, <3>1, HandledAgree
         DEF WriteEvent, ConnInv, NetTypeOK, PoolTypeOK, HistoryTypeOK
  <2>5. CASE /\ CloseConn(c)
             /\ UNCHANGED <<rcvq, full, wire, tasks, dispatched>>
    <3>1. ConnTypeOK'
      BY <2>5, CloseConnType DEF ConnInv
    <3> QED
      BY <1>1, <2>1, <2>2, <2>5, <3>1, HandledAgree
         DEF ConnInv, NetTypeOK, PoolTypeOK, HistoryTypeOK, SocketTypeOK
  <2> QED
    BY <1>3, <2>3, <2>4, <2>5 DEF ReadEvent, CloseEvent
<1> QED
  BY <1>2, <1>3 DEF ReadEvent, WriteEvent, CloseEvent

(* The head of the response list names its connection by uuid. *)
LEMMA ReplyType ==
  ASSUME TypeOK, respList # <<>>
  PROVE  /\ Head(respList) \in Replies
         /\ Tail(respList) \in Seq(Replies)
  BY HeadTailProperties DEF TypeOK, PoolTypeOK

LEMMA SendResponseStep ==
  ASSUME ConnInv, SendResponse
  PROVE  ConnInv'
<1> DEFINE r == Head(respList)
<1> USE DEF TypeOK
<1>1. r \in Replies /\ respList' \in Seq(Replies)
  BY ReplyType DEF SendResponse, ConnInv
<1>2. UNCHANGED <<netVars, loopVars, tasks, work, dispatched>>
  BY DEF SendResponse
<1>3. CASE r.uuid \in uuidMap /\ Send(r.uuid, Response(r.from), inBuf[r.uuid])
  <2>1. r.uuid \in Conns /\ obj[r.uuid] = "live" /\ r.from \in Conns
    BY <1>1, <1>3 DEF ConnInv, MapsAgree, Replies
  <2>2. inBuf[r.uuid] \in 0 .. InMax
    BY <2>1 DEF ConnInv, ConnTypeOK
  <2>3. ConnTypeOK' /\ SocketTypeOK'
    BY <1>3, <2>1, <2>2, SendType, ResponseType DEF ConnInv
  <2>4. MapsAgree' /\ Allocated'
    BY <1>2, <1>3, <2>1, SendHandles, HandledAgree DEF loopVars
  <2> QED
    BY <1>1, <1>2, <2>3, <2>4
       DEF ConnInv, NetTypeOK, LoopTypeOK, PoolTypeOK, HistoryTypeOK, netVars,
           loopVars
<1>4. CASE UNCHANGED <<objVars, wire, full, ready>>
  BY <1>1, <1>2, <1>4
     DEF ConnInv, NetTypeOK, LoopTypeOK, ConnTypeOK, SocketTypeOK, PoolTypeOK,
         HistoryTypeOK, MapsAgree, Allocated, netVars, loopVars, objVars
<1> QED
  BY <1>3, <1>4 DEF SendResponse

LEMMA WorkerStep ==
  ASSUME ConnInv, NEW w \in Workers, Worker(w)
  PROVE  ConnInv'
<1> USE DEF TypeOK
<1>1. UNCHANGED <<netVars, full, wire, ready, loopVars, objVars, dispatched>>
  BY DEF Worker, TakeTask, FinishTask
<1>2. NetTypeOK' /\ LoopTypeOK' /\ SocketTypeOK' /\ HistoryTypeOK'
  BY <1>1 DEF ConnInv, NetTypeOK, LoopTypeOK, SocketTypeOK, HistoryTypeOK,
              netVars, loopVars
<1>3. ConnTypeOK' /\ MapsAgree' /\ Allocated'
  BY <1>1 DEF ConnInv, ConnTypeOK, MapsAgree, Allocated, loopVars, objVars
<1>4. CASE TakeTask(w)
  <2>1. Head(tasks) \in Tasks /\ Tail(tasks) \in Seq(Tasks)
    BY <1>4, HeadTailProperties DEF TakeTask, ConnInv, PoolTypeOK
  <2>2. PoolTypeOK'
    BY <1>4, <2>1 DEF TakeTask, ConnInv, PoolTypeOK
  <2> QED
    BY <1>2, <1>3, <2>2 DEF ConnInv
<1>5. CASE FinishTask(w)
  <2>1. work[w] \in Tasks
    BY <1>5 DEF FinishTask, ConnInv, PoolTypeOK, NoTask
  <2>2. \E u \in Conns \cup {NoConn} :
          respList' = Append(respList, [uuid |-> u, from |-> work[w].from])
    BY <1>5, <2>1 DEF FinishTask, ReadUuid, Occupant, Tasks
  <2>3. respList' \in Seq(Replies)
    BY <2>1, <2>2, AppendProperties DEF ConnInv, PoolTypeOK, Replies, Tasks
  <2>4. work' \in [Workers -> Tasks \cup {NoTask}] /\ tasks' = tasks
    BY <1>5 DEF FinishTask, ConnInv, PoolTypeOK
  <2>5. PoolTypeOK'
    BY <2>3, <2>4 DEF ConnInv, PoolTypeOK
  <2> QED
    BY <1>2, <1>3, <2>5 DEF ConnInv
<1> HIDE DEF TypeOK
<1> QED
  BY <1>4, <1>5 DEF Worker

LEMMA ConnStep == ConnInv /\ [Next]_vars => ConnInv'
<1> SUFFICES ASSUME ConnInv, [Next]_vars PROVE ConnInv'
  OBVIOUS
<1>1. CASE UNCHANGED vars
  BY <1>1
     DEF vars, ConnInv, TypeOK, NetTypeOK, LoopTypeOK, ConnTypeOK,
         SocketTypeOK, PoolTypeOK, HistoryTypeOK, MapsAgree, Allocated,
         netVars, loopVars, objVars, poolVars
<1>2. CASE Next
  BY <1>2, PeerStep, AcceptStep, EpollStep, EventStep, SendResponseStep,
     WorkerStep DEF Next, Loop
<1> QED
  BY <1>1, <1>2

LEMMA ConnInvariant == Spec => []ConnInv
  BY ConnInit, ConnStep, PTL DEF Spec

(* Every variable keeps the type of what it models. *)
THEOREM TypeCorrect == Spec => []TypeOK
  BY ConnInvariant, PTL DEF ConnInv

(* The two connection maps and the ready list never dangle: they hold the  *)
(* live connections, after every handler of every event in any order.      *)
THEOREM MapsCorrect == Spec => []MapsAgree
  BY ConnInvariant, PTL DEF ConnInv

-----------------------------------------------------------------------------
(* A closed connection is never used again.                                *)

(* Only the connection a handler runs for is changed by it. *)
Only(c) ==
  \A d \in Conns \ {c} : /\ obj'[d] = obj[d]
                          /\ UNCHANGED <<wire[d], outBuf[d], dispatched[d]>>

LEMMA SendOnly ==
  ASSUME TypeOK, NEW c \in Conns, NEW data, NEW in,
         \/ dispatched' = dispatched
         \/ dispatched' = [dispatched EXCEPT ![c] = @ + 1],
         Send(c, data, in)
  PROVE  Only(c)
  BY DEF TypeOK, ConnTypeOK, SocketTypeOK, HistoryTypeOK, Send, KeepConn,
         PutOnWire, OnWriteComlete, CloseConn, Only

LEMMA OnReadOnly ==
  ASSUME TypeOK, NEW c \in Conns, OnRead(c)
  PROVE  Only(c)
<1> DEFINE in == inBuf[c] + rcvq[c]
<1>1. CASE CloseConn(c) /\ NoExecute
  BY <1>1 DEF TypeOK, ConnTypeOK, CloseConn, NoExecute, Only
<1>2. CASE NoExecute /\ UNCHANGED <<obj, outBuf>>
  BY <1>2 DEF NoExecute, Only
<1>3. ASSUME NEW t, Submit(c, t, in)
      PROVE  Only(c)
  BY <1>3 DEF TypeOK, HistoryTypeOK, Submit, Only
<1>4. CASE ExecuteInline(c, in)
  BY <1>4, SendOnly DEF ExecuteInline
<1> QED
  BY <1>1, <1>2, <1>3, <1>4 DEF OnRead, Dispatch

LEMMA OnWriteOnly ==
  ASSUME TypeOK, NEW c \in Conns, OnWrite(c), dispatched' = dispatched
  PROVE  Only(c)
  BY DEF TypeOK, ConnTypeOK, SocketTypeOK, OnWrite, KeepConn, PutOnWire,
         OnWriteComlete, CloseConn, Only, objVars

LEMMA EventFinal ==
  ASSUME ConnInv, NEW c \in Conns,
         c \in httpMap, ReadEvent(c) \/ WriteEvent(c) \/ CloseEvent(c)
  PROVE  Final
<1>1. obj[c] = "live" /\ TypeOK
  BY DEF ConnInv, MapsAgree
<1>2. CASE OnRead(c)
  BY <1>1, <1>2, OnReadOnly DEF Only, Final
<1>3. CASE WriteEvent(c)
  BY <1>1, <1>3, OnWriteOnly DEF WriteEvent, Only, Final
<1>4. CASE CloseConn(c) /\ UNCHANGED <<wire, dispatched>>
  BY <1>1, <1>4 DEF TypeOK, ConnTypeOK, CloseConn, Final
<1> QED
  BY <1>2, <1>3, <1>4 DEF ReadEvent, CloseEvent

LEMMA SendResponseFinal ==
  ASSUME ConnInv, SendResponse
  PROVE  Final
<1> DEFINE r == Head(respList)
<1>1. CASE r.uuid \in uuidMap /\ Send(r.uuid, Response(r.from), inBuf[r.uuid])
  <2>1. r.uuid \in Conns /\ obj[r.uuid] = "live"
    BY <1>1 DEF ConnInv, MapsAgree
  <2>2. Only(r.uuid)
    BY <1>1, <2>1, SendOnly DEF SendResponse, ConnInv
  <2> QED
    BY <2>1, <2>2 DEF Only, Final
<1>2. CASE UNCHANGED <<objVars, wire>>
  BY <1>2 DEF SendResponse, objVars, Final
<1> QED
  BY <1>1, <1>2 DEF SendResponse

LEMMA StepFinal == ConnInv /\ [Next]_vars => Final
<1> SUFFICES ASSUME ConnInv, [Next]_vars PROVE Final
  OBVIOUS
<1>1. CASE UNCHANGED <<obj, wire, outBuf, dispatched>>
  BY <1>1 DEF Final
<1>2. ASSUME NEW k \in Kinds, Accept(k)
      PROVE  Final
  <2>1. alloc + 1 \in Conns /\ obj[alloc + 1] = "none"
    BY <1>2, ConnAssumption
       DEF Accept, ConnInv, TypeOK, LoopTypeOK, Allocated, Conns
  <2> QED
    BY <1>2, <2>1 DEF Accept, ConnInv, TypeOK, ConnTypeOK, Final
<1>3. CASE \/ \E c \in Conns : Peer(c)
           \/ \E w \in Workers : Worker(w)
           \/ EpollWait \/ EventsDone \/ ResponsesDone
           \/ \E c \in Conns, f \in Flags : StaleEvent(c, f)
  <2>1. CASE \E c \in Conns : Peer(c)
    <3>1. UNCHANGED <<objVars, dispatched>>
      BY <2>1 DEF Peer, ClientSend, ClientFin, ClientReset, ClientDrain
    <3>2. UNCHANGED wire
      BY <2>1 DEF Peer, ClientSend, ClientFin, ClientReset, ClientDrain
    <3> QED
      BY <1>1, <3>1, <3>2 DEF objVars
  <2>2. CASE \E w \in Workers : Worker(w)
    BY <1>1, <2>2 DEF Worker, TakeTask, FinishTask, objVars
  <2>3. CASE EpollWait \/ EventsDone \/ ResponsesDone
    BY <1>1, <2>3 DEF EpollWait, EventsDone, ResponsesDone, objVars
  <2>4. CASE \E c \in Conns, f \in Flags : StaleEvent(c, f)
    BY <1>1, <2>4 DEF StaleEvent, objVars
  <2> QED
    BY <1>3, <2>1, <2>2, <2>3, <2>4
<1>4. CASE SendResponse
  BY <1>4, SendResponseFinal
<1>5. CASE \E c \in Conns :
             /\ c \in httpMap
             /\ ReadEvent(c) \/ WriteEvent(c) \/ CloseEvent(c)
  BY <1>5, EventFinal
<1>6. CASE UNCHANGED vars
  BY <1>1, <1>6 DEF vars, objVars
<1>7. ASSUME NEW c \in Conns, ReadEvent(c) \/ WriteEvent(c) \/ CloseEvent(c)
      PROVE  c \in httpMap
  BY <1>7 DEF ReadEvent, WriteEvent, CloseEvent
<1> QED
  BY <1>2, <1>3, <1>4, <1>5, <1>6, <1>7 DEF Next, Loop

(* Once closed, a connection stays closed and silent: whatever a worker    *)
(* answers later, no byte is sent and no request executed for it.          *)
THEOREM ClosedFinal == Spec => ClosedIsFinal
<1>1. ConnInv /\ [Next]_vars => [Final]_vars
  BY StepFinal
<1> QED
  BY <1>1, ConnInvariant, PTL DEF Spec, ClosedIsFinal

-----------------------------------------------------------------------------
(* The isolation of clients.                                               *)

(* The connections whose peers send login requests. *)
Logins == {c \in Conns : kind[c] = "login"}

(* With L for these connections: what may be sent to c, and the tasks and  *)
(* replies that name the connection which asked.                           *)
Owned(L, c)   == {s \in Segments : s.owner = c \/ s.owner \in L}
OwnTasks(L)   == {t \in Tasks : t.from \in L \/ (t.fn = "register" /\ t.uuid = t.from)}
OwnReplies(L) == {r \in Replies : r.from \in L \/ r.uuid = r.from}

(* Except for login requests, whose tasks name their connection by the     *)
(* address of its object, a task and its reply name the connection that    *)
(* asked, and what was or will be sent to a client are segments of its own *)
(* responses.                                                              *)
WireOwned(L)  == \A c \in Conns : wire[c] \in Seq(Owned(L, c))
OutOwned(L)   == \A c \in Conns : outBuf[c] \in Seq(Owned(L, c))
TasksOwned(L) ==
  /\ tasks \in Seq(OwnTasks(L))
  /\ work \in [Workers -> OwnTasks(L) \cup {NoTask}]
ReplyOwned(L) == respList \in Seq(OwnReplies(L))

IsoInv(L) == WireOwned(L) /\ OutOwned(L) /\ TasksOwned(L) /\ ReplyOwned(L)

(* A connection has no kind before it is accepted. *)
Unborn == \A c \in Conns : c > alloc => kind[c] = "none"

LEMMA ResponseOwned ==
  ASSUME NEW L, NEW c \in Conns, NEW from \in Conns, from = c \/ from \in L
  PROVE  Response(from) \in Seq(Owned(L, c))
  BY ConnAssumption DEF Response, Segments, Owned

LEMMA IsoIsolates == IsoInv(Logins) => ResponseIsolation
<1> SUFFICES ASSUME IsoInv(Logins), NEW c \in Conns, NEW i \in DOMAIN wire[c]
             PROVE  wire[c][i].owner = c \/ kind[wire[c][i].owner] = "login"
  BY DEF ResponseIsolation
<1>1. wire[c] \in Seq(Owned(Logins, c))
  BY DEF IsoInv, WireOwned
<1>2. i \in 1 .. Len(wire[c])
  BY <1>1, LenProperties
<1>3. wire[c][i] \in Owned(Logins, c)
  BY <1>1, <1>2, ElementOfSeq
<1> QED
  BY <1>3 DEF Owned, Logins

LEMMA IsoInit ==
  ASSUME Init, NEW L
  PROVE  IsoInv(L) /\ Unborn
  BY EmptySeq
     DEF Init, IsoInv, WireOwned, OutOwned, TasksOwned, ReplyOwned, Unborn, Conns

LEMMA SendOwned ==
  ASSUME TypeOK, NEW L, WireOwned(L), OutOwned(L), NEW c \in Conns,
         NEW data \in Seq(Owned(L, c)), data \in Seq(Segments), NEW in,
         Send(c, data, in)
  PROVE  WireOwned(L)' /\ OutOwned(L)'
<1> DEFINE out == outBuf[c] \o data
<1>1. /\ outBuf[c] \in Seq(Owned(L, c)) /\ wire[c] \in Seq(Owned(L, c))
      /\ wire = [d \in Conns |-> wire[d]]
      /\ outBuf = [d \in Conns |-> outBuf[d]]
  BY DEF WireOwned, OutOwned, TypeOK, ConnTypeOK, SocketTypeOK
<1>2. CASE KeepConn(c, TRUE, out) /\ UNCHANGED wire
  <2>1. out \in Seq(Owned(L, c))
    BY <1>1, ConcatProperties
  <2> QED
    BY <1>1, <1>2, <2>1 DEF KeepConn, WireOwned, OutOwned
<1>3. ASSUME NEW n \in KernelTakes(c, Len(data)), PutOnWire(c, data, n),
             \/ KeepConn(c, TRUE, outBuf[c] \o Remaining(data, n))
             \/ OnWriteComlete(c)
      PROVE  WireOwned(L)' /\ OutOwned(L)'
  <2>1. n \in 0 .. Len(data)
    BY KernelTakesType
  <2>2. /\ SubSeq(data, 1, n) \in Seq(Owned(L, c))
        /\ Remaining(data, n) \in Seq(Owned(L, c))
    BY <2>1, CutType
  <2>3. /\ wire[c] \o SubSeq(data, 1, n) \in Seq(Owned(L, c))
        /\ outBuf[c] \o Remaining(data, n) \in Seq(Owned(L, c))
    BY <1>1, <2>2, ConcatProperties
  <2>4. WireOwned(L)'
    BY <1>1, <1>3, <2>3 DEF PutOnWire, WireOwned
  <2>5. OutOwned(L)'
    BY <1>1, <1>3, <2>3, EmptySeq
       DEF KeepConn, OnWriteComlete, CloseConn, OutOwned
  <2> QED
    BY <2>4, <2>5
<1> QED
  BY <1>2, <1>3 DEF Send

LEMMA OnWriteOwned ==
  ASSUME TypeOK, NEW L, WireOwned(L), OutOwned(L), NEW c \in Conns,
         OnWrite(c)
  PROVE  WireOwned(L)' /\ OutOwned(L)'
<1>1. /\ outBuf[c] \in Seq(Owned(L, c)) /\ wire[c] \in Seq(Owned(L, c))
      /\ outBuf[c] \in Seq(Segments)
      /\ wire = [d \in Conns |-> wire[d]]
      /\ outBuf = [d \in Conns |-> outBuf[d]]
  BY DEF WireOwned, OutOwned, TypeOK, ConnTypeOK, SocketTypeOK
<1>2. CASE UNCHANGED <<objVars, wire>>
  BY <1>2 DEF objVars, WireOwned, OutOwned
<1>3. ASSUME NEW n \in KernelTakes(c, Len(outBuf[c])),
             PutOnWire(c, outBuf[c], n),
             \/ KeepConn(c, TRUE, Remaining(outBuf[c], n))
             \/ OnWriteComlete(c)
      PROVE  WireOwned(L)' /\ OutOwned(L)'
  <2>1. n \in 0 .. Len(outBuf[c])
    BY <1>1, KernelTakesType
  <2>2. /\ SubSeq(outBuf[c], 1, n) \in Seq(Owned(L, c))
        /\ Remaining(outBuf[c], n) \in Seq(Owned(L, c))
    BY <1>1, <2>1, CutType
  <2>3. wire[c] \o SubSeq(outBuf[c], 1, n) \in Seq(Owned(L, c))
    BY <1>1, <2>2, ConcatProperties
  <2>4. WireOwned(L)'
    BY <1>1, <1>3, <2>3 DEF PutOnWire, WireOwned
  <2>5. OutOwned(L)'
    BY <1>1, <1>3, <2>2, EmptySeq
       DEF KeepConn, OnWriteComlete, CloseConn, OutOwned
  <2> QED
    BY <2>4, <2>5
<1> QED
  BY <1>2, <1>3 DEF OnWrite

LEMMA OnReadOwned ==
  ASSUME TypeOK, NEW L, IsoInv(L), NEW c \in Conns, OnRead(c),
         addr[c] \in Addrs, kind[c] = "login" => c \in L
  PROVE  WireOwned(L)' /\ OutOwned(L)' /\ tasks' \in Seq(OwnTasks(L))
<1> DEFINE in == inBuf[c] + rcvq[c]
<1> USE DEF IsoInv, TasksOwned
<1>1. CASE CloseConn(c) /\ NoExecute
  BY <1>1, EmptySeq
     DEF CloseConn, NoExecute, WireOwned, OutOwned, TypeOK, ConnTypeOK
<1>2. CASE NoExecute /\ UNCHANGED <<obj, outBuf>>
  BY <1>2 DEF NoExecute, WireOwned, OutOwned
<1>3. CASE Submit(c, RegisterTask(c), in)
  <2>1. RegisterTask(c) \in OwnTasks(L)
    BY DEF RegisterTask, OwnTasks, Tasks
  <2> QED
    BY <1>3, <2>1, AppendProperties DEF Submit, WireOwned, OutOwned
<1>4. CASE ExecuteInline(c, in)
  BY <1>4, ResponseOwned, ResponseType, SendOwned DEF ExecuteInline
<1>5. CASE kind[c] = "login" /\ Submit(c, LoginTask(c), in)
  <2>1. LoginTask(c) \in OwnTasks(L)
    BY <1>5 DEF LoginTask, OwnTasks, Tasks
  <2> QED
    BY <1>5, <2>1, AppendProperties DEF Submit, WireOwned, OutOwned
<1> QED
  BY <1>1, <1>2, <1>3, <1>4, <1>5 DEF OnRead, Dispatch

LEMMA SendResponseOwned ==
  ASSUME ConnInv, NEW L, IsoInv(L), SendResponse
  PROVE  IsoInv(L)'
<1> DEFINE r == Head(respList)
<1>1. r \in OwnReplies(L) /\ respList' \in Seq(OwnReplies(L))
  BY HeadTailProperties DEF SendResponse, IsoInv, ReplyOwned
<1>2. CASE r.uuid \in uuidMap /\ Send(r.uuid, Response(r.from), inBuf[r.uuid])
  <2>1. r.uuid \in Conns /\ r.from \in Conns /\ (r.from = r.uuid \/ r.from \in L)
    BY <1>1, <1>2 DEF ConnInv, MapsAgree, OwnReplies, Replies
  <2>2. WireOwned(L)' /\ OutOwned(L)'
    BY <1>2, <2>1, ResponseOwned, ResponseType, SendOwned DEF ConnInv, IsoInv
  <2> QED
    BY <1>1, <2>2 DEF SendResponse, IsoInv, TasksOwned, ReplyOwned
<1>3. CASE UNCHANGED <<objVars, wire>>
  BY <1>1, <1>3
     DEF SendResponse, objVars, IsoInv, WireOwned, OutOwned, TasksOwned,
         ReplyOwned
<1> QED
  BY <1>2, <1>3 DEF SendResponse

LEMMA WorkerOwned ==
  ASSUME ConnInv, NEW L, IsoInv(L), NEW w \in Workers, Worker(w)
  PROVE  IsoInv(L)'
<1> USE DEF IsoInv
<1>1. WireOwned(L)' /\ OutOwned(L)'
  BY DEF Worker, TakeTask, FinishTask, objVars, WireOwned, OutOwned
<1>2. CASE TakeTask(w)
  <2>1. Head(tasks) \in OwnTasks(L) /\ Tail(tasks) \in Seq(OwnTasks(L))
    BY <1>2, HeadTailProperties DEF TakeTask, TasksOwned
  <2> QED
    BY <1>1, <1>2, <2>1 DEF TakeTask, TasksOwned, ReplyOwned
<1>3. CASE FinishTask(w)
  <2>1. work[w] \in OwnTasks(L)
    BY <1>3 DEF FinishTask, TasksOwned, NoTask
  <2>2. PICK u : /\ respList' = Append(respList, [uuid |-> u, from |-> work[w].from])
                 /\ u \in Conns \cup {NoConn}
                 /\ work[w].fn = "register" => u = work[w].uuid
    BY <1>3, <2>1 DEF FinishTask, ReadUuid, Occupant, OwnTasks, Tasks
  <2>3. [uuid |-> u, from |-> work[w].from] \in OwnReplies(L)
    BY <2>1, <2>2 DEF OwnTasks, Tasks, OwnReplies, Replies
  <2>4. ReplyOwned(L)'
    BY <2>2, <2>3, AppendProperties DEF ReplyOwned
  <2> QED
    BY <1>1, <1>3, <2>4 DEF FinishTask, TasksOwned
<1> QED
  BY <1>2, <1>3 DEF Worker

LEMMA IsoStep ==
  ASSUME ConnInv, NEW L, IsoInv(L), Logins \subseteq L, [Next]_vars
  PROVE  IsoInv(L)'
<1> USE DEF IsoInv
<1>1. CASE UNCHANGED <<wire, outBuf, tasks, work, respList>>
  BY <1>1 DEF WireOwned, OutOwned, TasksOwned, ReplyOwned
<1>2. CASE SendResponse \/ \E w \in Workers : Worker(w)
  BY <1>2, SendResponseOwned, WorkerOwned
<1>3. CASE \E c \in Conns : Peer(c)
  <2>1. UNCHANGED <<objVars, poolVars>>
    BY <1>3 DEF Peer, ClientSend, ClientFin, ClientReset, ClientDrain
  <2>2. UNCHANGED wire
    BY <1>3 DEF Peer, ClientSend, ClientFin, ClientReset, ClientDrain
  <2> QED
    BY <1>1, <2>1, <2>2 DEF objVars, poolVars
<1>4. CASE \/ EpollWait \/ EventsDone \/ ResponsesDone
           \/ \E k \in Kinds : Accept(k)
           \/ \E c \in Conns, f \in Flags : StaleEvent(c, f)
  BY <1>1, <1>4
     DEF EpollWait, EventsDone, ResponsesDone, Accept, StaleEvent, TakeEvent,
         objVars, poolVars
<1>5. ASSUME NEW c \in Conns, ReadEvent(c) \/ WriteEvent(c) \/ CloseEvent(c)
      PROVE  IsoInv(L)'
  <2>1. UNCHANGED <<work, respList>>
    BY <1>5 DEF ReadEvent, WriteEvent, CloseEvent, TakeEvent
  <2>2. CASE ReadEvent(c) /\ OnRead(c)
    <3>1. addr[c] \in Addrs
      BY <2>2 DEF ReadEvent, ConnInv, MapsAgree, Allocated
    <3>2. kind[c] = "login" => c \in L
      BY DEF Logins
    <3>3. WireOwned(L)' /\ OutOwned(L)' /\ tasks' \in Seq(OwnTasks(L))
      BY <2>2, <3>1, <3>2, OnReadOwned DEF ConnInv
    <3> QED
      BY <2>1, <3>3 DEF TasksOwned, ReplyOwned
  <2>3. CASE OnWrite(c) /\ UNCHANGED tasks
    BY <2>1, <2>3, OnWriteOwned DEF ConnInv, TasksOwned, ReplyOwned
  <2>4. CASE CloseConn(c) /\ UNCHANGED <<wire, tasks>>
    BY <2>1, <2>4, EmptySeq
       DEF CloseConn, ConnInv, TypeOK, ConnTypeOK, WireOwned, OutOwned,
           TasksOwned, ReplyOwned
  <2> QED
    BY <1>5, <2>2, <2>3, <2>4 DEF ReadEvent, WriteEvent, CloseEvent
<1>6. CASE UNCHANGED vars
  BY <1>1, <1>6 DEF vars, objVars, poolVars
<1> QED
  BY <1>2, <1>3, <1>4, <1>5, <1>6 DEF Next, Loop

(* What is owned stays owned when there are more login requests. *)
LEMMA SeqMonotone ==
  ASSUME NEW S, NEW T, S \subseteq T
  PROVE  Seq(S) \subseteq Seq(T)
<1> SUFFICES ASSUME NEW q \in Seq(S) PROVE q \in Seq(T)
  OBVIOUS
<1>1. /\ Len(q) \in Nat /\ q \in [1 .. Len(q) -> S]
  BY LenProperties
<1>2. q \in [1 .. Len(q) -> T]
  BY <1>1
<1> QED
  BY <1>1, <1>2

LEMMA OwnedMonotone ==
  ASSUME NEW L, NEW M, L \subseteq M
  PROVE  /\ \A c \in Conns : Seq(Owned(L, c)) \subseteq Seq(Owned(M, c))
         /\ OwnTasks(L) \subseteq OwnTasks(M)
         /\ Seq(OwnTasks(L)) \subseteq Seq(OwnTasks(M))
         /\ Seq(OwnReplies(L)) \subseteq Seq(OwnReplies(M))
<1>1. \A c \in Conns : Owned(L, c) \subseteq Owned(M, c)
  BY DEF Owned
<1>2. OwnTasks(L) \subseteq OwnTasks(M) /\ OwnReplies(L) \subseteq OwnReplies(M)
  BY DEF OwnTasks, OwnReplies
<1> QED
  BY <1>1, <1>2, SeqMonotone

(* The kind of a connection never changes after Accept. *)
LEMMA LoginsGrow ==
  ASSUME ConnInv, Unborn, [Next]_vars
  PROVE  Unborn' /\ Logins \subseteq Logins'
<1>1. CASE \E k \in Kinds : Accept(k)
  BY <1>1, ConnAssumption
     DEF Accept, ConnInv, TypeOK, NetTypeOK, LoopTypeOK, Unborn, Logins, Conns
<1>2. CASE UNCHANGED <<kind, alloc>>
  BY <1>2 DEF Unborn, Logins
<1>3. ASSUME NEW c \in Conns, Peer(c)
      PROVE  UNCHANGED <<kind, alloc>>
  BY <1>3 DEF Peer, ClientSend, ClientFin, ClientReset, ClientDrain, netVars,
     loopVars
<1>4. ASSUME NEW w \in Workers, Worker(w)
      PROVE  UNCHANGED <<kind, alloc>>
  BY <1>4 DEF Worker, TakeTask, FinishTask, netVars, loopVars
<1>5. ASSUME Loop
      PROVE  UNCHANGED <<kind, alloc>>
  BY <1>5 DEF Loop, EpollWait, EventsDone, SendResponse, ResponsesDone,
     ReadEvent, WriteEvent, CloseEvent, StaleEvent, TakeEvent, netVars, loopVars
<1>6. CASE UNCHANGED vars
  BY <1>2, <1>6 DEF vars, netVars, loopVars
<1> QED
  BY <1>1, <1>2, <1>3, <1>4, <1>5, <1>6 DEF Next

LEMMA IsoAlways == Spec => [](IsoInv(Logins) /\ Unborn)
<1>1. Init => IsoInv(Logins) /\ Unborn
  BY IsoInit
<1>2. ConnInv /\ IsoInv(Logins) /\ Unborn /\ [Next]_vars
        => (IsoInv(Logins) /\ Unborn)'
  <2> SUFFICES ASSUME ConnInv, IsoInv(Logins), Unborn, [Next]_vars
               PROVE  (IsoInv(Logins) /\ Unborn)'
    OBVIOUS
  <2>1. PICK L : L = Logins
    OBVIOUS
  <2>2. PICK M : M = Logins'
    OBVIOUS
  <2>3. IsoInv(L)'
    BY <2>1, IsoStep
  <2>4. Unborn' /\ L \subseteq M
    BY <2>1, <2>2, LoginsGrow
  <2>5. IsoInv(M)'
    BY <2>3, <2>4, OwnedMonotone
       DEF IsoInv, WireOwned, OutOwned, TasksOwned, ReplyOwned
  <2> QED
    BY <2>2, <2>4, <2>5
<1> QED
  BY <1>1, <1>2, ConnInvariant, PTL DEF Spec

(* No client is ever sent a part of the answer to another client's request *)
(* (other than a login), however late the workers answer and however the   *)
(* memory of the objects is reused.                                        *)
THEOREM Isolation == Spec => []ResponseIsolation
  BY IsoAlways, IsoIsolates, PTL

-----------------------------------------------------------------------------
(* The order of the bytes.                                                 *)

(* A stream of whole responses: nothing, or a stream that ends with the    *)
(* last segment of a response.                                             *)
Whole(s) == s = <<>> \/ s[Len(s)].seg = RespLen

(* What a client has been sent and what is still to be sent to it.         *)
Stream(c) == wire[c] \o outBuf[c]

(* Sent and unsent bytes make up one stream in order; the handlers leave   *)
(* whole responses behind, so that the next one continues it; and there is *)
(* nothing unsent unless the connection is busy, so that a response that   *)
(* is handed to the kernel at once overtakes nothing.                      *)
OrderInv ==
  \A c \in Conns :
    /\ InOrder(Stream(c))
    /\ obj[c] # "deleted" => Whole(Stream(c))
    /\ busy[c] \/ outBuf[c] = <<>>

LEMMA InOrderConcat ==
  ASSUME NEW s \in Seq(Segments), NEW t \in Seq(Segments),
         InOrder(s), InOrder(t), Whole(s), Whole(t)
  PROVE  InOrder(s \o t) /\ Whole(s \o t)
<1>1. /\ Len(s) \in Nat /\ Len(t) \in Nat
      /\ DOMAIN s = 1 .. Len(s) /\ DOMAIN t = 1 .. Len(t)
      /\ DOMAIN (s \o t) = 1 .. Len(s) + Len(t)
      /\ Len(s \o t) = Len(s) + Len(t)
  BY LenProperties, ConcatProperties
<1>2. \A i \in 1 .. Len(s) + Len(t) :
        (s \o t)[i] = IF i <= Len(s) THEN s[i] ELSE t[i - Len(s)]
  BY ConcatProperties
<1>3. s # <<>> => Len(s) # 0 /\ s[Len(s)].seg = RespLen
  BY EmptySeq DEF Whole
<1>4. Len(s) # 0 => s[Len(s)].seg = RespLen
  BY <1>3, EmptySeq
<1>5. ASSUME NEW i \in 1 .. Len(s) + Len(t)
      PROVE  (s \o t)[i].seg
               = IF i = 1 THEN 1 ELSE NextSeg((s \o t)[i - 1].seg)
  <2>1. CASE i <= Len(s)
    <3> i \in DOMAIN s
      BY <1>1, <2>1
    <3>1. s[i].seg = IF i = 1 THEN 1 ELSE NextSeg(s[i - 1].seg)
      BY DEF InOrder
    <3>2. (s \o t)[i] = s[i] /\ (i # 1 => (s \o t)[i - 1] = s[i - 1])
      BY <1>1, <1>2, <2>1
    <3> QED
      BY <3>1, <3>2
  <2>2. CASE i > Len(s)
    <3> DEFINE j == i - Len(s)
    <3>1. j \in 1 .. Len(t) /\ (s \o t)[i] = t[j]
      BY <1>1, <1>2, <2>2
    <3> j \in DOMAIN t
      BY <1>1, <3>1
    <3>2. t[j].seg = IF j = 1 THEN 1 ELSE NextSeg(t[j - 1].seg)
      BY DEF InOrder
    <3>3. CASE j = 1 /\ Len(s) = 0
      <4>1. i = 1
        BY <1>1, <3>3
      <4> QED
        BY <3>1, <3>2, <3>3, <4>1
    <3>4. CASE j = 1 /\ Len(s) # 0
      <4>1. i - 1 = Len(s) /\ i # 1
        BY <1>1, <3>4
      <4>2. (s \o t)[i - 1] = s[Len(s)]
        BY <1>1, <1>2, <4>1
      <4> QED
        BY <1>4, <3>1, <3>2, <3>4, <4>1, <4>2 DEF NextSeg
    <3>5. CASE j # 1
      <4>1. i # 1 /\ (s \o t)[i - 1] = t[j - 1]
        BY <1>1, <1>2, <3>1, <3>5
      <4> QED
        BY <3>1, <3>2, <3>5, <4>1
    <3> QED
      BY <3>3, <3>4, <3>5
  <2> QED
    BY <1>1, <2>1, <2>2
<1>6. Whole(s \o t)
  <2>1. CASE Len(t) = 0
    BY <1>1, <2>1, ConcatEmptySeq, EmptySeq
  <2>2. CASE Len(t) # 0
    <3>1. (s \o t)[Len(s \o t)] = t[Len(t)] /\ t # <<>>
      BY <1>1, <1>2, <2>2, EmptySeq
    <3> QED
      BY <3>1 DEF Whole
  <2> QED
    BY <2>1, <2>2
<1> QED
  BY <1>1, <1>5, <1>6 DEF InOrder

LEMMA InOrderPrefix ==
  ASSUME NEW s \in Seq(Segments), NEW t \in Seq(Segments), InOrder(s \o t)
  PROVE  InOrder(s)
<1>1. /\ Len(s) \in Nat /\ Len(t) \in Nat
      /\ DOMAIN s = 1 .. Len(s)
      /\ DOMAIN (s \o t) = 1 .. Len(s) + Len(t)
  BY LenProperties, ConcatProperties
<1>2. \A i \in 1 .. Len(s) : (s \o t)[i] = s[i]
  BY <1>1, ConcatProperties
<1>3. ASSUME NEW i \in 1 .. Len(s)
      PROVE  s[i].seg = IF i = 1 THEN 1 ELSE NextSeg(s[i - 1].seg)
  <2> i \in DOMAIN (s \o t)
    BY <1>1
  <2>1. (s \o t)[i].seg = IF i = 1 THEN 1 ELSE NextSeg((s \o t)[i - 1].seg)
    BY DEF InOrder
  <2>2. (s \o t)[i] = s[i] /\ (i # 1 => (s \o t)[i - 1] = s[i - 1])
    BY <1>1, <1>2
  <2> QED
    BY <2>1, <2>2
<1> QED
  BY <1>1, <1>3 DEF InOrder

LEMMA ResponseInOrder ==
  ASSUME NEW c \in Conns
  PROVE  InOrder(Response(c)) /\ Whole(Response(c))
<1>1. /\ DOMAIN Response(c) = 1 .. RespLen
      /\ Len(Response(c)) = RespLen
      /\ \A i \in 1 .. RespLen : Response(c)[i].seg = i
  BY ConnAssumption DEF Response
<1>2. Whole(Response(c))
  BY <1>1, ConnAssumption DEF Whole
<1>3. ASSUME NEW i \in 1 .. RespLen
      PROVE  Response(c)[i].seg
               = IF i = 1 THEN 1 ELSE NextSeg(Response(c)[i - 1].seg)
  <2>1. CASE i = 1
    BY <1>1, <2>1
  <2>2. CASE i # 1
    <3>1. i - 1 \in 1 .. RespLen /\ i - 1 # RespLen /\ (i - 1) + 1 = i
      BY <2>2, ConnAssumption
    <3> QED
      BY <1>1, <2>2, <3>1 DEF NextSeg
  <2> QED
    BY <2>1, <2>2
<1> QED
  BY <1>1, <1>2, <1>3 DEF InOrder

(* Sending the first n segments of a stream leaves the rest of it.         *)
LEMMA CutJoins ==
  ASSUME NEW s \in Seq(Segments), NEW t \in Seq(Segments), NEW n \in 0 .. Len(t)
  PROVE  /\ (s \o SubSeq(t, 1, n)) \o Remaining(t, n) = s \o t
         /\ n = Len(t) => SubSeq(t, 1, n) = t
<1>1. Len(t) \in Nat
  BY LenProperties
<1>2. SubSeq(t, 1, n) \in Seq(Segments) /\ Remaining(t, n) \in Seq(Segments)
  BY CutType
<1>3. SubSeq(t, 1, n) \o SubSeq(t, n + 1, Len(t)) = SubSeq(t, 1, Len(t))
  <2>1. 1 \in 1 .. Len(t) + 1 /\ n \in 1 - 1 .. Len(t) /\ Len(t) \in n .. Len(t)
    BY <1>1
  <2> QED
    BY <2>1, ConcatAdjacentSubSeq
<1>4. SubSeq(t, 1, Len(t)) = t
  BY SubSeqFull
<1>5. SubSeq(t, 1, n) \o Remaining(t, n) = t
  BY <1>3, <1>4 DEF Remaining
<1>6. (s \o SubSeq(t, 1, n)) \o Remaining(t, n)
        = s \o (SubSeq(t, 1, n) \o Remaining(t, n))
  <2>1. PICK a \in Seq(Segments), b \in Seq(Segments) :
          a = SubSeq(t, 1, n) /\ b = Remaining(t, n)
    BY <1>2
  <2>2. (s \o a) \o b = s \o (a \o b)
    BY ConcatAssociative
  <2> QED
    BY <2>1, <2>2
<1> QED
  BY <1>4, <1>5, <1>6

(* A handler leaves the other connections alone. *)
Apart(c) ==
  \A e \in Conns \ {c} : UNCHANGED <<obj[e], busy[e], wire[e], outBuf[e]>>

(* Send appends to the stream, whatever part of it the kernel takes: what  *)
(* is handed to the kernel at once overtakes nothing.                      *)
LEMMA SendStream ==
  ASSUME TypeOK, NEW c \in Conns, busy[c] \/ outBuf[c] = <<>>,
         NEW data \in Seq(Segments), NEW in, Send(c, data, in)
  PROVE  /\ Stream(c)' = Stream(c) \o data
         /\ busy'[c] \/ outBuf'[c] = <<>>
         /\ Apart(c)
<1>1. PICK s \in Seq(Segments), t \in Seq(Segments) :
        s = wire[c] /\ t = outBuf[c]
  BY DEF TypeOK, ConnTypeOK, SocketTypeOK
<1>2. Apart(c)
  BY DEF TypeOK, ConnTypeOK, SocketTypeOK, Send, KeepConn, PutOnWire,
         OnWriteComlete, CloseConn, Apart
<1>3. CASE KeepConn(c, TRUE, outBuf[c] \o data) /\ UNCHANGED wire
  <2>1. Stream(c)' = s \o (t \o data) /\ busy'[c]
    BY <1>1, <1>3 DEF KeepConn, TypeOK, ConnTypeOK, Stream
  <2>2. (s \o t) \o data = s \o (t \o data)
    <3>1. s \in Seq(Segments) /\ t \in Seq(Segments) /\ data \in Seq(Segments)
      OBVIOUS
    <3> QED
      BY <3>1, ConcatAssociative, SMTT(15)
  <2> QED
    BY <1>1, <1>2, <2>1, <2>2 DEF Stream
<1>4. ASSUME ~busy[c], NEW n \in KernelTakes(c, Len(data)),
             PutOnWire(c, data, n),
             \/ KeepConn(c, TRUE, outBuf[c] \o Remaining(data, n))
             \/ n = Len(data) /\ OnWriteComlete(c)
      PROVE  /\ Stream(c)' = Stream(c) \o data
             /\ busy'[c] \/ outBuf'[c] = <<>>
  <2>1. n \in 0 .. Len(data) /\ t = <<>> /\ s \o t = s
    BY <1>1, <1>4, KernelTakesType, ConcatEmptySeq
  <2>2. SubSeq(data, 1, n) \in Seq(Segments) /\ Remaining(data, n) \in Seq(Segments)
    BY <2>1, CutType
  <2>3. /\ (s \o SubSeq(data, 1, n)) \o Remaining(data, n) = s \o data
        /\ n = Len(data) => SubSeq(data, 1, n) = data
    BY <2>1, CutJoins
  <2>4. wire'[c] = s \o SubSeq(data, 1, n)
    BY <1>1, <1>4 DEF PutOnWire, TypeOK, SocketTypeOK
  <2>5. CASE KeepConn(c, TRUE, outBuf[c] \o Remaining(data, n))
    <3>1. outBuf'[c] = t \o Remaining(data, n) /\ busy'[c]
      BY <1>1, <2>5 DEF KeepConn, TypeOK, ConnTypeOK
    <3>2. outBuf'[c] = Remaining(data, n)
      BY <2>1, <2>2, <3>1, ConcatEmptySeq
    <3> QED
      BY <1>1, <2>1, <2>3, <2>4, <3>1, <3>2 DEF Stream
  <2>6. CASE n = Len(data) /\ OnWriteComlete(c)
    <3>1. outBuf'[c] = <<>>
      BY <2>6 DEF OnWriteComlete, CloseConn, TypeOK, ConnTypeOK
    <3>2. wire'[c] = s \o data /\ s \o data \in Seq(Segments)
      BY <2>3, <2>4, <2>6, ConcatProperties
    <3> QED
      BY <1>1, <2>1, <3>1, <3>2, ConcatEmptySeq DEF Stream
  <2> QED
    BY <1>4, <2>5, <2>6
<1> QED
  BY <1>2, <1>3, <1>4 DEF Send, MustQueue

(* OnWrite moves the head of what is unsent to the wire. *)
LEMMA OnWriteStream ==
  ASSUME TypeOK, NEW c \in Conns, busy[c] \/ outBuf[c] = <<>>, OnWrite(c)
  PROVE  /\ Stream(c)' = Stream(c)
         /\ busy'[c] \/ outBuf'[c] = <<>>
         /\ Apart(c)
<1>1. PICK s \in Seq(Segments), t \in Seq(Segments) :
        s = wire[c] /\ t = outBuf[c]
  BY DEF TypeOK, ConnTypeOK, SocketTypeOK
<1>2. Apart(c)
  BY DEF TypeOK, ConnTypeOK, SocketTypeOK, OnWrite, KeepConn, PutOnWire,
         OnWriteComlete, CloseConn, objVars, Apart
<1>3. CASE UNCHANGED <<objVars, wire>>
  BY <1>2, <1>3 DEF objVars, Stream
<1>4. ASSUME NEW n \in KernelTakes(c, Len(outBuf[c])),
             PutOnWire(c, outBuf[c], n),
             \/ KeepConn(c, TRUE, Remaining(outBuf[c], n))
             \/ n = Len(outBuf[c]) /\ OnWriteComlete(c)
      PROVE  /\ Stream(c)' = Stream(c)
             /\ busy'[c] \/ outBuf'[c] = <<>>
  <2>1. n \in 0 .. Len(t)
    BY <1>1, <1>4, KernelTakesType
  <2>2. /\ (s \o SubSeq(t, 1, n)) \o Remaining(t, n) = s \o t
        /\ n = Len(t) => SubSeq(t, 1, n) = t
    BY <2>1, CutJoins
  <2>3. wire'[c] = s \o SubSeq(t, 1, n)
    BY <1>1, <1>4 DEF PutOnWire, TypeOK, SocketTypeOK
  <2>4. CASE KeepConn(c, TRUE, Remaining(outBuf[c], n))
    <3>1. outBuf'[c] = Remaining(t, n) /\ busy'[c]
      BY <1>1, <2>4 DEF KeepConn, TypeOK, ConnTypeOK
    <3> QED
      BY <1>1, <2>2, <2>3, <3>1 DEF Stream
  <2>5. CASE n = Len(outBuf[c]) /\ OnWriteComlete(c)
    <3>1. outBuf'[c] = <<>>
      BY <2>5 DEF OnWriteComlete, CloseConn, TypeOK, ConnTypeOK
    <3>2. wire'[c] = s \o t /\ s \o t \in Seq(Segments)
      BY <1>1, <2>2, <2>3, <2>5, ConcatProperties
    <3> QED
      BY <1>1, <3>1, <3>2, ConcatEmptySeq DEF Stream
  <2> QED
    BY <1>4, <2>4, <2>5
<1> QED
  BY <1>2, <1>3, <1>4 DEF OnWrite

LEMMA SendOrder ==
  ASSUME TypeOK, OrderInv, NEW c \in Conns, obj[c] = "live", NEW d \in Conns,
         NEW in, Send(c, Response(d), in)
  PROVE  OrderInv'
<1>1. /\ Response(d) \in Seq(Segments)
      /\ InOrder(Response(d)) /\ Whole(Response(d))
      /\ Stream(c) \in Seq(Segments) /\ InOrder(Stream(c)) /\ Whole(Stream(c))
  BY ResponseType, ResponseInOrder, ConcatProperties
     DEF TypeOK, ConnTypeOK, SocketTypeOK, OrderInv, Stream
<1>2. /\ Stream(c)' = Stream(c) \o Response(d)
      /\ busy'[c] \/ outBuf'[c] = <<>>
      /\ Apart(c)
  BY <1>1, SendStream DEF OrderInv
<1>3. InOrder(Stream(c))' /\ Whole(Stream(c))'
  BY <1>1, <1>2, InOrderConcat
<1>4. \A e \in Conns \ {c} :
        UNCHANGED <<obj[e], busy[e], Stream(e), outBuf[e]>>
  BY <1>2 DEF Apart, Stream
<1> QED
  BY <1>2, <1>3, <1>4 DEF OrderInv

LEMMA OnWriteOrder ==
  ASSUME TypeOK, OrderInv, NEW c \in Conns, obj[c] = "live", OnWrite(c)
  PROVE  OrderInv'
<1>1. InOrder(Stream(c)) /\ Whole(Stream(c))
  BY DEF OrderInv
<1>2. /\ Stream(c)' = Stream(c)
      /\ busy'[c] \/ outBuf'[c] = <<>>
      /\ Apart(c)
  BY OnWriteStream DEF OrderInv
<1>3. InOrder(Stream(c))' /\ Whole(Stream(c))'
  BY <1>1, <1>2
<1>4. \A e \in Conns \ {c} :
        UNCHANGED <<obj[e], busy[e], Stream(e), outBuf[e]>>
  BY <1>2 DEF Apart, Stream
<1> QED
  BY <1>2, <1>3, <1>4 DEF OrderInv

(* The unsent bytes of a connection that is closed are dropped: what was   *)
(* sent is the beginning of its stream.                                    *)
LEMMA CloseOrder ==
  ASSUME TypeOK, OrderInv, NEW c \in Conns, CloseConn(c), UNCHANGED wire
  PROVE  OrderInv'
<1>1. /\ wire[c] \in Seq(Segments) /\ outBuf[c] \in Seq(Segments)
      /\ InOrder(wire[c] \o outBuf[c])
  BY DEF TypeOK, ConnTypeOK, SocketTypeOK, OrderInv, Stream
<1>2. InOrder(wire[c])
  BY <1>1, InOrderPrefix
<1>3. obj'[c] = "deleted" /\ outBuf'[c] = <<>> /\ wire'[c] = wire[c]
  BY DEF CloseConn, TypeOK, ConnTypeOK
<1>4. Stream(c)' = wire[c]
  BY <1>1, <1>3, ConcatEmptySeq DEF Stream
<1>5. \A e \in Conns \ {c} :
        UNCHANGED <<obj[e], busy[e], Stream(e), outBuf[e]>>
  BY DEF CloseConn, TypeOK, ConnTypeOK, Stream
<1> QED
  BY <1>2, <1>3, <1>4, <1>5 DEF OrderInv

LEMMA OnReadOrder ==
  ASSUME TypeOK, OrderInv, NEW c \in Conns, obj[c] = "live", OnRead(c)
  PROVE  OrderInv'
<1> DEFINE in == inBuf[c] + rcvq[c]
<1>1. CASE CloseConn(c) /\ NoExecute
  BY <1>1, CloseOrder DEF NoExecute
<1>2. CASE NoExecute /\ UNCHANGED <<obj, busy, outBuf>>
  BY <1>2 DEF NoExecute, OrderInv, Stream
<1>3. ASSUME NEW t, Submit(c, t, in)
      PROVE  OrderInv'
  BY <1>3 DEF Submit, OrderInv, Stream
<1>4. CASE ExecuteInline(c, in)
  BY <1>4, SendOrder DEF ExecuteInline
<1> QED
  BY <1>1, <1>2, <1>3, <1>4 DEF OnRead, Dispatch

LEMMA SendResponseOrder ==
  ASSUME ConnInv, OrderInv, SendResponse
  PROVE  OrderInv'
<1> DEFINE r == Head(respList)
<1>1. CASE r.uuid \in uuidMap /\ Send(r.uuid, Response(r.from), inBuf[r.uuid])
  <2>1. r \in Replies
    BY ReplyType DEF SendResponse, ConnInv
  <2>2. r.uuid \in Conns /\ obj[r.uuid] = "live" /\ r.from \in Conns
    BY <1>1, <2>1 DEF ConnInv, MapsAgree, Replies
  <2> QED
    BY <1>1, <2>2, SendOrder DEF ConnInv
<1>2. CASE UNCHANGED <<objVars, wire>>
  BY <1>2 DEF objVars, OrderInv, Stream
<1> QED
  BY <1>1, <1>2 DEF SendResponse

LEMMA OrderInit == Init => OrderInv
<1> SUFFICES ASSUME Init, NEW c \in Conns
             PROVE  /\ InOrder(Stream(c)) /\ Whole(Stream(c))
                    /\ outBuf[c] = <<>>
  BY DEF OrderInv
<1>1. outBuf[c] = <<>> /\ wire[c] = <<>>
  BY DEF Init
<1>2. Stream(c) = <<>>
  BY <1>1, EmptySeq, ConcatEmptySeq DEF Stream
<1> QED
  BY <1>1, <1>2 DEF Whole, InOrder

LEMMA OrderStep ==
  ASSUME ConnInv, OrderInv, [Next]_vars
  PROVE  OrderInv'
<1>1. CASE UNCHANGED <<obj, busy, wire, outBuf>>
  BY <1>1 DEF OrderInv, Stream
<1>2. CASE SendResponse
  BY <1>2, SendResponseOrder
<1>3. ASSUME NEW c \in Conns, ReadEvent(c) \/ WriteEvent(c) \/ CloseEvent(c)
      PROVE  OrderInv'
  <2>1. TypeOK /\ obj[c] = "live"
    BY <1>3 DEF ReadEvent, WriteEvent, CloseEvent, ConnInv, MapsAgree
  <2>2. CASE OnRead(c)
    BY <2>1, <2>2, OnReadOrder
  <2>3. CASE OnWrite(c)
    BY <2>1, <2>3, OnWriteOrder
  <2>4. CASE CloseConn(c) /\ UNCHANGED wire
    BY <2>1, <2>4, CloseOrder
  <2> QED
    BY <1>3, <2>2, <2>3, <2>4 DEF ReadEvent, WriteEvent, CloseEvent
<1>4. ASSUME NEW k \in Kinds, Accept(k)
      PROVE  OrderInv'
  <2>1. alloc + 1 \in Conns /\ obj[alloc + 1] = "none"
    BY <1>4, ConnAssumption
       DEF Accept, ConnInv, TypeOK, LoopTypeOK, Allocated, Conns
  <2>2. obj' = [obj EXCEPT ![alloc + 1] = "live"]
        /\ UNCHANGED <<busy, wire, outBuf>>
    BY <1>4 DEF Accept
  <2> QED
    BY <2>1, <2>2 DEF OrderInv, Stream
<1>5. ASSUME NEW c \in Conns, Peer(c)
      PROVE  UNCHANGED <<obj, busy, wire, outBuf>>
  BY <1>5 DEF Peer, ClientSend, ClientFin, ClientReset, ClientDrain, objVars
<1>6. ASSUME NEW w \in Workers, Worker(w)
      PROVE  UNCHANGED <<obj, busy, wire, outBuf>>
  BY <1>6 DEF Worker, TakeTask, FinishTask, objVars
<1>7. CASE \/ EpollWait \/ EventsDone \/ ResponsesDone
           \/ \E c \in Conns, f \in Flags : StaleEvent(c, f)
  BY <1>1, <1>7
     DEF EpollWait, EventsDone, ResponsesDone, StaleEvent, objVars
<1>8. CASE UNCHANGED vars
  BY <1>1, <1>8 DEF vars, objVars
<1> QED
  BY <1>1, <1>2, <1>3, <1>4, <1>5, <1>6, <1>7, <1>8 DEF Next, Loop

LEMMA OrderInvariant == Spec => []OrderInv
<1>1. ConnInv /\ OrderInv /\ [Next]_vars => OrderInv'
  BY OrderStep
<1> QED
  BY <1>1, OrderInit, ConnInvariant, PTL DEF Spec

LEMMA OrderOrders == ConnInv /\ OrderInv => WireInOrder
<1> SUFFICES ASSUME ConnInv, OrderInv, NEW c \in Conns
             PROVE  InOrder(wire[c])
  BY DEF WireInOrder
<1>1. /\ wire[c] \in Seq(Segments) /\ outBuf[c] \in Seq(Segments)
      /\ InOrder(wire[c] \o outBuf[c])
  BY DEF ConnInv, TypeOK, ConnTypeOK, SocketTypeOK, OrderInv, Stream
<1> QED
  BY <1>1, InOrderPrefix

(* The bytes of the responses reach the socket in order and without gaps,  *)
(* for any number of partial sends and of responses queued meanwhile.      *)
THEOREM WireOrdered == Spec => []WireInOrder
  BY ConnInvariant, OrderInvariant, OrderOrders, PTL

-----------------------------------------------------------------------------
(* No answer is lost and none is given twice.                              *)

(* The positions of a sequence that hold a member of S. *)
Hits(s, S) == {i \in DOMAIN s : s[i] \in S}

LEMMA HitsFinite ==
  ASSUME NEW T, NEW s \in Seq(T), NEW S
  PROVE  IsFiniteSet(Hits(s, S)) /\ Cardinality(Hits(s, S)) \in Nat
<1>1. Len(s) \in Nat /\ Hits(s, S) \subseteq 1 .. Len(s)
  BY LenProperties DEF Hits
<1>2. IsFiniteSet(1 .. Len(s))
  BY <1>1, FS_Interval
<1> QED
  BY <1>1, <1>2, FS_Subset, FS_CardinalityType

LEMMA HitsConcat ==
  ASSUME NEW T, NEW s \in Seq(T), NEW t \in Seq(T), NEW S
  PROVE  Cardinality(Hits(s \o t, S))
           = Cardinality(Hits(s, S)) + Cardinality(Hits(t, S))
<1> DEFINE A == Hits(s, S)
           B == {i \in Len(s) + 1 .. Len(s) + Len(t) : (s \o t)[i] \in S}
           f == [i \in Hits(t, S) |-> i + Len(s)]
<1>1. /\ Len(s) \in Nat /\ Len(t) \in Nat
      /\ DOMAIN s = 1 .. Len(s) /\ DOMAIN t = 1 .. Len(t)
      /\ DOMAIN (s \o t) = 1 .. Len(s) + Len(t)
  BY LenProperties, ConcatProperties
<1>2. \A i \in 1 .. Len(s) + Len(t) :
        (s \o t)[i] = IF i <= Len(s) THEN s[i] ELSE t[i - Len(s)]
  BY ConcatProperties
<1>3. Hits(s \o t, S) = A \cup B
  BY <1>1, <1>2 DEF Hits
<1>4. A \cap B = {}
  BY <1>1 DEF Hits
<1>5. f \in Bijection(Hits(t, S), B)
  <2>1. ASSUME NEW i \in Hits(t, S)
        PROVE  i + Len(s) \in B
    BY <1>1, <1>2 DEF Hits
  <2>2. ASSUME NEW j \in B
        PROVE  j - Len(s) \in Hits(t, S) /\ (j - Len(s)) + Len(s) = j
    BY <1>1, <1>2 DEF Hits
  <2>3. f \in [Hits(t, S) -> B]
    BY <2>1
  <2>4. \A i, j \in Hits(t, S) : f[i] = f[j] => i = j
    BY <1>1 DEF Hits
  <2>5. \A j \in B : \E i \in Hits(t, S) : f[i] = j
    BY <2>2
  <2> HIDE DEF f, B
  <2> QED
    BY <2>3, <2>4, <2>5 DEF Bijection, Injection, Surjection, IsInjective
<1> HIDE DEF f, B
<1>6. IsFiniteSet(Hits(t, S)) /\ IsFiniteSet(A)
  BY HitsFinite
<1>7. IsFiniteSet(B) /\ Cardinality(B) = Cardinality(Hits(t, S))
  BY <1>5, <1>6, FS_Bijection DEF ExistsBijection
<1> HIDE DEF A
<1>8. Cardinality(A \cup B) = Cardinality(A) + Cardinality(B)
  <2>1. Cardinality(A \cup B) = Cardinality(A) + Cardinality(B) - Cardinality({})
    BY <1>4, <1>6, <1>7, FS_Union
  <2>2. Cardinality(A) \in Nat /\ Cardinality(B) \in Nat
    BY <1>6, <1>7, FS_CardinalityType
  <2> QED
    BY <2>1, <2>2, FS_EmptySet
<1> QED
  BY <1>3, <1>7, <1>8 DEF A

LEMMA HitsOne ==
  ASSUME NEW e, NEW S
  PROVE  Cardinality(Hits(<<e>>, S)) = IF e \in S THEN 1 ELSE 0
<1>1. Hits(<<e>>, S) = IF e \in S THEN {1} ELSE {}
  BY DEF Hits
<1> QED
  BY <1>1, FS_EmptySet, FS_Singleton

LEMMA HitsAppend ==
  ASSUME NEW T, NEW s \in Seq(T), NEW e \in T, NEW S
  PROVE  Cardinality(Hits(Append(s, e), S))
           = Cardinality(Hits(s, S)) + IF e \in S THEN 1 ELSE 0
<1>1. <<e>> \in Seq(T) /\ Append(s, e) = s \o <<e>>
  BY AppendProperties, AppendIsConcat
<1>2. Cardinality(Hits(s \o <<e>>, S))
        = Cardinality(Hits(s, S)) + Cardinality(Hits(<<e>>, S))
  BY <1>1, HitsConcat
<1> QED
  BY <1>1, <1>2, HitsOne

LEMMA HitsTail ==
  ASSUME NEW T, NEW s \in Seq(T), s # <<>>, NEW S
  PROVE  Cardinality(Hits(s, S))
           = Cardinality(Hits(Tail(s), S)) + IF Head(s) \in S THEN 1 ELSE 0
<1>1. /\ Head(s) \in T /\ Tail(s) \in Seq(T)
      /\ <<Head(s)>> \in Seq(T) /\ s = <<Head(s)>> \o Tail(s)
  BY HeadTailProperties, SeqEqual, ConcatProperties
<1>2. Cardinality(Hits(s, S))
        = Cardinality(Hits(<<Head(s)>>, S)) + Cardinality(Hits(Tail(s), S))
  <2>1. PICK a \in Seq(T), b \in Seq(T) : a = <<Head(s)>> /\ b = Tail(s)
    BY <1>1
  <2>2. Cardinality(Hits(a \o b, S))
          = Cardinality(Hits(a, S)) + Cardinality(Hits(b, S))
    BY HitsConcat
  <2>3. s = a \o b
    BY <1>1, <2>1
  <2> QED
    BY <2>1, <2>2, <2>3
<1>3. Cardinality(Hits(Tail(s), S)) \in Nat
  BY <1>1, HitsFinite
<1> QED
  BY <1>2, <1>3, HitsOne

(* All of a sequence, or nothing of it. *)
LEMMA HitsAll ==
  ASSUME NEW S, NEW s \in Seq(S)
  PROVE  Cardinality(Hits(s, S)) = Len(s)
<1>1. Len(s) \in Nat /\ Hits(s, S) = 1 .. Len(s)
  BY LenProperties, ElementOfSeq DEF Hits
<1> QED
  BY <1>1, FS_Interval

LEMMA HitsNone ==
  ASSUME NEW T, NEW s \in Seq(T), NEW S, S \cap T = {}
  PROVE  Cardinality(Hits(s, S)) = 0
<1>1. Hits(s, S) = {}
  BY LenProperties, ElementOfSeq DEF Hits
<1> QED
  BY <1>1, FS_EmptySet

(* The tasks and replies of connection c. *)
TasksOf(c)   == {t \in Tasks : t.from = c}
RepliesOf(c) == {r \in Replies : r.from = c}
WorkersOf(c) == {w \in Workers : work[w] # NoTask /\ work[w].from = c}
GivenTo(c)   == {s \in Segments : s.owner = c}

(* What the answers of connection c amount to: segments that were given to *)
(* it, and answers that are still on their way.                            *)
Given(c)   == Cardinality(Hits(Stream(c), GivenTo(c)))
Waiting(c) == Cardinality(Hits(tasks, TasksOf(c)))
Running(c) == Cardinality(WorkersOf(c))
Replied(c) == Cardinality(Hits(respList, RepliesOf(c)))

Balanced(c) ==
  RespLen * dispatched[c]
    = Given(c) + RespLen * (Waiting(c) + Replied(c) + Running(c))

(* The tasks and replies of a live connection name it: by its uuid, or by  *)
(* the block of its object.                                                *)
GoodTasks ==
  {t \in Tasks :
     /\ obj[t.from] # "none"
     /\ obj[t.from] = "live" =>
          IF t.fn = "register" THEN t.uuid = t.from ELSE t.this = addr[t.from]}

GoodReplies ==
  {r \in Replies :
     /\ obj[r.from] # "none"
     /\ obj[r.from] = "live" => r.uuid = r.from}

(* A live connection is the last one that was allocated in its block.      *)
LastInBlock ==
  \A c \in Conns :
    /\ obj[c] = "none" => addr[c] = NoAddr
    /\ obj[c] = "live" => \A d \in Conns : addr[d] = addr[c] => d <= c

(* Nothing was done for a connection that was not accepted.                *)
Untouched ==
  \A c \in Conns : obj[c] = "none" =>
    dispatched[c] = 0 /\ wire[c] = <<>> /\ outBuf[c] = <<>>

NamesInv ==
  /\ tasks \in Seq(GoodTasks)
  /\ work \in [Workers -> GoodTasks \cup {NoTask}]
  /\ respList \in Seq(GoodReplies)
  /\ LastInBlock /\ Untouched

ConservInv == \A c \in Conns : obj[c] = "live" => Balanced(c)

LEMMA Amounts ==
  ASSUME TypeOK, NEW c \in Conns
  PROVE  /\ Given(c) \in Nat /\ Waiting(c) \in Nat
         /\ Running(c) \in Nat /\ Replied(c) \in Nat
         /\ dispatched[c] \in Nat /\ Stream(c) \in Seq(Segments)
         /\ IsFiniteSet(WorkersOf(c))
<1>1. /\ Stream(c) \in Seq(Segments) /\ tasks \in Seq(Tasks)
      /\ respList \in Seq(Replies) /\ dispatched[c] \in Nat
  BY ConcatProperties
     DEF TypeOK, ConnTypeOK, SocketTypeOK, PoolTypeOK, HistoryTypeOK, Stream
<1>2. Given(c) \in Nat /\ Waiting(c) \in Nat /\ Replied(c) \in Nat
  BY <1>1, HitsFinite DEF Given, Waiting, Replied
<1>3. WorkersOf(c) \subseteq Workers
  BY DEF WorkersOf
<1>4. IsFiniteSet(WorkersOf(c)) /\ Running(c) \in Nat
  BY <1>3, ConnAssumption, FS_Subset, FS_CardinalityType DEF Running
<1> QED
  BY <1>1, <1>2, <1>4

(* The numbers the invariant AnswersConserved counts.                      *)
LEMMA BalanceConserves ==
  ASSUME TypeOK, ConservInv
  PROVE  AnswersConserved
<1> SUFFICES ASSUME NEW c \in Conns, obj[c] = "live"
             PROVE  RespLen * dispatched[c]
                      = Own(wire[c], c) + Own(outBuf[c], c)
                          + RespLen * InFlight(c)
  BY DEF AnswersConserved
<1>1. /\ wire[c] \in Seq(Segments) /\ outBuf[c] \in Seq(Segments)
      /\ tasks \in Seq(Tasks) /\ respList \in Seq(Replies)
  BY DEF TypeOK, ConnTypeOK, SocketTypeOK, PoolTypeOK
<1>2. \A s \in Seq(Segments) : Own(s, c) = Cardinality(Hits(s, GivenTo(c)))
  <2> SUFFICES ASSUME NEW s \in Seq(Segments)
               PROVE  {i \in DOMAIN s : s[i].owner = c} = Hits(s, GivenTo(c))
    BY DEF Own
  <2>1. \A i \in DOMAIN s : s[i] \in Segments
    BY LenProperties, ElementOfSeq
  <2> QED
    BY <2>1 DEF Hits, GivenTo
<1>3. Given(c) = Own(wire[c], c) + Own(outBuf[c], c)
  BY <1>1, <1>2, HitsConcat DEF Given, Stream
<1>4. Asked(tasks, c) = Waiting(c)
  <2>1. \A i \in DOMAIN tasks : tasks[i] \in Tasks
    BY <1>1, LenProperties, ElementOfSeq
  <2>2. {i \in DOMAIN tasks : tasks[i].from = c} = Hits(tasks, TasksOf(c))
    BY <2>1 DEF Hits, TasksOf
  <2> QED
    BY <2>2 DEF Asked, Waiting
<1>5. Asked(respList, c) = Replied(c)
  <2>1. \A i \in DOMAIN respList : respList[i] \in Replies
    BY <1>1, LenProperties, ElementOfSeq
  <2>2. {i \in DOMAIN respList : respList[i].from = c}
          = Hits(respList, RepliesOf(c))
    BY <2>1 DEF Hits, RepliesOf
  <2> QED
    BY <2>2 DEF Asked, Replied
<1>6. InFlight(c) = Waiting(c) + Replied(c) + Running(c)
  BY <1>4, <1>5 DEF InFlight, Running, WorkersOf
<1> QED
  BY <1>3, <1>6 DEF ConservInv, Balanced

(* What a step does to the connections never makes a good task bad.        *)
Aged ==
  \A c \in Conns : obj[c] # "none" =>
    /\ obj'[c] # "none" /\ addr'[c] = addr[c]
    /\ obj'[c] = "live" => obj[c] = "live"

LEMMA GoodStays ==
  ASSUME Aged
  PROVE  /\ GoodTasks \subseteq GoodTasks'
         /\ GoodReplies \subseteq GoodReplies'
         /\ \A q \in Seq(GoodTasks) : q \in Seq(GoodTasks')
         /\ \A q \in Seq(GoodReplies) : q \in Seq(GoodReplies')
<1>1. GoodTasks \subseteq GoodTasks'
  <2> SUFFICES ASSUME NEW t \in GoodTasks PROVE t \in GoodTasks'
    OBVIOUS
  <2>1. t \in Tasks /\ t.from \in Conns
    BY DEF GoodTasks, Tasks
  <2> QED
    BY <2>1 DEF GoodTasks, Aged
<1>2. GoodReplies \subseteq GoodReplies'
  BY DEF GoodReplies, Replies, Aged
<1>3. PICK G, H, I, J : /\ G = GoodTasks /\ H = GoodTasks'
                        /\ I = GoodReplies /\ J = GoodReplies'
  OBVIOUS
<1>4. G \subseteq H /\ I \subseteq J
  BY <1>1, <1>2, <1>3
<1>5. Seq(G) \subseteq Seq(H) /\ Seq(I) \subseteq Seq(J)
  BY <1>4, SeqMonotone
<1> QED
  BY <1>1, <1>2, <1>3, <1>5

(* A handler that runs for the live connection c. *)
LEMMA HandledNames ==
  ASSUME ConnInv, NamesInv, NEW c \in Conns, obj[c] = "live",
         Handled(c), Only(c),
         \/ tasks' = tasks
         \/ tasks' = Append(tasks, RegisterTask(c))
         \/ tasks' = Append(tasks, LoginTask(c)),
         work' = work,
         respList' = respList \/ (respList # <<>> /\ respList' = Tail(respList))
  PROVE  NamesInv'
<1>1. Aged
  BY DEF Handled, Aged, ConnInv, TypeOK, ConnTypeOK
<1>2. tasks' \in Seq(GoodTasks)
  <2>1. RegisterTask(c) \in GoodTasks
    BY DEF RegisterTask, GoodTasks, Tasks
  <2>2. addr[c] \in Addrs
    BY DEF ConnInv, Allocated
  <2>3. LoginTask(c) \in GoodTasks
    BY <2>2 DEF LoginTask, GoodTasks, Tasks
  <2> QED
    <3>1. tasks \in Seq(GoodTasks)
      BY DEF NamesInv
    <3>2. /\ Append(tasks, RegisterTask(c)) \in Seq(GoodTasks)
          /\ Append(tasks, LoginTask(c)) \in Seq(GoodTasks)
      BY <2>1, <2>3, <3>1, AppendProperties
    <3> QED
      BY <3>1, <3>2
<1>3. respList' \in Seq(GoodReplies)
  BY HeadTailProperties DEF NamesInv
<1>4. /\ tasks' \in Seq(GoodTasks') /\ respList' \in Seq(GoodReplies')
      /\ work' \in [Workers -> GoodTasks' \cup {NoTask}]
  BY <1>1, <1>2, <1>3, GoodStays DEF NamesInv
<1>5. LastInBlock'
  BY DEF Handled, NamesInv, LastInBlock, ConnInv, TypeOK, ConnTypeOK
<1>6. Untouched'
  <2>1. \A d \in Conns : obj'[d] = "none" => d # c /\ obj[d] = "none"
    BY DEF Handled, ConnInv, TypeOK, ConnTypeOK
  <2> QED
    BY <2>1 DEF Only, NamesInv, Untouched
<1> QED
  BY <1>4, <1>5, <1>6 DEF NamesInv

LEMMA AcceptNames ==
  ASSUME ConnInv, NamesInv, NEW k \in Kinds, Accept(k)
  PROVE  NamesInv'
<1> DEFINE c == alloc + 1
<1>1. c \in Conns /\ obj[c] = "none" /\ alloc \in Nat
  BY ConnAssumption
     DEF Accept, ConnInv, TypeOK, LoopTypeOK, Allocated, Conns
<1>2. PICK a \in Addrs : /\ \A d \in Conns : obj[d] = "live" => addr[d] # a
                         /\ addr' = [addr EXCEPT ![c] = a]
  BY DEF Accept
<1>3. /\ obj' = [obj EXCEPT ![c] = "live"]
      /\ UNCHANGED <<tasks, work, respList, dispatched, wire, outBuf>>
  BY DEF Accept, poolVars
<1>4. Aged
  BY <1>1, <1>2, <1>3 DEF Aged, ConnInv, TypeOK, ConnTypeOK
<1>5. /\ tasks' \in Seq(GoodTasks') /\ respList' \in Seq(GoodReplies')
      /\ work' \in [Workers -> GoodTasks' \cup {NoTask}]
  BY <1>3, <1>4, GoodStays DEF NamesInv
<1>6. LastInBlock'
  <2> SUFFICES ASSUME NEW e \in Conns
               PROVE  /\ obj'[e] = "none" => addr'[e] = NoAddr
                      /\ obj'[e] = "live" =>
                           \A d \in Conns : addr'[d] = addr'[e] => d <= e
    BY DEF LastInBlock
  <2>1. CASE e = c
    <3>1. obj'[e] = "live" /\ addr'[e] = a
      BY <1>1, <1>2, <1>3, <2>1 DEF ConnInv, TypeOK, ConnTypeOK
    <3>2. ASSUME NEW d \in Conns, addr'[d] = a, d # c
          PROVE  d <= c
      <4>1. addr[d] = a
        BY <1>2, <3>2 DEF ConnInv, TypeOK, ConnTypeOK
      <4>2. obj[d] # "none"
        BY <4>1, ConnAssumption DEF NamesInv, LastInBlock
      <4>3. ~(d > alloc)
        BY <4>2 DEF ConnInv, Allocated
      <4> QED
        BY <1>1, <4>3 DEF Conns
    <3>3. c <= c
      BY <1>1
    <3> QED
      BY <2>1, <3>1, <3>2, <3>3
  <2>2. CASE e # c
    <3>1. obj'[e] = obj[e] /\ addr'[e] = addr[e]
      BY <1>2, <1>3, <2>2 DEF ConnInv, TypeOK, ConnTypeOK
    <3>2. ASSUME obj[e] = "live", NEW d \in Conns, addr'[d] = addr[e]
          PROVE  d <= e
      <4>1. d # c /\ addr'[d] = addr[d]
        BY <1>1, <1>2, <3>2 DEF ConnInv, TypeOK, ConnTypeOK
      <4> QED
        BY <3>2, <4>1 DEF NamesInv, LastInBlock
    <3> QED
      BY <3>1, <3>2 DEF NamesInv, LastInBlock
  <2> QED
    BY <2>1, <2>2
<1>7. Untouched'
  BY <1>1, <1>3 DEF NamesInv, Untouched, ConnInv, TypeOK, ConnTypeOK
<1> QED
  BY <1>5, <1>6, <1>7 DEF NamesInv

(* "this->uuid_" of a live object is its own uuid.                         *)
LEMMA LiveOccupant ==
  ASSUME LastInBlock, NEW c \in Conns, obj[c] = "live"
  PROVE  ReadUuid(addr[c]) = {c}
<1>1. c \in Occupant(addr[c])
  BY DEF LastInBlock, Occupant
<1>2. \A d \in Occupant(addr[c]) : d = c
  BY DEF LastInBlock, Occupant, Conns
<1> QED
  BY <1>1, <1>2 DEF ReadUuid

LEMMA WorkerNames ==
  ASSUME ConnInv, NamesInv, NEW w \in Workers, Worker(w)
  PROVE  NamesInv'
<1>1. UNCHANGED <<obj, addr, dispatched, wire, outBuf>>
  BY DEF Worker, TakeTask, FinishTask, objVars
<1>2. LastInBlock' /\ Untouched'
  BY <1>1 DEF NamesInv, LastInBlock, Untouched
<1>3. GoodTasks' = GoodTasks /\ GoodReplies' = GoodReplies
  BY <1>1 DEF GoodTasks, GoodReplies
<1>4. CASE TakeTask(w)
  <2>1. Head(tasks) \in GoodTasks /\ Tail(tasks) \in Seq(GoodTasks)
    BY <1>4, HeadTailProperties DEF TakeTask, NamesInv
  <2> QED
    BY <1>2, <1>3, <1>4, <2>1 DEF TakeTask, NamesInv
<1>5. CASE FinishTask(w)
  <2>1. work[w] \in GoodTasks
    BY <1>5 DEF FinishTask, NamesInv, NoTask
  <2>2. work[w] \in Tasks /\ work[w].from \in Conns
    BY <2>1 DEF GoodTasks, Tasks
  <2>3. PICK u : /\ respList' = Append(respList, [uuid |-> u, from |-> work[w].from])
                 /\ IF work[w].fn = "register" THEN u = work[w].uuid
                                               ELSE u \in ReadUuid(work[w].this)
    BY <1>5 DEF FinishTask
  <2>4. u \in Conns \cup {NoConn}
    BY <2>2, <2>3 DEF ReadUuid, Occupant, Tasks
  <2>5. obj[work[w].from] = "live" => u = work[w].from
    BY <2>1, <2>2, <2>3, LiveOccupant DEF GoodTasks, NamesInv
  <2>6. [uuid |-> u, from |-> work[w].from] \in GoodReplies
    BY <2>1, <2>2, <2>4, <2>5 DEF GoodTasks, GoodReplies, Replies
  <2>7. respList' \in Seq(GoodReplies)
    BY <2>3, <2>6, AppendProperties DEF NamesInv
  <2> QED
    BY <1>2, <1>3, <1>5, <2>7 DEF FinishTask, NamesInv
<1> QED
  BY <1>4, <1>5 DEF Worker

LEMMA SameNames ==
  ASSUME NamesInv,
         UNCHANGED <<obj, addr, tasks, work, respList, dispatched, wire, outBuf>>
  PROVE  NamesInv'
  BY DEF NamesInv, GoodTasks, GoodReplies, LastInBlock, Untouched

LEMMA NamesInit == Init => NamesInv
  BY EmptySeq DEF Init, NamesInv, LastInBlock, Untouched

(* What OnRead may submit, and that it leaves the replies alone. *)
LEMMA OnReadTasks ==
  ASSUME NEW c \in Conns, OnRead(c)
  PROVE  \/ tasks' = tasks
         \/ tasks' = Append(tasks, RegisterTask(c))
         \/ tasks' = Append(tasks, LoginTask(c))
  BY DEF OnRead, Dispatch, NoExecute, Submit, ExecuteInline

(* Steps that change nothing the invariants below speak of. *)
LEMMA QuietSteps ==
  ASSUME \/ UNCHANGED vars
         \/ \E c \in Conns : Peer(c)
         \/ EpollWait \/ EventsDone \/ ResponsesDone
         \/ \E c \in Conns, f \in Flags : StaleEvent(c, f)
  PROVE  UNCHANGED <<obj, addr, tasks, work, respList, dispatched, wire, outBuf>>
<1>1. CASE UNCHANGED vars
  BY <1>1 DEF vars, objVars, poolVars
<1>2. ASSUME NEW c \in Conns, Peer(c)
      PROVE  UNCHANGED <<obj, addr, tasks, work, respList, dispatched, wire, outBuf>>
  BY <1>2 DEF Peer, ClientSend, ClientFin, ClientReset, ClientDrain, objVars,
              poolVars
<1>3. CASE EpollWait \/ EventsDone \/ ResponsesDone
  BY <1>3 DEF EpollWait, EventsDone, ResponsesDone, objVars, poolVars
<1>4. CASE \E c \in Conns, f \in Flags : StaleEvent(c, f)
  BY <1>4 DEF StaleEvent, TakeEvent, objVars
<1> QED
  BY <1>1, <1>2, <1>3, <1>4

LEMMA EventNames ==
  ASSUME ConnInv, NamesInv, NEW c \in Conns,
         ReadEvent(c) \/ WriteEvent(c) \/ CloseEvent(c)
  PROVE  NamesInv'
<1>1. TypeOK /\ obj[c] = "live" /\ UNCHANGED <<work, respList>>
  BY DEF ReadEvent, WriteEvent, CloseEvent, TakeEvent, ConnInv, MapsAgree
<1>2. CASE OnRead(c)
  BY <1>1, <1>2, OnReadHandles, OnReadOnly, OnReadTasks, HandledNames
<1>3. CASE OnWrite(c) /\ UNCHANGED <<tasks, dispatched>>
  BY <1>1, <1>3, OnWriteHandles, OnWriteOnly, HandledNames
<1>4. CASE CloseConn(c) /\ UNCHANGED <<wire, tasks, dispatched>>
  <2>1. Only(c)
    BY <1>1, <1>4 DEF CloseConn, Only, TypeOK, ConnTypeOK
  <2> QED
    BY <1>1, <1>4, <2>1, CloseHandles, HandledNames
<1> QED
  BY <1>2, <1>3, <1>4 DEF ReadEvent, WriteEvent, CloseEvent

LEMMA SendResponseNames ==
  ASSUME ConnInv, NamesInv, SendResponse
  PROVE  NamesInv'
<1> DEFINE r == Head(respList)
<1>1. respList # <<>> /\ respList' = Tail(respList)
      /\ UNCHANGED <<tasks, work, dispatched>>
  BY DEF SendResponse
<1>2. CASE r.uuid \in uuidMap /\ Send(r.uuid, Response(r.from), inBuf[r.uuid])
  <2>1. r.uuid \in Conns /\ obj[r.uuid] = "live"
    BY <1>2 DEF ConnInv, MapsAgree
  <2>2. Handled(r.uuid) /\ Only(r.uuid)
    BY <1>1, <1>2, <2>1, SendHandles, SendOnly DEF ConnInv
  <2> QED
    BY <1>1, <2>1, <2>2, HandledNames
<1>3. CASE UNCHANGED <<objVars, wire>>
  <2>1. Tail(respList) \in Seq(GoodReplies)
    BY <1>1, HeadTailProperties DEF NamesInv
  <2> QED
    BY <1>1, <1>3, <2>1
       DEF objVars, NamesInv, GoodTasks, GoodReplies, LastInBlock, Untouched
<1> QED
  BY <1>2, <1>3 DEF SendResponse

LEMMA NamesStep ==
  ASSUME ConnInv, NamesInv, [Next]_vars
  PROVE  NamesInv'
<1>1. CASE \/ UNCHANGED vars
           \/ \E c \in Conns : Peer(c)
           \/ EpollWait \/ EventsDone \/ ResponsesDone
           \/ \E c \in Conns, f \in Flags : StaleEvent(c, f)
  BY <1>1, QuietSteps, SameNames
<1>2. CASE \E k \in Kinds : Accept(k)
  BY <1>2, AcceptNames
<1>3. CASE \E w \in Workers : Worker(w)
  BY <1>3, WorkerNames
<1>4. CASE SendResponse
  BY <1>4, SendResponseNames
<1>5. CASE \E c \in Conns : ReadEvent(c) \/ WriteEvent(c) \/ CloseEvent(c)
  BY <1>5, EventNames
<1> QED
  BY <1>1, <1>2, <1>3, <1>4, <1>5 DEF Next, Loop

LEMMA Product == \A m, n \in Nat : m * (n + 1) = m * n + m
  BY SMT

LEMMA SameBalance ==
  ASSUME NEW c \in Conns, Balanced(c), Stream(c)' = Stream(c),
         dispatched'[c] = dispatched[c],
         UNCHANGED <<tasks, respList, WorkersOf(c)>>
  PROVE  Balanced(c)'
  BY DEF Balanced, Given, Waiting, Running, Replied

LEMMA WorkersSame ==
  ASSUME work' = work
  PROVE  \A c \in Conns : WorkersOf(c)' = WorkersOf(c)
  BY DEF WorkersOf

(* A response is RespLen segments of the connection that asked.            *)
LEMMA ResponseGiven ==
  ASSUME NEW c \in Conns, NEW d \in Conns
  PROVE  Cardinality(Hits(Response(d), GivenTo(c))) = IF c = d THEN RespLen ELSE 0
<1>1. Response(d) \in Seq(GivenTo(d)) /\ Len(Response(d)) = RespLen
  BY ConnAssumption DEF Response, Segments, GivenTo
<1>2. CASE c = d
  BY <1>1, <1>2, HitsAll
<1>3. CASE c # d
  <2>1. GivenTo(c) \cap GivenTo(d) = {}
    BY <1>3 DEF GivenTo
  <2> QED
    BY <1>1, <1>3, <2>1, HitsNone
<1> QED
  BY <1>2, <1>3

LEMMA GivenMore ==
  ASSUME TypeOK, NEW c \in Conns, NEW d \in Conns,
         Stream(c)' = Stream(c) \o Response(d)
  PROVE  Given(c)' = Given(c) + (IF c = d THEN RespLen ELSE 0)
<1>1. Stream(c) \in Seq(Segments) /\ Response(d) \in Seq(Segments)
  BY Amounts, ResponseType
<1>2. Cardinality(Hits(Stream(c) \o Response(d), GivenTo(c)))
        = Cardinality(Hits(Stream(c), GivenTo(c)))
            + Cardinality(Hits(Response(d), GivenTo(c)))
  BY <1>1, HitsConcat
<1> QED
  BY <1>2, ResponseGiven DEF Given

LEMMA WaitingMore ==
  ASSUME TypeOK, NEW c \in Conns, NEW t \in Tasks, tasks' = Append(tasks, t)
  PROVE  Waiting(c)' = Waiting(c) + (IF t.from = c THEN 1 ELSE 0)
<1>1. tasks \in Seq(Tasks)
  BY DEF TypeOK, PoolTypeOK
<1>2. t \in TasksOf(c) <=> t.from = c
  BY DEF TasksOf
<1>3. Cardinality(Hits(Append(tasks, t), TasksOf(c)))
        = Cardinality(Hits(tasks, TasksOf(c)))
            + (IF t \in TasksOf(c) THEN 1 ELSE 0)
  BY <1>1, HitsAppend
<1> QED
  BY <1>2, <1>3 DEF Waiting

LEMMA WaitingLess ==
  ASSUME TypeOK, NEW c \in Conns, tasks # <<>>, tasks' = Tail(tasks)
  PROVE  Waiting(c) = Waiting(c)' + (IF Head(tasks).from = c THEN 1 ELSE 0)
<1>1. tasks \in Seq(Tasks) /\ Head(tasks) \in Tasks
  BY HeadTailProperties DEF TypeOK, PoolTypeOK
<1>2. Head(tasks) \in TasksOf(c) <=> Head(tasks).from = c
  BY <1>1 DEF TasksOf
<1>3. Cardinality(Hits(tasks, TasksOf(c)))
        = Cardinality(Hits(Tail(tasks), TasksOf(c)))
            + (IF Head(tasks) \in TasksOf(c) THEN 1 ELSE 0)
  BY <1>1, HitsTail
<1> QED
  BY <1>2, <1>3 DEF Waiting

LEMMA RepliedMore ==
  ASSUME TypeOK, NEW c \in Conns, NEW r \in Replies,
         respList' = Append(respList, r)
  PROVE  Replied(c)' = Replied(c) + (IF r.from = c THEN 1 ELSE 0)
<1>1. respList \in Seq(Replies)
  BY DEF TypeOK, PoolTypeOK
<1>2. r \in RepliesOf(c) <=> r.from = c
  BY DEF RepliesOf
<1>3. Cardinality(Hits(Append(respList, r), RepliesOf(c)))
        = Cardinality(Hits(respList, RepliesOf(c)))
            + (IF r \in RepliesOf(c) THEN 1 ELSE 0)
  BY <1>1, HitsAppend
<1> QED
  BY <1>2, <1>3 DEF Replied

LEMMA RepliedLess ==
  ASSUME TypeOK, NEW c \in Conns, respList # <<>>, respList' = Tail(respList)
  PROVE  Replied(c) = Replied(c)' + (IF Head(respList).from = c THEN 1 ELSE 0)
<1>1. respList \in Seq(Replies) /\ Head(respList) \in Replies
  BY HeadTailProperties DEF TypeOK, PoolTypeOK
<1>2. Head(respList) \in RepliesOf(c) <=> Head(respList).from = c
  BY <1>1 DEF RepliesOf
<1>3. Cardinality(Hits(respList, RepliesOf(c)))
        = Cardinality(Hits(Tail(respList), RepliesOf(c)))
            + (IF Head(respList) \in RepliesOf(c) THEN 1 ELSE 0)
  BY <1>1, HitsTail
<1> QED
  BY <1>2, <1>3 DEF Replied

LEMMA WorkerBalance ==
  ASSUME ConnInv, ConservInv, NEW w \in Workers, Worker(w)
  PROVE  ConservInv'
<1> SUFFICES ASSUME NEW c \in Conns, obj'[c] = "live" PROVE Balanced(c)'
  BY DEF ConservInv
<1>1. UNCHANGED <<obj, dispatched, wire, outBuf>>
  BY DEF Worker, TakeTask, FinishTask, objVars
<1>2. Balanced(c) /\ TypeOK /\ dispatched'[c] = dispatched[c]
  BY <1>1 DEF ConservInv, ConnInv
<1>3. Given(c)' = Given(c)
  BY <1>1 DEF Given, Stream
<1>4. /\ Given(c) \in Nat /\ Waiting(c) \in Nat /\ Running(c) \in Nat
      /\ Replied(c) \in Nat /\ IsFiniteSet(WorkersOf(c))
  BY <1>2, Amounts
<1>5. Waiting(c)' \in Nat /\ Replied(c)' \in Nat
  <2>1. TypeOK'
    BY WorkerStep DEF ConnInv
  <2>2. tasks' \in Seq(Tasks) /\ respList' \in Seq(Replies)
    BY <2>1 DEF TypeOK, PoolTypeOK
  <2>3. TasksOf(c)' = TasksOf(c) /\ RepliesOf(c)' = RepliesOf(c)
    BY DEF TasksOf, RepliesOf
  <2> QED
    BY <2>2, <2>3, HitsFinite DEF Waiting, Replied
<1>6. CASE TakeTask(w)
  <2> DEFINE t == Head(tasks)
             k == IF t.from = c THEN 1 ELSE 0
  <2>1. Waiting(c) = Waiting(c)' + k /\ t \in Tasks
    BY <1>2, <1>6, WaitingLess, HeadTailProperties
       DEF TakeTask, TypeOK, PoolTypeOK
  <2>2. t # NoTask
    BY <2>1 DEF Tasks, NoTask
  <2>3. /\ work' = [work EXCEPT ![w] = t] /\ w \notin WorkersOf(c)
        /\ work \in [Workers -> Tasks \cup {NoTask}]
    BY <1>2, <1>6 DEF TakeTask, TypeOK, PoolTypeOK, WorkersOf
  <2>4. WorkersOf(c)' = IF t.from = c THEN WorkersOf(c) \cup {w} ELSE WorkersOf(c)
    <3>1. work'[w] = t /\ \A v \in Workers \ {w} : work'[v] = work[v]
      BY <2>3
    <3> HIDE DEF t
    <3> QED
      BY <2>2, <2>3, <3>1 DEF WorkersOf
  <2>5. Running(c)' = Running(c) + k
    <3>1. Cardinality(WorkersOf(c) \cup {w}) = Cardinality(WorkersOf(c)) + 1
      BY <1>4, <2>3, FS_AddElement
    <3> QED
      BY <1>4, <2>4, <3>1 DEF Running
  <2>6. Replied(c)' = Replied(c)
    BY <1>6 DEF TakeTask, Replied, RepliesOf
  <2>7. k \in Nat
    OBVIOUS
  <2> HIDE DEF k
  <2>8. Waiting(c)' + Replied(c)' + Running(c)'
          = Waiting(c) + Replied(c) + Running(c)
    BY <1>4, <1>5, <2>1, <2>5, <2>6, <2>7
  <2> QED
    BY <1>2, <1>3, <2>8 DEF Balanced
<1>7. CASE FinishTask(w)
  <2> DEFINE f == work[w].from
             k == IF f = c THEN 1 ELSE 0
  <2>1. work[w] \in Tasks /\ work[w] # NoTask /\ f \in Conns
    BY <1>2, <1>7 DEF FinishTask, TypeOK, PoolTypeOK, Tasks, NoTask
  <2>2. PICK u \in Conns \cup {NoConn} :
          respList' = Append(respList, [uuid |-> u, from |-> f])
    BY <1>7, <2>1 DEF FinishTask, ReadUuid, Occupant, Tasks
  <2>3. Replied(c)' = Replied(c) + k
    <3>1. [uuid |-> u, from |-> f] \in Replies
      BY <2>1 DEF Replies
    <3> QED
      BY <1>2, <2>2, <3>1, RepliedMore
  <2>4. WorkersOf(c)' = WorkersOf(c) \ {w} /\ (w \in WorkersOf(c) <=> f = c)
    <3>1. work'[w] = NoTask /\ \A v \in Workers \ {w} : work'[v] = work[v]
      BY <1>2, <1>7 DEF FinishTask, TypeOK, PoolTypeOK
    <3> QED
      BY <2>1, <3>1 DEF WorkersOf
  <2>5. Running(c)' = Running(c) - k
    <3>1. Cardinality(WorkersOf(c) \ {w})
            = IF w \in WorkersOf(c) THEN Cardinality(WorkersOf(c)) - 1
                                    ELSE Cardinality(WorkersOf(c))
      BY <1>4, FS_RemoveElement
    <3> QED
      BY <1>4, <2>4, <3>1 DEF Running
  <2>6. Waiting(c)' = Waiting(c)
    BY <1>7 DEF FinishTask, Waiting, TasksOf
  <2>7. k \in Nat
    OBVIOUS
  <2> HIDE DEF k
  <2>8. Waiting(c)' + Replied(c)' + Running(c)'
          = Waiting(c) + Replied(c) + Running(c)
    BY <1>4, <1>5, <2>3, <2>5, <2>6, <2>7
  <2> QED
    BY <1>2, <1>3, <2>8 DEF Balanced
<1> QED
  BY <1>6, <1>7 DEF Worker

(* A new connection has nothing to its account. *)
LEMMA AcceptBalance ==
  ASSUME ConnInv, NamesInv, ConservInv, NEW k \in Kinds, Accept(k)
  PROVE  ConservInv'
<1> DEFINE c == alloc + 1
<1>1. c \in Conns /\ obj[c] = "none"
  BY ConnAssumption
     DEF Accept, ConnInv, TypeOK, LoopTypeOK, Allocated, Conns
<1>2. /\ obj' = [obj EXCEPT ![c] = "live"]
      /\ UNCHANGED <<tasks, work, respList, dispatched, wire, outBuf>>
  BY DEF Accept, poolVars
<1>3. ASSUME NEW e \in Conns, Balanced(e)
      PROVE  Balanced(e)'
  BY <1>2, <1>3, SameBalance, WorkersSame DEF Stream
<1>4. Balanced(c)
  <2>1. dispatched[c] = 0 /\ Stream(c) = <<>>
    BY <1>1, EmptySeq, ConcatEmptySeq DEF NamesInv, Untouched, Stream
  <2>2. Given(c) = 0
    BY <2>1, FS_EmptySet DEF Given, Hits
  <2>3. Waiting(c) = 0
    <3>1. TasksOf(c) \cap GoodTasks = {}
      BY <1>1 DEF TasksOf, GoodTasks
    <3> QED
      BY <3>1, HitsNone DEF NamesInv, Waiting
  <2>4. Replied(c) = 0
    <3>1. RepliesOf(c) \cap GoodReplies = {}
      BY <1>1 DEF RepliesOf, GoodReplies
    <3> QED
      BY <3>1, HitsNone DEF NamesInv, Replied
  <2>5. Running(c) = 0
    <3>1. WorkersOf(c) = {}
      BY <1>1 DEF WorkersOf, NamesInv, GoodTasks
    <3> QED
      BY <3>1, FS_EmptySet DEF Running
  <2>6. RespLen * 0 = 0
    BY ConnAssumption
  <2> QED
    BY <2>1, <2>2, <2>3, <2>4, <2>5, <2>6 DEF Balanced
<1>5. \A e \in Conns : obj'[e] = "live" => e = c \/ obj[e] = "live"
  BY <1>2 DEF ConnInv, TypeOK, ConnTypeOK
<1> HIDE DEF c
<1> QED
  BY <1>1, <1>3, <1>4, <1>5 DEF ConservInv

LEMMA OnReadBalance ==
  ASSUME ConnInv, OrderInv, ConservInv, NEW c \in Conns, obj[c] = "live",
         OnRead(c), UNCHANGED <<work, respList>>
  PROVE  ConservInv'
<1> DEFINE in == inBuf[c] + rcvq[c]
<1> USE DEF ConnInv
<1>1. Only(c) /\ addr[c] \in Addrs /\ Balanced(c) /\ dispatched \in [Conns -> Nat]
  BY OnReadOnly DEF Allocated, ConservInv, TypeOK, HistoryTypeOK
<1>2. /\ Given(c) \in Nat /\ Waiting(c) \in Nat /\ Running(c) \in Nat
      /\ Replied(c) \in Nat /\ dispatched[c] \in Nat /\ RespLen \in Nat
  BY Amounts, ConnAssumption
<1>3. \A e \in Conns : WorkersOf(e)' = WorkersOf(e) /\ Running(e)' = Running(e)
  BY WorkersSame DEF Running
<1>4. \A e \in Conns : Replied(e)' = Replied(e)
  BY DEF Replied, RepliesOf
<1>5. ASSUME tasks' = tasks, obj'[c] = "live" => Balanced(c)'
      PROVE  ConservInv'
  <2> SUFFICES ASSUME NEW e \in Conns, e # c, obj'[e] = "live"
               PROVE  Balanced(e)'
    BY <1>5 DEF ConservInv
  <2>1. Balanced(e) /\ Stream(e)' = Stream(e) /\ dispatched'[e] = dispatched[e]
    BY <1>1 DEF ConservInv, Only, Stream
  <2> QED
    BY <1>3, <1>5, <2>1, SameBalance
<1>6. CASE CloseConn(c) /\ NoExecute
  <2>1. obj'[c] # "live" /\ tasks' = tasks
    BY <1>6 DEF CloseConn, NoExecute, TypeOK, ConnTypeOK
  <2> QED
    BY <1>5, <2>1
<1>7. CASE NoExecute /\ UNCHANGED <<obj, outBuf>>
  <2>1. Stream(c)' = Stream(c) /\ dispatched'[c] = dispatched[c] /\ tasks' = tasks
    BY <1>7 DEF NoExecute, Stream
  <2> QED
    BY <1>1, <1>3, <1>5, <2>1, SameBalance
<1>8. ASSUME NEW t \in Tasks, t.from = c, Submit(c, t, in)
      PROVE  ConservInv'
  <2> SUFFICES ASSUME NEW e \in Conns, obj'[e] = "live" PROVE Balanced(e)'
    BY DEF ConservInv
  <2>1. Given(e)' = Given(e) /\ Balanced(e)
    BY <1>8 DEF Submit, Given, Stream, ConservInv
  <2>2. Waiting(e)' = Waiting(e) + (IF c = e THEN 1 ELSE 0)
    BY <1>8, WaitingMore DEF Submit
  <2>3. dispatched'[e] = IF c = e THEN dispatched[e] + 1 ELSE dispatched[e]
    BY <1>1, <1>8 DEF Submit
  <2>4. CASE e # c
    <3>1. Waiting(e)' = Waiting(e)
      BY <2>2, <2>4, Amounts
    <3> QED
      BY <1>3, <1>4, <2>1, <2>3, <2>4, <3>1 DEF Balanced
  <2>5. CASE e = c
    <3>1. PICK n \in Nat : n = Waiting(c) + Replied(c) + Running(c)
      BY <1>2
    <3>2. Waiting(c)' + Replied(c)' + Running(c)' = n + 1
      BY <1>2, <1>3, <1>4, <2>2, <2>5, <3>1
    <3>3. RespLen * dispatched[c] = Given(c) + RespLen * n
      BY <1>1, <3>1 DEF Balanced
    <3>4. /\ RespLen * (dispatched[c] + 1) = RespLen * dispatched[c] + RespLen
          /\ RespLen * (n + 1) = RespLen * n + RespLen
      BY <1>2, Product
    <3>5. RespLen * n \in Nat
      BY <1>2
    <3>6. RespLen * (dispatched[c] + 1) = Given(c) + RespLen * (n + 1)
      BY <1>2, <3>3, <3>4, <3>5
    <3> QED
      BY <2>1, <2>3, <2>5, <3>2, <3>6 DEF Balanced
  <2> QED
    BY <2>4, <2>5
<1>9. CASE ExecuteInline(c, in)
  <2>1. Stream(c)' = Stream(c) \o Response(c)
    BY <1>9, SendStream, ResponseType DEF ExecuteInline, OrderInv
  <2>2. Given(c)' = Given(c) + RespLen
    BY <2>1, GivenMore
  <2>3. dispatched'[c] = dispatched[c] + 1 /\ tasks' = tasks
    BY <1>1, <1>9 DEF ExecuteInline
  <2>4. Waiting(c)' = Waiting(c)
    BY <2>3 DEF Waiting, TasksOf
  <2>5. PICK n \in Nat : n = Waiting(c) + Replied(c) + Running(c)
    BY <1>2
  <2>6. RespLen * dispatched[c] = Given(c) + RespLen * n
    BY <1>1, <2>5 DEF Balanced
  <2>7. RespLen * (dispatched[c] + 1) = RespLen * dispatched[c] + RespLen
    BY <1>2, Product
  <2>8. RespLen * n \in Nat
    BY <1>2
  <2>9. RespLen * (dispatched[c] + 1) = (Given(c) + RespLen) + RespLen * n
    BY <1>2, <2>6, <2>7, <2>8
  <2>10. Balanced(c)'
    BY <1>3, <1>4, <2>2, <2>3, <2>4, <2>5, <2>9 DEF Balanced
  <2> QED
    BY <1>5, <2>3, <2>10
<1>10. RegisterTask(c) \in Tasks /\ RegisterTask(c).from = c
  BY DEF RegisterTask, Tasks
<1>11. LoginTask(c) \in Tasks /\ LoginTask(c).from = c
  BY <1>1 DEF LoginTask, Tasks
<1> HIDE DEF ConnInv
<1> QED
  BY <1>6, <1>7, <1>8, <1>9, <1>10, <1>11 DEF OnRead, Dispatch

LEMMA OnWriteBalance ==
  ASSUME ConnInv, OrderInv, ConservInv, NEW c \in Conns, obj[c] = "live",
         OnWrite(c), UNCHANGED <<tasks, work, respList, dispatched>>
  PROVE  ConservInv'
<1> SUFFICES ASSUME NEW e \in Conns, obj'[e] = "live" PROVE Balanced(e)'
  BY DEF ConservInv
<1>1. Stream(e)' = Stream(e) /\ obj[e] = "live"
  <2>1. Stream(c)' = Stream(c) /\ Apart(c)
    BY OnWriteStream DEF ConnInv, OrderInv
  <2> QED
    BY <2>1 DEF Apart, Stream
<1> QED
  BY <1>1, SameBalance, WorkersSame DEF ConservInv

LEMMA CloseBalance ==
  ASSUME ConnInv, ConservInv, NEW c \in Conns, CloseConn(c),
         UNCHANGED <<wire, tasks, work, respList, dispatched>>
  PROVE  ConservInv'
<1> SUFFICES ASSUME NEW e \in Conns, obj'[e] = "live" PROVE Balanced(e)'
  BY DEF ConservInv
<1>1. Stream(e)' = Stream(e) /\ obj[e] = "live"
  BY DEF CloseConn, ConnInv, TypeOK, ConnTypeOK, Stream
<1> QED
  BY <1>1, SameBalance, WorkersSame DEF ConservInv

(* A response that is taken from the list goes to the connection that      *)
(* asked, if it lives; another connection gets no segment of its own.      *)
LEMMA SendResponseBalance ==
  ASSUME ConnInv, OrderInv, NamesInv, ConservInv, SendResponse
  PROVE  ConservInv'
<1> DEFINE r == Head(respList)
<1>1. /\ respList # <<>> /\ respList' = Tail(respList) /\ TypeOK
      /\ UNCHANGED <<tasks, work, dispatched>>
  BY DEF SendResponse, ConnInv
<1>2. r \in GoodReplies /\ r \in Replies /\ r.from \in Conns
  BY <1>1, HeadTailProperties DEF NamesInv, GoodReplies, Replies
<1> SUFFICES ASSUME NEW e \in Conns, obj'[e] = "live" PROVE Balanced(e)'
  BY DEF ConservInv
<1>3. obj[e] = "live"
  BY <1>1 DEF SendResponse, Send, KeepConn, OnWriteComlete, CloseConn, objVars,
              TypeOK, ConnTypeOK
<1>4. /\ Given(e) \in Nat /\ Waiting(e) \in Nat /\ Running(e) \in Nat
      /\ Replied(e) \in Nat /\ Balanced(e) /\ RespLen \in Nat
  BY <1>1, <1>3, Amounts, ConnAssumption DEF ConservInv
<1>5. Waiting(e)' = Waiting(e) /\ Running(e)' = Running(e)
  BY <1>1, WorkersSame DEF Waiting, TasksOf, Running
<1>6. Replied(e) = Replied(e)' + (IF r.from = e THEN 1 ELSE 0)
  BY <1>1, RepliedLess
<1>7. Replied(e)' \in Nat
  <2>1. Tail(respList) \in Seq(Replies)
    BY <1>1, ReplyType
  <2> QED
    BY <1>1, <2>1, HitsFinite DEF Replied, RepliesOf
<1>8. r.from = e => r.uuid = e /\ r.uuid \in uuidMap
  BY <1>2, <1>3 DEF GoodReplies, ConnInv, MapsAgree
<1>9. Given(e)' = Given(e) + (IF r.from = e THEN RespLen ELSE 0)
  <2>1. CASE r.uuid \in uuidMap /\ Send(r.uuid, Response(r.from), inBuf[r.uuid])
    <3>1. PICK u \in Conns, f \in Conns : u = r.uuid /\ f = r.from
      BY <1>2, <2>1 DEF ConnInv, MapsAgree
    <3>2. Response(f) \in Seq(Segments)
      BY ResponseType
    <3>3. Stream(u)' = Stream(u) \o Response(f) /\ Apart(u)
      BY <1>1, <2>1, <3>1, <3>2, SendStream DEF OrderInv
    <3>4. CASE e = u
      BY <1>1, <3>1, <3>3, <3>4, GivenMore
    <3>5. CASE e # u
      <4>1. Given(e)' = Given(e)
        BY <3>3, <3>5 DEF Apart, Stream, Given, GivenTo
      <4> QED
        BY <1>4, <1>8, <3>1, <3>5, <4>1
    <3> QED
      BY <3>4, <3>5
  <2>2. CASE r.uuid \notin uuidMap /\ UNCHANGED <<objVars, wire>>
    <3>1. Given(e)' = Given(e)
      BY <2>2 DEF objVars, Stream, Given, GivenTo
    <3> QED
      BY <1>4, <1>8, <2>2, <3>1
  <2> QED
    BY <2>1, <2>2 DEF SendResponse
<1>10. CASE r.from # e
  <2>1. Given(e)' = Given(e) /\ Replied(e)' = Replied(e)
    BY <1>4, <1>6, <1>7, <1>9, <1>10
  <2> QED
    BY <1>1, <1>4, <1>5, <2>1 DEF Balanced
<1>11. CASE r.from = e
  <2>1. PICK n \in Nat : n = Waiting(e) + Replied(e)' + Running(e)
    BY <1>4, <1>7
  <2>2. Waiting(e) + Replied(e) + Running(e) = n + 1
    BY <1>4, <1>6, <1>7, <1>11, <2>1
  <2>3. RespLen * dispatched[e] = Given(e) + RespLen * (n + 1)
    BY <1>4, <2>2 DEF Balanced
  <2>4. RespLen * (n + 1) = RespLen * n + RespLen /\ RespLen * n \in Nat
    BY <1>4, Product
  <2>5. RespLen * dispatched[e] = (Given(e) + RespLen) + RespLen * n
    BY <1>4, <2>3, <2>4
  <2> QED
    BY <1>1, <1>5, <1>9, <1>11, <2>1, <2>5 DEF Balanced
<1> QED
  BY <1>10, <1>11

LEMMA ConservStep ==
  ASSUME ConnInv, OrderInv, NamesInv, ConservInv, [Next]_vars
  PROVE  ConservInv'
<1>1. CASE \/ UNCHANGED vars
           \/ \E c \in Conns : Peer(c)
           \/ EpollWait \/ EventsDone \/ ResponsesDone
           \/ \E c \in Conns, f \in Flags : StaleEvent(c, f)
  <2>1. UNCHANGED <<obj, tasks, work, respList, dispatched, wire, outBuf>>
    BY <1>1, QuietSteps
  <2> QED
    BY <2>1, SameBalance, WorkersSame DEF ConservInv, Stream
<1>2. CASE \E k \in Kinds : Accept(k)
  BY <1>2, AcceptBalance
<1>3. CASE \E w \in Workers : Worker(w)
  BY <1>3, WorkerBalance
<1>4. CASE SendResponse
  BY <1>4, SendResponseBalance
<1>5. ASSUME NEW c \in Conns, ReadEvent(c) \/ WriteEvent(c) \/ CloseEvent(c)
      PROVE  ConservInv'
  <2>1. obj[c] = "live" /\ UNCHANGED <<work, respList>>
    BY <1>5 DEF ReadEvent, WriteEvent, CloseEvent, TakeEvent, ConnInv, MapsAgree
  <2>2. CASE OnRead(c)
    BY <2>1, <2>2, OnReadBalance
  <2>3. CASE OnWrite(c) /\ UNCHANGED <<tasks, dispatched>>
    BY <2>1, <2>3, OnWriteBalance
  <2>4. CASE CloseConn(c) /\ UNCHANGED <<wire, tasks, dispatched>>
    BY <2>1, <2>4, CloseBalance
  <2> QED
    BY <1>5, <2>2, <2>3, <2>4 DEF ReadEvent, WriteEvent, CloseEvent
<1> QED
  BY <1>1, <1>2, <1>3, <1>4, <1>5 DEF Next, Loop

LEMMA ConservInit == Init => ConservInv
  BY DEF Init, ConservInv

(* While a connection lives, every request executed for it is a task of a  *)
(* worker, a queued response, or the whole of a response in the stream of  *)
(* its client: no answer is lost between the threads, none is given twice. *)
THEOREM AnswersAccounted == Spec => []AnswersConserved
<1>1. Init => NamesInv /\ ConservInv
  BY NamesInit, ConservInit
<1>2. /\ ConnInv /\ OrderInv /\ NamesInv /\ ConservInv /\ [Next]_vars
      => NamesInv' /\ ConservInv'
  BY NamesStep, ConservStep
<1>3. Spec => [](NamesInv /\ ConservInv)
  BY <1>1, <1>2, ConnInvariant, OrderInvariant, PTL DEF Spec
<1>4. ConnInv /\ ConservInv => AnswersConserved
  BY BalanceConserves DEF ConnInv
<1> QED
  BY <1>3, <1>4, ConnInvariant, PTL
=============================================================================
