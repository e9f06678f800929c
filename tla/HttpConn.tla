------------------------------ MODULE HttpConn ------------------------------
(***************************************************************************)
(* The life of the server's HTTP connections (http_conn.cc, main.cc), with *)
(* the event loop that drives them (base/event_dispatch.cc, base_socket.cc *)
(* and netlib.cc) and the worker threads that answer two of the requests.  *)
(*                                                                         *)
(* One thread runs the event loop.  It waits for socket events, handles    *)
(* the events of one socket at a time (OnRead, OnWrite, OnClose), and then *)
(* sends the responses the workers have queued.  "register" and "login"    *)
(* requests are executed by the workers; every other request is executed   *)
(* by the loop itself, inside OnRead.  A CHttpConn object deletes itself   *)
(* in Close.                                                               *)
(*                                                                         *)
(* Data are counted in segments: a request is ReqLen segments, a response  *)
(* RespLen segments.  The contents of a request are its kind.              *)
(***************************************************************************)
EXTENDS Integers, Sequences, FiniteSets

CONSTANTS
  NConn,    \* bound: number of connections accepted in a behaviour
  Workers,  \* the threads of g_thread_pool
  Addrs,    \* the memory blocks a CHttpConn may be allocated in
  Kinds,    \* the kinds of request the clients send
  ReqLen,   \* segments of a complete request
  RespLen,  \* segments of a complete response
  InMax,    \* segments OnRead accepts in in_buf_ (2048 bytes in the code)
  MaxSend   \* bound: segments one client sends

(***************************************************************************)
(* Connections are numbered in the order they are accepted.  The number is *)
(* both the uuid_ and the conn_handle_ of the connection: both come from   *)
(* counters that start at 1, and 2^32 connections are never reached.       *)
(***************************************************************************)
NoAddr == "none"   \* no address

ASSUME ConnAssumption ==
  /\ NConn \in Nat
  /\ Kinds \subseteq {"register", "login", "inline", "unknown"}
  /\ ReqLen \in Nat \ {0}
  /\ RespLen \in Nat \ {0}
  /\ InMax \in Nat
  /\ MaxSend \in Nat
  /\ IsFiniteSet(Workers)
  /\ NoAddr \notin Addrs

Conns  == 1 .. NConn
NoConn == 0                      \* no connection, and the uuid of none
Flags  == {"IN", "OUT", "HUP"}   \* EPOLLIN, EPOLLOUT, EPOLLERR | EPOLLHUP

Segments == [owner : Conns, seg : 1 .. RespLen]

(* The whole response to a request that arrived on connection c. *)
Response(c) == [i \in 1 .. RespLen |-> [owner |-> c, seg |-> i]]

VARIABLES
  (* the peers and the kernel *)
  client,     \* the peer of a connection: "none", "open", "fin" or "rst"
  kind,       \* the kind of request the peer sends
  sent,       \* number of segments the peer has sent
  rcvq,       \* segments in the socket's receive queue
  full,       \* the socket's send buffer has no room
  wire,       \* the segments handed to the kernel, in order
  ready,      \* sockets on the edge-triggered ready list of epoll
  (* the event loop *)
  phase,      \* "wait", "events" or "responses"
  todo,       \* the events epoll_wait returned that are not handled yet
  cur,        \* the socket whose events are being handled
  alloc,      \* s_uuid_alloctor and g_conn_handle_generator
  (* the CHttpConn objects *)
  obj,        \* "none", "live" or "deleted"
  addr,       \* the block an object was allocated in
  httpMap,    \* keys of g_http_conn_map
  uuidMap,    \* keys of g_uuid_conn_map
  inBuf,      \* segments in in_buf_
  busy,       \* busy_
  outBuf,     \* out_buf_
  (* shared by the loop and the workers *)
  tasks,      \* the queue of g_thread_pool
  work,       \* the task a worker executes
  respList,   \* s_response_pdu_list
  (* history *)
  dispatched  \* number of times a request of the connection was executed

netVars  == <<client, kind, sent, rcvq>>
loopVars == <<phase, todo, cur, alloc>>
objVars  == <<obj, addr, httpMap, uuidMap, inBuf, busy, outBuf>>
poolVars == <<tasks, work, respList>>
vars == <<netVars, full, wire, ready, loopVars, objVars, poolVars,
          dispatched>>

(* A task: Exec(ApiRegisterUser, uuid_, ...) is bound to the uuid of its    *)
(* connection, Exec(bind(&_HandleLoginRequest, this), ...) to the address  *)
(* of its connection.  "from" is a history field: who asked.               *)
Tasks ==
  [fn : {"register"}, uuid : Conns, from : Conns]
    \cup [fn : {"login"}, this : Addrs, from : Conns]

NoTask == [fn |-> "none"]

Replies == [uuid : Conns \cup {NoConn}, from : Conns]

NetTypeOK ==
  /\ client \in [Conns -> {"none", "open", "fin", "rst"}]
  /\ kind \in [Conns -> Kinds \cup {"none"}]
  /\ sent \in [Conns -> 0 .. MaxSend]
  /\ rcvq \in [Conns -> Nat]

LoopTypeOK ==
  /\ phase \in {"wait", "events", "responses"}
  /\ todo \in [Conns -> SUBSET Flags]
  /\ cur \in Conns \cup {NoConn}
  /\ alloc \in 0 .. NConn

ConnTypeOK ==
  /\ obj \in [Conns -> {"none", "live", "deleted"}]
  /\ addr \in [Conns -> Addrs \cup {NoAddr}]
  /\ httpMap \in SUBSET Conns
  /\ uuidMap \in SUBSET Conns
  /\ inBuf \in [Conns -> 0 .. InMax]
  /\ busy \in [Conns -> BOOLEAN]
  /\ outBuf \in [Conns -> Seq(Segments)]
  /\ ready \in SUBSET Conns

SocketTypeOK ==
  /\ full \in [Conns -> BOOLEAN]
  /\ wire \in [Conns -> Seq(Segments)]

PoolTypeOK ==
  /\ tasks \in Seq(Tasks)
  /\ work \in [Workers -> Tasks \cup {NoTask}]
  /\ respList \in Seq(Replies)

HistoryTypeOK ==
  /\ dispatched \in [Conns -> Nat]

TypeOK ==
  /\ NetTypeOK /\ LoopTypeOK /\ ConnTypeOK
  /\ SocketTypeOK /\ PoolTypeOK /\ HistoryTypeOK

-----------------------------------------------------------------------------
(* The peers and the kernel.                                               *)

SocketOpen(c) == obj[c] = "live"   \* the socket is closed by Close only

(* A segment arrives: an edge on the socket. *)
ClientSend(c) ==
  /\ client[c] = "open" /\ SocketOpen(c)
  /\ sent[c] < MaxSend
  /\ sent' = [sent EXCEPT ![c] = @ + 1]
  /\ rcvq' = [rcvq EXCEPT ![c] = @ + 1]
  /\ ready' = ready \cup {c}
  /\ UNCHANGED <<client, kind, full, wire, loopVars, objVars, poolVars,
                 dispatched>>

(* The peer closes its sending side: FIN. *)
ClientFin(c) ==
  /\ client[c] = "open" /\ SocketOpen(c)
  /\ client' = [client EXCEPT ![c] = "fin"]
  /\ ready' = ready \cup {c}
  /\ UNCHANGED <<kind, sent, rcvq, full, wire, loopVars, objVars, poolVars,
                 dispatched>>

(* The peer is gone, or answers data it will not read: RST. *)
ClientReset(c) ==
  /\ client[c] \in {"open", "fin"} /\ SocketOpen(c)
  /\ client' = [client EXCEPT ![c] = "rst"]
  /\ ready' = ready \cup {c}
  /\ UNCHANGED <<kind, sent, rcvq, full, wire, loopVars, objVars, poolVars,
                 dispatched>>

(* The peer reads what fills the send buffer: the socket is writable again. *)
ClientDrain(c) ==
  /\ client[c] \in {"open", "fin"} /\ SocketOpen(c)
  /\ full[c]
  /\ full' = [full EXCEPT ![c] = FALSE]
  /\ ready' = ready \cup {c}
  /\ UNCHANGED <<netVars, wire, loopVars, objVars, poolVars, dispatched>>

(* The number of segments, of n, that one send() takes: none when it fails *)
(* or would block (both count as 0 in the code), else at least one.        *)
KernelTakes(c, n) ==
  IF client[c] = "rst" \/ full[c] THEN {0} ELSE 1 .. n

(* What epoll reports of a ready socket.  EPOLLRDHUP is not in the mask of *)
(* AddEvent, so a FIN only makes the socket readable.                      *)
EventMask(c) ==
  {f \in Flags :
    \/ f = "IN"  /\ (rcvq[c] > 0 \/ client[c] \in {"fin", "rst"})
    \/ f = "OUT" /\ (~full[c] \/ client[c] = "rst")
    \/ f = "HUP" /\ client[c] = "rst"}

-----------------------------------------------------------------------------
(* Pieces of the handlers.                                                 *)

(* Variants named Operator_What are faults: they are part of no            *)
(* specification, and show that the properties below would notice them.    *)

Unregister_KeepsUuid(c) == httpMap' = httpMap \ {c} /\ UNCHANGED uuidMap

Unregister(c) == httpMap' = httpMap \ {c} /\ uuidMap' = uuidMap \ {c}

(* CHttpConn::Close: the connection leaves both maps, its socket leaves    *)
(* epoll and is closed, and ReleaseRef deletes the object with its buffers.*)
CloseConn(c) ==
  /\ obj' = [obj EXCEPT ![c] = "deleted"]
  /\ Unregister(c)
  /\ ready' = ready \ {c}
  /\ inBuf' = [inBuf EXCEPT ![c] = 0]
  /\ busy' = [busy EXCEPT ![c] = FALSE]
  /\ outBuf' = [outBuf EXCEPT ![c] = <<>>]
  /\ UNCHANGED addr

(* The connection stays open with these values of its fields. *)
KeepConn(c, b, out) ==
  /\ busy' = [busy EXCEPT ![c] = b]
  /\ outBuf' = [outBuf EXCEPT ![c] = out]
  /\ UNCHANGED <<obj, addr, httpMap, uuidMap, ready>>

OnWriteComlete_StaysOpen(c) == UNCHANGED <<objVars, ready>>

OnWriteComlete(c) == CloseConn(c)

Remaining_Lost(data, n) == SubSeq(data, n + 2, Len(data))

Remaining(data, n) == SubSeq(data, n + 1, Len(data))

MustQueue_Never(c) == FALSE

MustQueue(c) == busy[c]

(* netlib_send of data takes the first n segments. *)
PutOnWire(c, data, n) ==
  /\ wire' = [wire EXCEPT ![c] = @ \o SubSeq(data, 1, n)]
  /\ full' = [full EXCEPT ![c] = n < Len(data)]

(* CHttpConn::Send: while an earlier response is unsent, data queues behind *)
(* it; else what the kernel does not take is kept, and a complete write    *)
(* closes the connection.  OnRead has stored "in" segments before.         *)
Send(c, data, in) ==
  \/ /\ MustQueue(c)
     /\ KeepConn(c, TRUE, outBuf[c] \o data)
     /\ inBuf' = [inBuf EXCEPT ![c] = in]
     /\ UNCHANGED <<wire, full>>
  \/ /\ ~MustQueue(c)
     /\ \E n \in KernelTakes(c, Len(data)) :
          /\ PutOnWire(c, data, n)
          /\ \/ /\ n < Len(data)
                /\ KeepConn(c, TRUE, outBuf[c] \o Remaining(data, n))
                /\ inBuf' = [inBuf EXCEPT ![c] = in]
             \/ /\ n = Len(data)
                /\ OnWriteComlete(c)

TooMuch(in) == in > InMax

(* The tasks OnRead hands to g_thread_pool. *)
LoginTask(c) == [fn |-> "login", this |-> addr[c], from |-> c]

RegisterTask_ByThis(c) == LoginTask(c)

RegisterTask(c) == [fn |-> "register", uuid |-> c, from |-> c]

NoExecute == UNCHANGED <<tasks, dispatched, wire, full>>

(* The request is given to the workers; in_buf_ keeps its "in" segments. *)
Submit(c, task, in) ==
  /\ tasks' = Append(tasks, task)
  /\ dispatched' = [dispatched EXCEPT ![c] = @ + 1]
  /\ inBuf' = [inBuf EXCEPT ![c] = in]
  /\ UNCHANGED <<obj, addr, httpMap, uuidMap, ready, busy, outBuf, wire, full>>

(* The request is executed here (upload, md5, myfiles, ...) and answered. *)
ExecuteInline(c, in) ==
  /\ dispatched' = [dispatched EXCEPT ![c] = @ + 1]
  /\ Send(c, Response(c), in)
  /\ UNCHANGED tasks

(* The choice of OnRead by the url of a complete request. *)
Dispatch(c, in) ==
  \/ kind[c] = "register" /\ Submit(c, RegisterTask(c), in)
  \/ kind[c] = "login"    /\ Submit(c, LoginTask(c), in)
  \/ kind[c] = "inline"   /\ ExecuteInline(c, in)
  \/ kind[c] = "unknown"  /\ CloseConn(c) /\ NoExecute

(* CHttpConn::OnRead: read all there is, parse all that was ever read from *)
(* its beginning, and execute the request when it is complete.             *)
OnRead(c) ==
  LET in == inBuf[c] + rcvq[c] IN
  /\ rcvq' = [rcvq EXCEPT ![c] = 0]
  /\ \/ TooMuch(in) /\ CloseConn(c) /\ NoExecute
     \/ /\ ~TooMuch(in) /\ in < ReqLen                \* not IsReadAll
        /\ inBuf' = [inBuf EXCEPT ![c] = in]
        /\ UNCHANGED <<obj, addr, httpMap, uuidMap, ready, busy, outBuf>>
        /\ NoExecute
     \/ ~TooMuch(in) /\ in >= ReqLen /\ Dispatch(c, in)

(* CHttpConn::OnWrite.  When the write is complete, OnWriteComlete deletes *)
(* the object; busy_, which is assigned after that, is nobody's any more.  *)
OnWrite(c) ==
  \/ /\ ~busy[c]
     /\ UNCHANGED <<objVars, wire, full, ready>>
  \/ /\ busy[c]
     /\ \E n \in KernelTakes(c, Len(outBuf[c])) :
          /\ PutOnWire(c, outBuf[c], n)
          /\ \/ /\ n < Len(outBuf[c])
                /\ KeepConn(c, TRUE, Remaining(outBuf[c], n))
                /\ UNCHANGED inBuf
             \/ /\ n = Len(outBuf[c])
                /\ OnWriteComlete(c)

-----------------------------------------------------------------------------
(* The event loop.                                                         *)

(* A client connects and is accepted: _AcceptNewSocket, http_callback, the *)
(* constructor of CHttpConn and OnConnect.                                 *)
Accept(k) ==
  /\ phase = "events" /\ cur = NoConn
  /\ alloc < NConn
  /\ alloc' = alloc + 1
  /\ LET c == alloc + 1 IN
       /\ client' = [client EXCEPT ![c] = "open"]
       /\ kind' = [kind EXCEPT ![c] = k]
       /\ obj' = [obj EXCEPT ![c] = "live"]
       /\ \E a \in Addrs :
            /\ \A d \in Conns : obj[d] = "live" => addr[d] # a
            /\ addr' = [addr EXCEPT ![c] = a]
       /\ httpMap' = httpMap \cup {c}
       /\ uuidMap' = uuidMap \cup {c}
  /\ UNCHANGED <<sent, rcvq, full, wire, ready, phase, todo, cur, inBuf,
                 busy, outBuf, poolVars, dispatched>>

(* epoll_wait returns the sockets on the ready list, or times out. *)
EpollWait ==
  /\ phase = "wait"
  /\ todo' = [c \in Conns |-> IF c \in ready THEN EventMask(c) ELSE {}]
  /\ ready' = {}
  /\ phase' = "events"
  /\ UNCHANGED <<netVars, full, wire, cur, alloc, objVars, poolVars,
                 dispatched>>

(* The events of one socket are handled together, and in this order. *)
TakeEvent(c, f) ==
  /\ phase = "events"
  /\ cur \in {NoConn, c}
  /\ f \in todo[c]
  /\ f = "OUT" => "IN" \notin todo[c]
  /\ f = "HUP" => todo[c] = {"HUP"}
  /\ todo' = [todo EXCEPT ![c] = @ \ {f}]
  /\ cur' = IF todo[c] = {f} THEN NoConn ELSE c
  /\ UNCHANGED <<phase, alloc, client, kind, sent, work, respList>>

(* httpconn_callback finds no connection with this handle. *)
StaleEvent(c, f) ==
  /\ TakeEvent(c, f)
  /\ c \notin httpMap
  /\ UNCHANGED <<rcvq, full, wire, ready, objVars, tasks, dispatched>>

(* CBaseSocket::OnRead: nothing to read means that the peer has closed. *)
ReadEvent(c) ==
  /\ TakeEvent(c, "IN")
  /\ c \in httpMap
  /\ \/ /\ rcvq[c] = 0
        /\ CloseConn(c)
        /\ UNCHANGED <<rcvq, full, wire, tasks, dispatched>>
     \/ /\ rcvq[c] > 0
        /\ OnRead(c)

(* CBaseSocket::OnWrite of a connected socket. *)
WriteEvent(c) ==
  /\ TakeEvent(c, "OUT")
  /\ c \in httpMap
  /\ OnWrite(c)
  /\ UNCHANGED <<rcvq, tasks, dispatched>>

(* CBaseSocket::OnClose, and CHttpConn::OnClose. *)
CloseEvent(c) ==
  /\ TakeEvent(c, "HUP")
  /\ c \in httpMap
  /\ CloseConn(c)
  /\ UNCHANGED <<rcvq, full, wire, tasks, dispatched>>

(* All events are handled; no timer is registered; the loop callbacks run. *)
EventsDone ==
  /\ phase = "events" /\ cur = NoConn
  /\ \A c \in Conns : todo[c] = {}
  /\ phase' = "responses"
  /\ UNCHANGED <<netVars, full, wire, ready, todo, cur, alloc, objVars,
                 poolVars, dispatched>>

(* SendResponseDataList takes a response and looks its connection up. *)
SendResponse ==
  /\ phase = "responses"
  /\ respList # <<>>
  /\ respList' = Tail(respList)
  /\ LET r == Head(respList) IN
       \/ /\ r.uuid \in uuidMap
          /\ Send(r.uuid, Response(r.from), inBuf[r.uuid])
       \/ /\ r.uuid \notin uuidMap
          /\ UNCHANGED <<objVars, wire, full, ready>>
  /\ UNCHANGED <<netVars, loopVars, tasks, work, dispatched>>

ResponsesDone ==
  /\ phase = "responses"
  /\ respList = <<>>
  /\ phase' = "wait"
  /\ UNCHANGED <<netVars, full, wire, ready, todo, cur, alloc, objVars,
                 poolVars, dispatched>>

-----------------------------------------------------------------------------
(* The workers.                                                            *)

(* ThreadPool::Get, see module ThreadPool. *)
TakeTask(w) ==
  /\ work[w] = NoTask
  /\ tasks # <<>>
  /\ work' = [work EXCEPT ![w] = Head(tasks)]
  /\ tasks' = Tail(tasks)
  /\ UNCHANGED <<netVars, full, wire, ready, loopVars, objVars, respList,
                 dispatched>>

(* The last object constructed in block a (none, or one). *)
Occupant(a) ==
  {c \in Conns : addr[c] = a /\ \A d \in Conns : addr[d] = a => d <= c}

(* What "this->uuid_" yields: the uuid of the object that is in the block; *)
(* when the block is free, what the last object left there, or what some   *)
(* other allocation wrote over it (taken to be no connection's uuid).      *)
ReadUuid(a) ==
  Occupant(a)
    \cup {u \in {NoConn} : \A c \in Occupant(a) : obj[c] # "live"}

(* The end of ApiRegisterUser and of _HandleLoginRequest: AddResponseData. *)
FinishTask(w) ==
  LET t == work[w] IN
  /\ \/ /\ t.fn = "register"
        /\ respList' = Append(respList, [uuid |-> t.uuid, from |-> t.from])
     \/ /\ t.fn = "login"
        /\ \E u \in ReadUuid(t.this) :
             respList' = Append(respList, [uuid |-> u, from |-> t.from])
  /\ work' = [work EXCEPT ![w] = NoTask]
  /\ UNCHANGED <<netVars, full, wire, ready, loopVars, objVars, tasks,
                 dispatched>>

-----------------------------------------------------------------------------
Init ==
  /\ client = [c \in Conns |-> "none"]
  /\ kind = [c \in Conns |-> "none"]
  /\ sent = [c \in Conns |-> 0]
  /\ rcvq = [c \in Conns |-> 0]
  /\ full = [c \in Conns |-> FALSE]
  /\ wire = [c \in Conns |-> <<>>]
  /\ ready = {}
  /\ phase = "wait"
  /\ todo = [c \in Conns |-> {}]
  /\ cur = NoConn
  /\ alloc = 0
  /\ obj = [c \in Conns |-> "none"]
  /\ addr = [c \in Conns |-> NoAddr]
  /\ httpMap = {}
  /\ uuidMap = {}
  /\ inBuf = [c \in Conns |-> 0]
  /\ busy = [c \in Conns |-> FALSE]
  /\ outBuf = [c \in Conns |-> <<>>]
  /\ tasks = <<>>
  /\ work = [w \in Workers |-> NoTask]
  /\ respList = <<>>
  /\ dispatched = [c \in Conns |-> 0]

Loop ==
  \/ EpollWait \/ EventsDone \/ SendResponse \/ ResponsesDone
  \/ \E c \in Conns :
       \/ ReadEvent(c) \/ WriteEvent(c) \/ CloseEvent(c)
       \/ \E f \in Flags : StaleEvent(c, f)

Worker(w) == TakeTask(w) \/ FinishTask(w)

Peer(c) == ClientSend(c) \/ ClientFin(c) \/ ClientReset(c) \/ ClientDrain(c)

Next ==
  \/ Loop
  \/ \E k \in Kinds : Accept(k)
  \/ \E w \in Workers : Worker(w)
  \/ \E c \in Conns : Peer(c)

Spec == Init /\ [][Next]_vars

(* The loop thread and the workers keep running; a peer that is still      *)
(* connected eventually reads what was sent to it.                         *)
Fairness ==
  /\ WF_vars(Loop)
  /\ \A w \in Workers : WF_vars(Worker(w))
  /\ \A c \in Conns : WF_vars(ClientDrain(c))

FairSpec == Spec /\ Fairness

-----------------------------------------------------------------------------
(* Properties.                                                             *)

(* A connection is found through either map exactly as long as its object  *)
(* exists, and epoll only reports sockets of such connections: no entry of *)
(* g_http_conn_map, g_uuid_conn_map or the ready list dangles after Close. *)
MapsAgree ==
  /\ httpMap = {c \in Conns : obj[c] = "live"}
  /\ uuidMap = httpMap
  /\ ready \subseteq httpMap

(* No client is ever sent a part of the response to another client's       *)
(* request, although the workers answer after any delay and the response   *)
(* list names its connection by uuid only.  Responses to login requests    *)
(* are excepted, see ReleasedFindsNone.                                    *)
ResponseIsolation ==
  \A c \in Conns : \A i \in DOMAIN wire[c] :
    LET from == wire[c][i].owner IN from = c \/ kind[from] = "login"

(* What follows segment number s in a stream of whole responses. *)
NextSeg(s) == IF s = RespLen THEN 1 ELSE s + 1

(* s is a concatenation of responses, the last one possibly cut short. *)
InOrder(s) ==
  \A i \in DOMAIN s :
    s[i].seg = IF i = 1 THEN 1 ELSE NextSeg(s[i - 1].seg)

(* The bytes of the responses reach the socket in order and without gaps:  *)
(* the tail that a partial send left in out_buf_ is sent before anything   *)
(* else, also when a second response is queued meanwhile.                  *)
WireInOrder == \A c \in Conns : InOrder(wire[c])

(* How many elements of a queue belong to requests of connection c. *)
Asked(s, c) == Cardinality({i \in DOMAIN s : s[i].from = c})

(* The answers to requests of connection c that are still on their way. *)
InFlight(c) ==
  Asked(tasks, c) + Asked(respList, c)
    + Cardinality({w \in Workers : work[w] # NoTask /\ work[w].from = c})

(* The segments of answers to requests of connection c in a stream. *)
Own(s, c) == Cardinality({i \in DOMAIN s : s[i].owner = c})

(* While a connection is open, every request executed for it is a task, a  *)
(* queued response or bytes sent or waiting in out_buf_: no answer is lost *)
(* between the threads, and none is given twice.                           *)
AnswersConserved ==
  \A c \in Conns : obj[c] = "live" =>
    RespLen * dispatched[c]
      = Own(wire[c], c) + Own(outBuf[c], c) + RespLen * InFlight(c)

Final ==
  \A c \in Conns : obj[c] = "deleted" =>
    /\ obj'[c] = "deleted"
    /\ UNCHANGED <<wire[c], outBuf[c], dispatched[c]>>

(* Once closed, a connection is never used again: a late answer of a       *)
(* worker is dropped by SendResponseDataList and nothing more is sent.     *)
ClosedIsFinal == [][Final]_vars

(* No connection stays behind: one whose request was executed is           *)
(* eventually closed, by the completed write or before, and one that its   *)
(* peer has reset as well, whatever the state of its request.              *)
DoneIsClosed ==
  \A c \in Conns :
    (dispatched[c] > 0 \/ client[c] = "rst") ~> (obj[c] = "deleted")

(* What the comments of the code claim and the code does not do.           *)

(* http_conn.cc:467: the response of a connection that has been released   *)
(* meanwhile finds no connection.  With OnRead's binding of login tasks to *)
(* "this" it may find the next connection allocated in the same block.     *)
ReleasedFindsNone ==
  \A i \in DOMAIN respList :
    obj[respList[i].from] = "deleted" => respList[i].uuid \notin uuidMap
=============================================================================
