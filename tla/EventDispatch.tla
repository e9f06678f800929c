--------------------------- MODULE EventDispatch ---------------------------
(***************************************************************************)
(* The sockets of the server and the loop that dispatches their events     *)
(* (base/event_dispatch.cc, base_socket.cc, netlib.cc, util.cc), down to   *)
(* what module HttpConn leaves out: the descriptors, which the kernel uses *)
(* again as soon as they are closed, the map from descriptors to           *)
(* CBaseSocket objects, the reference counts of these objects, the accept  *)
(* loop with its backlog, and edge-triggered epoll.                        *)
(*                                                                         *)
(* A connection holds a descriptor as its handle; every call it makes      *)
(* (netlib_recv, netlib_send, netlib_close) looks the descriptor up.  The  *)
(* events of epoll name descriptors too.  Peers connect in the order of    *)
(* their numbers and the n-th CBaseSocket and the n-th CHttpConn are those *)
(* of the n-th connection accepted, so all three are numbers in Conns.     *)
(***************************************************************************)
EXTENDS Integers, Sequences, FiniteSets, FiniteSetsExt

CONSTANTS
  NConn,    \* bound: number of clients that connect in a behaviour
  MaxFd,    \* descriptors left to the process for connections
  MaxSend,  \* bound: segments one client sends
  RespLen   \* segments of a response

ASSUME DispatchAssumption ==
  /\ NConn \in Nat /\ MaxFd \in Nat \ {0}
  /\ MaxSend \in Nat /\ RespLen \in Nat \ {0}

Conns     == 1 .. NConn
Fds       == 1 .. MaxFd
Listening == 0                    \* the descriptor of the listening socket
NoFd      == -1
Nobody    == 0                    \* no peer, no object, no connection
Flags     == {"IN", "OUT", "HUP"} \* EPOLLIN, EPOLLOUT, EPOLLERR | EPOLLHUP

VARIABLES
  (* the peers and the kernel *)
  client,     \* the peer: "none", "open", "fin" or "rst"
  sent,       \* number of segments a peer has sent
  unread,     \* segments of a peer in its socket's receive queue
  full,       \* the send buffer towards a peer has no room
  backlog,    \* the peers that are connected and not accepted
  fdPeer,     \* the descriptor table: whose socket a descriptor is
  ready,      \* descriptors on epoll's edge-triggered ready list
  (* the event loop *)
  phase,      \* "wait", "events" or "loop"
  batch,      \* what epoll_wait returned and is not handled yet
  cur,        \* the descriptor whose events are being handled
  curSock,    \* pSocket
  starved,    \* accept failed for want of a descriptor (history)
  (* the CBaseSocket objects *)
  alloc,      \* number of objects created
  socketMap,  \* g_socket_map
  sockFd,     \* socket_
  refs,       \* ref_count_; the object is deleted when it reaches 0
  callback,   \* callback_data_: the handle of the connection
  (* the CHttpConn objects *)
  httpMap,    \* keys of g_http_conn_map
  connFd,     \* m_sock_handle
  unsent,     \* segments in out_buf_; busy_ is unsent # 0
  asked,      \* connections whose request a worker has
  respList    \* s_response_pdu_list

peerVars == <<client, sent>>
sockVars == <<alloc, socketMap, sockFd, refs, callback>>
connVars == <<httpMap, connFd, unsent>>
workVars == <<asked, respList>>
loopVars == <<phase, batch, cur, curSock, starved>>
vars == <<peerVars, unread, full, backlog, fdPeer, ready, loopVars,
          sockVars, connVars, workVars>>

TypeOK ==
  /\ client \in [Conns -> {"none", "open", "fin", "rst"}]
  /\ sent \in [Conns -> 0 .. MaxSend] /\ unread \in [Conns -> Nat]
  /\ full \in [Conns -> BOOLEAN] /\ backlog \in Seq(Conns)
  /\ fdPeer \in [Fds -> Conns \cup {Nobody}]
  /\ ready \subseteq Fds \cup {Listening}
  /\ phase \in {"wait", "events", "loop"}
  /\ batch \in [Fds \cup {Listening} ->
                  [flags : SUBSET Flags, of : Conns \cup {Nobody}]]
  /\ cur \in Fds \cup {Listening, NoFd}
  /\ curSock \in Conns \cup {Nobody} /\ starved \in BOOLEAN
  /\ alloc \in 0 .. NConn
  /\ socketMap \in [Fds -> Conns \cup {Nobody}]
  /\ sockFd \in [Conns -> Fds \cup {NoFd}] /\ refs \in [Conns -> Int]
  /\ callback \in [Conns -> Conns \cup {Nobody}]
  /\ httpMap \subseteq Conns /\ connFd \in [Conns -> Fds \cup {NoFd}]
  /\ unsent \in [Conns -> Nat]
  /\ asked \subseteq Conns /\ respList \in Seq(Conns)

-----------------------------------------------------------------------------
(* The peers and the kernel.                                               *)

Connected(p) == \E fd \in Fds : fdPeer[fd] = p
Queued(p)    == \E i \in DOMAIN backlog : backlog[i] = p
FdsOf(p)     == {fd \in Fds : fdPeer[fd] = p}

kernelStays == UNCHANGED <<backlog, fdPeer, loopVars, sockVars, connVars,
                           workVars>>

(* A connection is established: an edge on the listening socket. *)
ClientConnect(p) ==
  /\ client[p] = "none"
  /\ \A q \in 1 .. p - 1 : client[q] # "none"
  /\ client' = [client EXCEPT ![p] = "open"]
  /\ backlog' = Append(backlog, p)
  /\ ready' = ready \cup {Listening}
  /\ UNCHANGED <<sent, unread, full, fdPeer, loopVars, sockVars, connVars,
                 workVars>>

(* A segment arrives, before or after the connection is accepted. *)
ClientSend(p) ==
  /\ client[p] = "open" /\ (Queued(p) \/ Connected(p))
  /\ sent[p] < MaxSend
  /\ sent' = [sent EXCEPT ![p] = @ + 1]
  /\ unread' = [unread EXCEPT ![p] = @ + 1]
  /\ ready' = ready \cup FdsOf(p)
  /\ UNCHANGED <<client, full>> /\ kernelStays

(* FIN, or RST. *)
ClientGone(p, how) ==
  /\ how \in {"fin", "rst"}
  /\ client[p] \in {"open", "fin"} \ {how} /\ (Queued(p) \/ Connected(p))
  /\ client' = [client EXCEPT ![p] = how]
  /\ ready' = ready \cup FdsOf(p)
  /\ UNCHANGED <<sent, unread, full>> /\ kernelStays

(* The peer reads what fills the send buffer. *)
ClientDrain(p) ==
  /\ full[p] /\ client[p] \in {"open", "fin"} /\ Connected(p)
  /\ full' = [full EXCEPT ![p] = FALSE]
  /\ ready' = ready \cup FdsOf(p)
  /\ UNCHANGED <<peerVars, unread>> /\ kernelStays

(* What epoll reports of a descriptor on the ready list. *)
EventMask(fd) ==
  IF fd = Listening THEN {f \in {"IN"} : backlog # <<>>}
  ELSE LET p == fdPeer[fd] IN
    {f \in Flags :
      \/ f = "IN"  /\ (unread[p] > 0 \/ client[p] \in {"fin", "rst"})
      \/ f = "OUT" /\ (~full[p] \/ client[p] = "rst")
      \/ f = "HUP" /\ client[p] = "rst"}

(* How many of n segments for the peer p one send() takes; an error and a  *)
(* send that would block count as 0 in the callers.                        *)
KernelTakes(p, n) ==
  IF p = Nobody THEN {0}
  ELSE IF client[p] = "rst" \/ full[p] THEN {0} ELSE 1 .. n

-----------------------------------------------------------------------------
(* CRefObject, g_socket_map and netlib.  Variants named Operator_What are  *)
(* faults: they are part of no specification, and show that the properties *)
(* below would notice them.                                                *)

AddRef_Lost(r, o) == r

AddRef(r, o) == [r EXCEPT ![o] = @ + 1]

ReleaseRef(r, o) == [r EXCEPT ![o] = @ - 1]

(* hash_map::insert keeps the entry that is there. *)
AddBaseSocket(m, fd, o) == IF m[fd] = Nobody THEN [m EXCEPT ![fd] = o] ELSE m

RemoveBaseSocket_Kept(m, fd) == m

RemoveBaseSocket(m, fd) == [m EXCEPT ![fd] = Nobody]

(* The object that is found; its finder then holds a reference to it. *)
FindBaseSocket(fd) == socketMap[fd]

(* netlib_option, with which OnConnect makes the connection n the callback *)
(* of the object that the map m has for the descriptor.                    *)
SetCallback(m, fd, n) == callback' = [callback EXCEPT ![m[fd]] = n]

(* CBaseSocket::Close: the socket leaves epoll and the map, its descriptor *)
(* is free, and the reference of the map is released.                      *)
CloseSocket(o) ==
  /\ ready' = ready \ {sockFd[o]}
  /\ socketMap' = RemoveBaseSocket(socketMap, sockFd[o])
  /\ fdPeer' = [fdPeer EXCEPT ![sockFd[o]] = Nobody]

KeepSocket == UNCHANGED <<refs, socketMap, fdPeer, ready>>

(* The socket is found, closed and released. *)
netlib_close(fd) ==
  LET o == FindBaseSocket(fd) IN
  \/ o = Nobody /\ KeepSocket
  \/ /\ o # Nobody
     /\ CloseSocket(o)
     /\ refs' = ReleaseRef(ReleaseRef(AddRef(refs, o), o), o)

(* The peer that netlib_recv and netlib_send of the handle fd reach.  Both *)
(* take a reference and release it before they return.                     *)
Reach(fd) ==
  LET o == FindBaseSocket(fd) IN IF o = Nobody THEN Nobody ELSE fdPeer[sockFd[o]]

-----------------------------------------------------------------------------
(* CHttpConn, as far as its socket is concerned.                           *)

(* CHttpConn::Close. *)
CloseConn(h) ==
  /\ httpMap' = httpMap \ {h}
  /\ unsent' = [unsent EXCEPT ![h] = 0]
  /\ netlib_close(connFd[h])

(* CHttpConn::Send of n segments, and OnWrite of the n that are unsent:    *)
(* what the kernel does not take waits for the socket to become writable,  *)
(* and a complete write closes the connection.                             *)
Write(h, n) ==
  LET p == Reach(connFd[h]) IN
  \E k \in KernelTakes(p, n) :
    /\ full' = IF p = Nobody THEN full ELSE [full EXCEPT ![p] = k < n]
    /\ \/ /\ k < n
          /\ unsent' = [unsent EXCEPT ![h] = n - k]
          /\ UNCHANGED httpMap /\ KeepSocket
       \/ k = n /\ CloseConn(h)

Send(h) ==
  \/ /\ unsent[h] # 0
     /\ unsent' = [unsent EXCEPT ![h] = @ + RespLen]
     /\ UNCHANGED <<httpMap, full>> /\ KeepSocket
  \/ unsent[h] = 0 /\ Write(h, RespLen)

(* The loop of netlib_recv ends when there is nothing left to read. *)
RecvAll(p) == [unread EXCEPT ![p] = 0]

(* CHttpConn::OnRead: the request is incomplete, refused, executed here or *)
(* given to a worker (module HttpRequest says which).                      *)
OnRead(h) ==
  LET p == Reach(connFd[h]) IN
  /\ unread' = IF p = Nobody THEN unread ELSE RecvAll(p)
  /\ \/ UNCHANGED <<httpMap, unsent, full, asked>> /\ KeepSocket
     \/ CloseConn(h) /\ UNCHANGED <<full, asked>>
     \/ Send(h) /\ UNCHANGED asked
     \/ /\ h \notin asked
        /\ asked' = asked \cup {h}
        /\ UNCHANGED <<httpMap, unsent, full>> /\ KeepSocket

-----------------------------------------------------------------------------
(* The event loop.                                                         *)

NoEvents == [flags |-> {}, of |-> Nobody]

EpollWait ==
  /\ phase = "wait"
  /\ batch' = [fd \in Fds \cup {Listening} |->
                 IF fd \notin ready \/ EventMask(fd) = {} THEN NoEvents
                 ELSE [flags |-> EventMask(fd),
                       of |-> IF fd = Listening THEN Nobody ELSE fdPeer[fd]]]
  /\ ready' = {}
  /\ phase' = "events"
  /\ UNCHANGED <<peerVars, unread, full, backlog, fdPeer, cur, curSock,
                 starved, sockVars, connVars, workVars>>

handlerStays == UNCHANGED <<peerVars, unread, full, backlog, fdPeer, ready,
                            connVars, workVars>>

(* The next descriptor of the batch, and FindBaseSocket.  The object of    *)
(* the listening socket is never closed: its references are left out.      *)
TakeEvents(fd) ==
  /\ phase = "events" /\ cur = NoFd
  /\ batch[fd].flags # {}
  /\ \/ /\ fd = Listening
        /\ cur' = fd
        /\ UNCHANGED <<batch, curSock, refs>>
     \/ /\ fd # Listening /\ FindBaseSocket(fd) # Nobody
        /\ cur' = fd /\ curSock' = FindBaseSocket(fd)
        /\ refs' = AddRef(refs, FindBaseSocket(fd))
        /\ UNCHANGED batch
     \/ /\ fd # Listening /\ FindBaseSocket(fd) = Nobody     \* continue
        /\ batch' = [batch EXCEPT ![fd] = NoEvents]
        /\ UNCHANGED <<cur, curSock, refs>>
  /\ UNCHANGED <<phase, starved, alloc, socketMap, sockFd, callback>>
  /\ handlerStays

(* The handlers of one descriptor run in this order. *)
Handle(f) ==
  /\ phase = "events" /\ curSock # Nobody
  /\ f \in batch[cur].flags
  /\ f = "OUT" => "IN" \notin batch[cur].flags
  /\ f = "HUP" => batch[cur].flags = {"HUP"}
  /\ batch' = [batch EXCEPT ![cur].flags = @ \ {f}]
  /\ UNCHANGED <<peerVars, backlog, phase, cur, curSock, starved, alloc,
                 sockFd, callback, connFd, respList>>

nothingDone == UNCHANGED <<unread, full, httpMap, unsent, asked>> /\ KeepSocket

(* CBaseSocket::OnRead of pSocket: FIONREAD fails on a descriptor that was *)
(* closed, and says 0 when the peer has closed.                            *)
ReadEvent ==
  /\ Handle("IN")
  /\ LET h == callback[curSock]
         p == fdPeer[sockFd[curSock]] IN
       \/ h \notin httpMap /\ nothingDone
       \/ /\ h \in httpMap /\ (p = Nobody \/ unread[p] = 0)
          /\ CloseConn(h) /\ UNCHANGED <<unread, full, asked>>
       \/ h \in httpMap /\ p # Nobody /\ unread[p] > 0 /\ OnRead(h)

WriteEvent ==
  /\ Handle("OUT")
  /\ LET h == callback[curSock] IN
       \/ (h \notin httpMap \/ unsent[h] = 0) /\ nothingDone
       \/ /\ h \in httpMap /\ unsent[h] # 0
          /\ Write(h, unsent[h]) /\ UNCHANGED <<unread, asked>>

CloseEvent ==
  /\ Handle("HUP")
  /\ LET h == callback[curSock] IN
       \/ h \notin httpMap /\ nothingDone
       \/ h \in httpMap /\ CloseConn(h) /\ UNCHANGED <<unread, full, asked>>

(* ReleaseRef of pSocket; then the next descriptor. *)
EventsOfOneDone ==
  /\ curSock # Nobody /\ batch[cur].flags = {}
  /\ refs' = ReleaseRef(refs, curSock)
  /\ cur' = NoFd /\ curSock' = Nobody
  /\ UNCHANGED <<phase, batch, starved, alloc, socketMap, sockFd, callback>>
  /\ handlerStays

FreeFds == {fd \in Fds : fdPeer[fd] = Nobody}

(* One turn of the loop of _AcceptNewSocket: the kernel gives the lowest   *)
(* free descriptor; the new socket enters the map and epoll, which reports *)
(* it at once, as it can be written; http_callback creates a CHttpConn,    *)
(* and its OnConnect sets the callback through the descriptor.             *)
AcceptOne ==
  /\ cur = Listening /\ backlog # <<>> /\ FreeFds # {}
  /\ LET fd == Min(FreeFds)
         n  == alloc + 1
         m  == AddBaseSocket(socketMap, fd, n) IN
       /\ backlog' = Tail(backlog)
       /\ fdPeer' = [fdPeer EXCEPT ![fd] = Head(backlog)]
       /\ ready' = ready \cup {fd}
       /\ alloc' = n
       /\ socketMap' = m
       /\ sockFd' = [sockFd EXCEPT ![n] = fd]
       /\ refs' = [refs EXCEPT ![n] = 1]
       /\ httpMap' = httpMap \cup {n}
       /\ connFd' = [connFd EXCEPT ![n] = fd]
       /\ SetCallback(m, fd, n)
  /\ UNCHANGED <<peerVars, unread, full, loopVars, unsent, workVars>>

AcceptEnds_Early == TRUE

(* accept() fails: no connection waits, or no descriptor is free (EMFILE). *)
AcceptEnds == backlog = <<>> \/ FreeFds = {}

AcceptDone ==
  /\ cur = Listening /\ AcceptEnds
  /\ starved' = (backlog # <<>> /\ FreeFds = {})
  /\ batch' = [batch EXCEPT ![Listening] = NoEvents]
  /\ cur' = NoFd
  /\ UNCHANGED <<phase, curSock, sockVars>>
  /\ handlerStays

BatchDone ==
  /\ phase = "events" /\ cur = NoFd
  /\ \A fd \in DOMAIN batch : batch[fd].flags = {}
  /\ phase' = "loop"
  /\ UNCHANGED <<batch, cur, curSock, starved, sockVars>>
  /\ handlerStays

MaySend_Anytime == phase \in {"events", "loop"} /\ cur = NoFd

(* The responses are sent by the callback of the loop, between batches. *)
MaySend == phase = "loop"

(* SendResponseDataList sends one response. *)
SendResponse ==
  /\ MaySend
  /\ respList # <<>>
  /\ respList' = Tail(respList)
  /\ LET h == Head(respList) IN
       \/ h \notin httpMap /\ UNCHANGED <<httpMap, unsent, full>> /\ KeepSocket
       \/ h \in httpMap /\ Send(h)
  /\ UNCHANGED <<peerVars, unread, backlog, loopVars, alloc, sockFd,
                 callback, connFd, asked>>

LoopDone ==
  /\ phase = "loop" /\ respList = <<>>
  /\ phase' = "wait"
  /\ UNCHANGED <<batch, cur, curSock, starved, sockVars>>
  /\ handlerStays

(* A worker queues its response. *)
WorkerAnswers(h) ==
  /\ h \in asked
  /\ asked' = asked \ {h}
  /\ respList' = Append(respList, h)
  /\ UNCHANGED <<peerVars, unread, full, backlog, fdPeer, ready, loopVars,
                 sockVars, connVars>>

-----------------------------------------------------------------------------
(* netlib_listen has been called; nobody has connected. *)
Init ==
  /\ client = [c \in Conns |-> "none"]
  /\ sent = [c \in Conns |-> 0] /\ unread = [c \in Conns |-> 0]
  /\ full = [c \in Conns |-> FALSE]
  /\ backlog = <<>>
  /\ fdPeer = [fd \in Fds |-> Nobody]
  /\ ready = {}
  /\ phase = "wait"
  /\ batch = [fd \in Fds \cup {Listening} |-> NoEvents]
  /\ cur = NoFd /\ curSock = Nobody /\ starved = FALSE
  /\ alloc = 0
  /\ socketMap = [fd \in Fds |-> Nobody]
  /\ sockFd = [c \in Conns |-> NoFd] /\ refs = [c \in Conns |-> 0]
  /\ callback = [c \in Conns |-> Nobody]
  /\ httpMap = {} /\ connFd = [c \in Conns |-> NoFd]
  /\ unsent = [c \in Conns |-> 0]
  /\ asked = {} /\ respList = <<>>

Next ==
  \/ \E p \in Conns :
       \/ ClientConnect(p) \/ ClientSend(p) \/ ClientDrain(p)
       \/ \E how \in {"fin", "rst"} : ClientGone(p, how)
       \/ WorkerAnswers(p)
  \/ EpollWait \/ BatchDone \/ SendResponse \/ LoopDone
  \/ \E fd \in Fds \cup {Listening} : TakeEvents(fd)
  \/ ReadEvent \/ WriteEvent \/ CloseEvent \/ EventsOfOneDone
  \/ AcceptOne \/ AcceptDone

Spec == Init /\ [][Next]_vars

-----------------------------------------------------------------------------
(* Every CBaseSocket is referenced exactly by its entry of g_socket_map    *)
(* and by the loop while it handles its events: it is deleted when the     *)
(* last of the two is gone, not before and not never (CRefObject).         *)
RefsExact ==
  \A o \in 1 .. alloc :
    refs[o] = (IF \E fd \in Fds : socketMap[fd] = o THEN 1 ELSE 0)
                + (IF curSock = o THEN 1 ELSE 0)

(* Although descriptors are used again, the handle of an open connection   *)
(* leads to the socket it was accepted on, to its own peer, and events of  *)
(* that socket lead back to the connection (AddBaseSocket, OnConnect).     *)
OwnSocket ==
  \A h \in httpMap :
    LET o == socketMap[connFd[h]] IN
    /\ o = h /\ callback[o] = h
    /\ sockFd[o] = connFd[h] /\ fdPeer[sockFd[o]] = h

(* An event that epoll_wait returned is not handled for another connection *)
(* than the one it is about, whatever the handlers of the same batch have  *)
(* closed and accepted on the same descriptor before.                      *)
EventsAreOwn ==
  \A fd \in Fds \ {cur} :
    batch[fd].flags # {} => fdPeer[fd] = batch[fd].of

(* What happened on a descriptor is still on the way to its handler. *)
Coming(fd, f) ==
  fd \in ready \/ (phase = "events" /\ f \in batch[fd].flags)

(* epoll reports an edge once: still nothing is forgotten.  While data are *)
(* unread, a peer is reset, unsent data have room again, or a connection   *)
(* waits to be accepted, the event that will lead to it is on its way.     *)
(* The exception is an accept that failed for want of a descriptor.        *)
EdgeKept ==
  /\ \A h \in httpMap :
       LET fd == connFd[h] IN
       /\ unread[h] > 0 => Coming(fd, "IN")
       /\ client[h] = "rst" => Coming(fd, "HUP")
       /\ unsent[h] # 0 /\ ~full[h] => Coming(fd, "OUT")
  /\ backlog # <<>> => Coming(Listening, "IN") \/ starved
=============================================================================
