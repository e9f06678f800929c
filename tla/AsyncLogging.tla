---------------------------- MODULE AsyncLogging ----------------------------
(***************************************************************************)
(* The logger of the server, log/async_logging.cc: any thread appends      *)
(* lines to a memory buffer under a mutex, one writer thread takes the     *)
(* full buffers (or, after a time limit, the current one) and writes them  *)
(* to the file.  Two spare buffers travel between the sides.               *)
(*                                                                         *)
(* A step is a critical section of mutex_, or what the writer does between *)
(* two of them.  A wait is two steps, since stop() sets running_ and       *)
(* notifies without the mutex: the test of the predicate, after which the  *)
(* mutex is still held ("tested"), and the wait itself ("asleep").         *)
(*                                                                         *)
(* Lines are numbered as they are appended; a buffer is its text and the   *)
(* space the text takes.  Every assertion is compiled in (the build does   *)
(* not define NDEBUG): the one at the start of the writer is modelled as   *)
(* an abort, the others are the invariant Ready.                           *)
(***************************************************************************)
EXTENDS Integers, Sequences

CONSTANTS
  Lengths,    \* the lengths of the lines that are logged
  Size,       \* kLargeBuffer
  MaxBehind,  \* the buffers the writer takes without dropping (25)
  MaxLines,   \* bound: the lines that are logged
  Null        \* a unique_ptr that has been moved from

Buffers == [text : Seq(Nat), len : Nat]

(* A line is at most kSmallBuffer long, which is less than kLargeBuffer.   *)
ASSUME AsyncLoggingAssumption ==
  /\ Lengths \subseteq Nat
  /\ Size \in Nat
  /\ MaxBehind \in Nat /\ MaxBehind >= 2
  /\ MaxLines \in Nat
  /\ \A k \in Lengths : k < Size
  /\ Null \notin Buffers

VARIABLES
  current,   \* currentBuffer_
  next,      \* nextBuffer_
  buffers,   \* buffers_
  spare1,    \* newBuffer1
  spare2,    \* newBuffer2
  toWrite,   \* buffersToWrite
  running,   \* running_
  at,        \* where the writer thread is
  owner,     \* where the thread that starts and stops the logger is
  appended,  \* how many lines have been appended
  written,   \* how many buffers of toWrite are in the file
  file,      \* the lines in the file, in order
  dropped    \* the lines that were thrown away

memory == <<current, next, buffers>>
local  == <<spare1, spare2, toWrite, written>>
output == <<file, dropped>>
vars   == <<memory, local, running, at, owner, appended, output>>

Empty    == [text |-> <<>>, len |-> 0]
Avail(b) == Size - b.len

(* FixedBuffer::append: a line that does not fit is ignored. *)
Put(b, n, k) ==
  IF Avail(b) > k THEN [text |-> Append(b.text, n), len |-> b.len + k] ELSE b

LinesOf(seq) == {seq[i] : i \in DOMAIN seq}

TypeOK ==
  /\ current \in Buffers
  /\ next \in Buffers \cup {Null}
  /\ buffers \in Seq(Buffers)
  /\ spare1 \in Buffers \cup {Null}
  /\ spare2 \in Buffers \cup {Null}
  /\ toWrite \in Seq(Buffers)
  /\ running \in BOOLEAN
  /\ at \in {"none", "born", "top", "lock", "tested", "asleep", "woken",
             "trim", "write", "end", "aborted"}
  /\ owner \in {"new", "up", "stopping", "notified", "joined"}
  /\ appended \in Nat
  /\ written \in Nat
  /\ file \in Seq(Nat)
  /\ dropped \subseteq Nat

Init ==
  /\ current = Empty
  /\ next = Empty
  /\ buffers = <<>>
  /\ spare1 = Null
  /\ spare2 = Null
  /\ toWrite = <<>>
  /\ running = FALSE
  /\ at = "none"
  /\ owner = "new"
  /\ appended = 0
  /\ written = 0
  /\ file = <<>>
  /\ dropped = {}

-----------------------------------------------------------------------------
(* The threads that log.  Variants named Operator_What are faults.         *)

(* cond_ has one waiter, the writer. *)
Notify == at' = IF at = "asleep" THEN "woken" ELSE at

(* The current buffer has too little room for a line of length k. *)
Full(k) == ~ (Avail(current) > k)

append(k) ==
  /\ at # "tested"  \* the mutex is free
  /\ appended < MaxLines
  /\ appended' = appended + 1
  /\ \/ /\ ~ Full(k)
        /\ current' = Put(current, appended + 1, k)
        /\ UNCHANGED <<next, buffers, at>>
     \/ /\ Full(k)
        /\ buffers' = Append(buffers, current)
        /\ current' = Put(IF next = Null THEN Empty ELSE next, appended + 1, k)
        /\ next' = Null
        /\ Notify
  /\ UNCHANGED <<local, running, owner, output>>

-----------------------------------------------------------------------------
(* The owner, which never starts the logger twice. *)

start ==
  /\ owner = "new"
  /\ running' = TRUE
  /\ at' = "born"
  /\ owner' = "up"
  /\ UNCHANGED <<memory, local, appended, output>>

stop ==
  /\ owner = "up"
  /\ running' = FALSE
  /\ owner' = "stopping"
  /\ UNCHANGED <<memory, local, at, appended, output>>

(* notify_all, called without the mutex. *)
StopNotify ==
  /\ owner = "stopping"
  /\ Notify
  /\ owner' = "notified"
  /\ UNCHANGED <<memory, local, running, appended, output>>

Join ==
  /\ owner = "notified"
  /\ at = "end"
  /\ owner' = "joined"
  /\ UNCHANGED <<memory, local, running, at, appended, output>>

-----------------------------------------------------------------------------
(* The writer thread. *)

(* The assertion that running_ is set, and the first two spare buffers. *)
Begin ==
  /\ at = "born"
  /\ at' = IF running THEN "top" ELSE "aborted"
  /\ spare1' = IF running THEN Empty ELSE spare1
  /\ spare2' = IF running THEN Empty ELSE spare2
  /\ UNCHANGED <<memory, toWrite, written, running, owner, appended, output>>

Top ==
  /\ at = "top"
  /\ at' = IF running THEN "lock" ELSE "end"
  /\ UNCHANGED <<memory, local, running, owner, appended, output>>

Swap_NextLost ==
  /\ toWrite' = Append(buffers, current)
  /\ buffers' = toWrite
  /\ current' = spare1
  /\ spare1' = Null
  /\ next' = spare2
  /\ spare2' = Null
  /\ at' = "trim"
  /\ UNCHANGED written

(* Everything that is logged so far becomes the writer's. *)
Swap ==
  /\ toWrite' = Append(buffers, current)
  /\ buffers' = toWrite
  /\ current' = spare1
  /\ spare1' = Null
  /\ next' = IF next = Null THEN spare2 ELSE next
  /\ spare2' = IF next = Null THEN Null ELSE spare2
  /\ at' = "trim"
  /\ UNCHANGED written

WorkOrStop == buffers # <<>> \/ ~ running

(* The writer takes the mutex. *)
Lock ==
  /\ at = "lock"
  /\ \/ WorkOrStop /\ Swap
     \/ /\ ~ WorkOrStop
        /\ at' = "tested"
        /\ UNCHANGED <<memory, local>>
  /\ UNCHANGED <<running, owner, appended, output>>

(* It waits, and lets go of the mutex. *)
Sleep ==
  /\ at = "tested"
  /\ at' = "asleep"
  /\ UNCHANGED <<memory, local, running, owner, appended, output>>

(* It has been notified, takes the mutex and tests the predicate again. *)
Wake ==
  /\ at = "woken"
  /\ \/ WorkOrStop /\ Swap
     \/ /\ ~ WorkOrStop
        /\ at' = "tested"
        /\ UNCHANGED <<memory, local>>
  /\ UNCHANGED <<running, owner, appended, output>>

Spurious ==
  /\ at = "asleep"
  /\ at' = "woken"
  /\ UNCHANGED <<memory, local, running, owner, appended, output>>

TimeOut_Again ==
  /\ at \in {"asleep", "woken"}
  /\ WorkOrStop
  /\ Swap
  /\ UNCHANGED <<running, owner, appended, output>>

(* flushInterval_ is over: the current buffer is taken as it is. *)
TimeOut ==
  /\ at \in {"asleep", "woken"}
  /\ Swap
  /\ UNCHANGED <<running, owner, appended, output>>

(* Only the first two buffers are kept when the writer is too far behind. *)
Trim ==
  /\ at = "trim"
  /\ at' = "write"
  /\ \/ /\ Len(toWrite) > MaxBehind
        /\ toWrite' = SubSeq(toWrite, 1, 2)
        /\ dropped' = dropped \cup
             UNION {LinesOf(toWrite[i].text) : i \in 3 .. Len(toWrite)}
     \/ /\ Len(toWrite) <= MaxBehind
        /\ UNCHANGED <<toWrite, dropped>>
  /\ UNCHANGED <<memory, spare1, spare2, written, running, owner, appended, file>>

(* The next buffer is written. *)
Write ==
  /\ at = "write"
  /\ written < Len(toWrite)
  /\ file' = file \o toWrite[written + 1].text
  /\ written' = written + 1
  /\ UNCHANGED <<memory, spare1, spare2, toWrite, running, at, owner, appended, dropped>>

Reset_Not(b) == b

(* reset() sets the write position back; the text is overwritten later. *)
Reset(b) == Empty

(* resize(2): the written buffers that can be used again. *)
Reusable == IF Len(toWrite) > 2 THEN SubSeq(toWrite, 1, 2) ELSE toWrite

(* The last reusable buffer for a missing spare1, the one that is then the *)
(* last for a missing spare2.                                              *)
Refill1 == IF spare1 = Null THEN Reset(Reusable[Len(Reusable)]) ELSE spare1
Refill2 ==
  IF spare2 # Null THEN spare2
  ELSE LET left == Len(Reusable) - (IF spare1 = Null THEN 1 ELSE 0)
       IN  Reset(Reusable[left])

(* All buffers are written, and two of them become spare ones again. *)
Refill ==
  /\ at = "write"
  /\ written = Len(toWrite)
  /\ spare1' = Refill1
  /\ spare2' = Refill2
  /\ toWrite' = <<>>
  /\ written' = 0
  /\ at' = "top"
  /\ UNCHANGED <<memory, running, owner, appended, output>>

-----------------------------------------------------------------------------
Writer == Begin \/ Top \/ Lock \/ Sleep \/ Wake \/ TimeOut
          \/ Trim \/ Write \/ Refill

Next ==
  \/ \E k \in Lengths : append(k)
  \/ start \/ stop \/ StopNotify \/ Join
  \/ Writer \/ Spurious

Spec == Init /\ [][Next]_vars

-----------------------------------------------------------------------------
(* The assertions of threadFunc (67-69, 105, 138, 145): at the head of the *)
(* loop both spare buffers are there, and empty; after the swap there is   *)
(* something to write, and a buffer to reuse for each one that is missing. *)
Ready ==
  /\ at \in {"top", "lock", "tested", "asleep", "woken"} =>
       /\ spare1 = Empty
       /\ spare2 = Empty
       /\ toWrite = <<>>
  /\ at \in {"trim", "write"} =>
       Len(toWrite) >= (IF spare1 = Null THEN 1 ELSE 0)
                       + (IF spare2 = Null THEN 1 ELSE 0)

(* The texts, in order: of the file, of the buffers the writer has not     *)
(* written yet, of the queue, and of the current buffer.                   *)
Unwritten == SubSeq(toWrite, written + 1, Len(toWrite))
InMemory  == Unwritten \o buffers \o <<current>>
Texts     == <<file>> \o [i \in DOMAIN InMemory |-> InMemory[i].text]

(* The lines that reach the file are in the order in which they were       *)
(* appended, whoever appended them, and none twice; what is still in       *)
(* memory follows in order.                                                *)
InOrder ==
  \A i, j \in DOMAIN Texts : \A p \in DOMAIN Texts[i], q \in DOMAIN Texts[j] :
    i < j \/ (i = j /\ p < q) => Texts[i][p] < Texts[j][q]

(* Every line is in the file or in memory, unless it was thrown away       *)
(* because the writer was more than MaxBehind buffers behind.              *)
NoneLost == dropped \cup UNION {LinesOf(Texts[i]) : i \in DOMAIN Texts} = 1 .. appended

(* While the logger runs, a line that is logged reaches the file or is     *)
(* thrown away, even if nobody fills a buffer any more: the time limit of  *)
(* the wait makes the writer take the current buffer.                      *)
LinesEnd ==
  \A n \in 1 .. MaxLines :
    appended >= n ~> \/ n \in LinesOf(file) \cup dropped
                     \/ ~ running

(* stop() returns.  It notifies without the mutex, so the wake-up can be   *)
(* lost between the test and the wait; the time limit makes up for it.     *)
StopReturns == owner = "stopping" ~> owner = "joined" \/ at = "aborted"

(* Both: the writer takes what is there and ends when it is told to.       *)
WriterServes == LinesEnd /\ StopReturns
=============================================================================
