------------------------------ MODULE CacheConn -----------------------------
(***************************************************************************)
(* A connection of the cache pool (redis/cache_pool.cpp) on a hiredis      *)
(* context (redis/hiredis.c) and the redis server behind it.  A call of    *)
(* any operation connects first when there is no context, sends a command, *)
(* waits for the reply and reads it.  Bytes are written and read in        *)
(* pieces; the server may close the connection, the network may lose it,   *)
(* a connect may fail and redis may answer any command with an error.      *)
(*                                                                         *)
(* A connection is used by one thread at a time (ConnPool).  The server is *)
(* external: it runs the commands it receives whole, in order, and leaves  *)
(* a mark of the call in what it says.                                     *)
(***************************************************************************)
EXTENDS RedisReader

CONSTANTS
  Ops,           \* the operations called in the instance
  Password,      \* whether there is a password
  MaxCalls,      \* bound: the calls made
  MaxFaults,     \* bound: the faults met
  NULL           \* a context that is not there

Calls == 1 .. MaxCalls
Stamp(n) == n + 1
ASSUME CacheAssumption ==
  /\ MaxCalls \in 1 .. 8 /\ MaxFaults \in Nat /\ Password \in BOOLEAN
  /\ NULL \notin [err : BOOLEAN, obuf : Seq(Seq(STRING))]

Digit(n) == CHOOSE c \in Digits : DigitTable[c] = n

(* What redis says when all is well, and when it is not. *)
OK == <<"O", "K">>
ERR == <<"E">>

--------------------------------------------------------------------------------
(* The operations: the format of the command, how many arguments it takes, *)
(* the kind of reply redis gives, what is done with a missing reply (the   *)
(* context is freed, kept, or the reply is used all the same) and how the  *)
(* reply is read.                                                          *)

Op(format, args, gives, lost, reads) ==
  [format |-> Chars(format), args |-> args, gives |-> gives, lost |-> lost, reads |-> reads]

KeyOps ==
  [Get |-> Op("GET %s", 1, "bulk", "free", "string"),
   Set |-> Op("SET %s %s", 2, "status", "free", "text"),
   SetEx |-> Op("SETEX %s %d %s", 3, "status", "free", "text"),
   MGet |-> Op("MGET a b", 0, "array", "free", "strings"),
   IsExists |-> Op("EXISTS %s", 1, "integer", "free", "flag"),
   Del |-> Op("DEL %s", 1, "integer", "free", "integer")]

HashOps ==
  [Hdel |-> Op("HDEL %s %s", 2, "integer", "free", "integer"),
   Hget |-> Op("HGET %s %s", 2, "bulk", "free", "string"),
   HgetInto |-> Op("hget %s %s", 2, "bulk", "keep", "string or -1"),
   HgetAll |-> Op("HGETALL %s", 1, "array", "free", "pairs"),
   Hset |-> Op("HSET %s %s %s", 3, "integer", "free", "integer")]

NumberOps ==
  [HincrBy |-> Op("HINCRBY %s %s %ld", 3, "integer", "free", "integer"),
   IncrBy |-> Op("INCRBY %s %ld", 2, "integer", "free", "integer"),
   Hmset |-> Op("HMSET %s %s %s", 3, "status", "free", "text"),
   Hmget |-> Op("HMGET %s %s %s", 3, "array", "free", "texts")]

ListOps ==
  [Incr |-> Op("INCR %s", 1, "integer", "free", "value"),
   Decr |-> Op("DECR %s", 1, "integer", "free", "value"),
   Lpush |-> Op("LPUSH %s %s", 2, "integer", "free", "integer"),
   Rpush |-> Op("RPUSH %s %s", 2, "integer", "free", "integer"),
   Llen |-> Op("LLEN %s", 1, "integer", "free", "integer"),
   Lrange |-> Op("LRANGE %s %d %d", 3, "array", "free", "texts")]

ZsetOps ==
  [ZsetExit |-> Op("zlexcount %s [%s [%s", 3, "integer", "use", "integer or -1"),
   ZsetAdd |-> Op("ZADD %s %ld %s", 3, "integer", "use", "0 or -1"),
   ZsetZrem |-> Op("ZREM %s %s", 2, "integer", "use", "0 or -1"),
   ZsetIncr |-> Op("ZINCRBY %s 1 %s", 2, "bulk", "use", "OK or -1"),
   ZsetZcard |-> Op("ZCARD %s", 1, "integer", "use", "integer or -1")]

RangeOps ==
  [ZsetZrevrange |-> Op("ZREVRANGE %s %d %d", 3, "array", "use", "range"),
   ZsetGetScore |-> Op("ZSCORE %s %s", 2, "bulk", "use", "score"),
   FlushDb |-> Op("FLUSHDB", 0, "status", "free", "OK")]

AllOps == KeyOps @@ HashOps @@ NumberOps @@ ListOps @@ ZsetOps @@ RangeOps
ASSUME OpsAssumption == Ops \subseteq DOMAIN AllOps

(* What the tables are made of. *)
ASSUME TableAssumption ==
  \A o \in DOMAIN AllOps :
    /\ AllOps[o].gives \in {"integer", "bulk", "status", "array"}
    /\ AllOps[o].lost \in {"free", "keep", "use"}
    /\ AllOps[o].reads \in {"integer", "flag", "value", "text", "texts", "string",
                            "string or -1", "strings", "pairs", "integer or -1",
                            "0 or -1", "OK or -1", "range", "score", "OK"}

(* The words of a command: how many there are, and each of them. *)
Words(format, args) ==
  LET argv == redisvFormatCommand(format, args).argv
  IN <<<<"*", Digit(Len(argv))>>>> \o argv

Arguments(n) == [i \in 1 .. 3 |-> <<Digit(Stamp(n))>>]

CommandOf ==
  [o \in DOMAIN AllOps |-> [n \in Calls |-> Words(AllOps[o].format, Arguments(n))]]
AuthCommand == Words(Chars("AUTH %s"), <<Chars("p")>>)
SelectCommand == Words(Chars("SELECT %d"), <<Chars("0")>>)

(* What the formatting makes of these formats: as many words as the digit  *)
(* says that goes before them, and no operation has the command of another *)
(* step of the connection.                                                 *)
ASSUME CommandAssumption ==
  LET whole(c) == /\ c \in Seq(Seq(STRING)) /\ Len(c) \in 2 .. 10
                  /\ c[1] = <<"*", Digit(Len(c) - 1)>>
  IN /\ \A o \in DOMAIN AllOps, n \in 1 .. 8 :
          LET c == Words(AllOps[o].format, Arguments(n))
          IN whole(c) /\ c \notin {AuthCommand, SelectCommand}
     /\ whole(AuthCommand) /\ whole(SelectCommand) /\ AuthCommand # SelectCommand

atoi(text) == FoldLeft(LAMBDA v, c : 10 * v + DigitTable[c], 0, text)

(* What a call returns: a number, which stands for a bool too, and texts.  *)
Reads(how, reply) ==
  LET root == Head(reply)
      texts == {reply[i].str : i \in 2 .. Len(reply)}
      strings == {reply[i].str : i \in {j \in 2 .. Len(reply) : reply[j].type = "string"}}
      is(type) == root.type = type
      gives(ret, out) == [ret |-> ret, out |-> out]
  IN CASE how = "integer" -> gives(root.integer, {})
       [] how = "flag" -> gives(IF root.integer = 0 THEN 0 ELSE 1, {})
       [] how = "value" -> gives(root.integer, {})
       [] how = "text" -> gives(0, {root.str})
       [] how = "string" -> gives(0, IF is("string") THEN {root.str} ELSE {})
       [] how = "string or -1" -> IF is("string") THEN gives(0, {root.str}) ELSE gives(-1, {})
       [] how = "strings" -> gives(1, IF is("array") THEN strings ELSE {})
       [] how = "texts" -> gives(1, IF is("array") THEN texts ELSE {})
       [] how = "pairs" -> gives(1, IF is("array") /\ root.elements % 2 = 0 THEN texts ELSE {})
       [] how = "integer or -1" -> gives(IF is("integer") THEN root.integer ELSE -1, {})
       [] how = "0 or -1" -> gives(IF is("integer") THEN 0 ELSE -1, {})
       [] how = "OK or -1" -> gives(IF root.str = OK THEN 0 ELSE -1, {})
       [] how = "range" -> IF is("array") THEN gives(0, texts) ELSE gives(-1, {})
       [] how = "score" -> gives(IF is("string") THEN atoi(root.str) ELSE -1, {})
       [] how = "OK" -> gives(IF is("string") /\ StartsWith(root.str, OK)
                              THEN 1 ELSE 0, {})

--------------------------------------------------------------------------------
VARIABLES
  context,   \* context_: the error and the unwritten words, NULL for none
  reader,    \* context_->reader, new as long as there is no context
  recent,    \* less than a second has passed since last_connect_time_
  call,      \* the call in progress: its number, operation and stage
  answer,    \* what the last call has returned
  link,      \* the connection as the server and the network have it
  late,      \* the calls whose commands a lost connection has left in redis
  runs,      \* how often redis has run the command of each call
  ended,     \* what has become of each call: "open", "failed" or "told"
  faults,    \* the faults met
  struck     \* the calls that have failed, but see FewFailures

client == <<context, reader, recent, call, answer>>
vars == <<client, link, late, runs, ended, faults, struck>>

NoLink == [state |-> "none", trusted |-> FALSE, inbox |-> <<>>, out |-> <<>>]
NewLink == [NoLink EXCEPT !.state = "up", !.trusted = ~Password]
NoAnswer == [ret |-> 0, out |-> {}]

Init ==
  /\ context = NULL /\ reader = redisReaderCreate /\ recent = FALSE
  /\ call = [n |-> 0, op |-> "Get", stage |-> "idle"] /\ answer = NoAnswer
  /\ link = NoLink /\ late = {} /\ faults = 0 /\ struck = 0
  /\ runs = [n \in Calls |-> 0]
  /\ ended = [n \in Calls |-> "open"]

At(stage) == call.stage = stage
InCommand == At("auth") \/ At("select") \/ At("run")
ThisOp == AllOps[call.op]
OnNull == IF At("run") THEN ThisOp.lost ELSE "keep"
Fault == faults < MaxFaults /\ faults' = faults + 1

Call(op) ==
  /\ At("idle") /\ call.n < MaxCalls
  /\ call' = [n |-> call.n + 1, op |-> op, stage |-> "init"]
  /\ UNCHANGED <<context, reader, recent, answer, link, late, runs, ended, faults, struck>>

(* redisvCommand appends the words of the command to the output buffer.    *)
Send(stage, words) ==
  /\ context' = [context EXCEPT !.obuf = @ \o words]
  /\ call' = [call EXCEPT !.stage = stage]
  /\ UNCHANGED <<answer, ended, struck>>

Return(how, value) ==
  /\ ended' = [ended EXCEPT ![call.n] = how]
  /\ answer' = value
  /\ call' = [call EXCEPT !.stage = "idle"]

Fail == Return("failed", NoAnswer) /\ struck' = struck + 1

(* The command of the call that is in redis whole when the socket goes.    *)
LeftBehind ==
  IF At("run") /\ link.state = "up" /\ link.inbox = CommandOf[call.op][call.n]
  THEN {call.n} ELSE {}

(* redisFree closes the socket and frees the reader. *)
Free ==
  /\ context' = NULL /\ reader' = redisReaderCreate
  /\ link' = NoLink /\ late' = late \cup LeftBehind

(* CacheConn::Init: the context is taken as it is, or a connection is made *)
(* unless one was tried less than a second ago.                            *)
InitReady ==
  /\ At("init") /\ context # NULL
  /\ Send("run", CommandOf[call.op][call.n])
  /\ UNCHANGED <<reader, recent, link, late, runs, faults>>

InitTooSoon ==
  /\ At("init") /\ context = NULL /\ recent
  /\ Return("failed", NoAnswer)
  /\ UNCHANGED <<context, reader, recent, link, late, runs, faults, struck>>

Connect ==
  /\ At("init") /\ context = NULL /\ ~recent
  /\ recent' = TRUE /\ link' = NewLink
  /\ context' = [err |-> FALSE, obuf |-> IF Password THEN AuthCommand ELSE SelectCommand]
  /\ call' = [call EXCEPT !.stage = IF Password THEN "auth" ELSE "select"]
  /\ UNCHANGED <<reader, answer, late, runs, ended, faults, struck>>

ConnectFails ==
  /\ At("init") /\ context = NULL /\ ~recent
  /\ recent' = TRUE
  /\ Fault /\ Fail
  /\ UNCHANGED <<context, reader, link, late, runs>>

--------------------------------------------------------------------------------
(* redisGetReply has a reply. *)
Accepted(reply) ==
  CASE At("auth") -> reply[1].type # "error"
    [] At("select") -> /\ reply[1].type = "status"
                       /\ StartsWith(reply[1].str, OK)

Received(reply) ==
  \/ /\ At("run")
     /\ Return("told", Reads(ThisOp.reads, reply))
     /\ UNCHANGED <<context, struck>>
  \/ At("auth") /\ Accepted(reply) /\ Send("select", SelectCommand)
  \/ At("select") /\ Accepted(reply) /\ Send("run", CommandOf[call.op][call.n])
  \/ /\ ~At("run") /\ ~Accepted(reply)
     /\ Fail
     /\ UNCHANGED context

(* redisGetReply has failed.  The context is freed; or the call fails and  *)
(* it stays, with its error; or the missing reply ends the process.  A     *)
(* call that keeps the error it met has already been counted.              *)
Lost_NotFreed(rd) ==
  /\ IF OnNull = "use"
     THEN /\ call' = [call EXCEPT !.stage = "crashed"]
          /\ UNCHANGED <<answer, ended, struck>>
     ELSE IF OnNull = "keep" /\ context.err
     THEN Return("failed", NoAnswer) /\ UNCHANGED struck
     ELSE Fail
  /\ context' = [context EXCEPT !.err = TRUE] /\ reader' = rd
  /\ UNCHANGED <<link, late>>
Lost(rd) ==
  /\ IF OnNull = "use"
     THEN /\ call' = [call EXCEPT !.stage = "crashed"]
          /\ UNCHANGED <<answer, ended, struck>>
     ELSE IF OnNull = "keep" /\ context.err
     THEN Return("failed", NoAnswer) /\ UNCHANGED struck
     ELSE Fail
  /\ IF OnNull = "free" THEN Free
     ELSE /\ context' = [context EXCEPT !.err = TRUE] /\ reader' = rd
          /\ UNCHANGED <<link, late>>

(* The error of an earlier command is met before anything is written. *)
LatchedError ==
  /\ InCommand /\ context.err
  /\ Lost(reader)
  /\ UNCHANGED <<recent, runs, faults>>

(* What the reader has already is taken for the reply; then a part of the  *)
(* output buffer is written, which a server that has closed never sees.    *)
Write_Again ==
  \E k \in 1 .. Len(context.obuf) :
    /\ link' = IF link.state = "up"
               THEN [link EXCEPT !.inbox = @ \o SubSeq(context.obuf, 1, k)] ELSE link
    /\ context' = [context EXCEPT !.obuf = IF k = Len(@) THEN <<>> ELSE SubSeq(@, k, Len(@))]
    /\ UNCHANGED <<reader, call, answer, late, ended, struck>>
Write ==
  \E k \in 1 .. Len(context.obuf) :
    /\ link' = IF link.state = "up"
               THEN [link EXCEPT !.inbox = @ \o SubSeq(context.obuf, 1, k)] ELSE link
    /\ context' = [context EXCEPT !.obuf = SubSeq(@, k + 1, Len(@))]
    /\ UNCHANGED <<reader, call, answer, late, ended, struck>>

redisBufferWrite ==
  /\ InCommand /\ ~context.err /\ context.obuf # <<>> /\ link.state # "lost"
  /\ \E had \in {redisReaderGetReply(reader)} :
       IF had.reply = <<>> THEN Write
       ELSE Received(had.reply) /\ reader' = had.reader /\ UNCHANGED <<link, late>>
  /\ UNCHANGED <<recent, runs, faults>>

(* Read until there is a reply. *)
redisBufferRead_Once ==
  /\ InCommand /\ ~context.err /\ context.obuf = <<>> /\ link.out # <<>>
  /\ \E k \in 1 .. Len(link.out) :
     \E got \in {redisReaderGetReply(redisReaderFeed(reader, SubSeq(link.out, 1, k)))} :
       IF got.reader.err # "" THEN Lost(got.reader)
       ELSE /\ IF got.reply = <<>> THEN Fail /\ UNCHANGED context
               ELSE Received(got.reply)
            /\ reader' = got.reader
            /\ link' = [link EXCEPT !.out = SubSeq(@, k + 1, Len(@))]
            /\ UNCHANGED late
  /\ UNCHANGED <<recent, runs, faults>>
redisBufferRead ==
  /\ InCommand /\ ~context.err /\ context.obuf = <<>> /\ link.out # <<>>
  /\ \E k \in 1 .. Len(link.out) :
     \E got \in {redisReaderGetReply(redisReaderFeed(reader, SubSeq(link.out, 1, k)))} :
       IF got.reader.err # "" THEN Lost(got.reader)
       ELSE /\ IF got.reply = <<>> THEN UNCHANGED <<context, call, answer, ended, struck>>
               ELSE Received(got.reply)
            /\ reader' = got.reader
            /\ link' = [link EXCEPT !.out = SubSeq(@, k + 1, Len(@))]
            /\ UNCHANGED late
  /\ UNCHANGED <<recent, runs, faults>>

(* The server has closed and nothing is left to read, or the network fails *)
(* a read or a write.                                                      *)
SocketFails ==
  /\ InCommand /\ ~context.err
  /\ \/ link.state = "closed" /\ (context.obuf # <<>> \/ link.out = <<>>)
     \/ link.state = "lost"
  /\ Lost(reader)
  /\ UNCHANGED <<recent, runs, faults>>

SecondPasses ==
  /\ recent /\ recent' = FALSE
  /\ UNCHANGED <<context, reader, call, answer, link, late, runs, ended, faults, struck>>

(* The process has read a reply that is not there, and is started again.   *)
Restart ==
  /\ At("crashed")
  /\ Fail /\ Free /\ recent' = FALSE
  /\ UNCHANGED <<runs, faults>>

--------------------------------------------------------------------------------
(* The server.                                                             *)

Whole == /\ link.inbox # <<>>
         /\ link.inbox[1][1] = "*" /\ Len(link.inbox) > DigitTable[link.inbox[1][2]]
Command == SubSeq(link.inbox, 1, 1 + DigitTable[link.inbox[1][2]])
IsCall == call.n > 0 /\ Command = CommandOf[call.op][call.n]

Status(text) == createStringObject("status", text)
Text1(n) == createStringObject("string", <<Digit(n)>>)

Gives(kind, n) ==
  CASE kind = "integer" -> {<<createIntegerObject(n)>>}
    [] kind = "bulk" -> {<<Text1(n)>>, <<createNilObject>>}
    [] kind = "status" -> {<<Status(OK)>>}
    [] kind = "array" -> { <<createArrayObject(0)>>,
                           <<createArrayObject(2), Text1(n), createNilObject>>,
                           <<createArrayObject(2), Text1(n), Text1(n)>> }

Refusal == <<createStringObject("error", ERR)>>

Encoded(obj) ==
  LET eol == <<CR, LF>>
  IN CASE obj.type = "error" -> <<"-">> \o obj.str \o eol
       [] obj.type = "status" -> <<"+">> \o obj.str \o eol
       [] obj.type = "integer" -> <<":", Digit(obj.integer)>> \o eol
       [] obj.type = "nil" -> <<"$", "-", "1">> \o eol
       [] obj.type = "string" -> <<"$", Digit(Len(obj.str))>> \o eol \o obj.str \o eol
       [] obj.type = "array" -> <<"*", Digit(obj.elements)>> \o eol

Bytes(reply) == FlattenSeq([i \in DOMAIN reply |-> Encoded(reply[i])])

Say(reply, trusted) ==
  link' = [link EXCEPT !.inbox = SubSeq(@, Len(Command) + 1, Len(@)),
                       !.out = @ \o Bytes(reply), !.trusted = trusted]

Counted == runs' = IF IsCall THEN [runs EXCEPT ![call.n] = @ + 1] ELSE runs

(* Without the password every command but AUTH is refused. *)
ServerRuns ==
  /\ link.state = "up" /\ Whole
  /\ \/ Command = AuthCommand /\ Say(<<Status(OK)>>, TRUE)
     \/ Command # AuthCommand /\ ~link.trusted /\ Say(Refusal, FALSE)
     \/ Command = SelectCommand /\ link.trusted /\ Say(<<Status(OK)>>, TRUE)
     \/ /\ IsCall /\ link.trusted
        /\ \E reply \in Gives(ThisOp.gives, Stamp(call.n)) : Say(reply, TRUE)
  /\ Counted
  /\ UNCHANGED <<client, late, ended, faults, struck>>

ServerRefuses ==
  /\ link.state = "up" /\ Whole /\ Fault
  /\ Say(Refusal, link.trusted) /\ Counted
  /\ UNCHANGED <<client, late, ended, struck>>

ServerCloses ==
  /\ link.state = "up" /\ Fault
  /\ link' = [link EXCEPT !.state = "closed", !.inbox = <<>>]
  /\ UNCHANGED <<client, late, runs, ended, struck>>

NetworkLost ==
  /\ link.state = "up" /\ Fault
  /\ link' = [link EXCEPT !.state = "lost", !.inbox = <<>>, !.out = <<>>]
  /\ late' = late \cup LeftBehind
  /\ UNCHANGED <<client, runs, ended, struck>>

(* Redis runs what a connection that is gone has left in its buffers. *)
RunsLate ==
  /\ \E n \in late : /\ runs' = [runs EXCEPT ![n] = @ + 1]
                     /\ late' = late \ {n}
  /\ UNCHANGED <<client, link, ended, faults, struck>>

(* Every call has returned and the connection is as it will stay: the only *)
(* state in which nothing is left to happen.                               *)
AllReturned ==
  /\ At("idle") /\ call.n = MaxCalls
  /\ UNCHANGED vars

Next ==
  \/ \E op \in Ops : Call(op)
  \/ InitReady \/ InitTooSoon \/ Connect \/ ConnectFails \/ SecondPasses
  \/ LatchedError \/ redisBufferWrite \/ redisBufferRead \/ SocketFails \/ Restart
  \/ ServerRuns \/ ServerRefuses \/ ServerCloses \/ NetworkLost \/ RunsLate
  \/ AllReturned

Spec == Init /\ [][Next]_vars

--------------------------------------------------------------------------------
(* Each command is run at most once, and a call that was told something    *)
(* was told by redis, after it had run the command: nothing is sent again  *)
(* on a new connection (__redisBlockForReply, redisFree).                  *)
Remote == INSTANCE RemoteCall WITH asked <- call.n
Implements == Remote!Spec

(* What a call returns was said of this call and not of an earlier one     *)
(* whose reply came late or in pieces (redisReaderGetReply).               *)
OwnAnswer ==
  At("idle") =>
    /\ answer.ret > 1 => answer.ret = Stamp(call.n)
    /\ answer.out \subseteq {<<Digit(Stamp(call.n))>>, OK, ERR, NoStr}

(* A fault makes at most two calls fail, not counting those of the second  *)
(* in which no connection is tried and those that read into a buffer of    *)
(* the caller and leave a broken context as it is (CacheConn::Init, Hget). *)
FewFailures == struck <= 2 * faults
=============================================================================
