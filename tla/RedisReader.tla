----------------------------- MODULE RedisReader ----------------------------
(***************************************************************************)
(* The texts hiredis exchanges with redis: the formatting of commands      *)
(* (hiredis.c), and the reader of replies (read.c), which is fed whatever  *)
(* a read returned and gives a reply once it has one.                      *)
(*                                                                         *)
(* A reply is the sequence of the objects it is made of in the order the   *)
(* reader creates them: one, or an array and after it its elements.        *)
(***************************************************************************)
EXTENDS Integers, Sequences, SequencesExt, FiniteSetsExt, Text

CONSTANTS
  ULLONG_MAX,     \* the widest unsigned integer
  LLONG_MAX,      \* the widest signed integer
  INT_MAX,        \* the most elements of an array
  ReaderTrim      \* the bytes consumed before the buffer is cut, 1024

ASSUME ReaderAssumption ==
  /\ {ULLONG_MAX, LLONG_MAX, INT_MAX, ReaderTrim} \subseteq Nat \ {0}
  /\ 9 <= INT_MAX /\ INT_MAX <= LLONG_MAX /\ LLONG_MAX <= ULLONG_MAX

--------------------------------------------------------------------------------
(* Commands.  An argument is given as the text printf makes of it.          *)

FormatFlags == SetOf("#0-+ ")

(* The first place from i on that holds none of the characters. *)
After(text, i, chars) ==
  Min({j \in i .. Len(text) + 1 : j = Len(text) + 1 \/ text[j] \notin chars})

(* Where the conversion that begins at i ends, 0 when it is not valid. *)
ConversionEnd(text, i) ==
  LET at(j) == IF j <= Len(text) THEN text[j] ELSE ""
      w == After(text, After(text, i + 1, FormatFlags), Digits)
      p == IF at(w) = "." THEN After(text, w + 1, Digits) ELSE w
      size == IF at(p) \notin {"h", "l"} THEN 0
              ELSE IF at(p + 1) = at(p) THEN 2 ELSE 1
  IN IF \/ size = 0 /\ at(p) \in SetOf("diouxXeEfFgGaA")
        \/ size > 0 /\ at(p + size) \in SetOf("diouxX")
     THEN p + size ELSE 0

NoCommand == [argv |-> <<>>, cur |-> <<>>, touched |-> FALSE, used |-> 0,
              next |-> 1, bad |-> FALSE]

EndArgument(s) ==
  IF s.touched
  THEN [s EXCEPT !.argv = Append(@, s.cur), !.cur = <<>>, !.touched = FALSE]
  ELSE s

(* One turn of the loop at the place i of the format; places that a turn   *)
(* before it has consumed are passed over.                                  *)
FormatStep(format, args, s, i) ==
  LET add(text, used, next) ==
        [s EXCEPT !.cur = @ \o text, !.touched = TRUE, !.used = @ + used, !.next = next]
      end == ConversionEnd(format, i)
  IN CASE s.bad \/ i < s.next -> s
       [] format[i] = SP -> [EndArgument(s) EXCEPT !.next = i + 1]
       [] format[i] # "%" \/ i = Len(format) -> add(<<format[i]>>, 0, i + 1)
       [] format[i + 1] \in {"s", "b"} -> add(args[s.used + 1], 1, i + 2)
       [] format[i + 1] = "%" -> add(<<"%">>, 0, i + 2)
       [] end = 0 -> [s EXCEPT !.bad = TRUE]
       [] OTHER -> add(args[s.used + 1], 1, end + 1)

(* The arguments of the command a format makes. *)
redisvFormatCommand(format, args) ==
  LET done == FoldLeft(LAMBDA s, i : FormatStep(format, args, s, i), NoCommand,
                       [i \in DOMAIN format |-> i])
  IN [argv |-> EndArgument(done).argv, bad |-> done.bad]

--------------------------------------------------------------------------------
(* Replies.                                                                *)

NoStr == <<"NULL">>

createReplyObject(type) == [type |-> type, integer |-> 0, elements |-> 0, str |-> NoStr]
createStringObject(type, text) == [createReplyObject(type) EXCEPT !.str = text]
createIntegerObject(v) == [createReplyObject("integer") EXCEPT !.integer = v]
createArrayObject(n) == [createReplyObject("array") EXCEPT !.elements = n]
createNilObject == createReplyObject("nil")

NoTask == [type |-> "", elements |-> -1, idx |-> 0]

(* stack[1 .. Len(stack)] is rstack[0 .. ridx]. *)
redisReaderCreate ==
  [buf |-> <<>>, pos |-> 0, stack |-> <<>>, reply |-> <<>>, err |-> "", short |-> FALSE]

SetReaderError(r, err) ==
  [r EXCEPT !.buf = <<>>, !.pos = 0, !.stack = <<>>, !.reply = <<>>, !.err = err]

NotEnough(r) == [r EXCEPT !.short = TRUE]

(* The place of the first \r\n after pos, 0 when there is none. *)
seekNewline(r) ==
  LET ends == {i \in r.pos + 1 .. Len(r.buf) - 1 : r.buf[i] = CR /\ r.buf[i + 1] = LF}
  IN IF ends = {} THEN 0 ELSE Min(ends)

(* A number without a sign, -1 when it is longer than an unsigned integer. *)
Unsigned(text) ==
  FoldLeft(LAMBDA v, c : IF v = -1 \/ v > ULLONG_MAX \div 10
                            \/ v * 10 > ULLONG_MAX - DigitTable[c]
                         THEN -1 ELSE v * 10 + DigitTable[c],
           0, text)

(* Only a number written the way redis writes it is taken. *)
string2ll(text) ==
  LET negative == text # <<>> /\ text[1] = "-"
      digits == IF negative THEN Tail(text) ELSE text
      strict == \/ text = <<"0">>
                \/ /\ digits # <<>> /\ ToSet(digits) \subseteq Digits
                   /\ digits[1] # "0"
      v == Unsigned(digits)
  IN IF strict /\ v # -1 /\ v <= LLONG_MAX + (IF negative THEN 1 ELSE 0)
     THEN [ok |-> TRUE, value |-> IF negative THEN -v ELSE v]
     ELSE [ok |-> FALSE, value |-> 0]

(* The deepest task whose array has elements left goes on with the next. *)
moveToNextTask(r) ==
  LET open == {i \in 2 .. Len(r.stack) :
                 r.stack[i].idx # r.stack[i - 1].elements - 1}
  IN IF open = {} THEN [r EXCEPT !.stack = <<>>]
     ELSE LET top == Max(open)
          IN [r EXCEPT !.stack = Append(SubSeq(@, 1, top - 1),
                                        [NoTask EXCEPT !.idx = r.stack[top].idx + 1])]

Line(r) == SubSeq(r.buf, r.pos + 1, seekNewline(r) - 1)
Pass(r) == [r EXCEPT !.pos = seekNewline(r) + 1]
Created(r, obj) == [r EXCEPT !.reply = Append(@, obj)]

processLineItem(r) ==
  LET type == Last(r.stack).type
      v == string2ll(Line(r))
  IN IF seekNewline(r) = 0 THEN NotEnough(r)
     ELSE CASE type # "integer" ->
                 moveToNextTask(Created(Pass(r), createStringObject(type, Line(r))))
            [] type = "integer" /\ ~v.ok -> SetReaderError(r, "Bad integer value")
            [] type = "integer" /\ v.ok ->
                 moveToNextTask(Created(Pass(r), createIntegerObject(v.value)))

(* The line with the length is read again until the text is there too; of  *)
(* the two bytes after the text only the number is known.                  *)
processBulkItem(r) ==
  LET len == string2ll(Line(r))
      from == seekNewline(r) + 1
      whole == from + len.value + 2 <= Len(r.buf)
      text == SubSeq(r.buf, from + 1, from + len.value)
  IN IF seekNewline(r) = 0 THEN NotEnough(r)
     ELSE CASE ~len.ok -> SetReaderError(r, "Bad bulk string length")
            [] len.ok /\ len.value < -1 ->
                 SetReaderError(r, "Bulk string length out of range")
            [] len.ok /\ len.value = -1 -> moveToNextTask(Created(Pass(r), createNilObject))
            [] len.ok /\ len.value >= 0 /\ whole ->
                 moveToNextTask(Created([r EXCEPT !.pos = from + len.value + 2],
                                        createStringObject("string", text)))
            [] len.ok /\ len.value >= 0 /\ ~whole -> NotEnough(r)

processMultiBulkItem(r) ==
  LET n == string2ll(Line(r))
      top == Len(r.stack)
      tasks == [r.stack EXCEPT ![top].elements = n.value]
  IN IF top = 9 THEN SetReaderError(r, "No support for nested multi bulk replies")
     ELSE IF seekNewline(r) = 0 THEN NotEnough(r)
     ELSE CASE ~n.ok -> SetReaderError(r, "Bad multi-bulk length")
            [] n.ok /\ (n.value < -1 \/ n.value > INT_MAX) ->
                 SetReaderError(r, "Multi-bulk length out of range")
            [] n.ok /\ n.value = -1 -> moveToNextTask(Created(Pass(r), createNilObject))
            [] n.ok /\ n.value = 0 -> moveToNextTask(Created(Pass(r), createArrayObject(0)))
            [] n.ok /\ n.value \in 1 .. INT_MAX ->
                 Created([Pass(r) EXCEPT !.stack = Append(tasks, NoTask)],
                         createArrayObject(n.value))

TypeOfByte == [c \in {"-", "+", ":", "$", "*"} |->
                 CASE c = "-" -> "error" [] c = "+" -> "status" [] c = ":" -> "integer"
                   [] c = "$" -> "string" [] c = "*" -> "array"]

processTyped(r) ==
  LET type == Last(r.stack).type
  IN IF type = "string" THEN processBulkItem(r)
     ELSE IF type = "array" THEN processMultiBulkItem(r) ELSE processLineItem(r)

processItem(r) ==
  LET byte == r.buf[r.pos + 1]
  IN IF Last(r.stack).type # "" THEN processTyped(r)
     ELSE IF r.pos = Len(r.buf) THEN NotEnough(r)
     ELSE IF byte \notin DOMAIN TypeOfByte THEN SetReaderError(r, "Protocol error")
     ELSE processTyped([r EXCEPT !.pos = @ + 1, !.stack[Len(r.stack)].type = TypeOfByte[byte]])

redisReaderFeed(r, text) == [r EXCEPT !.buf = @ \o text]

(* Items are processed until the stack is empty or the bytes run out.  An  *)
(* item takes three bytes or more, one of them perhaps taken already.  The *)
(* set of one reader makes TLC evaluate it once.                           *)
ProcessItems(r) ==
  LET turn(s) == IF s.stack = <<>> \/ s.short THEN s ELSE processItem(s)
      most == (Len(r.buf) - r.pos) \div 3 + 1
      after[n \in 0 .. most] ==
        IF n = 0 THEN r ELSE CHOOSE t \in {turn(s) : s \in {after[n - 1]}} : TRUE
  IN after[most]

Trimmed(r) ==
  IF r.pos >= ReaderTrim THEN [r EXCEPT !.buf = SubSeq(@, r.pos + 1, Len(@)), !.pos = 0] ELSE r

(* The reader afterwards and the reply, <<>> for none. *)
redisReaderGetReply(r) ==
  LET begun == IF r.stack = <<>> THEN [r EXCEPT !.stack = <<NoTask>>] ELSE r
      result(s) ==
        CASE s.err # "" -> [reader |-> s, reply |-> <<>>]
          [] s.stack # <<>> -> [reader |-> Trimmed(s), reply |-> <<>>]
          [] OTHER -> [reader |-> [Trimmed(s) EXCEPT !.reply = <<>>], reply |-> s.reply]
  IN IF r.err # "" \/ r.buf = <<>> THEN [reader |-> r, reply |-> <<>>]
     ELSE CHOOSE t \in {result(s) : s \in {ProcessItems([begun EXCEPT !.short = FALSE])}} : TRUE
=============================================================================
