----------------------------- MODULE MCCacheConn ----------------------------
(* One connection, every operation; and, on every start of TLC, what the   *)
(* reader makes of replies that reach it in pieces.                        *)
EXTENDS CacheConn

T(word) == Chars(word)

AllOf == DOMAIN AllOps

--------------------------------------------------------------------------------
Array(n) == createArrayObject(n)
Error == createStringObject("error", T("E x"))
Empty == createStringObject("string", <<>>)
Crlf == createStringObject("string", <<CR, LF, "$">>)

(* Whole replies: each kind, arrays in arrays, elements of every kind.     *)
Replies ==
  { <<Status(OK)>>, <<Error>>, <<createIntegerObject(7)>>, <<createNilObject>>,
    <<Empty>>, <<Crlf>>, <<Array(0)>>, <<Array(1), createNilObject>>,
    <<Array(3), Crlf, createIntegerObject(0), Error>>,
    <<Array(2), Array(2), Empty, Array(0), Status(OK)>>,
    <<Array(2), Array(1), Array(1), Text1(3), Crlf>> }

(* The replies of a reader that is fed the pieces one after the other and  *)
(* asked after each until it has none.                                     *)
Fed(s, piece) ==
  LET ask(t) == LET got == redisReaderGetReply(t.reader)
                IN [reader |-> got.reader,
                    had |-> IF got.reply = <<>> THEN t.had ELSE Append(t.had, got.reply)]
      fed(t) == [t EXCEPT !.reader = redisReaderFeed(@, piece)]
  IN CHOOSE u \in {ask(t2) : t2 \in {ask(t1) : t1 \in {ask(fed(t0)) : t0 \in {s}}}} : TRUE

Received_(pieces) ==
  FoldLeft(Fed, [reader |-> redisReaderCreate, had |-> <<>>], pieces)

OneByOne(bytes) == [i \in DOMAIN bytes |-> <<bytes[i]>>]
CutAt(bytes, k) == <<SubSeq(bytes, 1, k), SubSeq(bytes, k + 1, Len(bytes))>>

(* Two replies cut in two anywhere, and one fed byte by byte, are read as  *)
(* they were sent: none is lost, joined or read twice (processItem,     *)
(* moveToNextTask, redisReaderGetReply).                                   *)
ASSUME RepliesAreRead ==
  /\ \A a \in Replies : Received_(OneByOne(Bytes(a))).had = <<a>>
  /\ \A a, b \in Replies :
       \A k \in 1 .. Len(Bytes(a) \o Bytes(b)) :
         LET got == Received_(CutAt(Bytes(a) \o Bytes(b), k))
         IN got.had = <<a, b>> /\ got.reader.err = ""

(* A reply that redis cannot mean is an error of the reader, which keeps   *)
(* nothing, gives nothing and takes nothing more.                          *)
Line_(word) == T(word) \o <<CR, LF>>
BadReplies ==
  {Line_(w) : w \in {"!", ":", ":1x", ":-", ":01", ":32768", ":65536", ":700000",
                     "$", "$-2", "$x", "*", "*-2", "*128", "*1x", ":-0", ":+1"}}
    \cup {Line_("*2") \o Line_(":1") \o Line_("?"),
          FlattenSeq([i \in 1 .. 9 |-> Line_("*1")])}
ASSUME BadRepliesAreRefused ==
  \A bytes \in BadReplies :
  \A pieces \in {OneByOne(bytes), <<bytes, Bytes(<<Status(OK)>>)>>} :
    LET got == Received_(pieces)
    IN got.had = <<>> /\ got.reader.err # "" /\ got.reader.stack = <<>>

(* Numbers at the ends of their range are read. *)
ASSUME NumbersAreRead ==
  /\ string2ll(T("32767")) = [ok |-> TRUE, value |-> 32767]
  /\ string2ll(T("-32768")) = [ok |-> TRUE, value |-> -32768]
  /\ ~string2ll(T("-32769")).ok
  /\ Len(Received_(<<FlattenSeq([i \in 1 .. 8 |-> Line_("*1")]) \o Line_("$-1")>>).had[1]) = 9

(* An argument stays one word whatever it holds; blanks of the format only *)
(* separate; conversions of printf are taken as one argument.              *)
ASSUME CommandsAreFormatted ==
  LET argv(format, args) == redisvFormatCommand(T(format), args).argv
      a == T("x y%s")
  IN /\ argv("SET %s %s", <<a, T("")>>) = <<T("SET"), a, T("")>>
     /\ argv("  k:%s[%s  %b ", <<T("1"), a, a>>) = <<T("k:1[") \o a, a>>
     /\ argv("Z %ld %-05.3hhx %lld%%", <<T("9"), T("f"), T("7")>>)
          = <<T("Z"), T("9"), T("f"), T("7%")>>
     /\ argv("", <<>>) = <<>>
     /\ \A bad \in {"%y", "%l ", "%hd%hz", "G %llf"} :
          redisvFormatCommand(T(bad), <<T("1"), T("2")>>).bad
=============================================================================
