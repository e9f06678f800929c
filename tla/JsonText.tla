------------------------------ MODULE JsonText ------------------------------
(***************************************************************************)
(* JSON as the server reads and writes it: Json::Reader with Features::all *)
(* (jsoncpp/json_reader.cpp) and Json::FastWriter (jsoncpp/json_writer.cpp).*)
(*                                                                         *)
(* A text is a sequence of bytes: characters of Text, and for all others a *)
(* name such as "x08".  Positions count the bytes read.  A number keeps    *)
(* its digits; what sscanf and printf make of a real is left open: a real  *)
(* keeps its text.  Messages, offsets and comments are not kept: every     *)
(* error makes parse return false, and nobody reads the root then.         *)
(***************************************************************************)
EXTENDS Integers, Sequences, FiniteSets, Text
LOCAL INSTANCE TLC

-----------------------------------------------------------------------------
(* Bytes.                                                                  *)

(* The printable characters in the order of their codes, from 32; the back *)
(* quote (96) cannot be written.                                           *)
Printable ==
  Chars(" !\"#$%&'()*+,-./0123456789:;<=>?@ABCDEFGHIJKLMNOPQRSTUVWXYZ[\\]^_")
    \o <<"x60">> \o Chars("abcdefghijklmnopqrstuvwxyz{|}~")

HexDigits == Chars("0123456789ABCDEF")

(* The byte of a code from 0 to 255. *)
Byte(n) ==
  CASE n \in 32 .. 126 -> Printable[n - 31]
    [] n = 9  -> HT
    [] n = 10 -> LF
    [] n = 12 -> "\f"
    [] n = 13 -> CR
    [] OTHER -> "x" \o HexDigits[n \div 16 + 1] \o HexDigits[(n % 16) + 1]

Bytes == [n \in 0 .. 255 |-> Byte(n)]
Code(c) == CHOOSE n \in 0 .. 255 : Bytes[n] = c

NUL == Byte(0)

(* A string of C ends at the first zero byte. *)
CString(text) ==
  SubSeq(text, 1, CHOOSE k \in 0 .. Len(text) :
    /\ \A i \in 1 .. k : text[i] # NUL
    /\ k = Len(text) \/ text[k + 1] = NUL)

isControlCharacter(c) == \E n \in 1 .. 31 : Bytes[n] = c

codePointToUTF8_Latin1(cp) ==
  CASE cp <= 255 -> <<Byte(cp)>>
    [] cp \in 256 .. 2047 -> <<Byte(192 + cp \div 64), Byte(128 + (cp % 64))>>
    [] OTHER -> <<>>

codePointToUTF8(cp) ==
  CASE cp <= 127 -> <<Byte(cp)>>
    [] cp \in 128 .. 2047 -> <<Byte(192 + cp \div 64), Byte(128 + (cp % 64))>>
    [] cp \in 2048 .. 65535 ->
         <<Byte(224 + cp \div 4096), Byte(128 + ((cp \div 64) % 64)),
           Byte(128 + (cp % 64))>>
    [] cp \in 65536 .. 1114111 ->
         <<Byte(240 + cp \div 262144), Byte(128 + ((cp \div 4096) % 64)),
           Byte(128 + ((cp \div 64) % 64)), Byte(128 + (cp % 64))>>
    [] OTHER -> <<>>

-----------------------------------------------------------------------------
(* Values.                                                                 *)

nullValue       == [type |-> "null"]
booleanValue(b) == [type |-> "boolean",
                    is |-> Chars(IF b THEN "true" ELSE "false")]
intValue(d)     == [type |-> "int", is |-> d]     \* its sign and digits
realValue(t)    == [type |-> "real", is |-> t]
stringValue(t)  == [type |-> "string", is |-> CString(t)]
arrayValue(s)   == [type |-> "array", items |-> s]
objectValue(m)  == [type |-> "object", members |-> m]  \* by their names

NoMembers == [n \in {} |-> nullValue]

SetMember(m, name, v) ==
  [n \in DOMAIN m \cup {CString(name)} |->
     IF n = CString(name) THEN v ELSE m[n]]

-----------------------------------------------------------------------------
(* Tokens.                                                                 *)

Spaces == {SP, HT, CR, LF}

(* The byte at a position, a zero byte at the end. *)
At(s, i) == IF i < Len(s) THEN s[i + 1] ELSE NUL

(* The first position from i on whose byte is not in a set. *)
SkipAll(s, i, set) ==
  CHOOSE k \in i .. Len(s) :
    /\ \A j \in i .. k - 1 : s[j + 1] \in set
    /\ k = Len(s) \/ s[k + 1] \notin set

skipSpaces(s, i) == SkipAll(s, i, Spaces)

Match(s, i, word) ==
  IF StartsWith(SubSeq(s, i + 1, Len(s)), Chars(word))
  THEN [ok |-> TRUE, end |-> i + Len(word)] ELSE [ok |-> FALSE, end |-> i]

readCStyleComment(s, i) ==
  LET ends == {k \in i .. Len(s) - 2 : s[k + 1] = "*" /\ s[k + 2] = "/"}
  IN IF ends = {} THEN [ok |-> FALSE, end |-> Len(s)]
     ELSE [ok |-> TRUE, end |-> (CHOOSE k \in ends : \A l \in ends : k <= l) + 2]

readCppStyleComment(s, i) ==
  LET k == SkipAll(s, i, {s[j] : j \in DOMAIN s} \ {CR, LF})
  IN [ok |-> TRUE, end |-> IF k = Len(s) THEN k ELSE k + 1]

readComment(s, i) ==
  CASE At(s, i) = "*" -> readCStyleComment(s, i + 1)
    [] At(s, i) = "/" -> readCppStyleComment(s, i + 1)
    [] OTHER -> [ok |-> FALSE, end |-> IF i < Len(s) THEN i + 1 ELSE i]

NumberBytes == Digits \cup SetOf(".eE+-")

readNumber(s, i) == [ok |-> TRUE, end |-> SkipAll(s, i, NumberBytes)]

readString(s, i) ==
  LET stop[k \in i .. Len(s) + 1] ==
        IF k >= Len(s) THEN [ok |-> FALSE, end |-> Len(s)]
        ELSE IF s[k + 1] = "\\" THEN stop[k + 2]
        ELSE IF s[k + 1] = "\"" THEN [ok |-> TRUE, end |-> k + 1]
        ELSE stop[k + 1]
  IN stop[i]

Single ==
  [c \in SetOf("{}[],:") |->
     CASE c = "{" -> "ObjectBegin" [] c = "}" -> "ObjectEnd"
       [] c = "[" -> "ArrayBegin"  [] c = "]" -> "ArrayEnd"
       [] c = "," -> "ArraySeparator" [] c = ":" -> "MemberSeparator"]

(* The token that starts at position b with the byte c: its type, where it *)
(* starts and ends.                                                        *)
TokenAt(s, b, c) ==
  LET Token(type, r) == [type |-> IF r.ok THEN type ELSE "Error",
                         start |-> b, end |-> r.end]
      here == [ok |-> TRUE, end |-> b + 1]
  IN CASE c \in DOMAIN Single -> Token(Single[c], here)
       [] c = "\"" -> Token("String", readString(s, b + 1))
       [] c = "/"  -> Token("Comment", readComment(s, b + 1))
       [] c \in Digits \cup {"-"} -> Token("Number", readNumber(s, b + 1))
       [] c = "t"  -> Token("True", Match(s, b + 1, "rue"))
       [] c = "f"  -> Token("False", Match(s, b + 1, "alse"))
       [] c = "n"  -> Token("Null", Match(s, b + 1, "ull"))
       [] c = NUL  -> Token("EndOfStream",
                            IF b < Len(s) THEN here ELSE [ok |-> TRUE, end |-> b])
       [] OTHER    -> Token("Error", here)

(* The token from position i on. *)
readToken(s, i) ==
  CHOOSE t \in {TokenAt(s, b, At(s, b)) : b \in {skipSpaces(s, i)}} : TRUE

(* The next token that is not a comment: t, or one that follows it. *)
RECURSIVE FirstOther(_, _)
FirstOther(s, t) ==
  IF t.type = "Comment" THEN FirstOther(s, readToken(s, t.end)) ELSE t

skipCommentTokens(s, i) == FirstOther(s, readToken(s, i))

-----------------------------------------------------------------------------
(* Values from tokens; "ok" is FALSE after an error.                       *)

NoValue == [ok |-> FALSE, value |-> nullValue, end |-> 0]
Got(v, end) == [ok |-> TRUE, value |-> v, end |-> end]

(* Digits without the leading zeros. *)
Significant(d) == SubSeq(d, SkipAll(d, 0, {"0"}) + 1, Len(d))

(* Numbers given by their digits. *)
AtMost(d, e) ==
  LET a == Significant(d) b == Significant(e) IN
  \/ Len(a) < Len(b)
  \/ /\ Len(a) = Len(b)
     /\ \A i \in DOMAIN a :
          (\A j \in 1 .. i - 1 : a[j] = b[j]) => DigitTable[a[i]] <= DigitTable[b[i]]

minLargestInt  == Chars("9223372036854775808")
maxLargestUInt == Chars("18446744073709551615")

(* sscanf reads a number off the beginning of t. *)
decodeDouble(t, end) ==
  LET u == IF t # <<>> /\ Head(t) \in {"-", "+"} THEN Tail(t) ELSE t IN
  IF \/ u # <<>> /\ Head(u) \in Digits
     \/ Len(u) > 1 /\ u[1] = "." /\ u[2] \in Digits
  THEN Got(realValue(t), end) ELSE NoValue

decodeNumber(t, end) ==
  LET negative == Head(t) = "-"
      d == IF negative THEN Tail(t) ELSE t
      limit == IF negative THEN minLargestInt ELSE maxLargestUInt
      n == IF Significant(d) = <<>> THEN <<"0">> ELSE Significant(d)
  IN IF \E i \in DOMAIN d : d[i] \notin Digits THEN decodeDouble(t, end)
     ELSE IF ~ AtMost(d, limit) THEN decodeDouble(t, end)
     ELSE Got(intValue(IF negative /\ n # <<"0">> THEN <<"-">> \o n ELSE n), end)

Simple ==
  [c \in {"\"", "/", "\\"} |-> c] @@
  [c \in SetOf("bfnrt") |->
     CASE c = "b" -> Byte(8) [] c = "f" -> "\f" [] c = "n" -> LF
       [] c = "r" -> CR [] c = "t" -> HT]

(* The code of the four digits from position i on, -1 if they are not that. *)
decodeUnicodeEscapeSequence(t, i) ==
  IF Len(t) - i < 4 \/ \E k \in 1 .. 4 : Unhex(t[i + k]) = -1 THEN -1
  ELSE Unhex(t[i + 1]) * 4096 + Unhex(t[i + 2]) * 256
         + Unhex(t[i + 3]) * 16 + Unhex(t[i + 4])

(* A code point: its code, -1 after an error, and the bytes it takes. *)
decodeUnicodeCodePoint(t, i) ==
  LET high == decodeUnicodeEscapeSequence(t, i)
      low  == decodeUnicodeEscapeSequence(t, i + 6)
  IN IF high \notin 55296 .. 56319 THEN [cp |-> high, length |-> 4]
     ELSE IF \/ Len(t) - (i + 4) < 6
             \/ t[i + 5] # "\\" \/ t[i + 6] # "u" \/ low = -1
     THEN [cp |-> -1, length |-> 4]
     ELSE [cp |-> 65536 + (high % 1024) * 1024 + (low % 1024), length |-> 10]

(* What is between the quotes, with its escapes decoded. *)
decodeString(t) ==
  LET Fail == [ok |-> FALSE, text |-> <<>>]
      Then(before, rest) ==
        IF rest.ok THEN [ok |-> TRUE, text |-> before \o rest.text] ELSE Fail
      from[i \in 0 .. Len(t)] ==
        IF i = Len(t) THEN [ok |-> TRUE, text |-> <<>>]
        ELSE IF t[i + 1] # "\\" THEN Then(<<t[i + 1]>>, from[i + 1])
        ELSE IF i + 1 = Len(t) THEN Fail
        ELSE IF t[i + 2] \in DOMAIN Simple
        THEN Then(<<Simple[t[i + 2]]>>, from[i + 2])
        ELSE IF t[i + 2] # "u" THEN Fail
        ELSE LET u == decodeUnicodeCodePoint(t, i + 2)
             IN IF u.cp = -1 THEN Fail
                ELSE Then(codePointToUTF8(u.cp), from[i + 2 + u.length])
  IN from[0]

TextOf(s, t) == SubSeq(s, t.start + 1, t.end)
Inside(s, t) == SubSeq(s, t.start + 2, t.end - 1)

-----------------------------------------------------------------------------
(* Reader::readValue and parse.                                            *)

RECURSIVE readValue(_, _), readObject(_, _, _, _), readArray(_, _, _)

(* A member of which the name, the colon, the value v and the token after  *)
(* it have been read; after a comment any token is taken for the comma.    *)
MemberThen(s, m, name, v, last) ==
  IF last.type = "ObjectEnd"
  THEN Got(objectValue(SetMember(m, name, v)), last.end)
  ELSE readObject(s, last.end, name, SetMember(m, name, v))

MemberValue(s, m, name, v, comma) ==
  IF ~ v.ok \/ comma.type \notin {"ObjectEnd", "ArraySeparator", "Comment"}
  THEN NoValue
  ELSE MemberThen(s, m, name, v.value, FirstOther(s, comma))

MemberName(s, m, name, colon) ==
  IF ~ name.ok \/ colon.type # "MemberSeparator" THEN NoValue
  ELSE CHOOSE r \in {MemberValue(s, m, name.text, v, readToken(s, v.end)) :
                       v \in {readValue(s, colon.end)}} : TRUE

(* The members after those in m, the last of which is name; t is the next  *)
(* token.                                                                  *)
ObjectFrom(s, t, name, m) ==
  CASE t.type = "ObjectEnd" /\ name = <<>> -> Got(objectValue(m), t.end)
    [] t.type = "String" ->
         MemberName(s, m, decodeString(Inside(s, t)), readToken(s, t.end))
    [] OTHER -> NoValue

readObject(s, i, name, m) ==
  ObjectFrom(s, skipCommentTokens(s, i), name, m)

ItemThen(s, items, v, t) ==
  CASE ~ v.ok \/ t.type \notin {"ArraySeparator", "ArrayEnd"} -> NoValue
    [] v.ok /\ t.type = "ArrayEnd" ->
         Got(arrayValue(Append(items, v.value)), t.end)
    [] v.ok /\ t.type = "ArraySeparator" ->
         readArray(s, t.end, Append(items, v.value))

readArray(s, i, items) ==
  CHOOSE r \in {ItemThen(s, items, v, skipCommentTokens(s, v.end)) :
                  v \in {readValue(s, i)}} : TRUE

StringThen(d, end) == IF d.ok THEN Got(stringValue(d.text), end) ELSE NoValue

ValueAt(s, t) ==
  CASE t.type = "ObjectBegin" -> readObject(s, t.end, <<>>, NoMembers)
    [] t.type = "ArrayBegin" ->
         LET k == skipSpaces(s, t.end)
         IN IF At(s, k) = "]" THEN Got(arrayValue(<<>>), k + 1)
            ELSE readArray(s, t.end, <<>>)
    [] t.type = "Number" -> decodeNumber(TextOf(s, t), t.end)
    [] t.type = "String" -> StringThen(decodeString(Inside(s, t)), t.end)
    [] t.type = "True"  -> Got(booleanValue(TRUE), t.end)
    [] t.type = "False" -> Got(booleanValue(FALSE), t.end)
    [] t.type = "Null"  -> Got(nullValue, t.end)
    [] OTHER -> NoValue

readValue(s, i) == ValueAt(s, skipCommentTokens(s, i))

(* What follows the root is not looked at. *)
parse(document) == readValue(document, 0)

-----------------------------------------------------------------------------
(* FastWriter.                                                             *)

Escaped ==
  [c \in {"\"", "\\"} |-> <<"\\", c>>] @@
  [c \in {Byte(8), "\f", LF, CR, HT} |->
     <<"\\", CHOOSE e \in SetOf("bfnrt") : Simple[e] = c>>]

Concat(texts) ==
  LET upto[i \in 0 .. Len(texts)] ==
        IF i = 0 THEN <<>> ELSE upto[i - 1] \o texts[i]
  IN upto[Len(texts)]

valueToQuotedString(text) ==
  LET Quoted(c) ==
        IF c \in DOMAIN Escaped THEN Escaped[c]
        ELSE IF isControlCharacter(c)
        THEN Chars("\\u00") \o <<HexDigits[Code(c) \div 16 + 1],
                                 HexDigits[(Code(c) % 16) + 1]>>
        ELSE <<c>>
  IN <<"\"">> \o Concat([i \in DOMAIN text |-> Quoted(text[i])]) \o <<"\"">>

(* a comes before b in the map of the members. *)
Before(a, b) ==
  \/ Len(a) < Len(b) /\ StartsWith(b, a)
  \/ \E i \in 1 .. Len(a) : /\ i <= Len(b)
                            /\ SubSeq(a, 1, i - 1) = SubSeq(b, 1, i - 1)
                            /\ Code(a[i]) < Code(b[i])

InOrder(names) ==
  CHOOSE o \in [1 .. Cardinality(names) -> names] :
    \A i, j \in DOMAIN o : i < j => Before(o[i], o[j])

Commas(texts) ==
  Concat([i \in DOMAIN texts |->
            IF i = 1 THEN texts[i] ELSE <<",">> \o texts[i]])

RECURSIVE writeValue(_)
writeValue(v) ==
  CASE v.type = "null"    -> Chars("null")
    [] v.type \in {"boolean", "int", "real"} -> v.is
    [] v.type = "string"  -> valueToQuotedString(v.is)
    [] v.type = "array"   ->
         <<"[">> \o Commas([i \in DOMAIN v.items |-> writeValue(v.items[i])])
            \o <<"]">>
    [] v.type = "object"  ->
         LET names == InOrder(DOMAIN v.members)
         IN <<"{">> \o Commas([i \in DOMAIN names |->
                         valueToQuotedString(names[i]) \o <<":">>
                           \o writeValue(v.members[names[i]])]) \o <<"}">>

write(v) == Append(writeValue(v), LF)
=============================================================================
