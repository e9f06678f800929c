--------------------------- MODULE CacheConnProofs --------------------------
(* Theorems about CacheConn, for any number of calls up to eight, of       *)
(* faults, and any set of operations: what a call returns was said of it,  *)
(* few calls fail, and the connection implements RemoteCall.  The reader   *)
(* (RedisReader) is proved first: a reply that comes in pieces is read     *)
(* whole and nothing of it is left.                                        *)
EXTENDS CacheConn, SequenceTheorems, FiniteSetTheorems, TLAPS

--------------------------------------------------------------------------------
(* Characters and objects: what each object is on the wire. *)

(* A digit and the number it writes. *)
LEMMA DigitIs ==
  ASSUME NEW n \in 0 .. 9
  PROVE  Digit(n) \in Digits /\ DigitTable[Digit(n)] = n
<1>1. \E c \in Digits : DigitTable[c] = n
  BY DEF Digits, DigitTable
<1> QED
  BY <1>1 DEF Digit

LEMMA DigitsAre ==
  ASSUME NEW c \in Digits
  PROVE  /\ c # CR /\ c # LF /\ c # "-"
         /\ DigitTable[c] \in 0 .. 9 /\ (DigitTable[c] = 0 <=> c = "0")
<1>1. c # CR /\ c # LF /\ c # "-"
  BY DEF Digits, CR, LF
<1>2. DigitTable[c] \in 0 .. 9
  BY DEF Digits, DigitTable
<1>3. DigitTable[c] = 0 <=> c = "0"
  BY DEF Digits, DigitTable
<1> QED
  BY <1>1, <1>2, <1>3

(* The folds over the characters, on one digit. *)
LEMMA UnsignedOne ==
  ASSUME NEW c \in Digits
  PROVE  Unsigned(<<c>>) = DigitTable[c]
<1> DEFINE op(v, d) == IF v = -1 \/ v > ULLONG_MAX \div 10
                          \/ v * 10 > ULLONG_MAX - DigitTable[d]
                       THEN -1 ELSE v * 10 + DigitTable[d]
           step(f, s) == IF s = {} THEN 0 ELSE op(f[s \ {Max(s)}], <<c>>[Max(s)])
           iter == CHOOSE f : f = [s \in SUBSET {1} |-> step(f, s)]
           it == [s \in SUBSET {1} |-> IF s = {} THEN 0 ELSE op(0, c)]
<1>1. DOMAIN <<c>> = {1} /\ Max({1}) = 1 /\ <<c>>[1] = c
  BY DEF Max
<1>2. Unsigned(<<c>>) = iter[{1}]
  BY <1>1 DEF Unsigned, FoldLeft, MapThenFoldSet
<1>3. op(0, c) = DigitTable[c]
  BY DigitsAre, ReaderAssumption
<1> HIDE DEF op
<1>4. it = [s \in SUBSET {1} |-> step(it, s)]
  <2> SUFFICES ASSUME NEW s \in SUBSET {1} PROVE it[s] = step(it, s)
    OBVIOUS
  <2>1. s = {} \/ s = {1}
    OBVIOUS
  <2>2. CASE s = {}
    BY <2>2
  <2>3. CASE s = {1}
    <3>1. Max(s) = 1 /\ s \ {1} = {}
      BY <2>3, <1>1
    <3> QED
      BY <2>3, <3>1, <1>1
  <2> QED
    BY <2>1, <2>2, <2>3
<1>5. iter = [s \in SUBSET {1} |-> step(iter, s)]
  BY <1>4
<1> HIDE DEF iter
<1>6. {} \in SUBSET {1} /\ {1} \in SUBSET {1} /\ {1} # {} /\ {1} \ {1} = {}
  OBVIOUS
<1>7. iter[{}] = step(iter, {}) /\ iter[{1}] = step(iter, {1})
  BY <1>5, <1>6
<1>8. iter[{}] = 0
  BY <1>7
<1>9. iter[{1}] = op(0, c)
  BY <1>1, <1>6, <1>7, <1>8
<1> QED
  BY <1>2, <1>3, <1>9

(* A score of one digit (atoi in ZsetGetScore). *)
LEMMA AtoiOne ==
  ASSUME NEW c \in Digits
  PROVE  atoi(<<c>>) = DigitTable[c]
<1> DEFINE op(v, d) == 10 * v + DigitTable[d]
           step(f, s) == IF s = {} THEN 0 ELSE op(f[s \ {Max(s)}], <<c>>[Max(s)])
           iter == CHOOSE f : f = [s \in SUBSET {1} |-> step(f, s)]
           it == [s \in SUBSET {1} |-> IF s = {} THEN 0 ELSE op(0, c)]
<1>1. DOMAIN <<c>> = {1} /\ Max({1}) = 1 /\ <<c>>[1] = c
  BY DEF Max
<1>2. atoi(<<c>>) = iter[{1}]
  BY <1>1 DEF atoi, FoldLeft, MapThenFoldSet
<1>3. op(0, c) = DigitTable[c]
  BY DigitsAre
<1> HIDE DEF op
<1>4. it = [s \in SUBSET {1} |-> step(it, s)]
  <2> SUFFICES ASSUME NEW s \in SUBSET {1} PROVE it[s] = step(it, s)
    OBVIOUS
  <2>1. s = {} \/ s = {1}
    OBVIOUS
  <2>2. CASE s = {}
    BY <2>2
  <2>3. CASE s = {1}
    <3>1. Max(s) = 1 /\ s \ {1} = {}
      BY <2>3, <1>1
    <3> QED
      BY <2>3, <3>1, <1>1
  <2> QED
    BY <2>1, <2>2, <2>3
<1>5. iter = [s \in SUBSET {1} |-> step(iter, s)]
  BY <1>4
<1> HIDE DEF iter
<1>6. {} \in SUBSET {1} /\ {1} \in SUBSET {1} /\ {1} # {} /\ {1} \ {1} = {}
  OBVIOUS
<1>7. iter[{}] = step(iter, {}) /\ iter[{1}] = step(iter, {1})
  BY <1>5, <1>6
<1>8. iter[{}] = 0
  BY <1>7
<1>9. iter[{1}] = op(0, c)
  BY <1>1, <1>6, <1>7, <1>8
<1> QED
  BY <1>2, <1>3, <1>9

(* Everything redis says is written with these. *)
Octets == Digits \cup {"+", "-", ":", "$", "*", "O", "K", "E", CR, LF}

Objects ==
  {Status(OK), createStringObject("error", ERR), createNilObject}
    \cup {createIntegerObject(n) : n \in 0 .. 9} \cup {Text1(n) : n \in 0 .. 9}
    \cup {createArrayObject(n) : n \in {0, 2}}

LineOf(obj) ==
  CASE obj.type \in {"error", "status"} -> obj.str
    [] obj.type = "integer" -> <<Digit(obj.integer)>>
    [] obj.type = "nil" -> <<"-", "1">>
    [] obj.type = "string" -> <<Digit(1)>>
    [] obj.type = "array" -> <<Digit(obj.elements)>>

Wire(obj) == IF obj.type = "nil" THEN "string" ELSE obj.type

Size(obj) == Len(LineOf(obj)) + (IF obj.type = "string" THEN 6 ELSE 3)

(* An object is a record of a type, and which one says what else it has. *)
LEMMA ObjectsAre ==
  ASSUME NEW obj \in Objects
  PROVE  /\ obj = [type |-> obj.type, integer |-> obj.integer,
                   elements |-> obj.elements, str |-> obj.str]
         /\ \/ obj.type = "status" /\ obj.str = <<"O", "K">>
            \/ obj.type = "error" /\ obj.str = <<"E">>
            \/ obj.type = "integer" /\ obj.integer \in 0 .. 9
            \/ obj.type = "nil"
            \/ obj.type = "string" /\ \E n \in 0 .. 9 : obj.str = <<Digit(n)>>
            \/ obj.type = "array" /\ obj.elements \in {0, 2}
         /\ obj.type \notin {"integer"} => obj.integer = 0
         /\ obj.type # "array" => obj.elements = 0
         /\ obj.type \in {"integer", "nil", "array"} => obj.str = NoStr
BY DEF Objects, Status, Text1, createIntegerObject, createArrayObject, createNilObject,
       createStringObject, createReplyObject, OK, ERR

(* The line of an object, without its first byte and its end. *)
LEMMA LinesAre ==
  ASSUME NEW obj \in Objects
  PROVE  /\ LineOf(obj) \in Seq(Octets) /\ Len(LineOf(obj)) \in 1 .. 2
         /\ \A i \in 1 .. Len(LineOf(obj)) : LineOf(obj)[i] # CR
         /\ Size(obj) \in 4 .. 7 /\ Size(obj) >= Len(LineOf(obj)) + 3
<1> DEFINE fine(t) == /\ t \in Seq(Octets) /\ Len(t) \in 1 .. 2
                      /\ \A i \in 1 .. Len(t) : t[i] # CR
<1>1. \A n \in 0 .. 9 : fine(<<Digit(n)>>)
  <2> SUFFICES ASSUME NEW n \in 0 .. 9 PROVE fine(<<Digit(n)>>)
    OBVIOUS
  <2>1. Digit(n) \in Octets /\ Digit(n) # CR
    BY DigitIs, DigitsAre DEF Octets
  <2> QED
    BY <2>1
<1>2. fine(<<"O", "K">>) /\ fine(<<"E">>) /\ fine(<<"-", "1">>)
  BY DEF Octets, CR, Digits
<1> HIDE DEF fine
<1>3. fine(LineOf(obj))
  BY <1>1, <1>2, ObjectsAre DEF LineOf
<1>4. fine(LineOf(obj)) /\ (obj.type = "string" => Len(LineOf(obj)) = 1)
  BY <1>3 DEF LineOf
<1>5. LineOf(obj) \in Seq(Octets) /\ Len(LineOf(obj)) \in 1 .. 2
  BY <1>4 DEF fine
<1>6. Size(obj) \in 4 .. 7 /\ Size(obj) >= Len(LineOf(obj)) + 3
  <2> DEFINE k == Len(LineOf(obj))
  <2>1. k \in 1 .. 2 /\ (obj.type = "string" => k = 1)
    BY <1>4, <1>5
  <2>2. Size(obj) = k + (IF obj.type = "string" THEN 6 ELSE 3)
    BY DEF Size
  <2> HIDE DEF k
  <2>3. Size(obj) \in 4 .. 7 /\ Size(obj) >= k + 3
    BY <2>1, <2>2
  <2> QED
    BY <2>3 DEF k
<1> QED
  BY <1>4, <1>5, <1>6 DEF fine

(* The bytes of an object: its first byte, its line, and the payload of a  *)
(* string.                                                                 *)
LEMMA EncodedIs ==
  ASSUME NEW obj \in Objects
  PROVE  LET x == Encoded(obj) k == Len(LineOf(obj))
         IN /\ x \in Seq(Octets) /\ Len(x) = Size(obj)
            /\ x[1] \in DOMAIN TypeOfByte /\ TypeOfByte[x[1]] = Wire(obj)
            /\ \A i \in 1 .. k : x[i + 1] = LineOf(obj)[i]
            /\ x[k + 2] = CR /\ x[k + 3] = LF
            /\ obj.type = "string" => x[k + 4] = obj.str[1]
<1> DEFINE eol == <<CR, LF>>
<1>1. CR \in Octets /\ LF \in Octets /\ \A c \in {"+", "-", ":", "$", "*", "O", "K", "E", "1"} : c \in Octets
  BY DEF Octets, Digits
<1>2. \A n \in 0 .. 9 : Digit(n) \in Octets
  BY DigitIs DEF Octets
<1>3. CASE obj.type = "status"
  <2>1. obj.str = <<"O", "K">>
    BY <1>3, ObjectsAre
  <2>2. Encoded(obj) = <<"+">> \o <<"O", "K">> \o <<CR, LF>>
    BY <1>3, <2>1 DEF Encoded
  <2>3. LET y == <<"+">> \o <<"O", "K">> \o <<CR, LF>>
        IN /\ y \in Seq(Octets) /\ Len(y) = 5 /\ y[1] = "+" /\ y[2] = "O" /\ y[3] = "K"
           /\ y[4] = CR /\ y[5] = LF
    BY <1>1
  <2>4. LineOf(obj) = <<"O", "K">> /\ Size(obj) = 5 /\ Wire(obj) = "status"
    BY <1>3, <2>1 DEF LineOf, Size, Wire
  <2>5. TypeOfByte["+"] = "status" /\ "+" \in DOMAIN TypeOfByte
    BY DEF TypeOfByte
  <2> QED
    BY <1>3, <2>2, <2>3, <2>4, <2>5
<1>4. CASE obj.type = "error"
  <2>1. obj.str = <<"E">>
    BY <1>4, ObjectsAre
  <2>2. Encoded(obj) = <<"-">> \o <<"E">> \o <<CR, LF>>
    BY <1>4, <2>1 DEF Encoded
  <2>3. LET y == <<"-">> \o <<"E">> \o <<CR, LF>>
        IN y \in Seq(Octets) /\ Len(y) = 4 /\ y[1] = "-" /\ y[2] = "E" /\ y[3] = CR /\ y[4] = LF
    BY <1>1
  <2>4. LineOf(obj) = <<"E">> /\ Size(obj) = 4 /\ Wire(obj) = "error"
    BY <1>4, <2>1 DEF LineOf, Size, Wire
  <2>5. TypeOfByte["-"] = "error" /\ "-" \in DOMAIN TypeOfByte
    BY DEF TypeOfByte
  <2> QED
    BY <1>4, <2>2, <2>3, <2>4, <2>5
<1>5. CASE obj.type = "integer"
  <2> DEFINE c == Digit(obj.integer)
  <2>1. c \in Octets
    BY <1>2, <1>5, ObjectsAre
  <2>2. Encoded(obj) = <<":", c>> \o <<CR, LF>>
    BY <1>5 DEF Encoded
  <2>4. LineOf(obj) = <<c>> /\ Size(obj) = 4 /\ Wire(obj) = "integer"
    BY <1>5 DEF LineOf, Size, Wire
  <2> HIDE DEF c
  <2>3. LET y == <<":", c>> \o <<CR, LF>>
        IN y \in Seq(Octets) /\ Len(y) = 4 /\ y[1] = ":" /\ y[2] = c /\ y[3] = CR /\ y[4] = LF
    BY <1>1, <2>1
  <2>5. TypeOfByte[":"] = "integer" /\ ":" \in DOMAIN TypeOfByte
    BY DEF TypeOfByte
  <2> QED
    BY <1>5, <2>2, <2>3, <2>4, <2>5
<1>6. CASE obj.type = "nil"
  <2>2. Encoded(obj) = <<"$", "-", "1">> \o <<CR, LF>>
    BY <1>6 DEF Encoded
  <2>3. LET y == <<"$", "-", "1">> \o <<CR, LF>>
        IN /\ y \in Seq(Octets) /\ Len(y) = 5 /\ y[1] = "$" /\ y[2] = "-" /\ y[3] = "1"
           /\ y[4] = CR /\ y[5] = LF
    BY <1>1
  <2>4. LineOf(obj) = <<"-", "1">> /\ Size(obj) = 5 /\ Wire(obj) = "string"
    BY <1>6 DEF LineOf, Size, Wire
  <2>5. TypeOfByte["$"] = "string" /\ "$" \in DOMAIN TypeOfByte
    BY DEF TypeOfByte
  <2> QED
    BY <1>6, <2>2, <2>3, <2>4, <2>5
<1>7. CASE obj.type = "array"
  <2> DEFINE c == Digit(obj.elements)
  <2>1. c \in Octets
    BY <1>2, <1>7, ObjectsAre
  <2>2. Encoded(obj) = <<"*", c>> \o <<CR, LF>>
    BY <1>7 DEF Encoded
  <2>4. LineOf(obj) = <<c>> /\ Size(obj) = 4 /\ Wire(obj) = "array"
    BY <1>7 DEF LineOf, Size, Wire
  <2> HIDE DEF c
  <2>3. LET y == <<"*", c>> \o <<CR, LF>>
        IN y \in Seq(Octets) /\ Len(y) = 4 /\ y[1] = "*" /\ y[2] = c /\ y[3] = CR /\ y[4] = LF
    BY <1>1, <2>1
  <2>5. TypeOfByte["*"] = "array" /\ "*" \in DOMAIN TypeOfByte
    BY DEF TypeOfByte
  <2> QED
    BY <1>7, <2>2, <2>3, <2>4, <2>5
<1>8. CASE obj.type = "string"
  <2>1. PICK n \in 0 .. 9 : obj.str = <<Digit(n)>>
    BY <1>8, ObjectsAre
  <2> DEFINE one == Digit(1)
             c == Digit(n)
  <2>2. one \in Octets /\ c \in Octets /\ obj.str[1] = c /\ Len(obj.str) = 1
    BY <1>2, <2>1
  <2>3. Encoded(obj) = <<"$", one>> \o <<CR, LF>> \o <<c>> \o <<CR, LF>>
    BY <1>8, <2>1 DEF Encoded
  <2>4. LineOf(obj) = <<one>> /\ Size(obj) = 7 /\ Wire(obj) = "string"
    BY <1>8 DEF LineOf, Size, Wire
  <2> HIDE DEF one, c
  <2>5. LET y == <<"$", one>> \o <<CR, LF>> \o <<c>> \o <<CR, LF>>
        IN /\ y \in Seq(Octets) /\ Len(y) = 7 /\ y[1] = "$" /\ y[2] = one
           /\ y[3] = CR /\ y[4] = LF /\ y[5] = c
    BY <1>1, <2>2
  <2>6. TypeOfByte["$"] = "string" /\ "$" \in DOMAIN TypeOfByte
    BY DEF TypeOfByte
  <2>7. /\ Len(LineOf(obj)) = 1 /\ LineOf(obj)[1] = one
        /\ \A i \in 1 .. Len(LineOf(obj)) : i = 1
    BY <2>4
  <2>8. LET x == Encoded(obj)
        IN /\ x \in Seq(Octets) /\ Len(x) = Size(obj)
           /\ x[1] = "$" /\ x[2] = LineOf(obj)[1]
           /\ x[3] = CR /\ x[4] = LF /\ x[5] = obj.str[1]
    BY <2>2, <2>3, <2>4, <2>5, <2>7
  <2> QED
    BY <1>8, <2>4, <2>6, <2>7, <2>8
<1> QED
  BY <1>3, <1>4, <1>5, <1>6, <1>7, <1>8, ObjectsAre

(* One digit is read as the number it writes. *)
LEMMA NumberIs ==
  ASSUME NEW c \in Digits
  PROVE  string2ll(<<c>>) = [ok |-> TRUE, value |-> DigitTable[c]]
<1>1. c # "-" /\ DigitTable[c] \in 0 .. 9
  BY DigitsAre
<1>2. <<c>>[1] = c /\ <<c>> # <<>> /\ ToSet(<<c>>) = {c}
  BY DEF ToSet
<1>3. \/ <<c>> = <<"0">>
      \/ ToSet(<<c>>) \subseteq Digits /\ <<c>>[1] # "0"
  BY <1>2
<1>4. DigitTable[c] # -1 /\ DigitTable[c] <= LLONG_MAX + 0
  BY <1>1, ReaderAssumption
<1> QED
  BY <1>1, <1>2, <1>3, <1>4, UnsignedOne DEF string2ll

(* The length of a nil. *)
LEMMA NilIs == string2ll(<<"-", "1">>) = [ok |-> TRUE, value |-> -1]
<1>1. "1" \in Digits /\ DigitTable["1"] = 1
  BY DEF Digits, DigitTable
<1>2. Unsigned(<<"1">>) = 1
  BY <1>1, UnsignedOne
<1>3. Tail(<<"-", "1">>) = <<"1">>
  OBVIOUS
<1>4. <<"1">> # <<>> /\ ToSet(<<"1">>) \subseteq Digits /\ <<"1">>[1] # "0"
  BY <1>1 DEF ToSet
<1>5. 1 # -1 /\ 1 <= LLONG_MAX + 1
  BY ReaderAssumption
<1>6. <<"-", "1">> # <<>> /\ <<"-", "1">>[1] = "-"
  OBVIOUS
<1> QED
  BY <1>2, <1>3, <1>4, <1>5, <1>6 DEF string2ll

--------------------------------------------------------------------------------
(* The reader: its buffer and the line it looks for. *)

Unread(r) == Len(r.buf) - r.pos

(* A text begins with a byte and a line, and what is unread goes on behind *)
(* the byte.                                                               *)
Begins(x, t) ==
  /\ Len(x) \in Nat /\ Len(x) >= Len(t) + 3
  /\ \A i \in 1 .. Len(t) : x[i + 1] = t[i]
  /\ x[Len(t) + 2] = CR /\ x[Len(t) + 3] = LF
OneLine(t) == \A i \in 1 .. Len(t) : t[i] # CR
GoesOn(r, x) == \A j \in 1 .. Unread(r) : j < Len(x) => r.buf[r.pos + j] = x[j + 1]
IsBuffer(r) == r.buf \in Seq(Octets) /\ r.pos \in 0 .. Len(r.buf)

(* What is unread is a number of bytes. *)
LEMMA BufferIs ==
  ASSUME NEW r, IsBuffer(r)
  PROVE  /\ Len(r.buf) \in Nat /\ r.pos \in Nat /\ r.pos <= Len(r.buf)
         /\ Unread(r) \in Nat /\ Unread(r) = Len(r.buf) - r.pos
         /\ Len(r.buf) = r.pos + Unread(r)
         /\ \A i \in 1 .. Len(r.buf) : r.buf[i] \in Octets
BY DEF IsBuffer, Unread

(* The lesser of two numbers. *)
LEMMA MinIs ==
  ASSUME NEW S, NEW e \in Int, e \in S, \A i \in S : i \in Int /\ e <= i
  PROVE  Min(S) = e
<1> DEFINE least(x) == x \in S /\ \A y \in S : x <= y
<1>1. least(e)
  OBVIOUS
<1>2. Min(S) = CHOOSE x \in S : \A y \in S : x <= y
  BY DEF Min
<1>3. least(Min(S))
  BY <1>1, <1>2
<1> HIDE DEF least
<1>4. Min(S) \in Int /\ Min(S) <= e /\ e <= Min(S)
  BY <1>3 DEF least
<1> QED
  BY <1>4

(* The line is found where it ends, once the end is there. *)
LEMMA LineFound ==
  ASSUME NEW r, IsBuffer(r), NEW t \in Seq(Octets), OneLine(t), NEW x, Begins(x, t),
         GoesOn(r, x)
  PROVE  /\ Unread(r) < Len(t) + 2 => seekNewline(r) = 0
         /\ Unread(r) >= Len(t) + 2 =>
              seekNewline(r) = r.pos + Len(t) + 1 /\ Line(r) = t
<1> DEFINE end(i) == r.buf[i] = CR /\ r.buf[i + 1] = LF
           p == r.pos
           n == Len(r.buf)
           k == Len(t)
           u == Unread(r)
           l == Len(x)
           ends == {i \in p + 1 .. n - 1 : end(i)}
<1>1. /\ p \in Nat /\ u \in Nat /\ n = p + u /\ n \in Nat
      /\ \A i \in 1 .. n : r.buf[i] \in Octets
  BY BufferIs
<1>2. k \in Nat /\ l \in Nat /\ l >= k + 3
  BY DEF Begins
<1>3. \A i \in 1 .. k : t[i] # CR /\ x[i + 1] = t[i]
  BY DEF Begins, OneLine
<1>4. x[k + 2] = CR /\ x[k + 3] = LF
  BY DEF Begins
<1>5. \A j \in 1 .. u : j < l => r.buf[p + j] = x[j + 1]
  BY DEF GoesOn
<1>6. seekNewline(r) = IF ends = {} THEN 0 ELSE Min(ends)
  BY DEF seekNewline
<1>7. Line(r) = SubSeq(r.buf, p + 1, seekNewline(r) - 1)
  BY DEF Line
<1> HIDE DEF p, n, k, u, l
<1>8. ASSUME NEW i \in p + 1 .. n - 1, end(i)
      PROVE  i >= p + k + 1
  <2> SUFFICES ASSUME i < p + k + 1
               PROVE  FALSE
    BY <1>1, <1>2
  <2>1. PICK j \in Int : j = i - p
    BY <1>1
  <2>2. j \in 1 .. u /\ j \in 1 .. k /\ j < l /\ p + j = i
    BY <1>1, <1>2, <2>1
  <2>3. r.buf[p + j] = x[j + 1] /\ x[j + 1] = t[j] /\ t[j] # CR
    BY <1>3, <1>5, <2>2
  <2> QED
    BY <1>8, <2>2, <2>3
<1>9. ASSUME u < k + 2
      PROVE  seekNewline(r) = 0
  <2>1. \A i \in p + 1 .. n - 1 : end(i) => FALSE
    BY <1>1, <1>2, <1>8, <1>9
  <2>2. ends = {}
    BY <2>1
  <2> QED
    BY <1>6, <2>2
<1>10. ASSUME u >= k + 2
       PROVE  seekNewline(r) = p + k + 1 /\ Line(r) = t
  <2> DEFINE e == p + k + 1
  <2>1. r.buf[p + (k + 1)] = x[(k + 1) + 1] /\ r.buf[p + (k + 2)] = x[(k + 2) + 1]
    <3>1. k + 1 \in 1 .. u /\ k + 1 < l /\ k + 2 \in 1 .. u /\ k + 2 < l
      BY <1>1, <1>2, <1>10
    <3> QED
      BY <1>5, <3>1
  <2>2. p + (k + 1) = e /\ (k + 1) + 1 = k + 2 /\ p + (k + 2) = e + 1 /\ (k + 2) + 1 = k + 3
    BY <1>1, <1>2
  <2>3. end(e)
    BY <1>4, <2>1, <2>2
  <2>4. e \in p + 1 .. n - 1
    BY <1>1, <1>2, <1>10
  <2>5. e \in ends /\ \A i \in ends : i \in Int /\ e <= i
    BY <1>1, <1>8, <2>3, <2>4
  <2> HIDE DEF ends
  <2>6. Min(ends) = e
    BY <1>1, <2>4, <2>5, MinIs
  <2>7. seekNewline(r) = e
    BY <1>6, <2>5, <2>6
  <2>8. Line(r) = SubSeq(r.buf, p + 1, p + k)
    <3>1. e - 1 = p + k
      BY <1>1, <1>2
    <3> QED
      BY <1>7, <2>7, <3>1
  <2>9. \A i \in 1 .. k : r.buf[p + 1 + i - 1] = t[i]
    <3> SUFFICES ASSUME NEW i \in 1 .. k PROVE r.buf[p + 1 + i - 1] = t[i]
      OBVIOUS
    <3>1. i \in 1 .. u /\ i < l /\ p + 1 + i - 1 = p + i
      BY <1>1, <1>2, <1>10
    <3> QED
      BY <1>3, <1>5, <3>1
  <2>10. Line(r) = t
    <3> DEFINE s == SubSeq(r.buf, p + 1, p + k)
    <3>1. PICK m \in Int, q \in Int : m = p + 1 /\ q = p + k
      BY <1>1, <1>2
    <3>2. \A i \in m .. q : r.buf[i] \in Octets
      BY <1>1, <1>2, <1>10, <3>1
    <3>3. LET w == SubSeq(r.buf, m, q)
          IN /\ w \in Seq(Octets) /\ Len(w) = IF m <= q THEN q - m + 1 ELSE 0
             /\ \A i \in 1 .. q - m + 1 : w[i] = r.buf[m + i - 1]
      BY <3>2, SubSeqProperties
    <3>4. q - m + 1 = k /\ (IF m <= q THEN q - m + 1 ELSE 0) = k /\ s = SubSeq(r.buf, m, q)
      BY <1>1, <1>2, <3>1
    <3>5. /\ s \in Seq(Octets) /\ Len(s) = k
          /\ \A i \in 1 .. k : s[i] = r.buf[p + 1 + i - 1]
      BY <3>1, <3>3, <3>4
    <3> HIDE DEF s
    <3>6. Len(s) = Len(t) /\ \A i \in 1 .. Len(s) : s[i] = t[i]
      BY <2>9, <3>5 DEF k
    <3>7. s \in Seq(Octets) /\ t \in Seq(Octets)
      BY <3>5
    <3>8. s = t
      BY ONLY <3>6, <3>7, SeqEqual
    <3> QED
      BY <2>8, <3>8 DEF s
  <2> QED
    BY <2>7, <2>10
<1> QED
  BY <1>9, <1>10 DEF p, k, u

--------------------------------------------------------------------------------
(* One object: its line, and what is created of it. *)

(* A reader without an error whose stack and reply are given. *)
ReaderAt(r, stack, reply) ==
  /\ IsBuffer(r) /\ r.short \in BOOLEAN
  /\ r = [buf |-> r.buf, pos |-> r.pos, stack |-> stack, reply |-> reply,
          err |-> "", short |-> r.short]

(* A reader is a record of these fields. *)
LEMMA ReaderIs ==
  ASSUME NEW r, NEW stack, NEW reply, ReaderAt(r, stack, reply)
  PROVE  /\ IsBuffer(r) /\ r.short \in BOOLEAN
         /\ r.stack = stack /\ r.reply = reply /\ r.err = ""
         /\ r = [buf |-> r.buf, pos |-> r.pos, stack |-> r.stack, reply |-> r.reply,
                 err |-> r.err, short |-> r.short]
<1> DEFINE made == [buf |-> r.buf, pos |-> r.pos, stack |-> stack, reply |-> reply,
                    err |-> "", short |-> r.short]
<1>1. r = made /\ IsBuffer(r) /\ r.short \in BOOLEAN
  BY DEF ReaderAt
<1>2. made.stack = stack /\ made.reply = reply /\ made.err = ""
  OBVIOUS
<1> HIDE DEF made
<1>3. r.stack = stack /\ r.reply = reply /\ r.err = ""
  BY <1>1, <1>2
<1> QED
  BY <1>1, <1>3 DEF made

(* The object created is the one that was said. *)
LEMMA ObjectIsMade ==
  ASSUME NEW obj \in Objects
  PROVE  /\ obj.type \in {"status", "error"} => obj = createStringObject(obj.type, obj.str)
         /\ obj.type = "integer" => obj = createIntegerObject(obj.integer)
         /\ obj.type = "nil" => obj = createNilObject
         /\ obj.type = "string" => obj = createStringObject("string", obj.str)
         /\ obj.type = "array" => obj = createArrayObject(obj.elements)
BY DEF Objects, Status, Text1, createIntegerObject, createArrayObject, createNilObject,
       createStringObject, createReplyObject

(* The first byte says the type. *)
LEMMA ObjectBegins ==
  ASSUME NEW obj \in Objects
  PROVE  /\ LineOf(obj) \in Seq(Octets) /\ OneLine(LineOf(obj))
         /\ Begins(Encoded(obj), LineOf(obj)) /\ Len(Encoded(obj)) = Size(obj)
         /\ Size(obj) \in 4 .. 7 /\ Len(LineOf(obj)) \in 1 .. 2
<1>1. Size(obj) >= Len(LineOf(obj)) + 3 /\ Len(Encoded(obj)) = Size(obj) /\ Size(obj) \in Nat
  BY LinesAre, EncodedIs
<1>2. Begins(Encoded(obj), LineOf(obj))
  BY <1>1, EncodedIs DEF Begins
<1>3. OneLine(LineOf(obj))
  BY LinesAre DEF OneLine
<1> QED
  BY <1>1, <1>2, <1>3, LinesAre

(* What a line says of the object it is of. *)
LEMMA LineSays ==
  ASSUME NEW obj \in Objects
  PROVE  LET v == string2ll(LineOf(obj))
         IN /\ obj.type = "integer" => v = [ok |-> TRUE, value |-> obj.integer]
            /\ obj.type = "nil" => v = [ok |-> TRUE, value |-> -1]
            /\ obj.type = "string" => v = [ok |-> TRUE, value |-> 1]
            /\ obj.type = "array" => v = [ok |-> TRUE, value |-> obj.elements]
<1>1. \A n \in 0 .. 9 : string2ll(<<Digit(n)>>) = [ok |-> TRUE, value |-> n]
  BY DigitIs, NumberIs
<1>2. CASE obj.type = "integer"
  <2>1. LineOf(obj) = <<Digit(obj.integer)>> /\ obj.integer \in 0 .. 9
    BY <1>2, ObjectsAre DEF LineOf
  <2> QED
    BY <1>1, <1>2, <2>1
<1>3. CASE obj.type = "nil"
  <2>1. LineOf(obj) = <<"-", "1">>
    BY <1>3 DEF LineOf
  <2> QED
    BY <1>3, <2>1, NilIs
<1>4. CASE obj.type = "string"
  <2>1. LineOf(obj) = <<Digit(1)>>
    BY <1>4 DEF LineOf
  <2> QED
    BY <1>1, <1>4, <2>1
<1>5. CASE obj.type = "array"
  <2>1. LineOf(obj) = <<Digit(obj.elements)>> /\ obj.elements \in 0 .. 9
    BY <1>5, ObjectsAre DEF LineOf
  <2> QED
    BY <1>1, <1>5, <2>1
<1> QED
  BY <1>2, <1>3, <1>4, <1>5

Passed(r, n) == [r EXCEPT !.pos = r.pos + n]

(* An object behind its first byte is created when all of it is there, and *)
(* left alone until then; an array of two opens a task for its elements.   *)
Opens(obj) == obj.type = "array" /\ obj.elements # 0

Done(r, obj) ==
  LET s == Created(Passed(r, Size(obj) - 1), obj)
      top == Len(r.stack)
  IN IF Opens(obj)
     THEN [s EXCEPT !.stack = Append([r.stack EXCEPT ![top].elements = obj.elements], NoTask)]
     ELSE moveToNextTask(s)

(* An object behind its first byte, by its type. *)
LEMMA TypedIs ==
  ASSUME NEW r, NEW stack, NEW reply, ReaderAt(r, stack, reply), NEW obj \in Objects,
         Last(stack).type = Wire(obj), Len(stack) # 9, GoesOn(r, Encoded(obj))
  PROVE  processTyped(r) = IF Unread(r) < Size(obj) - 1 THEN NotEnough(r) ELSE Done(r, obj)
<1> DEFINE t == LineOf(obj)
           k == Len(t)
<1>1. /\ IsBuffer(r) /\ r.stack = stack
      /\ r = [buf |-> r.buf, pos |-> r.pos, stack |-> r.stack, reply |-> r.reply,
              err |-> r.err, short |-> r.short]
  BY ReaderIs
<1>2. /\ Unread(r) \in Nat /\ r.pos \in Nat /\ Len(r.buf) = r.pos + Unread(r)
  BY <1>1, BufferIs
<1>3. k \in 1 .. 2 /\ Size(obj) \in 4 .. 7
  BY ObjectBegins
<1>4. /\ Unread(r) < k + 2 => seekNewline(r) = 0
      /\ Unread(r) >= k + 2 => seekNewline(r) = r.pos + k + 1 /\ Line(r) = t
  BY <1>1, ObjectBegins, LineFound
<1>5. Unread(r) >= k + 2 => seekNewline(r) # 0
  BY <1>2, <1>3, <1>4
<1>6. obj.type # "string" => Size(obj) - 1 = k + 2
  BY <1>3 DEF Size
<1>7. ASSUME Unread(r) >= k + 2
      PROVE  Pass(r) = Passed(r, k + 2)
  <2>1. seekNewline(r) + 1 = r.pos + (k + 2)
    BY <1>2, <1>3, <1>4, <1>7
  <2> QED
    BY <2>1 DEF Pass, Passed
<1> HIDE DEF t, k
<1>8. CASE obj.type \in {"status", "error"}
  <2>1. processTyped(r) = processLineItem(r) /\ Last(r.stack).type = obj.type
    BY <1>1, <1>8 DEF processTyped, Wire
  <2>2. CASE Unread(r) < k + 2
    BY <1>4, <1>6, <1>8, <2>1, <2>2 DEF processLineItem
  <2>3. CASE Unread(r) >= k + 2
    <3>1. t = obj.str
      BY <1>8 DEF t, LineOf
    <3>2. createStringObject(obj.type, Line(r)) = obj
      BY <1>4, <1>8, <2>3, <3>1, ObjectIsMade
    <3>3. processTyped(r) = moveToNextTask(Created(Pass(r), obj))
      BY <1>5, <1>8, <2>1, <2>3, <3>2 DEF processLineItem
    <3> QED
      BY <1>2, <1>3, <1>6, <1>7, <1>8, <2>3, <3>3 DEF Done, Opens
  <2> QED
    BY <1>2, <1>3, <2>2, <2>3
<1>9. CASE obj.type = "integer"
  <2>1. processTyped(r) = processLineItem(r) /\ Last(r.stack).type = "integer"
    BY <1>1, <1>9 DEF processTyped, Wire
  <2>2. CASE Unread(r) < k + 2
    BY <1>4, <1>6, <1>9, <2>1, <2>2 DEF processLineItem
  <2>3. CASE Unread(r) >= k + 2
    <3>1. string2ll(Line(r)) = [ok |-> TRUE, value |-> obj.integer]
      BY <1>4, <1>9, <2>3, LineSays DEF t
    <3>2. createIntegerObject(obj.integer) = obj
      BY <1>9, ObjectIsMade
    <3>3. processTyped(r) = moveToNextTask(Created(Pass(r), obj))
      BY <1>5, <2>1, <2>3, <3>1, <3>2 DEF processLineItem
    <3> QED
      BY <1>2, <1>3, <1>6, <1>7, <1>9, <2>3, <3>3 DEF Done, Opens
  <2> QED
    BY <1>2, <1>3, <2>2, <2>3
<1>10. CASE obj.type = "nil"
  <2>1. processTyped(r) = processBulkItem(r)
    BY <1>1, <1>10 DEF processTyped, Wire
  <2>2. CASE Unread(r) < k + 2
    BY <1>4, <1>6, <1>10, <2>1, <2>2 DEF processBulkItem
  <2>3. CASE Unread(r) >= k + 2
    <3>1. string2ll(Line(r)) = [ok |-> TRUE, value |-> -1]
      BY <1>4, <1>10, <2>3, LineSays DEF t
    <3>2. createNilObject = obj
      BY <1>10, ObjectIsMade
    <3>3. processTyped(r) = moveToNextTask(Created(Pass(r), obj))
      BY <1>5, <2>1, <2>3, <3>1, <3>2 DEF processBulkItem
    <3> QED
      BY <1>2, <1>3, <1>6, <1>7, <1>10, <2>3, <3>3 DEF Done, Opens
  <2> QED
    BY <1>2, <1>3, <2>2, <2>3
<1>11. CASE obj.type = "array"
  <2>1. processTyped(r) = processMultiBulkItem(r)
    BY <1>1, <1>11 DEF processTyped, Wire
  <2>2. Len(r.stack) # 9
    BY <1>1
  <2>3. CASE Unread(r) < k + 2
    BY <1>4, <1>6, <1>11, <2>1, <2>2, <2>3 DEF processMultiBulkItem
  <2>4. CASE Unread(r) >= k + 2
    <3>1. string2ll(Line(r)) = [ok |-> TRUE, value |-> obj.elements]
      BY <1>4, <1>11, <2>4, LineSays DEF t
    <3>2. createArrayObject(obj.elements) = obj /\ obj.elements \in {0, 2}
      BY <1>11, ObjectIsMade, ObjectsAre
    <3>3. obj.elements <= INT_MAX
      BY <3>2, ReaderAssumption
    <3>4. Pass(r) = Passed(r, Size(obj) - 1)
      BY <1>3, <1>6, <1>7, <1>11, <2>4
    <3>5. CASE obj.elements = 0
      <4>1. processTyped(r) = moveToNextTask(Created(Pass(r), obj))
        BY <1>5, <2>1, <2>2, <2>4, <3>1, <3>2, <3>3, <3>5 DEF processMultiBulkItem
      <4> QED
        BY <1>2, <1>3, <1>6, <1>11, <2>4, <3>4, <3>5, <4>1 DEF Done, Opens
    <3>6. CASE obj.elements = 2
      <4>1. processTyped(r) =
              Created([Pass(r) EXCEPT !.stack =
                         Append([r.stack EXCEPT ![Len(r.stack)].elements = 2], NoTask)], obj)
        <5>1. 2 \in 1 .. INT_MAX
          BY <3>3, <3>6, ReaderAssumption
        <5> QED
          BY <1>5, <2>1, <2>2, <2>4, <3>1, <3>2, <3>6, <5>1 DEF processMultiBulkItem
      <4>2. Done(r, obj) = Created([Passed(r, Size(obj) - 1) EXCEPT !.stack =
                         Append([r.stack EXCEPT ![Len(r.stack)].elements = 2], NoTask)], obj)
        <5>1. Opens(obj)
          BY <1>11, <3>6 DEF Opens
        <5>2. [r EXCEPT !.pos = r.pos + (Size(obj) - 1)] = Passed(r, Size(obj) - 1)
          BY DEF Passed
        <5> QED
          BY <1>1, <3>6, <5>1 DEF Done, Created, Passed
      <4> QED
        BY <1>2, <1>3, <1>6, <1>11, <2>4, <3>4, <4>1, <4>2
    <3> QED
      BY <3>2, <3>5, <3>6
  <2> QED
    BY <1>2, <1>3, <2>3, <2>4
<1>12. CASE obj.type = "string"
  <2>1. processTyped(r) = processBulkItem(r)
    BY <1>1, <1>12 DEF processTyped, Wire
  <2>2. k = 1 /\ Size(obj) = 7
    BY <1>12 DEF t, k, LineOf, Size
  <2>3. CASE Unread(r) < 3
    BY <1>2, <1>4, <2>1, <2>2, <2>3 DEF processBulkItem
  <2>4. CASE Unread(r) >= 3
    <3>1. string2ll(Line(r)) = [ok |-> TRUE, value |-> 1]
      BY <1>4, <1>12, <2>2, <2>4, LineSays DEF t
    <3>2. seekNewline(r) + 1 = r.pos + 3 /\ seekNewline(r) # 0
      BY <1>2, <1>4, <1>5, <2>2, <2>4
    <3>3. r.pos + 3 + 1 + 2 <= Len(r.buf) <=> Unread(r) >= 6
      BY <1>2
    <3>4. CASE Unread(r) < 6
      BY <1>2, <2>1, <2>2, <3>1, <3>2, <3>3, <3>4 DEF processBulkItem
    <3>5. CASE Unread(r) >= 6
      <4>1. SubSeq(r.buf, r.pos + 3 + 1, r.pos + 3 + 1) = obj.str
        <5>1. r.buf[r.pos + 4] = Encoded(obj)[5]
          <6>1. 4 \in 1 .. Unread(r) /\ 4 < Len(Encoded(obj))
            BY <1>2, <2>2, <3>5, ObjectBegins
          <6> QED
            BY <6>1 DEF GoesOn
        <5>2. Encoded(obj)[5] = obj.str[1]
          <6>1. Encoded(obj)[Len(LineOf(obj)) + 4] = obj.str[1]
            BY <1>12, EncodedIs
          <6>2. Len(LineOf(obj)) + 4 = 5
            BY <2>2 DEF k, t
          <6> QED
            BY <6>1, <6>2
        <5>3. PICK c : obj.str = <<c>>
          BY <1>12, ObjectsAre
        <5>4. PICK m \in Int : m = r.pos + 3 + 1
          BY <1>2
        <5>5. r.buf[m] = c
          BY <1>2, <5>1, <5>2, <5>3, <5>4
        <5>6. SubSeq(r.buf, m, m) = <<r.buf[m]>>
          <6> DEFINE s == SubSeq(r.buf, m, m)
          <6>1. m \in 1 .. Len(r.buf)
            BY <1>2, <3>5, <5>4
          <6>2. \A i \in m .. m : r.buf[i] \in Octets
            BY <1>1, <6>1, BufferIs
          <6>3. /\ s \in Seq(Octets) /\ Len(s) = IF m <= m THEN m - m + 1 ELSE 0
                /\ \A i \in 1 .. m - m + 1 : s[i] = r.buf[m + i - 1]
            BY <6>2, SubSeqProperties
          <6>4. m <= m /\ m - m + 1 = 1 /\ m + 1 - 1 = m
            OBVIOUS
          <6> HIDE DEF s
          <6>5. s \in Seq(Octets) /\ Len(s) = 1 /\ s[1] = r.buf[m]
            BY <6>3, <6>4
          <6>6. r.buf[m] \in Octets
            BY <6>2
          <6>7. s = <<r.buf[m]>>
            BY ONLY <6>5, <6>6
          <6> QED
            BY <6>7 DEF s
        <5> QED
          BY <5>3, <5>4, <5>5, <5>6
      <4>2. createStringObject("string", obj.str) = obj
        BY <1>12, ObjectIsMade
      <4>3. r.pos + 3 + 1 + 2 = r.pos + (Size(obj) - 1)
        BY <1>2, <2>2
      <4>4. processTyped(r) =
              moveToNextTask(Created([r EXCEPT !.pos = r.pos + (Size(obj) - 1)], obj))
        <5>1. PICK from \in Nat : from = seekNewline(r) + 1 /\ from = r.pos + 3
          BY <1>2, <3>2
        <5>2. from + 1 + 2 <= Len(r.buf) /\ from + 1 + 2 = r.pos + (Size(obj) - 1)
          BY <1>2, <3>3, <3>5, <4>3, <5>1
        <5>3. SubSeq(r.buf, from + 1, from + 1) = obj.str
          BY <1>2, <4>1, <5>1
        <5>4. processBulkItem(r) =
                moveToNextTask(Created([r EXCEPT !.pos = from + 1 + 2],
                                       createStringObject("string",
                                          SubSeq(r.buf, from + 1, from + 1))))
          BY <3>1, <3>2, <5>1, <5>2 DEF processBulkItem
        <5> QED
          BY <2>1, <4>2, <5>2, <5>3, <5>4
      <4> QED
        BY <1>2, <1>12, <2>2, <3>5, <4>4 DEF Done, Opens, Passed
    <3> QED
      BY <1>2, <3>4, <3>5
  <2> QED
    BY <1>2, <2>3, <2>4
<1> QED
  BY <1>8, <1>9, <1>10, <1>11, <1>12, ObjectsAre

--------------------------------------------------------------------------------
(* The replies redis gives, and where the bytes of their objects lie. *)

Replies ==
  {<<obj>> : obj \in {o \in Objects : ~Opens(o)}}
    \cup {<<createArrayObject(2), Text1(n), last>> :
            n \in 0 .. 9, last \in {createNilObject} \cup {Text1(m) : m \in 0 .. 9}}

IsJoined(x, a, b) ==
  /\ x \in Seq(Octets) /\ Len(x) = Len(a) + Len(b)
  /\ \A i \in 1 .. Len(a) : x[i] = a[i]
  /\ \A i \in 1 .. Len(b) : x[Len(a) + i] = b[i]

(* The bytes of two texts, one after the other. *)
LEMMA Joined ==
  ASSUME NEW a \in Seq(Octets), NEW b \in Seq(Octets)
  PROVE  IsJoined(a \o b, a, b)
<1> DEFINE k == Len(a)
           l == Len(b)
           x == a \o b
<1>1. /\ x \in Seq(Octets) /\ Len(x) = k + l /\ k \in Nat /\ l \in Nat
      /\ \A i \in 1 .. k + l : x[i] = IF i <= k THEN a[i] ELSE b[i - k]
  BY ConcatProperties
<1> HIDE DEF k, l, x
<1>2. ASSUME NEW i \in 1 .. k PROVE x[i] = a[i]
  <2>1. i \in 1 .. k + l /\ i <= k
    BY <1>1
  <2> QED
    BY <1>1, <2>1
<1>3. ASSUME NEW i \in 1 .. l PROVE x[k + i] = b[i]
  <2>1. k + i \in 1 .. k + l /\ ~(k + i <= k) /\ (k + i) - k = i
    BY <1>1
  <2> QED
    BY <1>1, <2>1
<1> QED
  BY <1>1, <1>2, <1>3 DEF k, l, x, IsJoined

Start(i) == IF i = 1 THEN 0 ELSE IF i = 2 THEN 4 ELSE 11

(* A reply has at most three objects, each of those redis says. *)
LEMMA RepliesAre ==
  ASSUME NEW R \in Replies
  PROVE  /\ R \in Seq(Objects) /\ Len(R) \in {1, 3}
         /\ Len(R) = 1 => ~Opens(R[1])
         /\ Len(R) = 3 => /\ Opens(R[1]) /\ R[1].elements = 2
                          /\ Size(R[1]) = 4 /\ Size(R[2]) = 7
                          /\ ~Opens(R[2]) /\ ~Opens(R[3])
<1>1. CASE \E obj \in Objects : ~Opens(obj) /\ R = <<obj>>
  BY <1>1
<1>2. ASSUME NEW n \in 0 .. 9,
             NEW last \in {createNilObject} \cup {Text1(m) : m \in 0 .. 9},
             R = <<createArrayObject(2), Text1(n), last>>
      PROVE  /\ R \in Seq(Objects) /\ Len(R) = 3
             /\ Opens(R[1]) /\ R[1].elements = 2
             /\ Size(R[1]) = 4 /\ Size(R[2]) = 7
             /\ ~Opens(R[2]) /\ ~Opens(R[3])
  <2>1. createArrayObject(2) \in Objects /\ Text1(n) \in Objects /\ last \in Objects
    BY <1>2 DEF Objects
  <2>2. /\ createArrayObject(2).type = "array" /\ createArrayObject(2).elements = 2
        /\ Text1(n).type = "string" /\ last.type # "array"
    BY <1>2 DEF createArrayObject, Text1, createNilObject, createStringObject,
                createReplyObject
  <2>3. R[1] = createArrayObject(2) /\ R[2] = Text1(n) /\ R[3] = last
        /\ Len(R) = 3 /\ R \in Seq(Objects)
    BY <1>2, <2>1
  <2>4. Size(R[1]) = 4 /\ Size(R[2]) = 7
    <3>1. LineOf(R[1]) = <<Digit(R[1].elements)>> /\ LineOf(R[2]) = <<Digit(1)>>
      BY <2>2, <2>3 DEF LineOf
    <3>2. R[1].type # "string" /\ R[2].type = "string"
      BY <2>2, <2>3
    <3>3. Len(<<Digit(R[1].elements)>>) = 1 /\ Len(<<Digit(1)>>) = 1
      OBVIOUS
    <3> QED
      BY <3>1, <3>2, <3>3 DEF Size
  <2> QED
    BY <2>2, <2>3, <2>4 DEF Opens
<1> QED
  BY <1>1, <1>2 DEF Replies

(* The bytes of a reply are those of its objects, in order. *)
LEMMA FlattenIs ==
  ASSUME NEW S, NEW seqs \in Seq(S), Len(seqs) \in {1, 3}
  PROVE  FlattenSeq(seqs) =
           IF Len(seqs) = 1 THEN seqs[1] ELSE (seqs[1] \o seqs[2]) \o seqs[3]
<1> DEFINE n == Len(seqs)
           next(f, i) == IF i = 1 THEN seqs[i] ELSE f[i - 1] \o seqs[i]
           flatten == CHOOSE f : f = [i \in 1 .. n |-> next(f, i)]
           two == seqs[1] \o seqs[2]
           three == two \o seqs[3]
           it == [i \in 1 .. n |->
                    IF i = 1 THEN seqs[1] ELSE IF i = 2 THEN two ELSE three]
<1>1. FlattenSeq(seqs) = flatten[n]
  BY DEF FlattenSeq
<1>2. n = 1 \/ n = 3
  OBVIOUS
<1> HIDE DEF n
<1>3. ASSUME NEW i \in 1 .. n
      PROVE  it[i] = next(it, i)
  <2>1. CASE n = 1
    <3>1. i = 1
      BY <2>1, <1>3
    <3> QED
      BY <3>1, <1>3
  <2>2. CASE n = 3
    <3>1. i = 1 \/ i = 2 \/ i = 3
      BY <2>2, <1>3
    <3>2. 1 \in 1 .. n /\ 2 \in 1 .. n
      BY <2>2
    <3>3. CASE i = 1
      BY <3>3, <1>3
    <3>4. CASE i = 2
      <4>1. it[2] = seqs[1] \o seqs[2] /\ it[1] = seqs[1]
        <5> HIDE DEF two, three
        <5>1. it[2] = two /\ it[1] = seqs[1]
          BY <3>2
        <5> QED
          BY <5>1 DEF two
      <4>2. next(it, 2) = it[1] \o seqs[2]
        <5>1. 2 - 1 = 1 /\ 2 # 1
          OBVIOUS
        <5> HIDE DEF it
        <5> QED
          BY <5>1
      <4> QED
        BY <3>4, <4>1, <4>2
    <3>5. CASE i = 3
      <4>1. it[2] = seqs[1] \o seqs[2] /\ it[3] = (seqs[1] \o seqs[2]) \o seqs[3]
        <5> HIDE DEF two, three
        <5>1. it[2] = two /\ it[3] = three
          BY <1>3, <3>2, <3>5
        <5> QED
          BY <5>1 DEF two, three
      <4>2. next(it, 3) = it[2] \o seqs[3]
        <5>1. 3 - 1 = 2 /\ 3 # 1
          OBVIOUS
        <5> HIDE DEF it
        <5> QED
          BY <5>1
      <4> QED
        BY <3>5, <4>1, <4>2
    <3> QED
      BY <3>1, <3>3, <3>4, <3>5
  <2> QED
    BY <1>2, <2>1, <2>2
<1>4. it = [i \in 1 .. n |-> next(it, i)]
  <2> DEFINE that == [i \in 1 .. n |-> next(it, i)]
  <2>1. \A i \in 1 .. n : that[i] = next(it, i)
    OBVIOUS
  <2>2. DOMAIN it = 1 .. n /\ DOMAIN that = 1 .. n
    OBVIOUS
  <2>3. it = [i \in 1 .. n |-> it[i]] /\ that = [i \in 1 .. n |-> that[i]]
    OBVIOUS
  <2>4. \A i \in 1 .. n : it[i] = that[i]
    BY <1>3, <2>1
  <2> HIDE DEF it, that
  <2>5. it = that
    BY <2>3, <2>4
  <2> QED
    BY <2>5 DEF that
<1>5. flatten = [i \in 1 .. n |-> next(flatten, i)]
  <2> HIDE DEF it, next
  <2> QED
    BY <1>4
<1> HIDE DEF flatten
<1>6. \A i \in 1 .. n : flatten[i] = next(flatten, i)
  <2> HIDE DEF next
  <2> QED
    BY <1>5
<1>7. CASE n = 1
  <2>1. 1 \in 1 .. n
    BY <1>7
  <2> QED
    BY <1>1, <1>6, <1>7, <2>1 DEF n
<1>8. CASE n = 3
  <2>1. 1 \in 1 .. n /\ 2 \in 1 .. n /\ 3 \in 1 .. n
    BY <1>8
  <2>2. flatten[1] = next(flatten, 1) /\ flatten[2] = next(flatten, 2)
        /\ flatten[3] = next(flatten, 3)
    <3> HIDE DEF next
    <3> QED
      BY <1>6, <2>1
  <2>3. flatten[1] = seqs[1] /\ flatten[2] = flatten[1] \o seqs[2]
        /\ flatten[3] = flatten[2] \o seqs[3]
    <3>1. 2 # 1 /\ 3 # 1 /\ 2 - 1 = 1 /\ 3 - 1 = 2
      OBVIOUS
    <3> QED
      BY <2>2, <3>1, Zenon
  <2>4. FlattenSeq(seqs) = (seqs[1] \o seqs[2]) \o seqs[3]
    BY <1>1, <1>8, <2>3
  <2> QED
    BY <1>8, <2>4 DEF n
<1> QED
  BY <1>2, <1>7, <1>8
(* Where the bytes of each object lie in those of the reply. *)
LEMMA BytesAre ==
  ASSUME NEW R \in Replies
  PROVE  /\ Bytes(R) \in Seq(Octets)
         /\ \A i \in DOMAIN R :
              /\ R[i] \in Objects
              /\ i < Len(R) => Start(i) + Size(R[i]) = Start(i + 1)
              /\ i = Len(R) => Start(i) + Size(R[i]) = Len(Bytes(R))
              /\ Start(i) + Size(R[i]) <= Len(Bytes(R))
              /\ \A j \in 1 .. Size(R[i]) : Bytes(R)[Start(i) + j] = Encoded(R[i])[j]
<1> DEFINE seqs == [i \in DOMAIN R |-> Encoded(R[i])]
           n == Len(R)
<1>1. R \in Seq(Objects) /\ n \in {1, 3} /\ DOMAIN R = 1 .. n
  BY RepliesAre
<1>2. \A i \in 1 .. n : /\ R[i] \in Objects /\ seqs[i] = Encoded(R[i])
                        /\ seqs[i] \in Seq(Octets) /\ Len(seqs[i]) = Size(R[i])
                        /\ Size(R[i]) \in 4 .. 7
  BY <1>1, EncodedIs, LinesAre
<1>3. seqs \in Seq(Seq(Octets)) /\ Len(seqs) = n
  BY <1>1, <1>2
<1>4. Bytes(R) = FlattenSeq(seqs)
  BY DEF Bytes
<1>5. n = 1 \/ n = 3
  BY <1>1
<1> HIDE DEF seqs, n
<1>6. n = 1 => Bytes(R) = seqs[1]
  BY <1>3, <1>4, FlattenIs
<1>71. n = 3 => n # 1
  BY <1>5
<1>7. n = 3 => Bytes(R) = (seqs[1] \o seqs[2]) \o seqs[3]
  BY <1>3, <1>4, <1>71, FlattenIs, Zenon
<1>8. CASE n = 1
  <2>1. Bytes(R) = Encoded(R[1])
    <3>1. 1 \in 1 .. n
      BY <1>8
    <3> QED
      BY <1>2, <1>6, <1>8, <3>1
  <2>2. \A i \in 1 .. n : i = 1
    BY <1>8
  <2>3. Start(1) = 0
    BY DEF Start
  <2> QED
    BY <1>1, <1>2, <1>8, <2>1, <2>2, <2>3 DEF n
<1>9. CASE n = 3
  <2>0. 1 \in 1 .. n /\ 2 \in 1 .. n /\ 3 \in 1 .. n
    BY <1>9
  <2>2. Bytes(R) = (seqs[1] \o seqs[2]) \o seqs[3]
    BY <1>7, <1>9
  <2>3. Size(R[1]) = 4 /\ Size(R[2]) = 7
    BY <1>9, RepliesAre DEF n
  <2> DEFINE a == seqs[1]
             b == seqs[2]
             c == seqs[3]
             u == a \o b
             x == u \o c
             z == Size(R[3])
  <2>4. /\ a \in Seq(Octets) /\ Len(a) = 4 /\ b \in Seq(Octets) /\ Len(b) = 7
        /\ c \in Seq(Octets) /\ Len(c) = z /\ z \in 4 .. 7
        /\ a = Encoded(R[1]) /\ b = Encoded(R[2]) /\ c = Encoded(R[3])
    BY <1>2, <2>0, <2>3
  <2> HIDE DEF a, b, c, z
  <2>5. /\ u \in Seq(Octets) /\ Len(u) = 4 + 7
        /\ \A i \in 1 .. 4 : u[i] = a[i]
        /\ \A i \in 1 .. 7 : u[4 + i] = b[i]
    <3>1. IsJoined(a \o b, a, b)
      BY <2>4, Joined
    <3> HIDE DEF u
    <3>2. u = a \o b
      BY DEF u
    <3> QED
      BY <2>4, <3>1, <3>2 DEF IsJoined
  <2> HIDE DEF u
  <2>6. /\ x \in Seq(Octets) /\ Len(x) = 11 + z
        /\ \A i \in 1 .. 11 : x[i] = u[i]
        /\ \A i \in 1 .. z : x[11 + i] = c[i]
    <3>1. IsJoined(u \o c, u, c)
      BY <2>4, <2>5, Joined
    <3> HIDE DEF x
    <3>2. IsJoined(x, u, c)
      BY <3>1 DEF x
    <3>3. Len(u) = 11 /\ Len(c) = z
      BY <2>4, <2>5
    <3>4. \A i \in 1 .. Len(u) : x[i] = u[i]
      BY <3>2 DEF IsJoined
    <3>5. \A i \in 1 .. Len(c) : x[Len(u) + i] = c[i]
      BY <3>2 DEF IsJoined
    <3>6. x \in Seq(Octets) /\ Len(x) = 11 + z
      BY <3>2, <3>3 DEF IsJoined
    <3>7. \A i \in 1 .. 11 : x[i] = u[i]
      BY <3>3, <3>4
    <3>8. \A i \in 1 .. z : x[11 + i] = c[i]
      BY <3>3, <3>5
    <3> QED
      BY <3>6, <3>7, <3>8
  <2> HIDE DEF x
  <2>7. \A j \in 1 .. 4 : x[0 + j] = a[j]
    <3> SUFFICES ASSUME NEW j \in 1 .. 4 PROVE x[0 + j] = a[j]
      OBVIOUS
    <3>1. j \in 1 .. 11 /\ 0 + j = j
      OBVIOUS
    <3> QED
      BY <2>5, <2>6, <3>1
  <2>8. \A j \in 1 .. 7 : x[4 + j] = b[j]
    <3> SUFFICES ASSUME NEW j \in 1 .. 7 PROVE x[4 + j] = b[j]
      OBVIOUS
    <3>1. 4 + j \in 1 .. 11
      OBVIOUS
    <3> QED
      BY <2>5, <2>6, <3>1
  <2>9. \A j \in 1 .. z : x[11 + j] = c[j]
    BY <2>6
  <2>10. Bytes(R) = x
    BY <2>2 DEF x, u, a, b, c
  <2>11. Start(1) = 0 /\ Start(2) = 4 /\ Start(3) = 11
    BY DEF Start
  <2> DEFINE good(i) == /\ i < n => Start(i) + Size(R[i]) = Start(i + 1)
                        /\ i = n => Start(i) + Size(R[i]) = Len(x)
                        /\ Start(i) + Size(R[i]) <= Len(x)
                        /\ \A j \in 1 .. Size(R[i]) : x[Start(i) + j] = Encoded(R[i])[j]
  <2>12. good(1)
    <3>1. Start(1) + Size(R[1]) = 4 /\ 1 # n /\ Start(1 + 1) = 4
      BY <1>9, <2>3, <2>11
    <3>2. 4 <= Len(x)
      BY <2>4, <2>6
    <3>3. \A j \in 1 .. Size(R[1]) : x[Start(1) + j] = Encoded(R[1])[j]
      BY <2>3, <2>4, <2>7, <2>11
    <3> QED
      BY <3>1, <3>2, <3>3
  <2>13. good(2)
    <3>1. Start(2) + Size(R[2]) = 11 /\ 2 # n /\ Start(2 + 1) = 11
      BY <1>9, <2>3, <2>11
    <3>2. 11 <= Len(x)
      BY <2>4, <2>6
    <3>3. \A j \in 1 .. Size(R[2]) : x[Start(2) + j] = Encoded(R[2])[j]
      BY <2>3, <2>4, <2>8, <2>11
    <3> QED
      BY <3>1, <3>2, <3>3
  <2>14. good(3)
    <3>1. Start(3) + Size(R[3]) = Len(x) /\ ~(3 < n) /\ Len(x) \in Nat
      BY <1>9, <2>4, <2>6, <2>11 DEF z
    <3>2. \A j \in 1 .. Size(R[3]) : x[Start(3) + j] = Encoded(R[3])[j]
      BY <2>4, <2>9, <2>11 DEF z
    <3>3. Start(3) + Size(R[3]) <= Len(x)
      BY <3>1
    <3> QED
      BY <3>1, <3>2, <3>3
  <2>15. \A i \in 1 .. n : i = 1 \/ i = 2 \/ i = 3
    BY <1>9
  <2> HIDE DEF good
  <2>16. \A i \in 1 .. n : good(i)
    BY <2>12, <2>13, <2>14, <2>15
  <2> QED
    BY <1>1, <1>2, <2>6, <2>10, <2>16 DEF good, n
<1> QED
  BY <1>1, <1>8, <1>9

--------------------------------------------------------------------------------
(* The stack of the reader inside a reply. *)

Task(type, elements, idx) == [type |-> type, elements |-> elements, idx |-> idx]

StackAt(i, type) ==
  IF i = 1 THEN <<Task(type, -1, 0)>>
  ELSE <<Task("array", 2, 0), Task(type, -1, i - 2)>>

Taken(i, type) == IF type = "" THEN Start(i) ELSE Start(i) + 1

(* A reader that has been given the first bytes of a reply, and is at one  *)
(* of its objects, before its first byte or behind it.                     *)
Inside(r, R, i, type, got) ==
  /\ ReaderAt(r, StackAt(i, type), SubSeq(R, 1, i - 1))
  /\ i \in DOMAIN R /\ type \in {"", Wire(R[i])}
  /\ got \in 0 .. Len(Bytes(R)) /\ got = Taken(i, type) + Unread(r)
  /\ \A j \in 1 .. Unread(r) : r.buf[r.pos + j] = Bytes(R)[Taken(i, type) + j]

(* Where the objects of a reply begin and end. *)
LEMMA PlacesAre ==
  ASSUME NEW R \in Replies, NEW i \in DOMAIN R
  PROVE  /\ i = 1 \/ (i = 2 /\ Len(R) = 3) \/ (i = 3 /\ Len(R) = 3)
         /\ Start(i) \in {0, 4, 11} /\ Size(R[i]) \in 4 .. 7
         /\ R[i] \in Objects /\ Wire(R[i]) # "" /\ i \in 1 .. Len(R)
<1>1. R \in Seq(Objects) /\ Len(R) \in {1, 3}
  BY RepliesAre
<1>2. i \in 1 .. Len(R) /\ R[i] \in Objects
  BY <1>1
<1>3. i = 1 \/ (i = 2 /\ Len(R) = 3) \/ (i = 3 /\ Len(R) = 3)
  <2>1. CASE Len(R) = 1
    BY <1>2, <2>1
  <2>2. CASE Len(R) = 3
    BY <1>2, <2>2
  <2> QED
    BY <1>1, <2>1, <2>2
<1>4. Wire(R[i]) # ""
  BY <1>2, ObjectsAre DEF Wire
<1> QED
  BY <1>2, <1>3, <1>4, LinesAre DEF Start

(* The stack at an object has a task on top. *)
LEMMA StacksAre ==
  ASSUME NEW i \in {1, 2, 3}, NEW type
  PROVE  /\ Len(StackAt(i, type)) = IF i = 1 THEN 1 ELSE 2
         /\ Last(StackAt(i, type)) = Task(type, -1, IF i = 1 THEN 0 ELSE i - 2)
         /\ Last(StackAt(i, type)).type = type
<1>1. CASE i = 1
  BY <1>1 DEF StackAt, Last, Task
<1>2. CASE i # 1
  BY <1>2 DEF StackAt, Last, Task
<1> QED
  BY <1>1, <1>2

(* An array of two is a reply of three objects. *)
LEMMA LastIs ==
  ASSUME NEW i \in {1, 2, 3}, NEW type
  PROVE  Last(StackAt(i, type)).type = type
BY StacksAre

(* Only the two objects behind an array have a parent. *)
LEMMA Pairs ==
  ASSUME NEW a, NEW b
  PROVE  SubSeq(<<a, b>>, 1, 1) = <<a>> /\ Append(<<a>>, b) = <<a, b>>
<1> DEFINE S == {a, b}
<1> a \in S /\ b \in S
  OBVIOUS
<1> HIDE DEF S
<1>1. SubSeq(<<a, b>>, 1, 1) = <<a>>
  <2> DEFINE s == SubSeq(<<a, b>>, 1, 1)
  <2>1. <<a, b>>[1] = a /\ \A i \in 1 .. 1 : <<a, b>>[i] \in S
    OBVIOUS
  <2>2. /\ s \in Seq(S) /\ Len(s) = IF 1 <= 1 THEN 1 - 1 + 1 ELSE 0
        /\ \A i \in 1 .. 1 - 1 + 1 : s[i] = <<a, b>>[1 + i - 1]
    BY <2>1, SubSeqProperties
  <2>3. 1 - 1 + 1 = 1 /\ 1 + 1 - 1 = 1 /\ 1 <= 1
    OBVIOUS
  <2> HIDE DEF s
  <2>4. s \in Seq(S) /\ Len(s) = 1 /\ s[1] = a
    BY <2>1, <2>2, <2>3
  <2>5. s = <<a>>
    BY ONLY <2>4, a \in S
  <2> QED
    BY <2>5 DEF s
<1>2. Append(<<a>>, b) = <<a, b>>
  <2> DEFINE s == Append(<<a>>, b)
  <2>1. s \in Seq(S) /\ Len(s) = 2 /\ s[1] = a /\ s[2] = b
    OBVIOUS
  <2>2. <<a, b>> \in Seq(S) /\ Len(<<a, b>>) = 2
    OBVIOUS
  <2> HIDE DEF s
  <2>3. \A i \in 1 .. 2 : s[i] = <<a, b>>[i]
    BY <2>1
  <2>4. s = <<a, b>>
    BY <2>1, <2>2, <2>3, SeqEqual
  <2> QED
    BY <2>4 DEF s
<1> QED
  BY <1>1, <1>2

(* The place of an element in its array. *)
LEMMA IdxIs ==
  ASSUME NEW type, NEW elements, NEW idx, NEW next
  PROVE  [[type |-> type, elements |-> elements, idx |-> idx] EXCEPT !.idx = next]
           = [type |-> type, elements |-> elements, idx |-> next]
OBVIOUS

(* The next task once an object that opens nothing is there. *)
LEMMA MovesOn ==
  ASSUME NEW r, NEW reply, NEW type, NEW i \in {1, 2, 3}, ReaderAt(r, StackAt(i, type), reply)
  PROVE  moveToNextTask(r) =
           [r EXCEPT !.stack = IF i = 2 THEN StackAt(3, "") ELSE <<>>]
<1> DEFINE open == {j \in 2 .. Len(r.stack) : r.stack[j].idx # r.stack[j - 1].elements - 1}
<1>1. r.stack = StackAt(i, type)
  BY ReaderIs
<1>2. CASE i = 1
  <2>1. Len(r.stack) = 1
    BY <1>1, <1>2, StacksAre
  <2>2. \A j \in 2 .. 1 : FALSE
    OBVIOUS
  <2>3. open = {}
    BY <2>1, <2>2
  <2> HIDE DEF open
  <2> QED
    BY <1>2, <2>3 DEF moveToNextTask, open
<1>3. CASE i \in {2, 3}
  <2>1. /\ r.stack = <<Task("array", 2, 0), Task(type, -1, i - 2)>>
    BY <1>1, <1>3 DEF StackAt
  <2>2. Len(r.stack) = 2 /\ r.stack[2].idx = i - 2 /\ r.stack[1].elements = 2
    BY <2>1 DEF Task
  <2>3. \A j \in 2 .. 2 : j = 2 /\ j - 1 = 1
    OBVIOUS
  <2>4. \A j \in 2 .. 2 : (r.stack[j].idx # r.stack[j - 1].elements - 1) <=> (i = 2)
    <3> SUFFICES ASSUME NEW j \in 2 .. 2
                 PROVE  (r.stack[j].idx # r.stack[j - 1].elements - 1) <=> (i = 2)
      OBVIOUS
    <3>1. r.stack[j].idx = i - 2 /\ r.stack[j - 1].elements = 2
      BY <2>2, <2>3
    <3> QED
      BY <1>3, <3>1
  <2>5. open = IF i = 2 THEN {2} ELSE {}
    BY <1>3, <2>2, <2>3, <2>4
  <2> HIDE DEF open
  <2>6. CASE i = 3
    BY <2>5, <2>6 DEF moveToNextTask, open
  <2>7. CASE i = 2
    <3>1. open = {2} /\ open # {} /\ Max({2}) = 2
      BY <2>5, <2>7 DEF Max
    <3>2. moveToNextTask(r) =
            [r EXCEPT !.stack = Append(SubSeq(r.stack, 1, 2 - 1),
                                       [NoTask EXCEPT !.idx = r.stack[2].idx + 1])]
      BY <3>1 DEF moveToNextTask, open
    <3> DEFINE one == Task("array", 2, 0)
               two == Task("", -1, 1)
    <3>3. 2 - 1 = 1 /\ r.stack[2].idx + 1 = 1
      BY <2>2, <2>7
    <3>4. [NoTask EXCEPT !.idx = 1] = two
      <4> DEFINE none == -1
                 zero == 0
                 unit == 1
                 empty == ""
      <4>1. NoTask = [type |-> empty, elements |-> none, idx |-> zero]
        BY DEF NoTask
      <4>2. two = [type |-> empty, elements |-> none, idx |-> unit]
        BY DEF Task
      <4> HIDE DEF none, zero, unit, empty, two
      <4>3. [NoTask EXCEPT !.idx = unit] = two
        BY <4>1, <4>2, IdxIs
      <4> QED
        BY <4>3 DEF unit
    <3>5. r.stack = <<one, Task(type, -1, 0)>>
      BY <2>1, <2>7
    <3>6. StackAt(3, "") = <<one, two>>
      BY DEF StackAt
    <3> HIDE DEF one, two
    <3>7. SubSeq(<<one, Task(type, -1, 0)>>, 1, 1) = <<one>>
      BY Pairs
    <3>8. Append(<<one>>, two) = <<one, two>>
      BY Pairs
    <3> QED
      BY <2>7, <3>2, <3>3, <3>4, <3>5, <3>6, <3>7, <3>8
  <2> QED
    BY <1>3, <2>6, <2>7
<1> QED
  BY <1>2, <1>3

--------------------------------------------------------------------------------
(* One turn of the loop: the first byte of an object. *)

(* What was the beginning of a reply is so still with more of it. *)
LEMMA PrefixGrows ==
  ASSUME NEW S, NEW s \in Seq(S), NEW i \in 1 .. Len(s)
  PROVE  Append(SubSeq(s, 1, i - 1), s[i]) = SubSeq(s, 1, i)
<1>1. SubSeq(s, 1, i) = SubSeq(s, 1, i - 1) \o <<s[i]>>
  <2>1. 1 \in 1 .. Len(s) /\ i \in 1 .. Len(s)
    OBVIOUS
  <2> QED
    BY <2>1, SubSeqRecursiveSecond
<1>2. SubSeq(s, 1, i - 1) \in Seq(S)
  <2>1. PICK n \in Int : n = i - 1
    OBVIOUS
  <2>2. \A j \in 1 .. n : s[j] \in S
    BY <2>1
  <2>3. SubSeq(s, 1, n) \in Seq(S)
    BY <2>2, SubSeqProperties
  <2> QED
    BY <2>1, <2>3
<1>3. s[i] \in S
  OBVIOUS
<1> QED
  BY <1>1, <1>2, <1>3, AppendIsConcat

(* A reader by its fields. *)
Made(buf, pos, stack, reply, err, short) ==
  [buf |-> buf, pos |-> pos, stack |-> stack, reply |-> reply, err |-> err, short |-> short]

(* A reader made of these fields has them. *)
LEMMA FieldsAre ==
  ASSUME NEW buf, NEW pos, NEW stack, NEW reply, NEW err, NEW short
  PROVE  /\ Made(buf, pos, stack, reply, err, short).buf = buf
         /\ Made(buf, pos, stack, reply, err, short).pos = pos
         /\ Made(buf, pos, stack, reply, err, short).stack = stack
         /\ Made(buf, pos, stack, reply, err, short).reply = reply
         /\ Made(buf, pos, stack, reply, err, short).err = err
         /\ Made(buf, pos, stack, reply, err, short).short = short
BY DEF Made

WithBuf(r, x) == [r EXCEPT !.buf = x]
WithPos(r, x) == [r EXCEPT !.pos = x]
WithStack(r, x) == [r EXCEPT !.stack = x]
WithReply(r, x) == [r EXCEPT !.reply = x]
WithShort(r, x) == [r EXCEPT !.short = x]

(* One field of a reader changes and the rest stay. *)
LEMMA ChangesAre ==
  ASSUME NEW buf, NEW pos, NEW stack, NEW reply, NEW err, NEW short, NEW x
  PROVE  /\ WithBuf(Made(buf, pos, stack, reply, err, short), x)
              = Made(x, pos, stack, reply, err, short)
         /\ WithPos(Made(buf, pos, stack, reply, err, short), x)
              = Made(buf, x, stack, reply, err, short)
         /\ WithStack(Made(buf, pos, stack, reply, err, short), x)
              = Made(buf, pos, x, reply, err, short)
         /\ WithReply(Made(buf, pos, stack, reply, err, short), x)
              = Made(buf, pos, stack, x, err, short)
         /\ WithShort(Made(buf, pos, stack, reply, err, short), x)
              = Made(buf, pos, stack, reply, err, x)
BY DEF Made, WithBuf, WithPos, WithStack, WithReply, WithShort

(* A reader is made of its fields. *)
LEMMA MadeIs ==
  ASSUME NEW buf \in Seq(Octets), NEW pos \in 0 .. Len(buf), NEW stack, NEW reply,
         NEW short \in BOOLEAN
  PROVE  LET r == Made(buf, pos, stack, reply, "", short)
         IN ReaderAt(r, stack, reply) /\ Unread(r) = Len(buf) - pos
<1> DEFINE none == ""
           r == Made(buf, pos, stack, reply, none, short)
<1> HIDE DEF none, r
<1>1. /\ r.buf = buf /\ r.pos = pos /\ r.short = short
  BY FieldsAre DEF r
<1>2. IsBuffer(r) /\ Unread(r) = Len(buf) - pos
  BY <1>1 DEF IsBuffer, Unread
<1>3. r = [buf |-> r.buf, pos |-> r.pos, stack |-> stack, reply |-> reply,
           err |-> "", short |-> r.short]
  BY <1>1 DEF r, Made, none
<1>4. ReaderAt(r, stack, reply)
  BY <1>1, <1>2, <1>3 DEF ReaderAt
<1> QED
  BY <1>2, <1>4 DEF r, none

(* The reader of an object, by its fields. *)
LEMMA ReaderMade ==
  ASSUME NEW r, NEW stack, NEW reply, ReaderAt(r, stack, reply)
  PROVE  /\ r.buf \in Seq(Octets) /\ r.pos \in 0 .. Len(r.buf) /\ r.short \in BOOLEAN
         /\ r = Made(r.buf, r.pos, stack, reply, "", r.short)
BY DEF ReaderAt, IsBuffer, Made

(* A reader that wants more knows so. *)
LEMMA ShortIs ==
  ASSUME NEW r, NEW stack, NEW reply, ReaderAt(r, stack, reply)
  PROVE  LET s == NotEnough(r)
         IN /\ ReaderAt(s, stack, reply) /\ s.short
            /\ s.buf = r.buf /\ s.pos = r.pos /\ Unread(s) = Unread(r)
<1> DEFINE buf == r.buf
           pos == r.pos
           short == r.short
           none == ""
           yes == TRUE
           s == Made(buf, pos, stack, reply, none, yes)
<1>1. /\ buf \in Seq(Octets) /\ pos \in 0 .. Len(buf) /\ yes \in BOOLEAN
      /\ r = Made(buf, pos, stack, reply, none, short)
  BY ReaderMade
<1>2. NotEnough(r) = WithShort(r, yes)
  BY DEF NotEnough, WithShort
<1>3. ReaderAt(s, stack, reply) /\ Unread(s) = Len(buf) - pos
  BY <1>1, MadeIs
<1> HIDE DEF buf, pos, short, none, yes
<1>4. NotEnough(r) = s
  BY <1>1, <1>2, ChangesAre
<1>5. s.buf = buf /\ s.pos = pos /\ s.short = yes
  BY FieldsAre
<1> HIDE DEF s
<1> QED
  BY <1>3, <1>4, <1>5 DEF Unread, buf, pos, yes

(* A reader that wants more is where it was. *)
LEMMA ShortInside ==
  ASSUME NEW r, NEW R, NEW i, NEW type, NEW got, Inside(r, R, i, type, got)
  PROVE  Inside(NotEnough(r), R, i, type, got) /\ NotEnough(r).short
BY ShortIs DEF Inside

(* Where the reader is once it has been given all of the reply.  *)
Complete(s, R, got) == ReaderAt(s, <<>>, R) /\ Unread(s) = 0 /\ got = Len(Bytes(R))

(* What becomes of a reader in one turn of its loop. *)
Turned(s, R, i, got) ==
  \/ s.short /\ \E type \in {"", Wire(R[i])} : Inside(s, R, i, type, got)
  \/ ~s.short /\ i < Len(R) /\ Inside(s, R, i + 1, "", got)
  \/ ~s.short /\ Complete(s, R, got)

(* processLineItem, processBulkItem or processMultiBulkItem behind a first *)
(* byte.                                                                   *)
LEMMA TypedTurn ==
  ASSUME NEW R \in Replies, NEW r, NEW i, NEW got, ~r.short,
         Inside(r, R, i, Wire(R[i]), got)
  PROVE  Turned(processTyped(r), R, i, got)
<1> DEFINE obj == R[i]
           n == Size(obj)
           u == Unread(r)
           w == Wire(obj)
           x == Bytes(R)
           st == StackAt(i, w)
           reply == SubSeq(R, 1, i - 1)
           b == Start(i)
           z == Len(x)
           l == Len(R)
<1>22. (i = 1 /\ l = 1) \/ (i = 1 /\ l = 3) \/ (i = 2 /\ l = 3) \/ (i = 3 /\ l = 3)
  BY PlacesAre, RepliesAre DEF Inside
<1>1. obj \in Objects /\ w # "" /\ i \in DOMAIN R /\ i \in 1 .. l
  BY PlacesAre DEF Inside
<1>20. b \in {0, 4, 11} /\ n \in 4 .. 7
  BY PlacesAre DEF Inside
<1>2. /\ x \in Seq(Octets)
      /\ i < l => b + n = Start(i + 1)
      /\ i = l => b + n = z
      /\ b + n <= z
      /\ \A j \in 1 .. n : x[b + j] = Encoded(obj)[j]
  <2> HIDE DEF x, w, st, reply, u, n, b, obj, z, l
  <2> QED
    BY <1>1, BytesAre DEF x, n, b, obj, z, l
<1>21. z \in Nat /\ l \in {1, 3} /\ R \in Seq(Objects)
  BY <1>2, RepliesAre
<1>3. /\ ReaderAt(r, st, reply) /\ got \in 0 .. z /\ got = b + 1 + u
      /\ \A j \in 1 .. u : r.buf[r.pos + j] = x[b + 1 + j]
  BY <1>1 DEF Inside, Taken
<1>4. /\ IsBuffer(r) /\ r.short = FALSE /\ r.stack = st /\ r.reply = reply /\ r.err = ""
      /\ r = [buf |-> r.buf, pos |-> r.pos, stack |-> st, reply |-> reply,
              err |-> "", short |-> FALSE]
  <2>1. /\ IsBuffer(r) /\ r.short \in BOOLEAN
        /\ r = [buf |-> r.buf, pos |-> r.pos, stack |-> st, reply |-> reply,
                err |-> "", short |-> r.short]
    BY <1>3 DEF ReaderAt
  <2>2. r.short = FALSE
    BY <2>1
  <2>3. r.stack = st /\ r.reply = reply /\ r.err = ""
    BY <1>3, ReaderIs
  <2> HIDE DEF st, reply
  <2> QED
    BY <2>1, <2>2, <2>3
<1>5. /\ u \in Nat /\ r.pos \in Nat /\ Len(r.buf) = r.pos + u
  BY <1>4, BufferIs
<1>6. i \in {1, 2, 3}
  BY <1>22
<1>7. Last(st).type = w /\ Len(st) # 9
  BY <1>6, StacksAre
<1>8. Len(Encoded(obj)) = n
  BY <1>1, EncodedIs
<1> HIDE DEF obj, n, u, w, x, st, reply, b, z, l
<1>9. GoesOn(r, Encoded(obj))
  <2> SUFFICES ASSUME NEW j \in 1 .. u, j < n
               PROVE  r.buf[r.pos + j] = Encoded(obj)[j + 1]
    BY <1>8 DEF GoesOn, u
  <2>1. j + 1 \in 1 .. n /\ b + 1 + j = b + (j + 1)
    BY <1>20, <1>5
  <2> QED
    BY <1>2, <1>3, <2>1
<1>10. processTyped(r) = IF u < n - 1 THEN NotEnough(r) ELSE Done(r, obj)
  BY <1>1, <1>3, <1>7, <1>9, TypedIs DEF u, n, w
<1>11. CASE u < n - 1
  <2>1. processTyped(r) = NotEnough(r)
    BY <1>10, <1>11
  <2>2. Inside(NotEnough(r), R, i, w, got) /\ NotEnough(r).short
    BY ShortInside DEF w, obj
  <2> QED
    BY <2>1, <2>2 DEF Turned, w, obj
<1>12. CASE u >= n - 1
  <2> DEFINE buf == r.buf
             pos == r.pos + (n - 1)
             none == ""
             no == FALSE
             whole == SubSeq(R, 1, i)
             made(stack) == Made(buf, pos, stack, whole, none, no)
             s == processTyped(r)
  <2>1. s = Done(r, obj)
    BY <1>20, <1>5, <1>10, <1>12
  <2>2. Append(reply, obj) = whole
    <3> HIDE DEF whole
    <3> DEFINE t == R
    <3>1. t \in Seq(Objects) /\ i \in 1 .. Len(t)
      BY <1>21, <1>1 DEF l
    <3> HIDE DEF t
    <3>2. Append(SubSeq(t, 1, i - 1), t[i]) = SubSeq(t, 1, i)
      BY <3>1, PrefixGrows
    <3> QED
      BY <3>2 DEF reply, obj, t, whole
  <2>3. pos \in 0 .. Len(buf) /\ Len(buf) - pos = u - (n - 1) /\ buf \in Seq(Octets)
    <3>1. buf \in Seq(Octets)
      BY <1>4 DEF IsBuffer
    <3>2. r.pos + (n - 1) \in 0 .. Len(r.buf) /\ Len(r.buf) - (r.pos + (n - 1)) = u - (n - 1)
      BY <1>20, <1>5, <1>12
    <3> QED
      BY <3>1, <3>2
  <2>4. no \in BOOLEAN
    OBVIOUS
  <2>5. r = Made(buf, r.pos, st, reply, none, no) /\ r.reply = reply
    BY <1>4 DEF Made
  <2>6. ASSUME NEW stack
        PROVE  /\ ReaderAt(made(stack), stack, whole)
               /\ made(stack).buf = buf /\ made(stack).pos = pos
               /\ ~made(stack).short /\ Unread(made(stack)) = u - (n - 1)
    <3>1. made(stack).short = no /\ made(stack).buf = buf /\ made(stack).pos = pos
      <4> HIDE DEF buf, pos, no, whole, none
      <4> QED
        BY FieldsAre
    <3>2. ReaderAt(made(stack), stack, whole) /\ Unread(made(stack)) = Len(buf) - pos
      <4> HIDE DEF buf, pos, no, whole
      <4> QED
        BY <2>3, <2>4, MadeIs
    <3> QED
      BY <2>3, <3>1, <3>2
  <2>7. Created(Passed(r, n - 1), obj) = made(st)
    <3>1. Passed(r, n - 1) = WithPos(r, pos)
      BY DEF Passed, WithPos
    <3> HIDE DEF buf, pos, none, no, whole, made
    <3>2. Passed(r, n - 1) = Made(buf, pos, st, reply, none, no)
      BY <2>5, <3>1, ChangesAre
    <3>3. Passed(r, n - 1).reply = reply
      BY <3>2, FieldsAre
    <3>4. Created(Passed(r, n - 1), obj) = WithReply(Passed(r, n - 1), whole)
      BY <2>2, <3>3 DEF Created, WithReply
    <3> QED
      BY <3>2, <3>4, ChangesAre DEF made
  <2>8. ASSUME NEW stack PROVE WithStack(made(st), stack) = made(stack)
    <3> HIDE DEF buf, pos, none, no, whole
    <3> QED
      BY ChangesAre
  <2> HIDE DEF made, s, pos, buf, none, no, whole
  <2>9. ~Opens(obj) => s = made(IF i = 2 THEN StackAt(3, "") ELSE <<>>)
    <3> DEFINE next == IF i = 2 THEN StackAt(3, "") ELSE <<>>
    <3>1. ReaderAt(made(st), StackAt(i, w), whole)
      BY <2>6 DEF st
    <3>2. moveToNextTask(made(st)) = WithStack(made(st), next)
      BY <1>6, <3>1, MovesOn DEF WithStack
    <3> HIDE DEF next
    <3>3. moveToNextTask(made(st)) = made(next)
      BY <2>8, <3>2
    <3>4. ~Opens(obj) => s = moveToNextTask(made(st))
      BY <2>1, <2>7 DEF Done, n
    <3> QED
      BY <3>3, <3>4 DEF next
  <2>10. CASE i = l
    <3>1. i # 2 /\ i \in {1, 3}
      BY <1>22, <2>10
    <3>2. ~Opens(obj)
      BY <1>22, <2>10, <3>1, RepliesAre DEF obj, l
    <3>3. s = made(<<>>)
      BY <2>9, <3>1, <3>2
    <3>4. whole = R
      BY <1>21, <2>10, SubSeqFull DEF l, whole
    <3>5. u - (n - 1) = 0 /\ got = z
      BY <1>20, <1>21, <1>2, <1>3, <1>5, <1>12, <2>10
    <3>6. ~s.short /\ ReaderAt(s, <<>>, R) /\ Unread(s) = 0
      BY <2>6, <3>3, <3>4, <3>5
    <3> QED
      BY <3>5, <3>6 DEF Turned, Complete, s, x, z
  <2>11. CASE i < l
    <3>1. (i = 1 \/ i = 2) /\ l = 3
      BY <1>22, <2>11
    <3>11. i + 1 \in 1 .. l
      BY <3>1
    <3>2. s = made(StackAt(i + 1, ""))
      <4>1. CASE i = 1
        <5>1. Opens(obj) /\ obj.elements = 2
          BY <3>1, <4>1, RepliesAre DEF obj, l
        <5> DEFINE one == Task("array", -1, 0)
                   two == Task("array", 2, 0)
                   end == StackAt(2, "")
        <5>2. w = "array"
          BY <5>1 DEF w, Wire, Opens
        <5>3. st = <<one>>
          BY <4>1, <5>2 DEF st, StackAt
        <5>4. [one EXCEPT !.elements = 2] = two
          <6> DEFINE array == "array"
                     none_ == -1
                     zero == 0
                     some == 2
          <6>1. one = [type |-> array, elements |-> none_, idx |-> zero]
            BY DEF Task
          <6>2. two = [type |-> array, elements |-> some, idx |-> zero]
            BY DEF Task
          <6> HIDE DEF array, none_, zero, some, one, two
          <6>3. [one EXCEPT !.elements = some] = two
            BY <6>1, <6>2
          <6> QED
            BY <6>3 DEF some
        <5>5. NoTask = Task("", -1, 0)
          BY DEF NoTask, Task
        <5>6. end = <<two, NoTask>>
          <6>1. 2 # 1 /\ 2 - 2 = 0
            OBVIOUS
          <6>2. StackAt(2, "") = <<two, Task("", -1, 0)>>
            BY <6>1 DEF StackAt
          <6> HIDE DEF two
          <6> QED
            BY <5>5, <6>2
        <5> HIDE DEF one, two, end
        <5>7. Len(st) = 1 /\ [st EXCEPT ![1].elements = 2] = <<two>>
          BY <5>3, <5>4
        <5>8. Append(<<two>>, NoTask) = end
          BY <5>6, Pairs
        <5>9. s = WithStack(made(st), end)
          <6>1. r.stack = st
            BY <1>4
          <6>2. Done(r, obj) =
                  [made(st) EXCEPT !.stack =
                     Append([r.stack EXCEPT ![Len(r.stack)].elements = obj.elements], NoTask)]
            BY <2>7, <5>1 DEF Done, n
          <6>3. Append([r.stack EXCEPT ![Len(r.stack)].elements = obj.elements], NoTask) = end
            BY <5>1, <5>7, <5>8, <6>1
          <6> QED
            BY <2>1, <6>2, <6>3 DEF WithStack
        <5>10. s = made(end)
          BY <2>8, <5>9
        <5>11. i + 1 = 2
          BY <4>1
        <5> QED
          BY <5>10, <5>11 DEF end
      <4>2. CASE i = 2
        <5>1. ~Opens(obj)
          BY <3>1, <4>2, RepliesAre DEF obj, l
        <5>2. s = made(StackAt(3, ""))
          BY <2>9, <4>2, <5>1
        <5>3. i + 1 = 3
          BY <4>2
        <5> QED
          BY <5>2, <5>3
      <4> QED
        BY <3>1, <4>1, <4>2
    <3>3. Inside(s, R, i + 1, "", got)
      <4>1. ReaderAt(s, StackAt(i + 1, ""), SubSeq(R, 1, (i + 1) - 1))
        <5>1. (i + 1) - 1 = i
          BY <1>6
        <5> QED
          BY <2>6, <3>2, <5>1 DEF whole
      <4>2. i + 1 \in DOMAIN R
        BY <1>21, <3>11 DEF l
      <4>3. Taken(i + 1, "") = b + n
        BY <1>2, <2>11 DEF Taken
      <4>4. Unread(s) = u - (n - 1) /\ s.buf = r.buf /\ s.pos = r.pos + (n - 1)
        BY <2>6, <3>2 DEF buf, pos
      <4> DEFINE v == Unread(s)
                 q == Taken(i + 1, "")
      <4>5. v = u - (n - 1) /\ q = b + n /\ v \in Nat
        <5>1. v = u - (n - 1) /\ q = b + n
          BY <4>3, <4>4
        <5> HIDE DEF v, q
        <5> QED
          BY <1>20, <1>5, <1>12, <5>1
      <4> HIDE DEF v, q
      <4>6. got = q + v
        BY <1>20, <1>3, <1>5, <4>5
      <4>7. ASSUME NEW j \in 1 .. v
            PROVE  s.buf[s.pos + j] = x[q + j]
        <5>1. PICK j1 \in 1 .. u : j1 = n - 1 + j
          BY <1>20, <1>5, <4>5
        <5>2. r.pos + (n - 1) + j = r.pos + j1 /\ b + 1 + j1 = q + j
          BY <1>20, <1>5, <4>5, <5>1
        <5>3. r.buf[r.pos + j1] = x[b + 1 + j1]
          BY <1>3
        <5> QED
          BY <4>4, <5>2, <5>3
      <4>8. got \in 0 .. Len(Bytes(R))
        BY <1>3 DEF x, z
      <4> QED
        BY <4>1, <4>2, <4>6, <4>7, <4>8 DEF Inside, x, v, q
    <3>4. ~s.short
      BY <2>6, <3>2
    <3> QED
      BY <2>11, <3>3, <3>4 DEF Turned, s, l
  <2> QED
    BY <1>22, <2>10, <2>11
<1> QED
  BY <1>20, <1>5, <1>11, <1>12

--------------------------------------------------------------------------------
(* One turn of the loop: the rest of an object. *)

(* processItem takes the first byte, when it is there, and goes on. *)
LEMMA ItemTurn ==
  ASSUME NEW R \in Replies, NEW r, NEW i, NEW type, NEW got, ~r.short,
         Inside(r, R, i, type, got)
  PROVE  Turned(processItem(r), R, i, got)
<1> DEFINE obj == R[i]
           w == Wire(obj)
           u == Unread(r)
           x == Bytes(R)
           b == Start(i)
           pos == r.pos
           buf == r.buf
           z == Len(x)
           st == StackAt(i, "")
           reply == SubSeq(R, 1, i - 1)
<1>1. obj \in Objects /\ w # "" /\ i \in DOMAIN R /\ i \in {1, 2, 3}
  BY PlacesAre DEF Inside
<1>2. type \in {"", w}
  BY DEF Inside
<1>3. r.stack = StackAt(i, type) /\ Last(r.stack).type = type
  <2>1. ReaderAt(r, StackAt(i, type), reply)
    BY DEF Inside
  <2>2. r.stack = StackAt(i, type)
    BY <2>1, ReaderIs
  <2>3. Last(StackAt(i, type)).type = type
    <3>1. i \in {1, 2, 3}
      BY <1>1
    <3> QED
      BY <3>1, LastIs
  <2> QED
    BY <2>2, <2>3
<1>4. CASE type # ""
  <2>1. type = w
    BY <1>2, <1>4
  <2>2. processItem(r) = processTyped(r)
    BY <1>3, <1>4 DEF processItem
  <2>3. Turned(processTyped(r), R, i, got)
    BY <2>1, TypedTurn
  <2> QED
    BY <2>2, <2>3
<1>5. CASE type = ""
  <2>1. /\ ReaderAt(r, st, reply)
        /\ got \in 0 .. z /\ got = b + u
        /\ \A j \in 1 .. u : buf[pos + j] = x[b + j]
    BY <1>5 DEF Inside, Taken
  <2>2. /\ u \in Nat /\ pos \in Nat /\ Len(buf) = pos + u /\ buf \in Seq(Octets)
    BY <2>1, BufferIs, ReaderMade DEF ReaderAt
  <2>3. b \in {0, 4, 11} /\ Size(obj) \in 4 .. 7
    BY <1>1, PlacesAre
  <2>4. \A j \in 1 .. Size(obj) : x[b + j] = Encoded(obj)[j]
    <3> HIDE DEF x, b, obj
    <3> QED
      BY <1>1, BytesAre DEF x, b, obj
  <2>5. CASE u = 0
    <3>1. processItem(r) = NotEnough(r)
      <4>1. r.pos = Len(r.buf)
        BY <2>2, <2>5
      <4> QED
        BY <1>3, <1>5, <4>1 DEF processItem
    <3>2. Inside(NotEnough(r), R, i, type, got) /\ NotEnough(r).short
      BY ShortInside
    <3> QED
      BY <1>5, <3>1, <3>2 DEF Turned
  <2>6. CASE u # 0
    <3> DEFINE byte == buf[pos + 1]
    <3>1. byte \in DOMAIN TypeOfByte /\ TypeOfByte[byte] = w
      <4>1. 1 \in 1 .. u /\ 1 \in 1 .. Size(obj)
        BY <2>2, <2>3, <2>6
      <4>2. byte = Encoded(obj)[1]
        BY <2>1, <2>4, <4>1
      <4> QED
        BY <1>1, <4>2, EncodedIs
    <3> DEFINE r1 == [r EXCEPT !.pos = @ + 1,
                               !.stack[Len(r.stack)].type = TypeOfByte[byte]]
    <3>2. processItem(r) = processTyped(r1)
      <4>1. r.pos # Len(r.buf)
        BY <2>2, <2>6
      <4> QED
        BY <1>3, <1>5, <3>1, <4>1 DEF processItem
    <3> DEFINE none == ""
               next == pos + 1
               typed == StackAt(i, w)
    <3>3. [st EXCEPT ![Len(st)].type = w] = typed
      <4>1. CASE i = 1
        <5> DEFINE empty == ""
                   m == -1
                   zero == 0
                   old == [type |-> empty, elements |-> m, idx |-> zero]
                   new == [type |-> w, elements |-> m, idx |-> zero]
        <5>1. st = <<old>> /\ typed = <<new>>
          BY <4>1 DEF StackAt, Task
        <5>2. [old EXCEPT !.type = w] = new
          <6> HIDE DEF empty, m, zero, w
          <6> QED
            OBVIOUS
        <5> HIDE DEF old, new, st, typed, w
        <5>3. Len(st) = 1 /\ [st EXCEPT ![1].type = w] = <<new>>
          BY <5>1, <5>2
        <5> QED
          BY <5>1, <5>3
      <4>2. CASE i # 1
        <5> DEFINE empty == ""
                   m == -1
                   k == i - 2
                   first == Task("array", 2, 0)
                   old == [type |-> empty, elements |-> m, idx |-> k]
                   new == [type |-> w, elements |-> m, idx |-> k]
        <5>1. st = <<first, old>> /\ typed = <<first, new>>
          BY <4>2 DEF StackAt, Task
        <5>2. [old EXCEPT !.type = w] = new
          <6> HIDE DEF empty, m, k, w
          <6> QED
            OBVIOUS
        <5> HIDE DEF first, old, new, st, typed, w
        <5>3. Len(st) = 2 /\ [st EXCEPT ![2].type = w] = <<first, new>>
          BY <5>1, <5>2
        <5> QED
          BY <5>1, <5>3
      <4> QED
        BY <4>1, <4>2
    <3>4. r = Made(buf, pos, st, reply, none, r.short) /\ r.short \in BOOLEAN /\ r.stack = st
      BY <2>1, <1>3, <1>5, ReaderMade
    <3> DEFINE no == r.short
               made == Made(buf, next, typed, reply, none, no)
    <3>5. r1 = made
      <4>1. r1 = WithStack(WithPos(r, next), [st EXCEPT ![Len(st)].type = w])
        BY <3>1, <3>4 DEF WithStack, WithPos
      <4> HIDE DEF buf, pos, next, typed, reply, none, no, st, made
      <4> DEFINE t == [st EXCEPT ![Len(st)].type = w]
      <4>2. WithPos(r, next) = Made(buf, next, st, reply, none, no)
        BY <3>4, ChangesAre DEF no
      <4>3. WithStack(Made(buf, next, st, reply, none, no), typed) = made
        BY ChangesAre DEF made
      <4> QED
        BY <3>3, <4>1, <4>2, <4>3
    <3>6. next \in 0 .. Len(buf) /\ Len(buf) - next = u - 1
      BY <2>2, <2>6
    <3>7. made.buf = buf /\ made.pos = next /\ made.short = no
      <4> HIDE DEF buf, pos, next, typed, reply, none, no, st
      <4> QED
        BY FieldsAre
    <3>8. ReaderAt(made, typed, reply) /\ Unread(made) = u - 1
      <4> HIDE DEF buf, next, typed, reply, no
      <4>1. no \in BOOLEAN
        BY <3>4 DEF no
      <4> QED
        BY <2>2, <3>6, <4>1, MadeIs
    <3> HIDE DEF made, buf, x, b, u, z, pos
    <3>9. Inside(made, R, i, w, got)
      <4>1. Taken(i, w) = b + 1
        BY <1>1 DEF Taken, b
      <4>2. got = b + 1 + (u - 1)
        <5>1. got = b + u
          BY <2>1
        <5>2. u \in Nat
          BY <2>2
        <5>3. b \in Nat
          BY <2>3
        <5> QED
          BY <5>1, <5>2, <5>3
      <4>3. ASSUME NEW j \in 1 .. u - 1
            PROVE  made.buf[made.pos + j] = x[b + 1 + j]
        <5>1. PICK j1 \in 1 .. u : j1 = j + 1
          BY <2>2
        <5>2. pos + 1 + j = pos + j1 /\ b + 1 + j = b + j1
          BY <2>2, <2>3, <5>1
        <5> QED
          BY <2>1, <3>7, <5>2
      <4> QED
        BY <1>1, <2>1, <3>8, <4>1, <4>2, <4>3 DEF Inside, typed, reply, w, obj, x, z
    <3>10. ~made.short
      BY <3>7
    <3> HIDE DEF r1
    <3> QED
      BY <3>2, <3>5, <3>9, <3>10, TypedTurn DEF w, obj
  <2> QED
    BY <2>5, <2>6
<1> QED
  BY <1>4, <1>5

--------------------------------------------------------------------------------
(* The loop of redisReaderGetReply. *)

Turn(s) == IF s.stack = <<>> \/ s.short THEN s ELSE processItem(s)

Stopped(s) == s.stack = <<>> \/ s.short

(* A reader that has been given a part of a reply, or all of it.           *)
Partly(s, R, got) ==
  \E i \in DOMAIN R : \E type \in {"", Wire(R[i])} : Inside(s, R, i, type, got)
Given(s, R, got) == Partly(s, R, got) \/ Complete(s, R, got)

Working(s, R, i, got) == ~s.short /\ \E type : Inside(s, R, i, type, got)

(* Three turns are enough for any reply. *)
Gone(s, R, i, got) ==
  /\ Given(s, R, got)
  /\ Stopped(s) \/ \E j \in i .. 3 : Working(s, R, j, got)

(* A turn gets on by an object, or the reader wants more. *)
LEMMA TurnGoes ==
  ASSUME NEW R \in Replies, NEW s, NEW i \in 1 .. 3, NEW got, Gone(s, R, i, got)
  PROVE  Gone(Turn(s), R, i + 1, got)
<1>1. CASE Stopped(s)
  BY <1>1 DEF Turn, Stopped, Gone
<1>2. CASE ~Stopped(s)
  <2>1. PICK j, type : j \in i .. 3 /\ ~s.short /\ Inside(s, R, j, type, got)
    BY <1>2 DEF Gone, Working
  <2>2. Turn(s) = processItem(s)
    BY <1>2 DEF Stopped, Turn
  <2> DEFINE t == Turn(s)
  <2>3. Turned(t, R, j, got)
    BY <2>1, <2>2, ItemTurn
  <2>4. j \in DOMAIN R
    BY <2>1 DEF Inside
  <2> HIDE DEF t
  <2>5. CASE t.short /\ \E ty \in {"", Wire(R[j])} : Inside(t, R, j, ty, got)
    BY <2>4, <2>5 DEF Gone, Given, Partly, Stopped, t
  <2>6. CASE ~t.short /\ j < Len(R) /\ Inside(t, R, j + 1, "", got)
    <3>1. j + 1 \in DOMAIN R
      BY <2>6 DEF Inside
    <3>2. Given(t, R, got)
      BY <2>6, <3>1 DEF Given, Partly
    <3>3. j + 1 \in (i + 1) .. 3
      <4>1. j + 1 \in {1, 2, 3}
        BY <3>1, PlacesAre
      <4> QED
        BY <2>1, <4>1
    <3> QED
      BY <2>6, <3>2, <3>3 DEF Gone, Working, t
  <2>7. CASE ~t.short /\ Complete(t, R, got)
    <3>1. t.stack = <<>>
      BY <2>7, ReaderIs DEF Complete
    <3> QED
      BY <2>7, <3>1 DEF Gone, Given, Stopped, t
  <2> QED
    BY <2>3, <2>5, <2>6, <2>7 DEF Turned
<1> QED
  BY <1>1, <1>2

(* The loop ends with the reply, or with a reader that wants more. *)
LEMMA ItemsProcessed ==
  ASSUME NEW R \in Replies, NEW r, NEW i, NEW type, NEW got,
         ~r.short, Inside(r, R, i, type, got)
  PROVE  Given(ProcessItems(r), R, got)
<1> DEFINE turn(s) == IF s.stack = <<>> \/ s.short THEN s ELSE processItem(s)
           most == (Len(r.buf) - r.pos) \div 3 + 1
           step(f, n) == IF n = 0 THEN r
                         ELSE CHOOSE t \in {turn(s) : s \in {f[n - 1]}} : TRUE
           after == CHOOSE f : f = [n \in 0 .. most |-> step(f, n)]
           t1 == Turn(r)
           t2 == Turn(t1)
           t3 == Turn(t2)
           it == [n \in 0 .. most |-> IF n = 0 THEN r ELSE IF n = 1 THEN t1
                                      ELSE IF n = 2 THEN t2 ELSE t3]
<1>1. ProcessItems(r) = after[most]
  BY DEF ProcessItems
<1>2. \A x : (CHOOSE t \in {turn(s) : s \in {x}} : TRUE) = Turn(x)
  <2> SUFFICES ASSUME NEW x PROVE (CHOOSE t \in {turn(s) : s \in {x}} : TRUE) = Turn(x)
    OBVIOUS
  <2>1. {turn(s) : s \in {x}} = {turn(x)} /\ turn(x) = Turn(x)
    <3>1. turn(x) = Turn(x)
      BY DEF Turn
    <3> HIDE DEF turn
    <3> QED
      BY <3>1
  <2>2. \A y : (CHOOSE t \in {y} : TRUE) = y
    OBVIOUS
  <2> QED
    BY <2>1, <2>2
<1> HIDE DEF turn
<1>3. ASSUME NEW f, NEW n
      PROVE  step(f, n) = IF n = 0 THEN r ELSE Turn(f[n - 1])
  <2>1. (CHOOSE t \in {turn(s) : s \in {f[n - 1]}} : TRUE) = Turn(f[n - 1])
    BY <1>2
  <2> QED
    BY <2>1
<1>4. most \in 1 .. 7
  <2> DEFINE u == Unread(r)
  <2>1. /\ ReaderAt(r, StackAt(i, type), SubSeq(R, 1, i - 1)) /\ i \in DOMAIN R
        /\ got \in 0 .. Len(Bytes(R)) /\ got = Taken(i, type) + u
    BY DEF Inside
  <2>2. u \in Nat /\ u = Len(r.buf) - r.pos
    BY <2>1, BufferIs DEF ReaderAt
  <2>3. Len(Bytes(R)) \in 0 .. 18
    <3>1. R \in Seq(Objects) /\ (Len(R) = 1 \/ Len(R) = 3)
      BY RepliesAre
    <3> DEFINE l == Len(R)
    <3>2. l \in DOMAIN R
      BY <3>1
    <3>3. Start(l) + Size(R[l]) = Len(Bytes(R))
      BY <3>2, BytesAre
    <3>4. Start(l) \in {0, 4, 11} /\ Size(R[l]) \in 4 .. 7
      BY <3>2, PlacesAre
    <3> DEFINE a == Start(l)
               b == Size(R[l])
               c == Len(Bytes(R))
    <3>5. a \in {0, 4, 11} /\ b \in 4 .. 7 /\ a + b = c
      BY <3>3, <3>4
    <3> HIDE DEF l, a, b, c
    <3>6. c \in 0 .. 18
      BY <3>5
    <3> QED
      BY <3>6 DEF c
  <2>4. Taken(i, type) \in Nat
    <3>1. Start(i) \in {0, 4, 11}
      BY <2>1, PlacesAre
    <3>2. Start(i) \in Nat /\ Start(i) + 1 \in Nat
      BY <3>1
    <3> QED
      BY <3>2 DEF Taken
  <2>5. u \in 0 .. 18
    <3> DEFINE z == Len(Bytes(R))
               k == Taken(i, type)
    <3>1. z \in 0 .. 18 /\ k \in Nat /\ got \in 0 .. z /\ got = k + u /\ u \in Nat
      BY <2>1, <2>2, <2>3, <2>4
    <3> HIDE DEF z, k, u
    <3> QED
      BY <3>1
  <2> HIDE DEF u
  <2>6. u \div 3 \in 0 .. 6
    BY <2>5
  <2> QED
    BY <2>2, <2>6
<1>5. Gone(r, R, 1, got)
  <2>1. i \in DOMAIN R /\ type \in {"", Wire(R[i])}
    BY DEF Inside
  <2>2. i \in 1 .. 3
    <3>1. i \in {1, 2, 3}
      BY <2>1, PlacesAre
    <3> QED
      BY <3>1
  <2> QED
    BY <2>1, <2>2 DEF Gone, Given, Partly, Working
<1>6. Gone(t1, R, 2, got) /\ Gone(t2, R, 3, got) /\ Gone(t3, R, 4, got)
  <2> HIDE DEF t1, t2, t3
  <2>1. Gone(t1, R, 2, got)
    BY <1>5, TurnGoes DEF t1
  <2>2. Gone(t2, R, 3, got)
    BY <2>1, TurnGoes DEF t2
  <2>3. Gone(t3, R, 4, got)
    BY <2>2, TurnGoes DEF t3
  <2> QED
    BY <2>1, <2>2, <2>3
<1>7. Turn(t3) = t3
  <2> HIDE DEF t3
  <2>1. \A j \in 4 .. 3 : FALSE
    OBVIOUS
  <2>2. Stopped(t3)
    BY <1>6, <2>1 DEF Gone
  <2> QED
    BY <2>2 DEF Turn, Stopped
<1> DEFINE two == t2
           three == t3
           one == t1
<1>8. two = Turn(one) /\ three = Turn(two) /\ one = Turn(r) /\ Turn(three) = three
  BY <1>7
<1>9. /\ it[0] = r /\ it[1] = one
      /\ \A n \in 0 .. most : /\ n = 2 => it[n] = two
                              /\ n >= 3 => it[n] = three
  <2> HIDE DEF one, two, three, most
  <2> QED
    BY <1>4 DEF one, two, three
<1> HIDE DEF most, t1, t2, t3, one, two, three, step
<1>10. \A n \in 0 .. most : it[n] = step(it, n)
  <2> SUFFICES ASSUME NEW n \in 0 .. most PROVE it[n] = step(it, n)
    OBVIOUS
  <2>1. n \in Nat
    BY <1>4
  <2>2. step(it, n) = IF n = 0 THEN r ELSE Turn(it[n - 1])
    BY <1>3
  <2> HIDE DEF it
  <2>3. CASE n = 0
    BY <1>9, <2>2, <2>3
  <2>4. CASE n = 1
    BY <1>8, <1>9, <2>2, <2>4
  <2>5. CASE n = 2
    BY <1>8, <1>9, <2>2, <2>5
  <2>6. CASE n >= 3
    <3>1. n - 1 \in 0 .. most /\ (n - 1 = 2 \/ n - 1 >= 3)
      BY <1>4, <2>6
    <3>2. it[n - 1] = two \/ it[n - 1] = three
      BY <1>9, <3>1
    <3> QED
      BY <1>8, <1>9, <2>2, <2>6, <3>2
  <2> QED
    BY <2>1, <2>3, <2>4, <2>5, <2>6
<1>11. it = [n \in 0 .. most |-> step(it, n)]
  <2>1. it = [n \in 0 .. most |-> it[n]]
    OBVIOUS
  <2> HIDE DEF it
  <2> QED
    BY <1>10, <2>1
<1>12. after = [n \in 0 .. most |-> step(after, n)]
  <2> HIDE DEF it
  <2> QED
    BY <1>11
<1> HIDE DEF after, it
<1>13. \A n \in 0 .. most : after[n] = step(after, n)
  BY <1>12
<1>14. ASSUME NEW n \in 0 .. most PROVE after[n] = IF n = 0 THEN r ELSE Turn(after[n - 1])
  <2>1. after[n] = step(after, n)
    BY <1>13
  <2>2. step(after, n) = IF n = 0 THEN r ELSE Turn(after[n - 1])
    BY <1>3
  <2> QED
    BY <2>1, <2>2
<1>15. /\ 1 <= most => after[1] = one
       /\ 2 <= most => after[2] = two
       /\ 3 <= most => after[3] = three
       /\ 4 <= most => after[4] = three
       /\ 5 <= most => after[5] = three
       /\ 6 <= most => after[6] = three
       /\ 7 <= most => after[7] = three
  <2>1. after[0] = r
    <3>1. 0 \in 0 .. most
      BY <1>4
    <3> QED
      BY <1>14, <3>1
  <2>2. ASSUME NEW n \in 1 .. 7, n <= most
        PROVE  after[n] = Turn(after[n - 1])
    <3>1. n \in 0 .. most /\ n # 0
      BY <1>4, <2>2
    <3> QED
      BY <1>14, <3>1
  <2>3. 1 <= most => after[1] = Turn(after[0])
    BY <2>2
  <2>4. 2 <= most => after[2] = Turn(after[1])
    BY <2>2
  <2>5. 3 <= most => after[3] = Turn(after[2])
    BY <2>2
  <2>6. 4 <= most => after[4] = Turn(after[3])
    BY <2>2
  <2>7. 5 <= most => after[5] = Turn(after[4])
    BY <2>2
  <2>8. 6 <= most => after[6] = Turn(after[5])
    BY <2>2
  <2>9. 7 <= most => after[7] = Turn(after[6])
    BY <2>2
  <2> QED
    BY <1>4, <1>8, <2>1, <2>3, <2>4, <2>5, <2>6, <2>7, <2>8, <2>9
<1>16. after[most] = one \/ after[most] = two \/ after[most] = three
  BY <1>4, <1>15
<1>17. Given(one, R, got) /\ Given(two, R, got) /\ Given(three, R, got)
  BY <1>6 DEF Gone, one, two, three
<1> QED
  BY <1>1, <1>16, <1>17

--------------------------------------------------------------------------------
(* The buffer: what is fed, cut off and left. *)

Clean(r) == ReaderAt(r, <<>>, <<>>) /\ Unread(r) = 0

(* A reader that has been given a part of a reply, and what is left of it. *)
Left(R, got) == SubSeq(Bytes(R), got + 1, Len(Bytes(R)))
Reading(r, R, out) ==
  \/ Clean(r) /\ out = Bytes(R)
  \/ \E got \in 0 .. Len(Bytes(R)) : Partly(r, R, got) /\ out = Left(R, got)

Opened(r) == IF r.stack = <<>> THEN WithStack(r, <<NoTask>>) ELSE r

Result(s) ==
  CASE s.err # "" -> [reader |-> s, reply |-> <<>>]
    [] s.stack # <<>> -> [reader |-> Trimmed(s), reply |-> <<>>]
    [] OTHER -> [reader |-> [Trimmed(s) EXCEPT !.reply = <<>>], reply |-> s.reply]

(* The only member of a set. *)
LEMMA OneOf == ASSUME NEW y PROVE (CHOOSE t \in {y} : TRUE) = y
OBVIOUS

(* redisReaderGetReply: open a task, turn, cut the buffer. *)
LEMMA GetIs ==
  ASSUME NEW r, r.err = "", r.buf # <<>>
  PROVE  redisReaderGetReply(r) = Result(ProcessItems(WithShort(Opened(r), FALSE)))
<1> DEFINE result(s) ==
             CASE s.err # "" -> [reader |-> s, reply |-> <<>>]
               [] s.stack # <<>> -> [reader |-> Trimmed(s), reply |-> <<>>]
               [] OTHER -> [reader |-> [Trimmed(s) EXCEPT !.reply = <<>>], reply |-> s.reply]
           begun == IF r.stack = <<>> THEN [r EXCEPT !.stack = <<NoTask>>] ELSE r
           p == ProcessItems([begun EXCEPT !.short = FALSE])
<1>1. redisReaderGetReply(r) = CHOOSE t \in {result(s) : s \in {p}} : TRUE
  BY DEF redisReaderGetReply
<1>2. p = ProcessItems(WithShort(Opened(r), FALSE))
  BY DEF WithShort, Opened, WithStack
<1>3. result(p) = Result(p)
  BY DEF Result
<1> HIDE DEF result, p
<1>4. {result(s) : s \in {p}} = {result(p)}
  OBVIOUS
<1> QED
  BY <1>1, <1>2, <1>3, <1>4, OneOf

(* A piece of what is left, and what is left then. *)
LEMMA PieceIs ==
  ASSUME NEW x \in Seq(Octets), NEW a \in 0 .. Len(x), NEW b \in 0 .. Len(x)
  PROVE  /\ SubSeq(x, a + 1, b) \in Seq(Octets)
         /\ Len(SubSeq(x, a + 1, b)) = IF a <= b THEN b - a ELSE 0
         /\ \A j \in 1 .. b - a : SubSeq(x, a + 1, b)[j] = x[a + j]
<1> DEFINE s == SubSeq(x, a + 1, b)
           z == Len(x)
<1>1. z \in Nat /\ \A i \in 1 .. z : x[i] \in Octets
  OBVIOUS
<1>2. a \in 0 .. z /\ b \in 0 .. z
  OBVIOUS
<1> HIDE DEF z
<1>3. PICK m \in Int : m = a + 1
  BY <1>1, <1>2
<1>4. \A i \in m .. b : x[i] \in Octets
  BY <1>1, <1>2, <1>3
<1>5. b \in Int
  BY <1>1, <1>2
<1>6. s = SubSeq(x, m, b)
  BY <1>3
<1> HIDE DEF s
<1>7. /\ s \in Seq(Octets) /\ Len(s) = IF m <= b THEN b - m + 1 ELSE 0
      /\ \A i \in 1 .. b - m + 1 : s[i] = x[m + i - 1]
  BY <1>4, <1>5, <1>6, SubSeqProperties
<1>8. b - m + 1 = b - a
  BY <1>1, <1>2, <1>3
<1>9. Len(s) = IF a <= b THEN b - a ELSE 0
  BY <1>1, <1>2, <1>3, <1>7
<1>10. \A j \in 1 .. b - a : s[j] = x[a + j]
  <2> SUFFICES ASSUME NEW j \in 1 .. b - a PROVE s[j] = x[a + j]
    OBVIOUS
  <2>1. m + j - 1 = a + j /\ j \in 1 .. b - m + 1
    BY <1>1, <1>2, <1>3, <1>8
  <2> QED
    BY <1>7, <2>1
<1> QED
  BY <1>7, <1>9, <1>10 DEF s

(* What a reader has not read stays when its buffer is cut. *)
LEMMA CutIs ==
  ASSUME NEW s, NEW stack, NEW reply, ReaderAt(s, stack, reply)
  PROVE  /\ ReaderAt(Trimmed(s), stack, reply) /\ Unread(Trimmed(s)) = Unread(s)
         /\ \A j \in 1 .. Unread(s) :
              Trimmed(s).buf[Trimmed(s).pos + j] = s.buf[s.pos + j]
<1> DEFINE buf == s.buf
           pos == s.pos
           short == s.short
           u == Unread(s)
           n == Len(buf)
           none == ""
           cut == SubSeq(buf, pos + 1, n)
           zero == 0
           t == Made(cut, zero, stack, reply, none, short)
<1>1. /\ buf \in Seq(Octets) /\ pos \in 0 .. n /\ short \in BOOLEAN
      /\ s = Made(buf, pos, stack, reply, none, short)
  BY ReaderMade
<1>2. u = n - pos /\ n \in Nat
  <2>1. u = n - pos
    BY DEF Unread
  <2>2. n \in Nat
    <3>1. buf \in Seq(Octets)
      BY <1>1
    <3> QED
      BY <3>1
  <2> QED
    BY <2>1, <2>2
<1> HIDE DEF buf, pos, short, u, none, zero
<1>3. /\ cut \in Seq(Octets) /\ Len(cut) = u
      /\ \A j \in 1 .. u : cut[j] = buf[pos + j]
  <2>1. n \in 0 .. Len(buf) /\ pos \in 0 .. Len(buf)
    BY <1>1, <1>2
  <2>2. /\ cut \in Seq(Octets)
        /\ Len(cut) = IF pos <= n THEN n - pos ELSE 0
        /\ \A j \in 1 .. n - pos : cut[j] = buf[pos + j]
    BY <1>1, <2>1, PieceIs
  <2> HIDE DEF cut, n
  <2> QED
    BY <1>1, <1>2, <2>2
<1> HIDE DEF n, cut
<1>4. CASE s.pos >= ReaderTrim
  <2>1. Trimmed(s) = WithPos(WithBuf(s, cut), zero)
    BY <1>4 DEF Trimmed, WithPos, WithBuf, cut, n, buf, pos, zero
  <2>2. WithBuf(s, cut) = Made(cut, pos, stack, reply, none, short)
    BY <1>1, ChangesAre
  <2>3. WithPos(Made(cut, pos, stack, reply, none, short), zero) = t
    BY ChangesAre
  <2>4. Trimmed(s) = t
    BY <2>1, <2>2, <2>3
  <2>5. t.buf = cut /\ t.pos = 0
    BY FieldsAre DEF zero
  <2>6. 0 \in 0 .. Len(cut) /\ Len(cut) - 0 = u /\ u \in Nat
    BY <1>1, <1>2, <1>3
  <2>7. ReaderAt(t, stack, reply) /\ Unread(t) = u
    <3>1. zero \in 0 .. Len(cut) /\ Len(cut) - zero = u
      BY <2>6 DEF zero
    <3>2. ReaderAt(Made(cut, zero, stack, reply, "", short), stack, reply)
          /\ Unread(Made(cut, zero, stack, reply, "", short)) = Len(cut) - zero
      BY <1>1, <1>3, <3>1, MadeIs
    <3> QED
      BY <3>1, <3>2 DEF none
  <2> HIDE DEF t
  <2>8. \A j \in 1 .. u : t.buf[t.pos + j] = buf[pos + j]
    <3> SUFFICES ASSUME NEW j \in 1 .. u PROVE t.buf[t.pos + j] = buf[pos + j]
      OBVIOUS
    <3>1. 0 + j = j
      OBVIOUS
    <3> QED
      BY <1>3, <2>5, <3>1
  <2> QED
    BY <2>4, <2>7, <2>8 DEF buf, pos, u
<1>5. CASE ~(s.pos >= ReaderTrim)
  BY <1>5 DEF Trimmed
<1> QED
  BY <1>4, <1>5

(* A reader whose buffer is cut is where it was in its reply. *)
LEMMA CutInside ==
  ASSUME NEW s, NEW R, NEW i, NEW type, NEW got, Inside(s, R, i, type, got)
  PROVE  Inside(Trimmed(s), R, i, type, got)
<1>1. ReaderAt(s, StackAt(i, type), SubSeq(R, 1, i - 1))
  BY DEF Inside
<1> QED
  BY <1>1, CutIs DEF Inside

(* A reader that has been given something has bytes. *)
LEMMA NotEmpty ==
  ASSUME NEW i \in {1, 2, 3}, NEW type
  PROVE  StackAt(i, type) # <<>>
<1> DEFINE a == Task(type, -1, 0)
           b == Task("array", 2, 0)
           c == Task(type, -1, i - 2)
<1>1. StackAt(i, type) = <<a>> \/ StackAt(i, type) = <<b, c>>
  BY DEF StackAt
<1> HIDE DEF a, b, c
<1>2. <<a>> # <<>> /\ <<b, c>> # <<>>
  OBVIOUS
<1> QED
  BY <1>1, <1>2

(* What is said once the reader has been given all of the reply, or not.   *)
LEMMA ResultIs ==
  ASSUME NEW R \in Replies, NEW s, NEW got, Given(s, R, got)
  PROVE  /\ Result(s).reader.err = ""
         /\ \/ Result(s).reply = <<>> /\ Partly(Result(s).reader, R, got)
            \/ /\ Result(s).reply = R /\ Clean(Result(s).reader)
               /\ got = Len(Bytes(R))
<1>1. CASE Partly(s, R, got)
  <2>1. PICK i \in DOMAIN R : \E type \in {"", Wire(R[i])} : Inside(s, R, i, type, got)
    BY <1>1 DEF Partly
  <2>2. PICK type \in {"", Wire(R[i])} : Inside(s, R, i, type, got)
    BY <2>1
  <2>3. ReaderAt(s, StackAt(i, type), SubSeq(R, 1, i - 1))
    BY <2>2 DEF Inside
  <2>4. s.err = "" /\ s.stack = StackAt(i, type)
    BY <2>3, ReaderIs
  <2>5. s.stack # <<>>
    <3>1. i \in {1, 2, 3}
      BY PlacesAre
    <3> QED
      BY <2>4, <3>1, NotEmpty
  <2> DEFINE nil == <<>>
             t == Trimmed(s)
  <2>6. Result(s) = [reader |-> t, reply |-> nil]
    BY <2>4, <2>5 DEF Result
  <2>7. Inside(Trimmed(s), R, i, type, got)
    BY <2>2, CutInside
  <2>8. Trimmed(s).err = ""
    BY <2>7, ReaderIs DEF Inside
  <2>9. Partly(Trimmed(s), R, got)
    BY <2>7 DEF Partly
  <2>10. Result(s).reader = Trimmed(s) /\ Result(s).reply = <<>>
    <3> HIDE DEF nil, t
    <3> DEFINE made == Result(s)
    <3>1. made = [reader |-> t, reply |-> nil]
      BY <2>6
    <3> HIDE DEF made
    <3>2. made.reader = t /\ made.reply = nil
      BY <3>1
    <3> QED
      BY <3>2 DEF nil, t, made
  <2> QED
    BY <2>8, <2>9, <2>10
<1>2. CASE Complete(s, R, got)
  <2>1. ReaderAt(s, <<>>, R) /\ Unread(s) = 0 /\ got = Len(Bytes(R))
    BY <1>2 DEF Complete
  <2>2. s.err = "" /\ s.stack = <<>> /\ s.reply = R
    BY <2>1, ReaderIs
  <2> DEFINE t == WithReply(Trimmed(s), <<>>)
  <2>3. Result(s) = [reader |-> t, reply |-> R]
    BY <2>2 DEF Result, WithReply
  <2>4. ReaderAt(Trimmed(s), <<>>, R) /\ Unread(Trimmed(s)) = 0
    BY <2>1, CutIs
  <2> DEFINE b == Trimmed(s).buf
             p == Trimmed(s).pos
             h == Trimmed(s).short
             none == ""
             nil == <<>>
  <2>5. /\ b \in Seq(Octets) /\ p \in 0 .. Len(b) /\ h \in BOOLEAN
        /\ Trimmed(s) = Made(b, p, nil, R, none, h)
    BY <2>4, ReaderMade
  <2>6. Len(b) - p = 0
    BY <2>4 DEF Unread
  <2> HIDE DEF b, p, h, none, nil, t
  <2>7. t = Made(b, p, nil, nil, none, h)
    <3>1. WithReply(Made(b, p, nil, R, none, h), nil) = Made(b, p, nil, nil, none, h)
      BY ChangesAre
    <3> QED
      BY <2>5, <3>1 DEF t, nil
  <2>8. ReaderAt(t, <<>>, <<>>) /\ Unread(t) = 0
    <3>1. ReaderAt(Made(b, p, nil, nil, "", h), nil, nil)
          /\ Unread(Made(b, p, nil, nil, "", h)) = Len(b) - p
      BY <2>5, MadeIs
    <3> QED
      BY <2>6, <2>7, <3>1 DEF nil, none
  <2>9. t.err = ""
    BY <2>8, ReaderIs
  <2>10. Result(s).reader = t /\ Result(s).reply = R
    BY <2>3
  <2> QED
    BY <2>1, <2>8, <2>9, <2>10 DEF Clean
<1> QED
  BY <1>1, <1>2 DEF Given

(* Where a reader is when it is asked. *)
LEMMA OpenedIs ==
  ASSUME NEW R \in Replies, NEW r, NEW out, Reading(r, R, out)
  PROVE  \E i \in DOMAIN R : \E type \in {"", Wire(R[i])} : \E got \in 0 .. Len(Bytes(R)) :
           /\ Inside(Opened(r), R, i, type, got) /\ out = Left(R, got)
           /\ r.err = "" /\ Opened(r).buf = r.buf
<1>1. CASE Clean(r) /\ out = Bytes(R)
  <2> DEFINE b == r.buf
             p == r.pos
             h == r.short
             nil == <<>>
             none == ""
             st == <<NoTask>>
             t == Made(b, p, st, nil, none, h)
  <2>1. ReaderAt(r, <<>>, <<>>) /\ Unread(r) = 0
    BY <1>1 DEF Clean
  <2>2. /\ b \in Seq(Octets) /\ p \in 0 .. Len(b) /\ h \in BOOLEAN
        /\ r = Made(b, p, nil, nil, none, h)
    BY <2>1, ReaderMade
  <2>3. r.stack = <<>> /\ r.err = ""
    BY <2>1, ReaderIs
  <2>4. Opened(r) = WithStack(r, st)
    BY <2>3 DEF Opened
  <2>5. Len(b) - p = 0
    BY <2>1 DEF Unread
  <2> HIDE DEF b, p, h, nil, none, st
  <2>6. Opened(r) = t
    <3>1. WithStack(Made(b, p, nil, nil, none, h), st) = t
      BY ChangesAre
    <3> QED
      BY <2>2, <2>4, <3>1
  <2>7. ReaderAt(t, st, nil) /\ Unread(t) = 0 /\ t.buf = b
    <3>1. ReaderAt(Made(b, p, st, nil, "", h), st, nil)
          /\ Unread(Made(b, p, st, nil, "", h)) = Len(b) - p
      BY <2>2, MadeIs
    <3>2. t.buf = b
      BY FieldsAre
    <3> QED
      BY <2>5, <3>1, <3>2 DEF none
  <2> HIDE DEF t
  <2>8. st = StackAt(1, "") /\ nil = SubSeq(R, 1, 1 - 1)
    <3>1. NoTask = Task("", -1, 0)
      BY DEF NoTask, Task
    <3>2. SubSeq(R, 1, 1 - 1) = <<>>
      BY SubSeqEmpty
    <3> QED
      BY <3>1, <3>2 DEF st, StackAt, nil
  <2>9. 1 \in DOMAIN R
    BY RepliesAre
  <2>10. Taken(1, "") = 0 /\ \A j \in 1 .. 0 : FALSE
    BY DEF Taken, Start
  <2>11. Bytes(R) \in Seq(Octets)
    BY BytesAre
  <2>12. 0 \in 0 .. Len(Bytes(R)) /\ 0 = 0 + 0
    BY <2>11
  <2>13. Inside(t, R, 1, "", 0)
    <3>1. ReaderAt(t, StackAt(1, ""), SubSeq(R, 1, 1 - 1))
      BY <2>7, <2>8
    <3>2. 0 = Taken(1, "") + Unread(t) /\ \A j \in 1 .. Unread(t) : FALSE
      <4>1. Unread(t) = 0 /\ Taken(1, "") = 0
        BY <2>7, <2>10
      <4>2. \A j \in 1 .. Unread(t) : FALSE
        BY <2>10, <4>1
      <4> QED
        BY <2>12, <4>1, <4>2
    <3> QED
      BY <2>9, <2>12, <3>1, <3>2 DEF Inside
  <2>14. out = Left(R, 0)
    <3>1. SubSeq(Bytes(R), 1, Len(Bytes(R))) = Bytes(R) /\ 0 + 1 = 1
      BY <2>11, SubSeqFull
    <3> QED
      BY <1>1, <3>1 DEF Left
  <2> QED
    BY <2>3, <2>6, <2>7, <2>9, <2>12, <2>13, <2>14 DEF b
<1>2. CASE \E got \in 0 .. Len(Bytes(R)) : Partly(r, R, got) /\ out = Left(R, got)
  <2>1. PICK got \in 0 .. Len(Bytes(R)) : Partly(r, R, got) /\ out = Left(R, got)
    BY <1>2
  <2>2. PICK i \in DOMAIN R : \E type \in {"", Wire(R[i])} : Inside(r, R, i, type, got)
    BY <2>1 DEF Partly
  <2>3. PICK type \in {"", Wire(R[i])} : Inside(r, R, i, type, got)
    BY <2>2
  <2>4. r.stack = StackAt(i, type) /\ r.err = ""
    BY <2>3, ReaderIs DEF Inside
  <2>5. i \in {1, 2, 3}
    BY PlacesAre
  <2>6. Opened(r) = r
    BY <2>4, <2>5, NotEmpty DEF Opened
  <2> QED
    BY <2>1, <2>3, <2>4, <2>6
<1> QED
  BY <1>1, <1>2 DEF Reading

(* A reader that is given more of the reply. *)
Fed(r, R, got, k) == WithShort(WithBuf(r, r.buf \o SubSeq(Left(R, got), 1, k)), FALSE)

LEMMA FedInside ==
  ASSUME NEW R \in Replies, NEW r, NEW i, NEW type, NEW got, Inside(r, R, i, type, got),
         NEW k \in 1 .. Len(Left(R, got))
  PROVE  /\ Inside(Fed(r, R, got, k), R, i, type, got + k) /\ ~Fed(r, R, got, k).short
         /\ got + k \in 0 .. Len(Bytes(R))
         /\ SubSeq(Left(R, got), k + 1, Len(Left(R, got))) = Left(R, got + k)
         /\ r.buf \o SubSeq(Left(R, got), 1, k) # <<>>
         /\ Len(Left(R, got)) = Len(Bytes(R)) - got
<1> DEFINE x == Bytes(R)
           z == Len(x)
           out == Left(R, got)
           l == Len(out)
           piece == SubSeq(out, 1, k)
           rest == SubSeq(out, k + 1, l)
           b == r.buf
           p == r.pos
           u == Unread(r)
           e == Taken(i, type)
           no == FALSE
           none == ""
           st == StackAt(i, type)
           reply == SubSeq(R, 1, i - 1)
           buf == b \o piece
           s == WithShort(WithBuf(r, buf), no)
           t == Made(buf, p, st, reply, none, no)
<1>1. /\ ReaderAt(r, st, reply)
      /\ i \in DOMAIN R /\ type \in {"", Wire(R[i])}
      /\ got \in 0 .. z /\ got = e + u
      /\ \A j \in 1 .. u : b[p + j] = x[e + j]
  BY DEF Inside
<1>2. x \in Seq(Octets)
  BY BytesAre
<1>3. z \in Nat /\ got \in 0 .. z
  <2>1. got \in 0 .. z
    BY <1>1
  <2>2. z \in Nat
    <3> HIDE DEF x
    <3> QED
      BY <1>2
  <2> QED
    BY <2>1, <2>2
<1>4. /\ b \in Seq(Octets) /\ p \in 0 .. Len(b)
      /\ r = Made(b, p, st, reply, none, r.short)
  BY <1>1, ReaderMade
<1>5. u \in Nat /\ Len(b) = p + u /\ Len(b) \in Nat /\ p \in Nat
  <2>1. IsBuffer(r)
    BY <1>1, ReaderIs
  <2> QED
    BY <2>1, BufferIs
<1>6. e \in Nat
  <2>1. Start(i) \in {0, 4, 11}
    BY <1>1, PlacesAre
  <2>2. Start(i) \in Nat /\ Start(i) + 1 \in Nat
    BY <2>1
  <2> QED
    BY <2>2 DEF Taken
<1> HIDE DEF x, b, p, u, e, no, none, st, reply, s
<1>7. out \in Seq(Octets) /\ l = z - got /\ \A j \in 1 .. z - got : out[j] = x[got + j]
  <2>1. z \in 0 .. Len(x) /\ got \in 0 .. Len(x)
    BY <1>3
  <2>2. out = SubSeq(x, got + 1, z)
    BY DEF Left, x
  <2> HIDE DEF out, z
  <2>3. /\ out \in Seq(Octets) /\ Len(out) = IF got <= z THEN z - got ELSE 0
        /\ \A j \in 1 .. z - got : out[j] = x[got + j]
    BY <1>2, <2>1, <2>2, PieceIs
  <2> QED
    BY <1>3, <2>3
<1>8. k \in 1 .. l
  OBVIOUS
<1> HIDE DEF z, out, l
<1>9. piece \in Seq(Octets) /\ Len(piece) = k /\ \A j \in 1 .. k : piece[j] = out[j]
  <2>1. 0 \in 0 .. Len(out) /\ k \in 0 .. Len(out) /\ k \in Nat /\ 0 <= k
        /\ k - 0 = k /\ 0 + 1 = 1
    BY <1>3, <1>7, <1>8 DEF l
  <2>2. /\ SubSeq(out, 0 + 1, k) \in Seq(Octets)
        /\ Len(SubSeq(out, 0 + 1, k)) = IF 0 <= k THEN k - 0 ELSE 0
        /\ \A j \in 1 .. k - 0 : SubSeq(out, 0 + 1, k)[j] = out[0 + j]
    BY <1>7, <2>1, PieceIs
  <2>3. \A j \in 1 .. k : 0 + j = j
    OBVIOUS
  <2> HIDE DEF piece
  <2>4. piece = SubSeq(out, 0 + 1, k)
    BY <2>1 DEF piece
  <2>5. piece \in Seq(Octets)
    BY <2>2, <2>4
  <2>6. Len(piece) = k
    BY <2>1, <2>2, <2>4
  <2>7. \A j \in 1 .. k : piece[j] = out[j]
    <3> SUFFICES ASSUME NEW j \in 1 .. k PROVE piece[j] = out[j]
      OBVIOUS
    <3>1. j \in 1 .. k - 0 /\ 0 + j = j
      BY <2>1
    <3> QED
      BY <2>2, <2>4, <3>1
  <2> QED
    BY <2>5, <2>6, <2>7
<1> HIDE DEF piece
<1>10. IsJoined(buf, b, piece)
  BY <1>4, <1>9, Joined
<1> HIDE DEF buf
<1>11. /\ buf \in Seq(Octets) /\ Len(buf) = Len(b) + k
       /\ \A j \in 1 .. Len(b) : buf[j] = b[j]
       /\ \A j \in 1 .. k : buf[Len(b) + j] = piece[j]
  BY <1>9, <1>10 DEF IsJoined
<1>12. s = t
  <2>1. WithBuf(r, buf) = Made(buf, p, st, reply, none, r.short)
    BY <1>4, ChangesAre
  <2>2. WithShort(Made(buf, p, st, reply, none, r.short), no) = t
    BY ChangesAre
  <2> QED
    BY <2>1, <2>2 DEF s
<1>13. t.buf = buf /\ t.pos = p /\ t.short = no
  BY FieldsAre
<1>14. ReaderAt(t, st, reply) /\ Unread(t) = u + k
  <2>1. p \in 0 .. Len(buf) /\ Len(buf) - p = u + k
    BY <1>5, <1>7, <1>3, <1>8, <1>11
  <2>2. no \in BOOLEAN
    BY DEF no
  <2>3. ReaderAt(Made(buf, p, st, reply, "", no), st, reply)
        /\ Unread(Made(buf, p, st, reply, "", no)) = Len(buf) - p
    BY <1>11, <2>1, <2>2, MadeIs
  <2> QED
    BY <2>1, <2>3 DEF none
<1> HIDE DEF t
<1>15. got = e + u
  BY <1>1
<1>16. ASSUME NEW j \in 1 .. u + k
       PROVE  t.buf[t.pos + j] = x[e + j]
  <2>1. j \in 1 .. u \/ \E m \in 1 .. k : j = u + m
    <3>1. j <= u \/ (j - u \in 1 .. k /\ j = u + (j - u))
      BY <1>3, <1>5, <1>7, <1>8
    <3>2. j \in Nat /\ 1 <= j
      BY <1>3, <1>5, <1>7, <1>8
    <3> QED
      BY <1>5, <3>1, <3>2
  <2>2. CASE j \in 1 .. u
    <3>1. p + j \in 1 .. Len(b)
      BY <1>5, <2>2
    <3>2. b[p + j] = x[e + j]
      BY <1>1, <2>2
    <3> QED
      BY <1>11, <1>13, <3>1, <3>2
  <2>3. ASSUME NEW m \in 1 .. k, j = u + m
        PROVE  t.buf[t.pos + j] = x[e + j]
    <3>1. p + j = Len(b) + m /\ e + j = got + m /\ m \in 1 .. z - got
      BY <1>3, <1>5, <1>6, <1>7, <1>8, <1>15, <2>3
    <3>2. buf[Len(b) + m] = piece[m] /\ piece[m] = out[m] /\ out[m] = x[got + m]
      BY <1>7, <1>9, <1>11, <3>1
    <3> QED
      BY <1>13, <3>1, <3>2
  <2> QED
    BY <2>1, <2>2, <2>3
<1>17. got + k \in 0 .. z /\ got + k = e + (u + k)
  BY <1>3, <1>5, <1>6, <1>7, <1>8, <1>15
<1>18. Inside(t, R, i, type, got + k)
  BY <1>1, <1>14, <1>16, <1>17 DEF Inside, st, reply, e, x, z
<1>19. rest = Left(R, got + k)
  <2> DEFINE that == SubSeq(x, got + k + 1, z)
  <2>1. /\ rest \in Seq(Octets) /\ Len(rest) = l - k
        /\ \A j \in 1 .. l - k : rest[j] = out[k + j]
    <3>1. k \in 0 .. Len(out) /\ l \in 0 .. Len(out) /\ k <= l /\ l = Len(out)
      BY <1>3, <1>7, <1>8 DEF l
    <3>2. /\ SubSeq(out, k + 1, l) \in Seq(Octets)
          /\ Len(SubSeq(out, k + 1, l)) = IF k <= l THEN l - k ELSE 0
          /\ \A j \in 1 .. l - k : SubSeq(out, k + 1, l)[j] = out[k + j]
      BY <1>7, <3>1, PieceIs
    <3> QED
      BY <3>1, <3>2
  <2>2. /\ that \in Seq(Octets) /\ Len(that) = z - (got + k)
        /\ \A j \in 1 .. z - (got + k) : that[j] = x[got + k + j]
    <3>1. PICK g \in 0 .. Len(x) : g = got + k
      BY <1>17 DEF z
    <3>2. z \in 0 .. Len(x) /\ g <= z
      BY <1>3, <3>1 DEF z
    <3>3. /\ SubSeq(x, g + 1, z) \in Seq(Octets)
          /\ Len(SubSeq(x, g + 1, z)) = IF g <= z THEN z - g ELSE 0
          /\ \A j \in 1 .. z - g : SubSeq(x, g + 1, z)[j] = x[g + j]
      BY <1>2, <3>2, PieceIs
    <3> QED
      BY <3>1, <3>2, <3>3
  <2> HIDE DEF that, rest
  <2>3. l - k = z - (got + k)
    BY <1>3, <1>7, <1>8
  <2>4. \A j \in 1 .. l - k : rest[j] = that[j]
    <3> SUFFICES ASSUME NEW j \in 1 .. l - k PROVE rest[j] = that[j]
      OBVIOUS
    <3>1. k + j \in 1 .. z - got /\ got + (k + j) = got + k + j
      BY <1>3, <1>7, <1>8
    <3> QED
      BY <1>7, <2>1, <2>2, <2>3, <3>1
  <2>5. rest = that
    <3>1. Len(rest) = Len(that) /\ \A j \in 1 .. Len(rest) : rest[j] = that[j]
      BY <2>1, <2>2, <2>3, <2>4
    <3>2. rest \in Seq(Octets) /\ that \in Seq(Octets)
      BY <2>1, <2>2
    <3> QED
      BY ONLY <3>1, <3>2, SeqEqual
  <2> QED
    BY <2>5 DEF that, Left, x, z
<1>20. buf # <<>>
  <2>1. Len(buf) # 0
    BY <1>3, <1>5, <1>7, <1>8, <1>11
  <2>2. Len(<<>>) = 0
    OBVIOUS
  <2> QED
    BY <2>1, <2>2
<1>21. ~t.short
  BY <1>13 DEF no
<1> QED
  BY <1>7, <1>12, <1>17, <1>18, <1>19, <1>20, <1>21
    DEF Fed, s, buf, piece, b, no, out, z, x, rest, l

--------------------------------------------------------------------------------
(* A reply that comes in pieces. *)

(* A length is a number. *)
LEMMA LenIs == ASSUME NEW S, NEW s \in Seq(S) PROVE Len(s) \in Nat
OBVIOUS

(* Nothing is left of a reply that has been given whole. *)
LEMMA NoneLeft == ASSUME NEW R \in Replies PROVE Left(R, Len(Bytes(R))) = <<>>
<1> DEFINE x == Bytes(R)
           z == Len(x)
<1>1. x \in Seq(Octets)
  BY BytesAre
<1> HIDE DEF x
<1>2. z \in Nat
  BY <1>1, LenIs
<1>3. Left(R, Len(Bytes(R))) = SubSeq(x, z + 1, z)
  BY DEF Left, x
<1> HIDE DEF z
<1>4. PICK m \in Int : m = z + 1 /\ z < m
  BY <1>2
<1>5. SubSeq(x, m, z) = <<>>
  BY <1>2, <1>4, SubSeqEmpty
<1> QED
  BY <1>3, <1>4, <1>5

IsFine(r) == r.err = ""
Asked(r, piece) == redisReaderGetReply(redisReaderFeed(r, piece))

(* A reply that comes in pieces is read whole (redisReaderFeed,            *)
(* processItem, moveToNextTask, redisReaderGetReply): wherever the bytes   *)
(* are cut, a reader that has been given a beginning of a reply and is fed *)
(* the next piece has no error, and gives nothing and wants the rest, or   *)
(* gives this reply and keeps nothing.                                     *)
THEOREM PieceRead ==
  ASSUME NEW R \in Replies, NEW r, NEW out, Reading(r, R, out), NEW k \in 1 .. Len(out)
  PROVE  /\ IsFine(Asked(r, SubSeq(out, 1, k)).reader)
         /\ \/ /\ Asked(r, SubSeq(out, 1, k)).reply = <<>>
               /\ Reading(Asked(r, SubSeq(out, 1, k)).reader, R, SubSeq(out, k + 1, Len(out)))
            \/ /\ Asked(r, SubSeq(out, 1, k)).reply = R
               /\ Clean(Asked(r, SubSeq(out, 1, k)).reader)
               /\ SubSeq(out, k + 1, Len(out)) = <<>>
<1> DEFINE piece == SubSeq(out, 1, k)
           f == redisReaderFeed(r, piece)
           g == redisReaderGetReply(f)
           rest == SubSeq(out, k + 1, Len(out))
           o == Opened(r)
<1>1. PICK i, type, got :
           /\ Inside(o, R, i, type, got) /\ out = Left(R, got)
           /\ r.err = "" /\ o.buf = r.buf
  BY OpenedIs
<1>3. /\ Inside(o, R, i, type, got) /\ out = Left(R, got)
      /\ r.err = "" /\ o.buf = r.buf
  BY <1>1
<1> DEFINE s == WithShort(WithBuf(o, o.buf \o piece), FALSE)
<1>4. /\ Inside(s, R, i, type, got + k) /\ ~s.short
      /\ got + k \in 0 .. Len(Bytes(R))
      /\ rest = Left(R, got + k)
      /\ o.buf \o piece # <<>>
      /\ Len(out) = Len(Bytes(R)) - got
  <2> HIDE DEF o
  <2>1. k \in 1 .. Len(Left(R, got))
    BY <1>3
  <2>2. /\ Inside(Fed(o, R, got, k), R, i, type, got + k) /\ ~Fed(o, R, got, k).short
        /\ got + k \in 0 .. Len(Bytes(R))
        /\ SubSeq(Left(R, got), k + 1, Len(Left(R, got))) = Left(R, got + k)
        /\ o.buf \o SubSeq(Left(R, got), 1, k) # <<>>
        /\ Len(Left(R, got)) = Len(Bytes(R)) - got
    BY <1>3, <2>1, FedInside
  <2>3. s = Fed(o, R, got, k)
    BY <1>3 DEF Fed
  <2> QED
    BY <1>3, <2>2, <2>3
<1>5. \E stack, reply : ReaderAt(r, stack, reply)
  <2>1. CASE r.stack = <<>>
    <3>1. Clean(r) \/ \E c \in 0 .. Len(Bytes(R)) : Partly(r, R, c)
      BY DEF Reading
    <3> QED
      BY <3>1 DEF Clean, Partly, Inside
  <2>2. CASE r.stack # <<>>
    <3>1. o = r
      BY <2>2 DEF Opened
    <3> QED
      BY <1>3, <3>1 DEF Inside
  <2> QED
    BY <2>1, <2>2
<1>6. PICK stack, reply : ReaderAt(r, stack, reply)
  BY <1>5
<1> DEFINE b == r.buf
           p == r.pos
           h == r.short
           none == ""
           buf == b \o piece
           no == FALSE
<1>7. r = Made(b, p, stack, reply, none, h)
  BY <1>6, ReaderMade
<1>8. f = WithBuf(r, buf)
  BY DEF redisReaderFeed, WithBuf
<1> HIDE DEF b, p, h, none, buf, f, no
<1>9. f = Made(buf, p, stack, reply, none, h)
  BY ONLY <1>7, <1>8, ChangesAre
<1>10. r.stack = stack /\ f.stack = stack /\ f.buf = buf /\ f.err = none
  BY ONLY <1>7, <1>9, FieldsAre
<1>11. WithShort(Opened(f), no) = s
  <2>1. CASE stack = <<>>
    <3> DEFINE st == <<NoTask>>
    <3>1. o = WithStack(r, st) /\ Opened(f) = WithStack(f, st)
      BY <1>10, <2>1 DEF Opened
    <3> HIDE DEF st, o
    <3>2. o = Made(b, p, st, reply, none, h)
      <4>1. WithStack(Made(b, p, stack, reply, none, h), st) = Made(b, p, st, reply, none, h)
        BY ONLY ChangesAre
      <4> QED
        BY <1>7, <3>1, <4>1
    <3>3. Opened(f) = Made(buf, p, st, reply, none, h)
      <4>1. WithStack(Made(buf, p, stack, reply, none, h), st)
              = Made(buf, p, st, reply, none, h)
        BY ONLY ChangesAre
      <4> QED
        BY <1>9, <3>1, <4>1
    <3>4. WithBuf(o, buf) = Made(buf, p, st, reply, none, h)
      <4>1. WithBuf(Made(b, p, st, reply, none, h), buf) = Made(buf, p, st, reply, none, h)
        BY ONLY ChangesAre
      <4> QED
        BY <3>2, <4>1
    <3>5. o.buf \o piece = buf
      BY <1>3 DEF buf, b
    <3> QED
      BY <3>3, <3>4, <3>5 DEF no
  <2>2. CASE stack # <<>>
    <3>1. o = r /\ Opened(f) = f
      BY <1>10, <2>2 DEF Opened
    <3>2. o.buf \o piece = buf
      BY <1>3 DEF buf, b
    <3> QED
      BY <1>8, <3>1, <3>2 DEF no
  <2> QED
    BY <2>1, <2>2
<1>12. f.buf # <<>> /\ f.err = ""
  <2>1. o.buf \o piece = buf
    BY <1>3 DEF buf, b
  <2> QED
    BY <1>4, <1>10, <2>1 DEF none
<1>13. g = Result(ProcessItems(s))
  BY <1>11, <1>12, GetIs DEF no
<1> HIDE DEF s, g
<1>14. Given(ProcessItems(s), R, got + k)
  BY <1>4, ItemsProcessed
<1>15. /\ g.reader.err = ""
       /\ \/ g.reply = <<>> /\ Partly(g.reader, R, got + k)
          \/ g.reply = R /\ Clean(g.reader) /\ got + k = Len(Bytes(R))
  BY <1>13, <1>14, ResultIs
<1>16. g.reply = <<>> /\ Partly(g.reader, R, got + k) => Reading(g.reader, R, rest)
  BY <1>4 DEF Reading
<1>17. got + k = Len(Bytes(R)) => rest = <<>>
  BY <1>4, NoneLeft
<1>18. g = Asked(r, SubSeq(out, 1, k))
  BY DEF Asked, g, f, piece
<1> HIDE DEF rest
<1>19. /\ g.reader.err = ""
       /\ \/ g.reply = <<>> /\ Reading(g.reader, R, rest)
          \/ g.reply = R /\ Clean(g.reader) /\ rest = <<>>
  BY <1>15, <1>16, <1>17
<1>20. IsFine(g.reader)
  BY <1>19 DEF IsFine
<1> QED
  BY <1>18, <1>19, <1>20 DEF rest

(* A reader that has read all it was given has no reply. *)
LEMMA CleanAsked ==
  ASSUME NEW r, Clean(r)
  PROVE  redisReaderGetReply(r).reply = <<>>
<1>1. ReaderAt(r, <<>>, <<>>) /\ Unread(r) = 0
  BY DEF Clean
<1>2. r.err = "" /\ r.stack = <<>>
  BY <1>1, ReaderIs
<1>3. CASE r.buf = <<>>
  <2> DEFINE nil == <<>>
             g == redisReaderGetReply(r)
  <2>1. g = [reader |-> r, reply |-> nil]
    BY <1>3 DEF redisReaderGetReply
  <2> HIDE DEF nil, g
  <2>2. g.reply = nil
    BY <2>1
  <2> QED
    BY <2>2 DEF nil, g
<1>4. CASE r.buf # <<>>
  <2> DEFINE R == <<Status(OK)>>
             z == Len(Bytes(R))
             no == FALSE
             o == Opened(r)
             s == WithShort(o, no)
             g == redisReaderGetReply(r)
  <2>1. R \in Replies
    <3>1. Status(OK) \in Objects /\ ~Opens(Status(OK))
      BY DEF Objects, Opens, Status, createStringObject, createReplyObject
    <3> QED
      BY <3>1 DEF Replies
  <2> HIDE DEF R
  <2>2. g = Result(ProcessItems(s))
    BY <1>2, <1>4, GetIs
  <2> HIDE DEF o
  <2>3. z \in Nat /\ z # 0 /\ Bytes(R) \in Seq(Octets)
    <3>1. 1 \in DOMAIN R /\ Bytes(R) \in Seq(Octets)
      BY <2>1, RepliesAre, BytesAre
    <3>2. Start(1) + Size(R[1]) <= z
      BY <2>1, <3>1, BytesAre
    <3>3. Size(R[1]) \in 4 .. 7 /\ Start(1) = 0
      BY <2>1, <3>1, PlacesAre DEF Start
    <3>4. z \in Nat
      BY <3>1, LenIs
    <3> HIDE DEF z
    <3> QED
      BY <3>1, <3>2, <3>3, <3>4
  <2>4. Reading(r, R, Bytes(R))
    BY DEF Reading
  <2>5. \E i \in DOMAIN R : \E type \in {"", Wire(R[i])} : \E got \in 0 .. z :
           /\ Inside(o, R, i, type, got) /\ Bytes(R) = Left(R, got)
           /\ r.err = "" /\ o.buf = r.buf
    BY <2>1, <2>4, OpenedIs DEF o
  <2>6. PICK i, type, got :
           got \in 0 .. z /\ Inside(o, R, i, type, got) /\ Bytes(R) = Left(R, got)
    BY <2>5
  <2>7. got \in 0 .. z /\ Inside(o, R, i, type, got) /\ Bytes(R) = Left(R, got)
    BY <2>6
  <2>8. got = 0
    <3>0. got \in 0 .. z
      BY <2>7
    <3>1. z \in 0 .. Len(Bytes(R)) /\ got \in 0 .. Len(Bytes(R))
      <4>1. z = Len(Bytes(R))
        OBVIOUS
      <4> HIDE DEF z
      <4> QED
        BY <2>3, <3>0, <4>1
    <3>2. Len(SubSeq(Bytes(R), got + 1, z)) = IF got <= z THEN z - got ELSE 0
      <4> HIDE DEF z
      <4> QED
        BY <2>3, <3>1, PieceIs
    <3>3. Len(Left(R, got)) = z - got
      <4>1. got <= z
        <5> HIDE DEF z
        <5> QED
          BY <2>3, <3>0
      <4> QED
        BY <3>2, <4>1 DEF Left
    <3>4. z = z - got
      BY <2>7, <3>3
    <3> HIDE DEF z
    <3> QED
      BY <2>3, <3>0, <3>4
  <2>9. Inside(s, R, i, type, got) /\ ~s.short
    <3> DEFINE st == StackAt(i, type)
               reply == SubSeq(R, 1, i - 1)
               b == o.buf
               p == o.pos
               h == o.short
               none == ""
               t == Made(b, p, st, reply, none, no)
    <3>1. ReaderAt(o, st, reply)
      BY <2>7 DEF Inside
    <3>2. /\ b \in Seq(Octets) /\ p \in 0 .. Len(b) /\ h \in BOOLEAN
          /\ o = Made(b, p, st, reply, none, h) /\ no \in BOOLEAN
      BY <3>1, ReaderMade
    <3>3. Unread(o) = Len(b) - p
      BY DEF Unread
    <3>4. o.buf = b /\ o.pos = p
      OBVIOUS
    <3> HIDE DEF st, reply, b, p, h, none, no, o
    <3>5. s = t
      <4>1. WithShort(Made(b, p, st, reply, none, h), no) = t
        BY ONLY ChangesAre
      <4> QED
        BY <3>2, <4>1
    <3>6. t.buf = b /\ t.pos = p /\ t.short = no
      BY ONLY FieldsAre
    <3>7. ReaderAt(t, st, reply) /\ Unread(t) = Len(b) - p
      <4>1. ReaderAt(Made(b, p, st, reply, "", no), st, reply)
            /\ Unread(Made(b, p, st, reply, "", no)) = Len(b) - p
        BY <3>2, MadeIs
      <4> QED
        BY <4>1 DEF none
    <3> HIDE DEF s, t
    <3>8. Inside(s, R, i, type, got)
      <4>1. ReaderAt(s, StackAt(i, type), SubSeq(R, 1, i - 1))
        BY <3>5, <3>7 DEF st, reply
      <4>2. Unread(s) = Unread(o) /\ s.buf = o.buf /\ s.pos = o.pos
        BY <3>3, <3>4, <3>5, <3>6, <3>7
      <4> QED
        BY <2>7, <4>1, <4>2 DEF Inside
    <3> QED
      BY <3>5, <3>6, <3>8 DEF no
  <2> HIDE DEF s, g
  <2>10. Given(ProcessItems(s), R, 0)
    BY <2>1, <2>8, <2>9, ItemsProcessed
  <2>11. g.reply = <<>> \/ 0 = Len(Bytes(R))
    BY <2>1, <2>2, <2>10, ResultIs
  <2> QED
    BY <2>3, <2>11 DEF g
<1> QED
  BY <1>3, <1>4

--------------------------------------------------------------------------------
(* What redis says and what it is sent. *)

(* redisReaderCreate makes a reader that has read nothing. *)
LEMMA NewIsClean == Clean(redisReaderCreate)
<1> DEFINE nil == <<>>
           zero == 0
           none == ""
           no == FALSE
           t == Made(nil, zero, nil, nil, none, no)
<1>1. redisReaderCreate = t
  BY DEF redisReaderCreate, Made
<1>2. nil \in Seq(Octets) /\ zero \in 0 .. Len(nil) /\ no \in BOOLEAN /\ Len(nil) - zero = 0
  OBVIOUS
<1> HIDE DEF nil, zero, no
<1>3. ReaderAt(Made(nil, zero, nil, nil, "", no), nil, nil)
      /\ Unread(Made(nil, zero, nil, nil, "", no)) = Len(nil) - zero
  BY <1>2, MadeIs
<1> HIDE DEF t, none
<1>4. t = Made(nil, zero, nil, nil, "", no)
  BY DEF t, none
<1> QED
  BY <1>1, <1>2, <1>3, <1>4 DEF Clean, nil

Kinds == {"integer", "bulk", "status", "array"}

(* What redis says of a call is one of the replies above. *)
LEMMA SaidIs ==
  ASSUME NEW n \in 1 .. 8, NEW kind \in Kinds
  PROVE  /\ Gives(kind, Stamp(n)) \subseteq Replies
         /\ Refusal \in Replies /\ <<Status(OK)>> \in Replies /\ <<Status(OK)>> # Refusal
<1> DEFINE m == Stamp(n)
<1>1. m \in 2 .. 9 /\ m \in 0 .. 9
  BY DEF Stamp
<1> HIDE DEF m
<1>2. ASSUME NEW obj \in Objects, obj.type # "array" PROVE <<obj>> \in Replies
  BY <1>2 DEF Replies, Opens
<1>3. /\ createIntegerObject(m) \in Objects /\ createIntegerObject(m).type = "integer"
      /\ Text1(m) \in Objects /\ Text1(m).type = "string"
      /\ createNilObject \in Objects /\ createNilObject.type = "nil"
      /\ createArrayObject(0) \in Objects
      /\ createArrayObject(0).elements = 0
      /\ Status(OK) \in Objects /\ Status(OK).type = "status"
      /\ createStringObject("error", ERR) \in Objects
      /\ createStringObject("error", ERR).type = "error"
  BY <1>1 DEF Objects, createIntegerObject, Text1, createNilObject, createStringObject,
              createReplyObject, createArrayObject, Status
<1>4. <<createArrayObject(0)>> \in Replies
  BY <1>3 DEF Replies, Opens
<1>5. /\ <<createArrayObject(2), Text1(m), createNilObject>> \in Replies
      /\ <<createArrayObject(2), Text1(m), Text1(m)>> \in Replies
  BY <1>1 DEF Replies
<1>6. Refusal \in Replies /\ <<Status(OK)>> \in Replies
  BY <1>2, <1>3 DEF Refusal
<1>7. <<Status(OK)>> # Refusal
  <2>1. Status(OK) # createStringObject("error", ERR)
    BY <1>3
  <2> QED
    BY <2>1 DEF Refusal
<1>8. Gives(kind, m) \subseteq Replies
  BY <1>2, <1>3, <1>4, <1>5 DEF Gives, Kinds
<1> QED
  BY <1>6, <1>7, <1>8 DEF m

(* The commands of the operations. *)
Word == Seq(STRING)
IsCommand(c) ==
  /\ c \in Seq(Word) /\ Len(c) \in 2 .. 10
  /\ c[1] = <<"*", Digit(Len(c) - 1)>>

LEMMA CommandsAre ==
  /\ IsCommand(AuthCommand) /\ IsCommand(SelectCommand) /\ AuthCommand # SelectCommand
  /\ \A o \in DOMAIN AllOps, n \in Calls :
       /\ IsCommand(CommandOf[o][n])
       /\ CommandOf[o][n] # AuthCommand /\ CommandOf[o][n] # SelectCommand
<1>1. IsCommand(AuthCommand) /\ IsCommand(SelectCommand) /\ AuthCommand # SelectCommand
  BY CommandAssumption DEF IsCommand, Word
<1>2. ASSUME NEW o \in DOMAIN AllOps, NEW n \in Calls
      PROVE  /\ IsCommand(CommandOf[o][n])
             /\ CommandOf[o][n] # AuthCommand /\ CommandOf[o][n] # SelectCommand
  <2>1. n \in 1 .. 8
    BY CacheAssumption DEF Calls
  <2>2. CommandOf[o][n] = Words(AllOps[o].format, Arguments(n))
    BY DEF CommandOf
  <2> QED
    BY <2>1, <2>2, CommandAssumption DEF IsCommand, Word
<1> QED
  BY <1>1, <1>2

(* A command is whole when nothing of it is left to send. *)
IsWhole(a) == a # <<>> /\ Len(a) > DigitTable[a[1][2]]
First(a) == SubSeq(a, 1, 1 + DigitTable[a[1][2]])

(* A prefix of a command that redis finds whole is the command. *)
LEMMA WholeIs ==
  ASSUME NEW c, IsCommand(c), NEW a \in Seq(Word), NEW b \in Seq(Word), a \o b = c,
         IsWhole(a)
  PROVE  /\ a = c /\ b = <<>> /\ First(a) = a
         /\ SubSeq(a, Len(a) + 1, Len(a)) = <<>>
<1> DEFINE l == Len(c)
           k == Len(a)
           m == Len(b)
<1>1. k \in Nat /\ m \in Nat /\ l \in 2 .. 10
  BY LenIs DEF IsCommand
<1>2. k # 0
  <2>1. Len(a) = 0 => a = <<>>
    BY EmptySeq
  <2>2. a # <<>>
    BY DEF IsWhole
  <2> QED
    BY <2>1, <2>2
<1>3. l = k + m /\ c[1] = a[1]
  <2>1. Len(a \o b) = k + m
    BY LenIs, ConcatProperties
  <2>2. (a \o b)[1] = a[1]
    BY <1>1, <1>2, ConcatProperties
  <2> QED
    BY <2>1, <2>2
<1>4. a[1] = <<"*", Digit(l - 1)>>
  BY <1>3 DEF IsCommand
<1>5. a[1][1] = "*" /\ a[1][2] = Digit(l - 1)
  BY <1>4
<1>6. DigitTable[Digit(l - 1)] = l - 1
  <2> HIDE DEF l
  <2>1. l - 1 \in 0 .. 9
    BY <1>1
  <2> QED
    BY <2>1, DigitIs
<1>7. ASSUME k > l - 1
      PROVE  a = c /\ b = <<>> /\ SubSeq(a, 1, 1 + (l - 1)) = a /\ SubSeq(a, k + 1, k) = <<>>
  <2> HIDE DEF k, l, m
  <2>1. m = 0 /\ 1 + (l - 1) = k
    BY <1>1, <1>3, <1>7
  <2>2. b = <<>>
    BY <2>1, EmptySeq DEF m
  <2>3. a = c
    BY <2>2
  <2>4. SubSeq(a, 1, k) = a
    BY SubSeqFull DEF k
  <2>5. PICK i \in Int : i = k + 1 /\ k < i
    BY <1>1
  <2>6. SubSeq(a, i, k) = <<>>
    BY <1>1, <2>5, SubSeqEmpty
  <2> QED
    BY <2>1, <2>2, <2>3, <2>4, <2>5, <2>6
<1>8. DigitTable[a[1][2]] = l - 1
  BY <1>5, <1>6
<1>9. k > l - 1
  BY <1>8 DEF IsWhole
<1>10. First(a) = SubSeq(a, 1, 1 + (l - 1))
  BY <1>8 DEF First
<1> QED
  BY <1>7, <1>9, <1>10

(* A part of what is left is sent: the rest is left. *)
LEMMA PartSent ==
  ASSUME NEW c, NEW a \in Seq(Word), NEW b \in Seq(Word), a \o b = c, NEW k \in 1 .. Len(b)
  PROVE  /\ SubSeq(b, 1, k) \in Seq(Word) /\ SubSeq(b, k + 1, Len(b)) \in Seq(Word)
         /\ a \o SubSeq(b, 1, k) \in Seq(Word)
         /\ (a \o SubSeq(b, 1, k)) \o SubSeq(b, k + 1, Len(b)) = c
<1> DEFINE x == SubSeq(b, 1, k)
           y == SubSeq(b, k + 1, Len(b))
<1>1. b = x \o y /\ x \in Seq(Word) /\ y \in Seq(Word)
  OBVIOUS
<1> HIDE DEF x, y
<1>2. (a \o x) \o y = a \o (x \o y) /\ a \o x \in Seq(Word)
  BY <1>1, ConcatAssociative
<1> QED
  BY <1>1, <1>2 DEF x, y

--------------------------------------------------------------------------------
(* What an operation makes of a reply. *)

(* What may be said of a call that has left the mark m. *)
Texts(m) == {<<Digit(m)>>, OK, ERR, NoStr}
Own(given, m) == (given.ret > 1 => given.ret = m) /\ given.out \subseteq Texts(m)

Readings == {"integer", "flag", "value", "text", "texts", "string", "string or -1", "strings",
             "pairs", "integer or -1", "0 or -1", "OK or -1", "range", "score", "OK"}

(* No reply is empty. *)
LEMMA NoneIsEmpty == ASSUME NEW R \in Replies PROVE R # <<>>
<1> DEFINE l == Len(R)
<1>1. l \in {1, 3}
  BY RepliesAre
<1> HIDE DEF l
<1>2. l # 0
  BY <1>1
<1>3. Len(<<>>) = 0
  OBVIOUS
<1> QED
  BY <1>2, <1>3 DEF l

(* What the fields of a reply can be. *)
LEMMA ReplyOf ==
  ASSUME NEW n \in 1 .. 8, NEW kind \in Kinds,
         NEW R \in Gives(kind, Stamp(n)) \cup {Refusal}
  PROVE  /\ R # <<>> /\ Head(R) = R[1] /\ 1 \in DOMAIN R /\ 2 .. Len(R) \subseteq DOMAIN R
         /\ \A i \in DOMAIN R :
              /\ R[i].str \in Texts(Stamp(n)) /\ R[i].integer \in {0, Stamp(n)}
              /\ R[i].type = "string" => R[i].str = <<Digit(Stamp(n))>>
<1> DEFINE m == Stamp(n)
           good(obj) == /\ obj.str \in Texts(m) /\ obj.integer \in {0, m}
                        /\ obj.type = "string" => obj.str = <<Digit(m)>>
<1>1. R \in Replies
  BY SaidIs
<1>2. R # <<>> /\ Head(R) = R[1] /\ 1 \in DOMAIN R /\ 2 .. Len(R) \subseteq DOMAIN R
  <2>1. R \in Seq(Objects) /\ Len(R) \in {1, 3}
    BY <1>1, RepliesAre
  <2>2. R # <<>>
    BY <1>1, NoneIsEmpty
  <2>3. DOMAIN R = 1 .. Len(R)
    BY <2>1
  <2>4. 1 \in DOMAIN R /\ 2 .. Len(R) \subseteq DOMAIN R
    BY <2>1, <2>3
  <2> QED
    BY <2>1, <2>2, <2>4
<1>3. /\ good(createIntegerObject(m)) /\ good(Text1(m)) /\ good(createNilObject)
      /\ good(createArrayObject(0)) /\ good(createArrayObject(2)) /\ good(Status(OK))
      /\ good(createStringObject("error", ERR))
  <2> HIDE DEF m
  <2> QED
    BY DEF createIntegerObject, Text1, createNilObject, Status,
           createStringObject, createReplyObject, createArrayObject, Texts
<1> HIDE DEF good
<1>4. \A i \in DOMAIN R : good(R[i])
  <2>1. CASE R = Refusal
    BY <1>3, <2>1 DEF Refusal
  <2>2. CASE R \in Gives(kind, m)
    <3>1. \/ R \in {<<createIntegerObject(m)>>, <<Text1(m)>>, <<createNilObject>>,
                    <<Status(OK)>>, <<createArrayObject(0)>>}
          \/ R = <<createArrayObject(2), Text1(m), createNilObject>>
          \/ R = <<createArrayObject(2), Text1(m), Text1(m)>>
      BY <2>2 DEF Gives, Kinds
    <3> QED
      BY <1>3, <3>1
  <2> QED
    BY <2>1, <2>2
<1> QED
  BY <1>2, <1>4 DEF good

(* However an operation reads the reply, it returns what was said of it. *)
LEMMA ReadsOwn ==
  ASSUME NEW n \in 1 .. 8, NEW kind \in Kinds,
         NEW R \in Gives(kind, Stamp(n)) \cup {Refusal}, NEW how \in Readings
  PROVE  Own(Reads(how, R), Stamp(n))
<1> DEFINE m == Stamp(n)
           root == Head(R)
           some == {R[i].str : i \in 2 .. Len(R)}
           strings == {R[i].str : i \in {j \in 2 .. Len(R) : R[j].type = "string"}}
           given(ret, out) == [ret |-> ret, out |-> out]
           numbers == {-1, 0, 1, m}
<1>1. /\ root.str \in Texts(m) /\ root.integer \in {0, m}
      /\ root.type = "string" => root.str = <<Digit(m)>>
  BY ReplyOf
<1>2. some \subseteq Texts(m) /\ strings \subseteq Texts(m)
  BY ReplyOf
<1>3. m \in 2 .. 9
  BY DEF Stamp
<1>4. root.type = "string" => atoi(root.str) = m
  <2> SUFFICES ASSUME root.type = "string" PROVE atoi(root.str) = m
    OBVIOUS
  <2>1. root.str = <<Digit(m)>>
    BY <1>1
  <2>2. m \in 0 .. 9
    BY <1>3
  <2>3. Digit(m) \in Digits /\ DigitTable[Digit(m)] = m
    BY <2>2, DigitIs
  <2>4. atoi(<<Digit(m)>>) = m
    BY <2>3, AtoiOne
  <2> QED
    BY <2>1, <2>4
<1> SUFFICES Own(Reads(how, R), m)
  OBVIOUS
<1> HIDE DEF m, root, some, strings
<1>5. ASSUME NEW ret, NEW out, ret \in numbers, out \subseteq Texts(m)
      PROVE  Own(given(ret, out), m)
  BY <1>3, <1>5 DEF Own, numbers, given
<1> HIDE DEF given
<1>6. {} \subseteq Texts(m) /\ {root.str} \subseteq Texts(m)
  BY <1>1
<1>7. root.integer \in numbers /\ {-1, 0, 1, m} \subseteq numbers
  BY <1>1 DEF numbers
<1> HIDE DEF numbers
<1>8. CASE how \in {"integer", "value"}
  <2>1. Reads(how, R) = given(root.integer, {})
    BY <1>8 DEF Reads, root, given
  <2> QED
    BY <1>5, <1>6, <1>7, <2>1
<1>9. CASE how = "flag"
  <2>1. Reads(how, R) = given(IF root.integer = 0 THEN 0 ELSE 1, {})
    BY <1>9 DEF Reads, root, given
  <2> QED
    BY <1>5, <1>6, <1>7, <2>1
<1>10. CASE how \in {"text", "string"}
  <2>1. Reads(how, R) = given(0, {root.str}) \/ Reads(how, R) = given(0, {})
    BY <1>10 DEF Reads, root, given
  <2> QED
    BY <1>5, <1>6, <1>7, <2>1
<1>11. CASE how = "string or -1"
  <2>1. Reads(how, R) = IF root.type = "string" THEN given(0, {root.str})
                        ELSE given(-1, {})
    BY <1>11 DEF Reads, root, given
  <2> QED
    BY <1>5, <1>6, <1>7, <2>1
<1>12. CASE how \in {"strings", "texts", "pairs"}
  <2>1. \/ Reads(how, R) = given(1, some) \/ Reads(how, R) = given(1, strings)
        \/ Reads(how, R) = given(1, {})
    BY <1>12 DEF Reads, root, given, some, strings
  <2> QED
    BY <1>2, <1>5, <1>6, <1>7, <2>1
<1>13. CASE how \in {"integer or -1", "0 or -1", "OK or -1", "score", "OK"}
  <2>1. \E ret : Reads(how, R) = given(ret, {}) /\ ret \in numbers
    <3>1. CASE how = "integer or -1"
      <4>1. Reads(how, R) = given(IF root.type = "integer" THEN root.integer ELSE -1, {})
        BY <3>1 DEF Reads, root, given
      <4> QED
        BY <1>7, <4>1
    <3>2. CASE how = "0 or -1"
      <4>1. Reads(how, R) = given(IF root.type = "integer" THEN 0 ELSE -1, {})
        BY <3>2 DEF Reads, root, given
      <4> QED
        BY <1>7, <4>1
    <3>3. CASE how = "OK or -1"
      <4>1. Reads(how, R) = given(IF root.str = OK THEN 0 ELSE -1, {})
        BY <3>3 DEF Reads, root, given
      <4> QED
        BY <1>7, <4>1
    <3>4. CASE how = "score"
      <4>1. Reads(how, R) = given(IF root.type = "string" THEN atoi(root.str) ELSE -1, {})
        BY <3>4 DEF Reads, root, given
      <4> QED
        BY <1>4, <1>7, <4>1
    <3>5. CASE how = "OK"
      <4>1. Reads(how, R) = given(IF root.type = "string" /\ StartsWith(root.str, OK) THEN 1 ELSE 0, {})
        BY <3>5 DEF Reads, root, given
      <4> QED
        BY <1>7, <4>1
    <3> QED
      BY <1>13, <3>1, <3>2, <3>3, <3>4, <3>5
  <2> QED
    BY <1>5, <1>6, <1>7, <2>1
<1>14. CASE how = "range"
  <2>1. Reads(how, R) = IF root.type = "array" THEN given(0, some)
                        ELSE given(-1, {})
    BY <1>14 DEF Reads, root, given, some
  <2> QED
    BY <1>2, <1>5, <1>6, <1>7, <2>1
<1> QED
  BY <1>8, <1>9, <1>10, <1>11, <1>12, <1>13, <1>14 DEF Readings

--------------------------------------------------------------------------------
(* The variables: their types, and what a step makes of a record. *)

Contexts == [err : BOOLEAN, obuf : Seq(Word)]
Stages == {"idle", "init", "auth", "select", "run", "crashed"}

IsCallRecord(c) == c = [n |-> c.n, op |-> c.op, stage |-> c.stage]
IsLink(l) ==
  /\ l = [state |-> l.state, trusted |-> l.trusted, inbox |-> l.inbox, out |-> l.out]
  /\ l.inbox \in Seq(Word)

CallOK ==
  /\ IsCallRecord(call) /\ call.n \in 0 .. MaxCalls /\ call.stage \in Stages
  /\ call.n = 0 => At("idle")
  /\ call.n # 0 => call.op \in DOMAIN AllOps
CountsOK ==
  /\ runs \in [Calls -> {0, 1}] /\ ended \in [Calls -> {"open", "failed", "told"}]
  /\ faults \in Nat /\ struck \in Nat
TypesOK ==
  /\ context \in Contexts \cup {NULL} /\ IsLink(link) /\ CallOK /\ CountsOK

(* A call at another stage. *)
LEMMA CallChanges ==
  ASSUME NEW c, IsCallRecord(c), NEW st
  PROVE  /\ IsCallRecord([c EXCEPT !.stage = st])
         /\ [c EXCEPT !.stage = st].n = c.n /\ [c EXCEPT !.stage = st].op = c.op
         /\ [c EXCEPT !.stage = st].stage = st
<1> DEFINE x == c.n
           y == c.op
           z == c.stage
<1>1. c = [n |-> x, op |-> y, stage |-> z]
  BY DEF IsCallRecord
<1> HIDE DEF x, y, z
<1>2. [c EXCEPT !.stage = st] = [n |-> x, op |-> y, stage |-> st]
  BY <1>1
<1>3. c.n = x /\ c.op = y
  BY <1>1
<1> QED
  BY <1>2, <1>3 DEF IsCallRecord

(* A context with an error, or with other words to write. *)
LEMMA ContextChanges ==
  ASSUME NEW c \in Contexts
  PROVE  /\ [c EXCEPT !.err = TRUE] \in Contexts /\ [c EXCEPT !.err = TRUE].err
         /\ [c EXCEPT !.err = TRUE].obuf = c.obuf
         /\ \A x \in Seq(Word) :
              /\ [c EXCEPT !.obuf = x] \in Contexts /\ [c EXCEPT !.obuf = x].obuf = x
              /\ [c EXCEPT !.obuf = x].err = c.err
BY DEF Contexts

(* A context is not NULL. *)
LEMMA ContextIs ==
  ASSUME NEW c \in Contexts
  PROVE  c # NULL /\ c.err \in BOOLEAN /\ c.obuf \in Seq(Word)
<1>1. NULL \notin Contexts
  BY CacheAssumption DEF Contexts, Word
<1> QED
  BY <1>1 DEF Contexts

LinkIs(l, s, t, i, o) ==
  IsLink(l) /\ l.state = s /\ l.trusted = t /\ l.inbox = i /\ l.out = o

(* A connection of which some fields change. *)
LEMMA LinkChanges ==
  ASSUME NEW l, IsLink(l), NEW s, NEW t, NEW i \in Seq(Word), NEW o
  PROVE  /\ LinkIs([l EXCEPT !.state = s, !.inbox = i], s, l.trusted, i, l.out)
         /\ LinkIs([l EXCEPT !.state = s, !.inbox = i, !.out = o], s, l.trusted, i, o)
         /\ LinkIs([l EXCEPT !.inbox = i], l.state, l.trusted, i, l.out)
         /\ LinkIs([l EXCEPT !.out = o], l.state, l.trusted, l.inbox, o)
         /\ LinkIs([l EXCEPT !.inbox = i, !.out = o, !.trusted = t], l.state, t, i, o)
<1> DEFINE a == l.state
           b == l.trusted
           c == l.inbox
           d == l.out
           made(w, x, y, z) == [state |-> w, trusted |-> x, inbox |-> y, out |-> z]
<1>1. l = made(a, b, c, d) /\ c \in Seq(Word)
  BY DEF IsLink
<1> HIDE DEF a, b, c, d
<1>2. ASSUME NEW w, NEW x, NEW y \in Seq(Word), NEW z
      PROVE  LinkIs(made(w, x, y, z), w, x, y, z)
  BY DEF IsLink, LinkIs
<1> DEFINE withState(k, v) == [k EXCEPT !.state = v]
           withTrusted(k, v) == [k EXCEPT !.trusted = v]
           withInbox(k, v) == [k EXCEPT !.inbox = v]
           withOut(k, v) == [k EXCEPT !.out = v]
<1>8. ASSUME NEW w, NEW x, NEW y, NEW z, NEW v
      PROVE  /\ withState(made(w, x, y, z), v) = made(v, x, y, z)
             /\ withTrusted(made(w, x, y, z), v) = made(w, v, y, z)
             /\ withInbox(made(w, x, y, z), v) = made(w, x, v, z)
             /\ withOut(made(w, x, y, z), v) = made(w, x, y, v)
  OBVIOUS
<1>9. /\ [l EXCEPT !.state = s, !.inbox = i] = withInbox(withState(l, s), i)
      /\ [l EXCEPT !.state = s, !.inbox = i, !.out = o]
            = withOut(withInbox(withState(l, s), i), o)
      /\ [l EXCEPT !.inbox = i] = withInbox(l, i)
      /\ [l EXCEPT !.out = o] = withOut(l, o)
      /\ [l EXCEPT !.inbox = i, !.out = o, !.trusted = t]
            = withTrusted(withOut(withInbox(l, i), o), t)
  OBVIOUS
<1> HIDE DEF made, withState, withTrusted, withInbox, withOut
<1>3. withInbox(withState(l, s), i) = made(s, b, i, d)
  BY <1>1, <1>8
<1>4. withOut(withInbox(withState(l, s), i), o) = made(s, b, i, o)
  BY <1>1, <1>8
<1>5. withInbox(l, i) = made(a, b, i, d)
  BY <1>1, <1>8
<1>6. withOut(l, o) = made(a, b, c, o)
  BY <1>1, <1>8
<1>7. withTrusted(withOut(withInbox(l, i), o), t) = made(a, t, i, o)
  BY <1>1, <1>8
<1> QED
  BY <1>1, <1>2, <1>3, <1>4, <1>5, <1>6, <1>7, <1>9 DEF a, b, c, d

(* The connections that are made. *)
LEMMA NewLinkIs ==
  /\ LinkIs(NoLink, "none", FALSE, <<>>, <<>>)
  /\ LinkIs(NewLink, "up", ~Password, <<>>, <<>>)
<1> DEFINE made(w, x, y, z) == [state |-> w, trusted |-> x, inbox |-> y, out |-> z]
           nil == <<>>
           none == "none"
           up == "up"
           no == FALSE
           trusted == ~Password
<1>1. nil \in Seq(Word)
  OBVIOUS
<1>2. NoLink = made(none, no, nil, nil)
  BY DEF NoLink
<1> HIDE DEF nil, none, up, no, trusted
<1>3. ASSUME NEW w, NEW x, NEW y \in Seq(Word), NEW z
      PROVE  LinkIs(made(w, x, y, z), w, x, y, z)
  BY DEF IsLink, LinkIs
<1> DEFINE withState(k, v) == [k EXCEPT !.state = v]
           withTrusted(k, v) == [k EXCEPT !.trusted = v]
<1>6. ASSUME NEW w, NEW x, NEW y, NEW z, NEW v
      PROVE  /\ withState(made(w, x, y, z), v) = made(v, x, y, z)
             /\ withTrusted(made(w, x, y, z), v) = made(w, v, y, z)
  OBVIOUS
<1>7. NewLink = withTrusted(withState(NoLink, up), trusted)
  BY DEF NewLink, up, trusted
<1> HIDE DEF made, withState, withTrusted
<1>4. NewLink = made(up, trusted, nil, nil)
  BY <1>2, <1>6, <1>7
<1>5. LinkIs(NoLink, none, no, nil, nil) /\ LinkIs(NewLink, up, trusted, nil, nil)
  BY <1>1, <1>2, <1>3, <1>4
<1> QED
  BY <1>5 DEF nil, none, up, no, trusted

Current ==
  IF At("auth") THEN AuthCommand ELSE IF At("select") THEN SelectCommand
  ELSE CommandOf[call.op][call.n]

(* The command of the stage tells the stage. *)
LEMMA CurrentIs ==
  ASSUME CallOK, InCommand
  PROVE  /\ call.n \in Calls /\ call.op \in DOMAIN AllOps /\ IsCommand(Current)
         /\ Current = AuthCommand <=> At("auth")
         /\ Current = SelectCommand <=> At("select")
         /\ Current = CommandOf[call.op][call.n] <=> At("run")
<1>1. call.n \in Calls /\ call.op \in DOMAIN AllOps
  <2>1. ~At("idle")
    BY DEF InCommand, At
  <2>2. call.n # 0 /\ call.n \in 0 .. MaxCalls
    BY <2>1 DEF CallOK
  <2>3. call.n \in Calls
    BY <2>2, CacheAssumption DEF Calls
  <2> QED
    BY <2>2, <2>3 DEF CallOK
<1> DEFINE mine == CommandOf[call.op][call.n]
<1>2. /\ IsCommand(mine) /\ mine # AuthCommand /\ mine # SelectCommand
      /\ IsCommand(AuthCommand) /\ IsCommand(SelectCommand) /\ AuthCommand # SelectCommand
  BY <1>1, CommandsAre
<1> HIDE DEF mine
<1>3. CASE At("auth")
  <2>1. Current = AuthCommand /\ ~At("select") /\ ~At("run")
    BY <1>3 DEF Current, At
  <2> QED
    BY <1>1, <1>2, <1>3, <2>1 DEF mine
<1>4. CASE At("select")
  <2>1. Current = SelectCommand /\ ~At("auth") /\ ~At("run")
    BY <1>4 DEF Current, At
  <2> QED
    BY <1>1, <1>2, <1>4, <2>1 DEF mine
<1>5. CASE At("run")
  <2>1. Current = mine /\ ~At("auth") /\ ~At("select")
    BY <1>5 DEF Current, At, mine
  <2> QED
    BY <1>1, <1>2, <1>5, <2>1 DEF mine
<1> QED
  BY <1>3, <1>4, <1>5 DEF InCommand

--------------------------------------------------------------------------------
(* The inductive invariant. *)

Unrun == runs[call.n] = 0 /\ call.n \notin late

(* Nothing is under way: between the calls. *)
Quiet == /\ context.obuf = <<>> /\ link.inbox = <<>> /\ link.out = <<>>
         /\ Clean(reader)

(* A command is being sent: what redis has of it and what is left of it.   *)
Sending ==
  /\ link.out = <<>> /\ Clean(reader)
  /\ link.state = "up" =>
       /\ link.inbox \o context.obuf = Current
       /\ At("run") => Unrun
       /\ At("select") => link.trusted

(* How many calls a fault that has been met can still make fail. *)
Owed == IF context = NULL \/ link.state = "up" THEN 0 ELSE IF context.err THEN 1 ELSE 2
Debt(more) == struck + more + Owed <= 2 * faults

(* What redis says of the command. *)
Said == IF At("run") THEN Gives(ThisOp.gives, Stamp(call.n)) \cup {Refusal}
        ELSE {<<Status(OK)>>, Refusal}

Telling(R) ==
  /\ Reading(reader, R, link.out)
  /\ ~At("run") /\ R = Refusal => Debt(2)
  /\ At("auth") /\ R # Refusal => link.trusted

(* The command has been run and the answer is on its way. *)
Answered ==
  /\ context.obuf = <<>> /\ link.inbox = <<>>
  /\ At("run") => runs[call.n] = 1
  /\ \E R \in Said : Telling(R)

Talking == \/ (At("idle") \/ At("init")) /\ Quiet
           \/ InCommand /\ (Sending \/ Answered)

TalkInv ==
  /\ context = NULL => /\ link = NoLink /\ reader = redisReaderCreate
                       /\ At("idle") \/ At("init")
  /\ context # NULL =>
       /\ link.state \in {"up", "closed", "lost"}
       /\ link.state # "up" => link.inbox = <<>>
       /\ link.state = "lost" => link.out = <<>>
       /\ context.err => link.state # "up"
       /\ ~context.err /\ link.state # "lost" => Talking
       /\ At("crashed") => context.err

RunsInv ==
  /\ late \subseteq 1 .. call.n
  /\ \A m \in Calls : m > call.n \/ m \in late => runs[m] = 0
  /\ At("init") \/ At("auth") \/ At("select") => Unrun

EndedInv ==
  \A m \in Calls : /\ m > call.n => ended[m] = "open"
                   /\ m = call.n => (ended[m] = "open" <=> ~At("idle"))
                   /\ m < call.n => ended[m] # "open"

CacheInv ==
  TypesOK /\ TalkInv /\ RunsInv /\ EndedInv /\ Debt(0) /\ OwnAnswer

(* A call goes on to another stage. *)
LEMMA StageSet ==
  ASSUME CallOK, EndedInv, ~At("idle"), NEW st \in Stages, st # "idle",
         call' = [call EXCEPT !.stage = st], ended' = ended
  PROVE  /\ CallOK' /\ EndedInv'
         /\ call'.n = call.n /\ call'.op = call.op /\ call'.stage = st
<1>1. /\ IsCallRecord(call') /\ call'.n = call.n /\ call'.op = call.op /\ call'.stage = st
  BY CallChanges DEF CallOK
<1>2. ~At("idle")'
  BY <1>1 DEF At
<1>3. CallOK'
  BY <1>1, <1>2 DEF CallOK
<1>4. EndedInv'
  BY <1>1, <1>2 DEF EndedInv
<1> QED
  BY <1>1, <1>3, <1>4

(* A call in progress has a number and an operation. *)
LEMMA CallIs ==
  ASSUME CallOK, ~At("idle")
  PROVE  call.n \in Calls /\ call.n \in 1 .. 8 /\ call.op \in DOMAIN AllOps
<1>1. call.n # 0 /\ call.n \in 0 .. MaxCalls
  BY DEF CallOK
<1> QED
  BY <1>1, CacheAssumption DEF CallOK, Calls

(* A call ends. *)
LEMMA Returned ==
  ASSUME CallOK, EndedInv, CountsOK, ~At("idle"), NEW how \in {"failed", "told"}, NEW value,
         Return(how, value)
  PROVE  /\ CallOK' /\ EndedInv' /\ ended' \in [Calls -> {"open", "failed", "told"}]
         /\ call'.n = call.n /\ call'.op = call.op /\ At("idle")'
         /\ ended' = [ended EXCEPT ![call.n] = how] /\ answer' = value
<1>1. /\ IsCallRecord(call') /\ call'.n = call.n /\ call'.op = call.op
      /\ call'.stage = "idle"
  BY CallChanges DEF CallOK, Return
<1>2. At("idle")'
  BY <1>1 DEF At
<1>3. CallOK'
  BY <1>1, <1>2 DEF CallOK, Stages
<1>4. ended' = [ended EXCEPT ![call.n] = how] /\ answer' = value
  BY DEF Return
<1>5. call.n \in Calls /\ ended \in [Calls -> {"open", "failed", "told"}]
  BY CallIs DEF CountsOK
<1>6. ended' \in [Calls -> {"open", "failed", "told"}]
  BY <1>4, <1>5
<1>7. EndedInv'
  <2> SUFFICES ASSUME NEW m \in Calls
               PROVE  /\ m > call.n => ended'[m] = "open"
                      /\ m = call.n => ended'[m] # "open"
                      /\ m < call.n => ended'[m] # "open"
    BY <1>1, <1>2 DEF EndedInv
  <2>1. ended'[m] = IF m = call.n THEN how ELSE ended[m]
    BY <1>4, <1>5
  <2>2. m \in Int /\ call.n \in Int
    BY <1>5, CacheAssumption DEF Calls
  <2>3. how # "open"
    OBVIOUS
  <2> QED
    BY <2>1, <2>2, <2>3 DEF EndedInv
<1> QED
  BY <1>1, <1>2, <1>3, <1>4, <1>6, <1>7

(* Nothing was run. *)
LEMMA RunsKept ==
  ASSUME RunsInv, call'.n = call.n, runs' = runs, late' = late,
         At("init")' \/ At("auth")' \/ At("select")' => At("init") \/ At("auth") \/ At("select")
  PROVE  RunsInv'
BY DEF RunsInv, Unrun

(* A call that fails says nothing. *)
LEMMA NothingSaid == ASSUME answer' = NoAnswer PROVE OwnAnswer'
BY DEF OwnAnswer, NoAnswer

(* A call in progress has not said anything yet. *)
LEMMA NotIdle == ASSUME ~At("idle")' PROVE OwnAnswer'
BY DEF OwnAnswer

(* What is owed, by what is left of the connection. *)
LEMMA OwedIs ==
  ASSUME TypesOK
  PROVE  /\ Owed \in {0, 1, 2}
         /\ context = NULL => Owed = 0
         /\ link.state = "up" => Owed = 0
         /\ context # NULL /\ link.state # "up" /\ context.err => Owed = 1
         /\ context # NULL /\ link.state # "up" /\ ~context.err => Owed = 2
BY DEF Owed

(* What can be said of the command of a stage. *)
LEMMA SaidReplies ==
  ASSUME CallOK, InCommand
  PROVE  /\ Said \subseteq Replies /\ Refusal \in Said /\ Refusal # <<Status(OK)>>
         /\ At("run") => /\ Said = Gives(ThisOp.gives, Stamp(call.n)) \cup {Refusal}
                         /\ ThisOp.gives \in Kinds
         /\ ~At("run") => Said = {<<Status(OK)>>, Refusal}
<1>1. ~At("idle")
  BY DEF InCommand, At
<1>2. call.n \in 1 .. 8 /\ call.op \in DOMAIN AllOps
  BY <1>1, CallIs
<1>3. ThisOp.gives \in Kinds
  BY <1>2, TableAssumption DEF ThisOp, Kinds
<1>4. /\ Gives(ThisOp.gives, Stamp(call.n)) \subseteq Replies
      /\ Refusal \in Replies /\ <<Status(OK)>> \in Replies /\ <<Status(OK)>> # Refusal
  BY <1>2, <1>3, SaidIs
<1> QED
  BY <1>3, <1>4 DEF Said

--------------------------------------------------------------------------------
(* A command is sent, and a reply is taken. *)

(* The same is owed as long as the connection is as it was. *)
LEMMA OwedSame ==
  ASSUME context = NULL <=> context' = NULL, context'.err = context.err,
         link'.state = link.state
  PROVE  Owed' = Owed
BY DEF Owed

(* OK is accepted; AUTH accepts nothing else. *)
LEMMA AcceptedIs ==
  /\ At("auth") => Accepted(<<Status(OK)>>) /\ ~Accepted(Refusal)
  /\ At("select") => Accepted(<<Status(OK)>>)
<1> DEFINE yes == <<Status(OK)>>
<1>1. yes[1].type = "status" /\ yes[1].str = OK /\ Refusal[1].type = "error"
  BY DEF Status, Refusal, createStringObject, createReplyObject
<1>2. StartsWith(OK, OK)
  <2>1. OK \in Seq(Octets) /\ Len(OK) \in Nat
    BY DEF OK, Octets
  <2>2. SubSeq(OK, 1, Len(OK)) = OK
    BY <2>1, SubSeqFull
  <2> QED
    BY <2>1, <2>2 DEF StartsWith
<1> HIDE DEF yes
<1>3. At("auth") => Accepted(yes) /\ ~Accepted(Refusal)
  <2> SUFFICES ASSUME At("auth") PROVE Accepted(yes) /\ ~Accepted(Refusal)
    OBVIOUS
  <2>1. ~At("select")
    BY DEF At
  <2> QED
    BY <1>1, <2>1 DEF Accepted
<1>4. At("select") => Accepted(yes)
  <2> SUFFICES ASSUME At("select") PROVE Accepted(yes)
    OBVIOUS
  <2>1. ~At("auth")
    BY DEF At
  <2> QED
    BY <1>1, <1>2, <2>1 DEF Accepted
<1> QED
  BY <1>3, <1>4 DEF yes

(* A step to another stage of the command on the connection that is there. *)
LEMMA SentKeeps ==
  ASSUME CacheInv, ~At("idle"), context # NULL,
         link.state # "lost" /\ ~context.err =>
           context.obuf = <<>> /\ link'.inbox = <<>> /\ link'.out = <<>> /\ Clean(reader'),
         NEW st \in {"select", "run"},
         NEW c, IsCommand(c), st = "select" => c = SelectCommand,
         st = "run" => c = CommandOf[call.op][call.n],
         Send(st, c), At("init") \/ At("auth") \/ At("select"),
         IsLink(link'), link'.state = link.state,
         link.state # "up" => link'.inbox = <<>>, link.state = "lost" => link'.out = <<>>,
         st = "select" => link'.trusted,
         UNCHANGED <<late, runs, faults>>
  PROVE  CacheInv'
<1> DEFINE obuf == context.obuf \o c
<1>1. context \in Contexts /\ CallOK /\ EndedInv /\ RunsInv /\ CountsOK /\ TypesOK
  BY DEF CacheInv, TypesOK
<1>2. c \in Seq(Word) /\ context.obuf \in Seq(Word)
  BY <1>1, ContextIs DEF IsCommand
<1>3. obuf \in Seq(Word)
  BY <1>2
<1>4. context' = [context EXCEPT !.obuf = obuf]
  BY DEF Send
<1> HIDE DEF obuf
<1>5. context' \in Contexts /\ context'.obuf = obuf /\ context'.err = context.err
  BY <1>1, <1>3, <1>4, ContextChanges
<1>6. context' # NULL
  BY <1>5, ContextIs
<1>7. /\ CallOK' /\ EndedInv' /\ call'.n = call.n /\ call'.op = call.op
      /\ call'.stage = st
  BY <1>1, StageSet DEF Send, Stages
<1>8. At("idle")' = FALSE /\ At("init")' = FALSE /\ At("auth")' = FALSE
      /\ At("crashed")' = FALSE
      /\ At("select")' = (st = "select") /\ At("run")' = (st = "run")
  BY <1>7 DEF At
<1>9. CountsOK'
  BY <1>1 DEF CountsOK, Send
<1>10. TypesOK'
  BY <1>5, <1>7, <1>9 DEF TypesOK
<1>11. RunsInv' /\ Unrun'
  <2>1. Unrun
    BY <1>1 DEF RunsInv
  <2>2. Unrun'
    BY <2>1, <1>7 DEF Unrun
  <2> QED
    BY <1>1, <1>7, <2>2 DEF RunsInv
<1>12. Debt(0)'
  <2>1. Owed' = Owed
    BY <1>5, <1>6, OwedSame
  <2> QED
    BY <2>1 DEF CacheInv, Debt, Send
<1>13. ~context'.err /\ link'.state # "lost" => Talking'
  <2> SUFFICES ASSUME ~context.err, link.state # "lost" PROVE Talking'
    BY <1>5
  <2>1. context'.obuf = c
    <3>1. <<>> \o c = c
      BY <1>2
    <3> QED
      BY <1>5, <3>1 DEF obuf
  <2>2. Current' = c
    BY <1>7, <1>8 DEF Current
  <2>3. link'.inbox \o context'.obuf = Current'
    <3>1. <<>> \o c = c
      BY <1>2
    <3> QED
      BY <2>1, <2>2, <3>1
  <2>4. Sending'
    BY <1>8, <1>11, <2>3 DEF Sending
  <2>5. InCommand'
    BY <1>8 DEF InCommand
  <2> QED
    BY <2>4, <2>5 DEF Talking
<1>14. TalkInv'
  BY <1>5, <1>6, <1>8, <1>13 DEF TalkInv, CacheInv
<1>15. OwnAnswer'
  BY <1>8, NotIdle
<1> QED
  BY <1>7, <1>10, <1>11, <1>12, <1>14, <1>15 DEF CacheInv

(* A reply has come.  *)
LEMMA ReceivedKeeps ==
  ASSUME CacheInv, InCommand, context # NULL, ~context.err, link.state # "lost",
         context.obuf = <<>>, link.inbox = <<>>,
         NEW R \in Said, Telling(R), Received(R),
         NEW rest, rest = <<>>, link' = [link EXCEPT !.out = rest], Clean(reader'),
         UNCHANGED <<late, runs, faults>>
  PROVE  CacheInv'
<1>1. context \in Contexts /\ CallOK /\ EndedInv /\ RunsInv /\ CountsOK /\ TypesOK
      /\ IsLink(link) /\ Debt(0)
  BY DEF CacheInv, TypesOK
<1>2. ~At("idle") /\ ~At("init") /\ ~At("crashed")
  BY DEF InCommand, At
<1>3. LinkIs(link', link.state, link.trusted, link.inbox, <<>>)
  BY <1>1, LinkChanges DEF IsLink
<1>4. /\ IsLink(link') /\ link'.state = link.state /\ link'.trusted = link.trusted
      /\ link'.inbox = <<>> /\ link'.out = <<>>
  BY <1>3 DEF LinkIs
<1>5. link.state \in {"up", "closed"}
  BY DEF CacheInv, TalkInv
<1>6. ASSUME NEW how \in {"failed", "told"}, NEW value, Return(how, value),
             UNCHANGED context, struck' \in Nat, Debt(0)', OwnAnswer'
      PROVE  CacheInv'
  <2>1. /\ CallOK' /\ EndedInv' /\ ended' \in [Calls -> {"open", "failed", "told"}]
        /\ call'.n = call.n /\ At("idle")'
    BY <1>1, <1>2, <1>6, Returned
  <2>2. CountsOK'
    BY <1>1, <1>6, <2>1 DEF CountsOK
  <2>3. TypesOK'
    BY <1>1, <1>4, <1>6, <2>1, <2>2 DEF TypesOK
  <2>4. ~At("init")' /\ ~At("auth")' /\ ~At("select")' /\ ~At("crashed")'
    BY <2>1 DEF At
  <2>5. RunsInv'
    BY <1>1, <2>1, <2>4, RunsKept
  <2>6. Quiet'
    BY <1>4, <1>6 DEF Quiet
  <2>7. TalkInv'
    BY <1>4, <1>5, <1>6, <2>1, <2>4, <2>6 DEF TalkInv, Talking
  <2> QED
    BY <1>6, <2>1, <2>3, <2>5, <2>7 DEF CacheInv
<1>7. UNCHANGED context => Owed' = Owed
  BY <1>4, OwedSame
<1>8. CASE At("run") /\ Return("told", Reads(ThisOp.reads, R)) /\ UNCHANGED <<context, struck>>
  <2>1. struck' \in Nat /\ Debt(0)'
    BY <1>1, <1>7, <1>8 DEF Debt, CountsOK
  <2>2. OwnAnswer'
    <3>1. call.n \in 1 .. 8 /\ call.op \in DOMAIN AllOps
      BY <1>1, <1>2, CallIs
    <3>2. ThisOp.reads \in Readings
      BY <3>1, TableAssumption DEF ThisOp, Readings
    <3>3. R \in Gives(ThisOp.gives, Stamp(call.n)) \cup {Refusal} /\ ThisOp.gives \in Kinds
      BY <1>1, <1>8, SaidReplies
    <3>4. Own(Reads(ThisOp.reads, R), Stamp(call.n))
      BY <3>1, <3>2, <3>3, ReadsOwn
    <3>5. answer' = Reads(ThisOp.reads, R) /\ call'.n = call.n
      BY <1>1, <1>2, <1>8, Returned
    <3>6. Own(answer', Stamp(call'.n))
      BY <3>4, <3>5
    <3> QED
      BY <3>6 DEF OwnAnswer, Own, Texts
  <2> QED
    BY <1>6, <1>8, <2>1, <2>2
<1>9. CASE At("auth") /\ Accepted(R) /\ Send("select", SelectCommand)
  <2>1. R # Refusal
    BY <1>9, AcceptedIs
  <2>2. link.trusted
    BY <1>9, <2>1 DEF Telling
  <2>3. IsCommand(SelectCommand)
    BY CommandsAre
  <2> QED
    BY <1>1, <1>2, <1>4, <1>5, <1>9, <2>2, <2>3, SentKeeps
<1>10. CASE At("select") /\ Accepted(R) /\ Send("run", CommandOf[call.op][call.n])
  <2>1. IsCommand(CommandOf[call.op][call.n])
    BY <1>1, <1>2, CallIs, CommandsAre
  <2> DEFINE c == CommandOf[call.op][call.n]
  <2> HIDE DEF c
  <2>2. Send("run", c) /\ IsCommand(c) /\ c = CommandOf[call.op][call.n]
    BY <1>10, <2>1 DEF c
  <2> QED
    BY <1>1, <1>2, <1>4, <1>5, <1>10, <2>2, SentKeeps
<1>11. CASE ~At("run") /\ ~Accepted(R) /\ Fail /\ UNCHANGED context
  <2>1. R = Refusal
    BY <1>1, <1>11, SaidReplies, AcceptedIs DEF InCommand
  <2>2. Debt(2)
    BY <1>11, <2>1 DEF Telling
  <2>3. struck' \in Nat /\ Debt(0)'
    <3>1. Owed \in {0, 1, 2} /\ Owed' = Owed
      BY <1>1, <1>7, <1>11, OwedIs
    <3>2. struck' = struck + 1 /\ struck \in Nat /\ faults \in Nat /\ faults' = faults
      BY <1>1, <1>11 DEF Fail, CountsOK
    <3>3. struck + 2 + Owed <= 2 * faults
      BY <2>2 DEF Debt
    <3>4. struck' + 0 + Owed' <= 2 * faults'
      BY <3>1, <3>2, <3>3
    <3> QED
      BY <3>2, <3>4 DEF Debt
  <2>4. Return("failed", NoAnswer)
    BY <1>11 DEF Fail
  <2>5. OwnAnswer'
    BY <2>4, NothingSaid DEF Return
  <2> QED
    BY <1>6, <1>11, <2>3, <2>4, <2>5
<1> QED
  BY <1>8, <1>9, <1>10, <1>11 DEF Received

--------------------------------------------------------------------------------
(* A call ends without a reply. *)

(* What holds while a command is being sent or answered. *)
LEMMA CommandHas ==
  ASSUME CacheInv, InCommand
  PROVE  /\ context # NULL /\ context \in Contexts /\ context.err \in BOOLEAN
         /\ link.state \in {"up", "closed", "lost"}
         /\ OnNull \in {"free", "keep", "use"}
         /\ ~At("idle") /\ ~At("init") /\ ~At("crashed")
<1>1. ~At("idle") /\ ~At("init") /\ ~At("crashed")
  BY DEF InCommand, At
<1>2. context # NULL /\ link.state \in {"up", "closed", "lost"}
  BY <1>1 DEF CacheInv, TalkInv
<1>3. context \in Contexts
  BY <1>2 DEF CacheInv, TypesOK
<1>4. call.op \in DOMAIN AllOps
  BY <1>1, CallIs DEF CacheInv, TypesOK
<1> QED
  BY <1>1, <1>2, <1>3, <1>4, ContextIs, TableAssumption DEF OnNull, ThisOp

(* A call is over: what is to be seen of the rest. *)
LEMMA OverKeeps ==
  ASSUME CacheInv, ~At("idle"), NEW how \in {"failed", "told"}, NEW value, Return(how, value),
         runs' = runs, late' = late, faults' \in Nat, struck' \in Nat,
         context' \in Contexts \cup {NULL}, IsLink(link')
  PROVE  /\ TypesOK' /\ RunsInv' /\ EndedInv' /\ At("idle")' /\ ~At("crashed")'
         /\ call'.n = call.n
<1>1. CallOK /\ EndedInv /\ CountsOK /\ RunsInv
  BY DEF CacheInv, TypesOK
<1>2. /\ CallOK' /\ EndedInv' /\ ended' \in [Calls -> {"open", "failed", "told"}]
      /\ call'.n = call.n /\ At("idle")'
  BY <1>1, Returned
<1>3. ~At("init")' /\ ~At("auth")' /\ ~At("select")' /\ ~At("crashed")'
  BY <1>2 DEF At
<1>4. RunsInv'
  BY <1>1, <1>2, <1>3, RunsKept
<1>5. CountsOK'
  BY <1>1, <1>2 DEF CountsOK
<1> QED
  BY <1>2, <1>3, <1>4, <1>5 DEF TypesOK

(* redisGetReply fails on a connection that is closed or lost. *)
LEMMA LostKeeps ==
  ASSUME CacheInv, InCommand, Lost(reader), link.state # "up", UNCHANGED <<runs, faults>>
  PROVE  CacheInv'
<1>1. /\ context # NULL /\ context \in Contexts /\ context.err \in BOOLEAN
      /\ link.state \in {"closed", "lost"} /\ OnNull \in {"free", "keep", "use"}
      /\ ~At("idle") /\ ~At("init") /\ ~At("crashed")
  BY CommandHas
<1>2. /\ TypesOK /\ CallOK /\ CountsOK /\ EndedInv /\ RunsInv /\ IsLink(link) /\ TalkInv
      /\ faults \in Nat /\ struck \in Nat /\ faults' = faults
  BY DEF CacheInv, TypesOK, CountsOK
<1>3. struck + 0 + Owed <= 2 * faults
  BY DEF CacheInv, Debt
<1>4. Owed = IF context.err THEN 1 ELSE 2
  BY <1>1, <1>2, OwedIs
<1>5. ASSUME context' = [context EXCEPT !.err = TRUE], UNCHANGED link
      PROVE  /\ context' \in Contexts /\ context' # NULL /\ context'.err
             /\ Owed' = 1 /\ IsLink(link')
             /\ link'.state \in {"closed", "lost"}
             /\ link'.inbox = <<>> /\ (link'.state = "lost" => link'.out = <<>>)
  <2>1. context' \in Contexts /\ context'.err
    BY <1>1, <1>5, ContextChanges
  <2>2. context' # NULL
    BY <2>1, ContextIs
  <2>3. Owed' = 1
    BY <1>1, <1>5, <2>1, <2>2 DEF Owed
  <2>4. link.inbox = <<>> /\ (link.state = "lost" => link.out = <<>>)
    BY <1>1, <1>2 DEF TalkInv
  <2> QED
    BY <1>1, <1>2, <1>5, <2>1, <2>2, <2>3, <2>4
<1>6. CASE OnNull = "use"
  <2>1. /\ call' = [call EXCEPT !.stage = "crashed"] /\ UNCHANGED <<answer, ended, struck>>
        /\ context' = [context EXCEPT !.err = TRUE] /\ UNCHANGED <<link, late>>
    BY <1>6 DEF Lost
  <2>2. "crashed" \in Stages /\ "crashed" # "idle"
    BY DEF Stages
  <2>3. /\ CallOK' /\ EndedInv' /\ call'.n = call.n /\ call'.stage = "crashed"
    BY <1>1, <1>2, <2>1, <2>2, StageSet
  <2>4. ~At("idle")' /\ ~At("init")' /\ ~At("auth")' /\ ~At("select")'
    BY <2>3 DEF At
  <2>5. RunsInv'
    BY <1>2, <2>1, <2>3, <2>4, RunsKept
  <2>6. CountsOK'
    BY <1>2, <2>1 DEF CountsOK
  <2>7. TypesOK'
    BY <1>5, <2>1, <2>3, <2>6 DEF TypesOK
  <2>8. TalkInv'
    BY <1>5, <2>1 DEF TalkInv
  <2>9. Debt(0)'
    <3>1. Owed' = 1 /\ struck' = struck
      BY <1>5, <2>1
    <3>2. struck' + 0 + Owed' <= 2 * faults'
      BY <1>2, <1>3, <1>4, <3>1
    <3> QED
      BY <3>2 DEF Debt
  <2>10. OwnAnswer'
    BY <2>4, NotIdle
  <2> QED
    BY <2>3, <2>5, <2>7, <2>8, <2>9, <2>10 DEF CacheInv
<1>7. CASE OnNull = "keep" /\ context.err
  <2>1. /\ Return("failed", NoAnswer) /\ UNCHANGED struck
        /\ context' = [context EXCEPT !.err = TRUE] /\ UNCHANGED <<link, late>>
    BY <1>7 DEF Lost
  <2>2. TypesOK' /\ RunsInv' /\ EndedInv' /\ At("idle")' /\ ~At("crashed")'
    BY <1>1, <1>2, <1>5, <2>1, OverKeeps
  <2>3. TalkInv'
    BY <1>5, <2>1 DEF TalkInv
  <2>4. Debt(0)'
    <3>1. Owed' = 1 /\ struck' = struck
      BY <1>5, <2>1
    <3>2. struck' + 0 + Owed' <= 2 * faults'
      BY <1>2, <1>3, <1>4, <3>1
    <3> QED
      BY <3>2 DEF Debt
  <2>5. OwnAnswer'
    BY <2>1, NothingSaid DEF Return
  <2> QED
    BY <2>2, <2>3, <2>4, <2>5 DEF CacheInv
<1>8. CASE OnNull = "keep" /\ ~context.err
  <2>1. /\ Fail
        /\ context' = [context EXCEPT !.err = TRUE] /\ UNCHANGED <<link, late>>
    BY <1>8 DEF Lost
  <2>2. Return("failed", NoAnswer) /\ struck' = struck + 1 /\ struck' \in Nat
    BY <1>2, <2>1 DEF Fail
  <2>3. TypesOK' /\ RunsInv' /\ EndedInv' /\ At("idle")' /\ ~At("crashed")'
    BY <1>1, <1>2, <1>5, <2>1, <2>2, OverKeeps
  <2>4. TalkInv'
    BY <1>5, <2>1 DEF TalkInv
  <2>5. Debt(0)'
    <3>1. Owed' = 1 /\ Owed = 2
      BY <1>4, <1>5, <1>8, <2>1
    <3>2. struck' + 0 + Owed' <= 2 * faults'
      BY <1>2, <1>3, <2>2, <3>1
    <3> QED
      BY <3>2 DEF Debt
  <2>6. OwnAnswer'
    BY <2>2, NothingSaid DEF Return
  <2> QED
    BY <2>3, <2>4, <2>5, <2>6 DEF CacheInv
<1>9. CASE OnNull = "free"
  <2>1. Fail /\ Free
    BY <1>9 DEF Lost
  <2>2. Return("failed", NoAnswer) /\ struck' = struck + 1 /\ struck' \in Nat
    BY <1>2, <2>1 DEF Fail
  <2>3. late' = late
    BY <1>1, <2>1 DEF Free, LeftBehind
  <2>4. context' = NULL /\ reader' = redisReaderCreate /\ link' = NoLink /\ IsLink(link')
    BY <2>1, NewLinkIs DEF Free, LinkIs
  <2>5. TypesOK' /\ RunsInv' /\ EndedInv' /\ At("idle")' /\ ~At("crashed")'
    BY <1>1, <1>2, <2>2, <2>3, <2>4, OverKeeps
  <2>6. TalkInv'
    BY <2>4, <2>5 DEF TalkInv
  <2>7. Debt(0)'
    <3>1. Owed' = 0 /\ Owed \in {1, 2}
      BY <1>4, <2>4 DEF Owed
    <3>2. struck' + 0 + Owed' <= 2 * faults'
      BY <1>2, <1>3, <2>2, <3>1
    <3> QED
      BY <3>2 DEF Debt
  <2>8. OwnAnswer'
    BY <2>2, NothingSaid DEF Return
  <2> QED
    BY <2>5, <2>6, <2>7, <2>8 DEF CacheInv
<1> QED
  BY <1>1, <1>6, <1>7, <1>8, <1>9

LEMMA LatchedErrorKeeps == ASSUME CacheInv, LatchedError PROVE CacheInv'
<1>1. InCommand /\ context.err /\ Lost(reader) /\ UNCHANGED <<runs, faults>>
  BY DEF LatchedError
<1>2. link.state # "up"
  BY <1>1, CommandHas DEF CacheInv, TalkInv
<1> QED
  BY <1>1, <1>2, LostKeeps

LEMMA SocketFailsKeeps == ASSUME CacheInv, SocketFails PROVE CacheInv'
<1>1. InCommand /\ Lost(reader) /\ UNCHANGED <<runs, faults>> /\ link.state # "up"
  BY DEF SocketFails
<1> QED
  BY <1>1, LostKeeps

LEMMA RestartKeeps == ASSUME CacheInv, Restart PROVE CacheInv'
<1>1. /\ At("crashed") /\ Return("failed", NoAnswer) /\ struck' = struck + 1 /\ Free
      /\ UNCHANGED <<runs, faults>>
  BY DEF Restart, Fail
<1>2. ~At("idle") /\ ~At("init") /\ ~At("run")
  BY <1>1 DEF At
<1>3. faults \in Nat /\ struck \in Nat /\ TypesOK
  BY DEF CacheInv, TypesOK, CountsOK
<1>4. context # NULL /\ context.err /\ link.state # "up"
  BY <1>1, <1>2 DEF CacheInv, TalkInv
<1>5. late' = late
  BY <1>1, <1>4 DEF Free, LeftBehind
<1>6. context' = NULL /\ reader' = redisReaderCreate /\ link' = NoLink /\ IsLink(link')
  BY <1>1, NewLinkIs DEF Free, LinkIs
<1>7. TypesOK' /\ RunsInv' /\ EndedInv' /\ At("idle")' /\ ~At("crashed")'
  BY <1>1, <1>2, <1>3, <1>5, <1>6, OverKeeps
<1>8. TalkInv'
  BY <1>6, <1>7 DEF TalkInv
<1>9. Debt(0)'
  <2>1. Owed = 1 /\ Owed' = 0
    BY <1>3, <1>4, <1>6, OwedIs DEF Owed
  <2>2. struck + 0 + Owed <= 2 * faults
    BY DEF CacheInv, Debt
  <2>3. struck' + 0 + Owed' <= 2 * faults'
    BY <1>1, <1>3, <2>1, <2>2
  <2> QED
    BY <2>3 DEF Debt
<1>10. OwnAnswer'
  BY <1>1, NothingSaid DEF Return
<1> QED
  BY <1>7, <1>8, <1>9, <1>10 DEF CacheInv

--------------------------------------------------------------------------------
(* A call begins, and a connection is made. *)

(* Steps that leave alone all the invariant speaks of. *)
LEMMA NothingKeeps ==
  ASSUME CacheInv, UNCHANGED <<context, reader, call, answer, link, late, runs, ended, faults, struck>>
  PROVE  CacheInv'
<1>1. TypesOK'
  BY DEF CacheInv, TypesOK, CallOK, CountsOK, At
<1>2. Owed' = Owed
  BY DEF Owed
<1>3. TalkInv'
  <2>1. Current' = Current
    BY DEF Current, At
  <2>2. Said' = Said
    BY DEF Said, At, ThisOp
  <2>3. Talking' = Talking
    BY <1>2, <2>1, <2>2
       DEF Talking, Quiet, Sending, Answered, Telling, Unrun, InCommand, At, Debt
  <2> QED
    BY <2>3 DEF CacheInv, TalkInv, At
<1>4. RunsInv' /\ EndedInv' /\ OwnAnswer'
  BY DEF CacheInv, RunsInv, EndedInv, OwnAnswer, Unrun, At
<1>5. Debt(0)'
  BY <1>2 DEF CacheInv, Debt
<1> QED
  BY <1>1, <1>3, <1>4, <1>5 DEF CacheInv

(* An operation is called. *)
LEMMA CallKeeps ==
  ASSUME CacheInv, NEW op \in Ops, Call(op)
  PROVE  CacheInv'
<1>1. /\ At("idle") /\ call.n < MaxCalls
      /\ call' = [n |-> call.n + 1, op |-> op, stage |-> "init"]
      /\ UNCHANGED <<context, reader, answer, link, late, runs, ended, faults, struck>>
  BY DEF Call
<1>2. /\ call.n \in 0 .. MaxCalls /\ CountsOK /\ TypesOK /\ RunsInv /\ EndedInv
      /\ MaxCalls \in 1 .. 8
  BY CacheAssumption DEF CacheInv, TypesOK, CallOK
<1>3. call'.n = call.n + 1 /\ call'.op = op /\ call'.stage = "init" /\ IsCallRecord(call')
  BY <1>1 DEF IsCallRecord
<1>4. /\ ~At("idle")' /\ At("init")' /\ ~At("crashed")'
  BY <1>3 DEF At
<1>5. call'.n \in 0 .. MaxCalls /\ call'.n \in Calls /\ call.n \in Int
  BY <1>1, <1>2, <1>3 DEF Calls
<1>6. op \in DOMAIN AllOps
  BY OpsAssumption
<1>7. CallOK'
  <2>1. call'.stage \in Stages
    BY <1>3 DEF Stages
  <2>2. call'.n # 0
    BY <1>2, <1>3
  <2> QED
    BY <1>3, <1>5, <1>6, <2>1, <2>2 DEF CallOK
<1>8. TypesOK'
  BY <1>1, <1>2, <1>7 DEF TypesOK, CountsOK
<1>9. RunsInv'
  <2>1. late \subseteq 1 .. call.n /\ \A m \in Calls : m > call.n \/ m \in late => runs[m] = 0
    BY <1>2 DEF RunsInv
  <2>2. late' \subseteq 1 .. call'.n
    BY <1>1, <1>2, <1>3, <2>1
  <2>3. \A m \in Calls : m > call'.n \/ m \in late' => runs'[m] = 0
    <3> SUFFICES ASSUME NEW m \in Calls, m > call'.n \/ m \in late' PROVE runs'[m] = 0
      OBVIOUS
    <3>1. m \in Int /\ (m > call'.n => m > call.n)
      BY <1>2, <1>3 DEF Calls
    <3> QED
      BY <1>1, <2>1, <3>1
  <2>4. Unrun'
    <3>1. call'.n > call.n
      BY <1>2, <1>3
    <3>2. runs[call'.n] = 0
      BY <1>5, <2>1, <3>1
    <3>3. call'.n \notin late
      <4>1. call'.n \notin 1 .. call.n
        BY <1>2, <1>3
      <4> QED
        BY <2>1, <4>1
    <3> QED
      BY <1>1, <3>2, <3>3 DEF Unrun
  <2> QED
    BY <2>2, <2>3, <2>4 DEF RunsInv
<1>10. EndedInv'
  <2> SUFFICES ASSUME NEW m \in Calls
               PROVE  /\ m > call'.n => ended[m] = "open"
                      /\ m = call'.n => ended[m] = "open"
                      /\ m < call'.n => ended[m] # "open"
    BY <1>1, <1>4 DEF EndedInv
  <2>1. /\ m > call.n => ended[m] = "open"
        /\ m = call.n => ended[m] # "open"
        /\ m < call.n => ended[m] # "open"
    BY <1>1, <1>2 DEF EndedInv
  <2>2. m \in Int
    BY DEF Calls
  <2>3. m < call'.n => m < call.n \/ m = call.n
    BY <1>2, <1>3, <2>2
  <2>4. m > call'.n \/ m = call'.n => m > call.n
    BY <1>2, <1>3, <2>2
  <2> QED
    BY <2>1, <2>3, <2>4
<1>11. TalkInv'
  <2>1. CASE context = NULL
    BY <1>1, <1>4, <2>1 DEF CacheInv, TalkInv
  <2>2. CASE context # NULL
    <3>1. ~context.err /\ link.state # "lost" => Talking'
      <4> SUFFICES ASSUME ~context.err, link.state # "lost" PROVE Talking'
        OBVIOUS
      <4>1. Talking
        BY <2>2 DEF CacheInv, TalkInv
      <4>2. ~InCommand
        BY <1>1 DEF InCommand, At
      <4>3. Quiet
        BY <4>1, <4>2 DEF Talking
      <4>4. Quiet'
        BY <1>1, <4>3 DEF Quiet
      <4> QED
        BY <1>4, <4>4 DEF Talking
    <3> QED
      BY <1>1, <1>4, <2>2, <3>1 DEF CacheInv, TalkInv
  <2> QED
    BY <2>1, <2>2
<1>12. Debt(0)'
  BY <1>1 DEF CacheInv, Debt, Owed
<1>13. OwnAnswer'
  BY <1>4, NotIdle
<1> QED
  BY <1>7, <1>8, <1>9, <1>10, <1>11, <1>12, <1>13 DEF CacheInv

LEMMA InitReadyKeeps == ASSUME CacheInv, InitReady PROVE CacheInv'
<1> DEFINE c == CommandOf[call.op][call.n]
           st == "run"
<1>1. At("init") /\ context # NULL /\ Send(st, c)
      /\ UNCHANGED <<reader, recent, link, late, runs, faults>>
  BY DEF InitReady
<1>2. ~At("idle") /\ ~InCommand
  BY <1>1 DEF At, InCommand
<1>3. IsCommand(c)
  BY <1>2, CallIs, CommandsAre DEF CacheInv, TypesOK
<1>4. ~context.err /\ link.state # "lost" => Quiet
  BY <1>1, <1>2 DEF CacheInv, TalkInv, Talking
<1>5. /\ IsLink(link') /\ link'.state = link.state
      /\ (link.state # "up" => link'.inbox = <<>>)
      /\ (link.state = "lost" => link'.out = <<>>)
  BY <1>1 DEF CacheInv, TalkInv, TypesOK
<1>6. link.state # "lost" /\ ~context.err =>
        context.obuf = <<>> /\ link'.inbox = <<>> /\ link'.out = <<>> /\ Clean(reader')
  BY <1>1, <1>4 DEF Quiet
<1>7. st \in {"select", "run"} /\ st # "select" /\ c = CommandOf[call.op][call.n]
  OBVIOUS
<1> HIDE DEF c, st
<1> QED
  BY <1>1, <1>2, <1>3, <1>5, <1>6, <1>7, SentKeeps

LEMMA TooSoonKeeps == ASSUME CacheInv, InitTooSoon PROVE CacheInv'
<1>1. /\ At("init") /\ context = NULL /\ Return("failed", NoAnswer)
      /\ UNCHANGED <<context, reader, link, late, runs, faults, struck>>
  BY DEF InitTooSoon
<1>2. ~At("idle")
  BY <1>1 DEF At
<1>3. TypesOK' /\ RunsInv' /\ EndedInv' /\ At("idle")'
  BY <1>1, <1>2, OverKeeps DEF CacheInv, TypesOK, CountsOK
<1>4. TalkInv'
  BY <1>1, <1>3 DEF CacheInv, TalkInv
<1>5. Debt(0)' /\ OwnAnswer'
  BY <1>1, NothingSaid DEF CacheInv, Debt, Owed, Return
<1> QED
  BY <1>3, <1>4, <1>5 DEF CacheInv

LEMMA ConnectFailsKeeps == ASSUME CacheInv, ConnectFails PROVE CacheInv'
<1>1. /\ At("init") /\ context = NULL /\ Return("failed", NoAnswer)
      /\ struck' = struck + 1 /\ faults' = faults + 1
      /\ UNCHANGED <<context, reader, link, late, runs>>
  BY DEF ConnectFails, Fail, Fault
<1>2. ~At("idle") /\ faults \in Nat /\ struck \in Nat /\ TypesOK
  BY <1>1 DEF At, CacheInv, TypesOK, CountsOK
<1>3. TypesOK' /\ RunsInv' /\ EndedInv' /\ At("idle")'
  <2>1. faults' \in Nat /\ struck' \in Nat
    BY <1>1, <1>2
  <2> QED
    BY <1>1, <1>2, <2>1, OverKeeps DEF TypesOK
<1>4. TalkInv'
  BY <1>1, <1>3 DEF CacheInv, TalkInv
<1>5. Debt(0)'
  <2>1. Owed = 0 /\ Owed' = 0
    BY <1>1 DEF Owed
  <2>2. struck + 0 + Owed <= 2 * faults
    BY DEF CacheInv, Debt
  <2>3. struck' + 0 + Owed' <= 2 * faults'
    BY <1>1, <1>2, <2>1, <2>2
  <2> QED
    BY <2>3 DEF Debt
<1>6. OwnAnswer'
  BY <1>1, NothingSaid DEF Return
<1> QED
  BY <1>3, <1>4, <1>5, <1>6 DEF CacheInv

LEMMA ConnectKeeps == ASSUME CacheInv, Connect PROVE CacheInv'
<1> DEFINE st == IF Password THEN "auth" ELSE "select"
           c == IF Password THEN AuthCommand ELSE SelectCommand
<1>1. /\ At("init") /\ context = NULL /\ link' = NewLink
      /\ context' = [err |-> FALSE, obuf |-> c]
      /\ call' = [call EXCEPT !.stage = st]
      /\ UNCHANGED <<reader, answer, late, runs, ended, faults, struck>>
  BY DEF Connect
<1>2. IsCommand(c) /\ c \in Seq(Word)
  BY CommandsAre DEF IsCommand
<1>3. st \in {"auth", "select"} /\ (st = "select" => ~Password)
      /\ (st = "auth" => c = AuthCommand) /\ (st = "select" => c = SelectCommand)
  OBVIOUS
<1> HIDE DEF st, c
<1>4. ~At("idle") /\ TypesOK /\ CallOK /\ CountsOK /\ EndedInv /\ RunsInv /\ Unrun
  BY <1>1 DEF At, CacheInv, TypesOK, RunsInv
<1>5. /\ CallOK' /\ EndedInv' /\ call'.n = call.n /\ call'.op = call.op
      /\ call'.stage = st
  <2>1. st \in Stages /\ st # "idle"
    BY <1>3 DEF Stages
  <2> QED
    BY <1>1, <1>4, <2>1, StageSet
<1>6. /\ ~At("idle")' /\ ~At("run")' /\ ~At("crashed")'
      /\ At("auth")' = (st = "auth") /\ At("select")' = (st = "select")
  BY <1>3, <1>5 DEF At
<1>7. LinkIs(link', "up", ~Password, <<>>, <<>>)
  BY <1>1, NewLinkIs
<1>8. context' \in Contexts /\ context'.obuf = c /\ ~context'.err
  BY <1>1, <1>2 DEF Contexts
<1>9. context' # NULL
  BY <1>8, ContextIs
<1>10. TypesOK'
  BY <1>1, <1>4, <1>5, <1>7, <1>8 DEF TypesOK, CountsOK, LinkIs
<1>11. RunsInv'
  BY <1>1, <1>4, <1>5 DEF RunsInv, Unrun
<1>12. Talking'
  <2>1. Clean(reader')
    BY <1>1, NewIsClean DEF CacheInv, TalkInv
  <2>2. Current' = c
    BY <1>3, <1>6 DEF Current
  <2>3. link'.inbox \o context'.obuf = c
    <3>1. <<>> \o c = c
      BY <1>2
    <3> QED
      BY <1>7, <1>8, <3>1 DEF LinkIs
  <2>4. Sending'
    BY <1>3, <1>6, <1>7, <2>1, <2>2, <2>3 DEF Sending, LinkIs
  <2> QED
    BY <1>3, <1>6, <2>4 DEF Talking, InCommand
<1>13. TalkInv'
  BY <1>6, <1>7, <1>8, <1>9, <1>12 DEF TalkInv, LinkIs
<1>14. Debt(0)'
  <2>1. Owed = 0 /\ Owed' = 0
    BY <1>1, <1>7 DEF Owed, LinkIs
  <2> QED
    BY <1>1, <2>1 DEF CacheInv, Debt
<1>15. OwnAnswer'
  BY <1>6, NotIdle
<1> QED
  BY <1>5, <1>10, <1>11, <1>13, <1>14, <1>15 DEF CacheInv

--------------------------------------------------------------------------------
(* Bytes are written and read. *)

(* A command is being sent, or its answer is on the way. *)
LEMMA NotLostTalks ==
  ASSUME CacheInv, InCommand, ~context.err, link.state # "lost"
  PROVE  Sending \/ Answered
BY CommandHas DEF CacheInv, TalkInv, Talking

(* redisBufferWrite only writes: the reader has nothing left of an earlier *)
(* reply.                                                                  *)
LEMMA WriteKeeps == ASSUME CacheInv, redisBufferWrite PROVE CacheInv'
<1>1. /\ InCommand /\ ~context.err /\ context.obuf # <<>> /\ link.state # "lost"
      /\ UNCHANGED <<recent, runs, faults>>
  BY DEF redisBufferWrite
<1>2. Sending
  BY <1>1, NotLostTalks DEF Answered
<1>3. redisReaderGetReply(reader).reply = <<>>
  BY <1>2, CleanAsked DEF Sending
<1>4. Write
  BY <1>3 DEF redisBufferWrite
<1>5. /\ context # NULL /\ context \in Contexts /\ context.obuf \in Seq(Word)
      /\ link.state \in {"up", "closed"}
      /\ ~At("idle") /\ ~At("init") /\ ~At("crashed")
  BY <1>1, CommandHas, ContextIs
<1>6. IsLink(link) /\ link.inbox \in Seq(Word) /\ TypesOK /\ RunsInv /\ EndedInv /\ TalkInv
  BY DEF CacheInv, TypesOK, IsLink
<1>7. PICK k \in 1 .. Len(context.obuf) :
        /\ link' = IF link.state = "up"
                   THEN [link EXCEPT !.inbox = link.inbox \o SubSeq(context.obuf, 1, k)]
                   ELSE link
        /\ context' = [context EXCEPT !.obuf = SubSeq(context.obuf, k + 1, Len(context.obuf))]
        /\ UNCHANGED <<reader, call, answer, late, ended, struck>>
  BY <1>4 DEF Write
<1> DEFINE b == context.obuf
           x == SubSeq(b, 1, k)
           y == SubSeq(b, k + 1, Len(b))
           inbox == link.inbox \o x
<1>8. x \in Seq(Word) /\ y \in Seq(Word) /\ inbox \in Seq(Word) /\ inbox \o y = link.inbox \o b
  <2> DEFINE i == link.inbox
  <2>1. i \in Seq(Word) /\ b \in Seq(Word) /\ k \in 1 .. Len(b)
    BY <1>5, <1>6
  <2>2. x = SubSeq(b, 1, k) /\ y = SubSeq(b, k + 1, Len(b)) /\ inbox = i \o x
    OBVIOUS
  <2> HIDE DEF b, x, y, inbox, i
  <2>3. x \in Seq(Word) /\ y \in Seq(Word) /\ inbox \in Seq(Word) /\ inbox \o y = i \o b
    BY ONLY <2>1, <2>2, PartSent
  <2> QED
    BY <2>3 DEF i
<1> HIDE DEF x, y, inbox
<1>9. /\ link' = IF link.state = "up" THEN [link EXCEPT !.inbox = inbox] ELSE link
      /\ context' = [context EXCEPT !.obuf = y]
      /\ UNCHANGED <<reader, call, answer, late, ended, struck, runs, faults>>
  BY <1>1, <1>7 DEF x, y, inbox
<1>10. context' \in Contexts /\ context'.obuf = y /\ ~context'.err /\ context' # NULL
  BY <1>1, <1>5, <1>8, <1>9, ContextChanges, ContextIs
<1>11. /\ IsLink(link') /\ link'.state = link.state /\ link'.trusted = link.trusted
       /\ link'.out = link.out
       /\ link'.inbox = IF link.state = "up" THEN inbox ELSE link.inbox
  <2>1. CASE link.state = "up"
    <3>1. LinkIs([link EXCEPT !.inbox = inbox], link.state, link.trusted, inbox, link.out)
      BY <1>6, <1>8, LinkChanges
    <3> QED
      BY <1>9, <2>1, <3>1 DEF LinkIs
  <2>2. CASE link.state # "up"
    BY <1>6, <1>9, <2>2
  <2> QED
    BY <2>1, <2>2
<1>12. Sending'
  <2>1. Current' = Current
    BY <1>9 DEF Current, At
  <2>2. link.state = "up" => link'.inbox \o context'.obuf = Current
    BY <1>2, <1>8, <1>10, <1>11 DEF Sending
  <2>3. Unrun' = Unrun
    BY <1>9 DEF Unrun
  <2> QED
    BY <1>2, <1>9, <1>11, <2>1, <2>2, <2>3 DEF Sending, At
<1>13. TalkInv'
  <2>1. Talking'
    BY <1>1, <1>9, <1>12 DEF Talking, InCommand, At
  <2>2. link.state # "up" => link.inbox = <<>>
    BY <1>5, <1>6 DEF TalkInv
  <2>3. ~At("crashed")'
    BY <1>5, <1>9 DEF At
  <2> QED
    BY <1>5, <1>10, <1>11, <2>1, <2>2, <2>3 DEF TalkInv
<1>14. TypesOK'
  BY <1>6, <1>9, <1>10, <1>11 DEF TypesOK, CallOK, CountsOK, At
<1>15. RunsInv' /\ EndedInv'
  BY <1>6, <1>9 DEF RunsInv, EndedInv, Unrun, At
<1>16. Debt(0)'
  <2>1. Owed' = Owed
    BY <1>1, <1>5, <1>10, <1>11 DEF Owed
  <2> QED
    BY <1>9, <2>1 DEF CacheInv, Debt
<1>17. OwnAnswer'
  BY <1>5, <1>9, NotIdle DEF At
<1> QED
  BY <1>13, <1>14, <1>15, <1>16, <1>17 DEF CacheInv

(* redisBufferRead never meets an error of the reader, and the reply it    *)
(* has is the one that redis gave.                                         *)
LEMMA ReadKeeps ==
  ASSUME CacheInv, redisBufferRead
  PROVE  /\ CacheInv'
         /\ \/ UNCHANGED <<context, call, answer, ended, struck>>
            \/ Answered /\ \E R \in Said : Received(R)
<1>1. /\ InCommand /\ ~context.err /\ context.obuf = <<>> /\ link.out # <<>>
      /\ UNCHANGED <<recent, runs, faults>>
  BY DEF redisBufferRead
<1>2. /\ context # NULL /\ context \in Contexts /\ link.state \in {"up", "closed", "lost"}
      /\ ~At("idle") /\ ~At("init") /\ ~At("crashed")
  BY <1>1, CommandHas
<1>3. link.state # "lost"
  BY <1>1, <1>2 DEF CacheInv, TalkInv
<1>4. Answered
  BY <1>1, <1>3, NotLostTalks DEF Sending
<1>5. PICK R \in Said : Telling(R)
  BY <1>4 DEF Answered
<1>6. TypesOK /\ CallOK /\ IsLink(link) /\ RunsInv /\ EndedInv /\ TalkInv
  BY DEF CacheInv, TypesOK
<1>7. R \in Replies /\ R # <<>>
  <2>1. R \in Replies
    BY <1>1, <1>6, SaidReplies
  <2> QED
    BY <2>1, NoneIsEmpty
<1>8. PICK k \in 1 .. Len(link.out) :
        \E got \in {redisReaderGetReply(redisReaderFeed(reader, SubSeq(link.out, 1, k)))} :
          IF got.reader.err # "" THEN Lost(got.reader)
          ELSE /\ IF got.reply = <<>> THEN UNCHANGED <<context, call, answer, ended, struck>>
                  ELSE Received(got.reply)
               /\ reader' = got.reader
               /\ link' = [link EXCEPT !.out = SubSeq(link.out, k + 1, Len(link.out))]
               /\ UNCHANGED late
  BY DEF redisBufferRead
<1> DEFINE got == Asked(reader, SubSeq(link.out, 1, k))
           rest == SubSeq(link.out, k + 1, Len(link.out))
<1>9. /\ got.reader.err = ""
      /\ \/ got.reply = <<>> /\ Reading(got.reader, R, rest)
         \/ got.reply = R /\ Clean(got.reader) /\ rest = <<>>
  <2> DEFINE out == link.out
  <2>1. Reading(reader, R, out) /\ k \in 1 .. Len(out)
    BY <1>5 DEF Telling
  <2>2. got = Asked(reader, SubSeq(out, 1, k)) /\ rest = SubSeq(out, k + 1, Len(out))
    OBVIOUS
  <2> HIDE DEF out, got, rest
  <2>3. /\ IsFine(got.reader)
        /\ \/ got.reply = <<>> /\ Reading(got.reader, R, rest)
           \/ got.reply = R /\ Clean(got.reader) /\ rest = <<>>
    BY <1>7, <2>1, <2>2, PieceRead
  <2> QED
    BY <2>3 DEF IsFine
<1>10. IF got.reader.err # "" THEN Lost(got.reader)
       ELSE /\ IF got.reply = <<>> THEN UNCHANGED <<context, call, answer, ended, struck>>
               ELSE Received(got.reply)
            /\ reader' = got.reader
            /\ link' = [link EXCEPT !.out = rest]
            /\ UNCHANGED late
  BY <1>8 DEF Asked
<1> HIDE DEF got, rest
<1>11. CASE got.reply = <<>>
  <2>1. /\ UNCHANGED <<context, call, answer, ended, struck, late, runs, faults>>
        /\ reader' = got.reader /\ link' = [link EXCEPT !.out = rest]
    BY <1>1, <1>9, <1>10, <1>11
  <2>2. Reading(got.reader, R, rest)
    BY <1>7, <1>9, <1>11
  <2>3. LinkIs(link', link.state, link.trusted, link.inbox, rest)
    BY <1>6, <2>1, LinkChanges DEF IsLink
  <2>4. /\ IsLink(link') /\ link'.state = link.state /\ link'.trusted = link.trusted
        /\ link'.inbox = link.inbox /\ link'.out = rest
    BY <2>3 DEF LinkIs
  <2>5. Owed' = Owed
    BY <2>1, <2>4 DEF Owed
  <2>6. Telling(R)'
    BY <1>5, <2>1, <2>2, <2>4, <2>5 DEF Telling, Debt, At
  <2>7. Said' = Said
    BY <2>1 DEF Said, At, ThisOp
  <2>8. Answered'
    BY <1>4, <1>5, <2>1, <2>4, <2>6, <2>7 DEF Answered, At
  <2>9. TalkInv'
    <3>1. Talking'
      BY <1>1, <2>1, <2>8 DEF Talking, InCommand, At
    <3>2. link.state # "up" => link.inbox = <<>>
      BY <1>2, <1>6 DEF TalkInv
    <3> QED
      BY <1>1, <1>2, <1>3, <2>1, <2>4, <3>1, <3>2 DEF TalkInv, At
  <2>10. TypesOK'
    BY <1>6, <2>1, <2>4 DEF TypesOK, CallOK, CountsOK, At
  <2>11. RunsInv' /\ EndedInv'
    BY <1>6, <2>1 DEF RunsInv, EndedInv, Unrun, At
  <2>12. Debt(0)'
    BY <2>1, <2>5 DEF CacheInv, Debt
  <2>13. OwnAnswer'
    BY <1>2, <2>1, NotIdle DEF At
  <2> QED
    BY <2>1, <2>9, <2>10, <2>11, <2>12, <2>13 DEF CacheInv
<1>12. CASE got.reply # <<>>
  <2>1. /\ Received(R) /\ reader' = got.reader /\ link' = [link EXCEPT !.out = rest]
        /\ rest = <<>> /\ Clean(reader') /\ UNCHANGED <<late, runs, faults>>
    BY <1>1, <1>9, <1>10, <1>12
  <2>2. link.inbox = <<>>
    BY <1>4 DEF Answered
  <2>3. CacheInv'
    BY <1>1, <1>2, <1>3, <1>5, <2>1, <2>2, ReceivedKeeps
  <2> QED
    BY <1>4, <2>1, <2>3
<1> QED
  BY <1>11, <1>12

--------------------------------------------------------------------------------
(* Redis and the network. *)

(* When redis has a whole command, it is the one that is being sent. *)
LEMMA WholeSent ==
  ASSUME CacheInv, link.state = "up", Whole
  PROVE  /\ InCommand /\ Sending /\ context # NULL /\ ~context.err
         /\ context.obuf = <<>> /\ Command = Current
         /\ SubSeq(link.inbox, Len(Command) + 1, Len(link.inbox)) = <<>>
         /\ IsCall <=> At("run")
<1>1. context # NULL
  <2>1. NoLink.state = "none"
    BY NewLinkIs DEF LinkIs
  <2> QED
    BY <2>1 DEF CacheInv, TalkInv
<1>2. ~context.err /\ Talking
  <2>1. context.err \in BOOLEAN
    BY <1>1, ContextIs DEF CacheInv, TypesOK
  <2> QED
    BY <1>1, <2>1 DEF CacheInv, TalkInv
<1>3. InCommand /\ Sending
  BY <1>2 DEF Talking, Quiet, Answered, Whole
<1> DEFINE a == link.inbox
           b == context.obuf
           c == Current
<1>4. /\ call.n \in Calls /\ call.op \in DOMAIN AllOps /\ IsCommand(c)
      /\ c = CommandOf[call.op][call.n] <=> At("run")
  BY <1>3, CurrentIs DEF CacheInv, TypesOK
<1>5. a \in Seq(Word) /\ b \in Seq(Word) /\ a \o b = c /\ a # <<>>
  BY <1>1, <1>3, ContextIs DEF CacheInv, TypesOK, IsLink, Sending, Whole
<1>6. IsWhole(a)
  BY DEF Whole, IsWhole
<1>7. Command = First(a)
  BY DEF Command, First
<1>8. link.inbox = a /\ context.obuf = b /\ Current = c
  OBVIOUS
<1> HIDE DEF a, b, c
<1>9. a = c /\ b = <<>> /\ First(a) = a
      /\ SubSeq(a, Len(a) + 1, Len(a)) = <<>>
  BY <1>4, <1>5, <1>6, WholeIs
<1>10. Command = c /\ Command = a
  BY <1>7, <1>9
<1>11. IsCall <=> At("run")
  <2>1. call.n > 0
    BY <1>4, CacheAssumption DEF Calls
  <2> QED
    BY <1>4, <1>10, <2>1 DEF IsCall
<1> QED
  BY <1>1, <1>2, <1>3, <1>8, <1>9, <1>10, <1>11

(* Redis answers. *)
LEMMA SaidKeeps ==
  ASSUME CacheInv, link.state = "up", Whole, NEW R \in Said, NEW t, Say(R, t), Counted,
         UNCHANGED <<client, late, ended, struck>>,
         faults' \in Nat, faults' >= faults,
         ~At("run") /\ R = Refusal => struck + 2 <= 2 * faults',
         At("auth") /\ R # Refusal => t
  PROVE  CacheInv'
<1>1. /\ InCommand /\ Sending /\ context # NULL /\ ~context.err
      /\ context.obuf = <<>> /\ Command = Current
      /\ SubSeq(link.inbox, Len(Command) + 1, Len(link.inbox)) = <<>>
      /\ (IsCall <=> At("run"))
  BY WholeSent
<1>2. /\ TypesOK /\ CallOK /\ CountsOK /\ IsLink(link) /\ RunsInv /\ EndedInv
      /\ faults \in Nat /\ struck \in Nat
  BY DEF CacheInv, TypesOK, CountsOK
<1>3. /\ UNCHANGED <<context, reader, call, answer, late, ended, struck>>
  BY DEF client
<1>4. ~At("idle") /\ ~At("init") /\ ~At("crashed")
  BY <1>1, CommandHas
<1>5. link' = [link EXCEPT !.inbox = <<>>, !.out = link.out \o Bytes(R), !.trusted = t]
  BY <1>1 DEF Say
<1>6. link.out = <<>> /\ Clean(reader) /\ (At("run") => Unrun) /\ (At("select") => link.trusted)
  BY <1>1 DEF Sending
<1>7. R \in Replies /\ Bytes(R) \in Seq(Octets)
  BY <1>1, <1>2, SaidReplies, BytesAre
<1>8. link.out \o Bytes(R) = Bytes(R)
  <2> DEFINE x == Bytes(R)
  <2> HIDE DEF x
  <2>1. <<>> \o x = x
    BY <1>7 DEF x
  <2> QED
    BY <1>6, <2>1 DEF x
<1>9. /\ IsLink(link') /\ link'.state = "up" /\ link'.trusted = t
      /\ link'.inbox = <<>> /\ link'.out = Bytes(R)
  <2> DEFINE x == Bytes(R)
             i == <<>>
  <2>1. link' = [link EXCEPT !.inbox = i, !.out = x, !.trusted = t] /\ i \in Seq(Word)
    BY <1>5, <1>8
  <2> HIDE DEF x, i
  <2>2. LinkIs(link', link.state, t, i, x)
    BY <1>2, <2>1, LinkChanges
  <2> QED
    BY <2>2 DEF LinkIs, x, i
<1>10. call.n \in Calls
  BY <1>2, <1>4, CallIs
<1>11. /\ runs' \in [Calls -> {0, 1}]
       /\ At("run") => runs'[call.n] = 1
       /\ ~At("run") => runs' = runs
       /\ \A m \in Calls : m # call.n => runs'[m] = runs[m]
  <2>1. CASE At("run")
    <3>1. runs' = [runs EXCEPT ![call.n] = runs[call.n] + 1] /\ runs[call.n] = 0
      BY <1>1, <1>6, <2>1 DEF Counted, Unrun
    <3>2. runs' = [runs EXCEPT ![call.n] = 1]
      BY <3>1
    <3> QED
      BY <1>2, <1>10, <2>1, <3>2 DEF CountsOK
  <2>2. CASE ~At("run")
    BY <1>1, <1>2, <2>2 DEF Counted, CountsOK
  <2> QED
    BY <2>1, <2>2
<1>12. TypesOK'
  BY <1>2, <1>3, <1>9, <1>11 DEF TypesOK, CallOK, CountsOK, At
<1>13. RunsInv'
  <2>1. \A m \in Calls : m > call.n \/ m \in late => runs'[m] = 0
    <3> SUFFICES ASSUME NEW m \in Calls, m > call.n \/ m \in late PROVE runs'[m] = 0
      OBVIOUS
    <3>1. runs[m] = 0
      BY <1>2 DEF RunsInv
    <3>2. CASE At("run")
      <4>1. call.n \notin late
        BY <1>6, <3>2 DEF Unrun
      <4>2. m # call.n
        <5>1. call.n \in Int
          BY <1>10 DEF Calls
        <5> QED
          BY <4>1, <5>1
      <4> QED
        BY <1>11, <3>1, <4>2
    <3>3. CASE ~At("run")
      BY <1>11, <3>1, <3>3
    <3> QED
      BY <3>2, <3>3
  <2>2. At("auth") \/ At("select") => Unrun'
    <3> SUFFICES ASSUME At("auth") \/ At("select") PROVE Unrun'
      OBVIOUS
    <3>1. ~At("run")
      BY DEF At
    <3> QED
      BY <1>2, <1>3, <1>11, <3>1 DEF RunsInv, Unrun
  <2> QED
    BY <1>2, <1>3, <1>4, <2>1, <2>2 DEF RunsInv, At
<1>14. EndedInv'
  BY <1>2, <1>3 DEF EndedInv, At
<1>15. Owed' = 0
  BY <1>9 DEF Owed
<1>16. Debt(0)'
  <2>1. Owed = 0
    BY <1>2, OwedIs
  <2>2. struck + 0 + Owed <= 2 * faults
    BY DEF CacheInv, Debt
  <2>3. struck \in Nat /\ faults \in Nat /\ faults' \in Nat /\ faults' >= faults
        /\ struck' = struck
    BY <1>2, <1>3
  <2> DEFINE a == struck
             b == struck'
             f == faults
             g == faults'
             o == Owed
             p == Owed'
  <2>5. /\ a \in Nat /\ b = a /\ f \in Nat /\ g \in Nat /\ g >= f
        /\ o = 0 /\ p = 0 /\ a + 0 + o <= 2 * f
    BY <1>15, <2>1, <2>2, <2>3
  <2> HIDE DEF a, b, f, g, o, p
  <2>6. b + 0 + p <= 2 * g
    BY ONLY <2>5
  <2>4. struck' + 0 + Owed' <= 2 * faults'
    BY <2>6 DEF b, p, g
  <2> QED
    BY <2>4 DEF Debt
<1>17. Telling(R)'
  <2>1. Reading(reader, R, Bytes(R))
    BY <1>6 DEF Reading
  <2>2. ~At("run") /\ R = Refusal => Debt(2)'
    <3> SUFFICES ASSUME ~At("run"), R = Refusal PROVE Debt(2)'
      OBVIOUS
    <3>1. struck + 2 <= 2 * faults' /\ struck \in Nat /\ faults' \in Nat /\ struck' = struck
      BY <1>2, <1>3
    <3> DEFINE a == struck
               b == struck'
               g == faults'
               p == Owed'
    <3>3. a \in Nat /\ b = a /\ g \in Nat /\ p = 0 /\ a + 2 <= 2 * g
      BY <1>15, <3>1
    <3> HIDE DEF a, b, g, p
    <3>4. b + 2 + p <= 2 * g
      BY ONLY <3>3
    <3>2. struck' + 2 + Owed' <= 2 * faults'
      BY <3>4 DEF b, p, g
    <3> QED
      BY <3>2 DEF Debt
  <2> QED
    BY <1>3, <1>9, <2>1, <2>2 DEF Telling, At
<1>18. Said' = Said
  BY <1>3 DEF Said, At, ThisOp
<1>19. Answered'
  BY <1>1, <1>3, <1>9, <1>11, <1>17, <1>18 DEF Answered, At
<1>20. TalkInv'
  <2>1. Talking'
    BY <1>1, <1>3, <1>19 DEF Talking, InCommand, At
  <2> QED
    BY <1>1, <1>3, <1>4, <1>9, <2>1 DEF TalkInv, At
<1>21. OwnAnswer'
  BY <1>3, <1>4, NotIdle DEF At
<1> QED
  BY <1>12, <1>13, <1>14, <1>16, <1>20, <1>21 DEF CacheInv

LEMMA ServerRunsKeeps == ASSUME CacheInv, ServerRuns PROVE CacheInv'
<1>1. /\ link.state = "up" /\ Whole /\ Counted
      /\ UNCHANGED <<client, late, ended, faults, struck>>
  BY DEF ServerRuns
<1>2. InCommand /\ Sending /\ Command = Current /\ (IsCall <=> At("run"))
  BY <1>1, WholeSent
<1>3. faults \in Nat /\ faults' = faults /\ faults' \in Nat /\ faults' >= faults /\ CallOK
  BY <1>1 DEF CacheInv, TypesOK, CountsOK
<1>4. /\ Current = AuthCommand <=> At("auth")
      /\ Current = SelectCommand <=> At("select")
  BY <1>2, <1>3, CurrentIs
<1>5. /\ Refusal \in Said /\ Refusal # <<Status(OK)>>
      /\ At("run") => Said = Gives(ThisOp.gives, Stamp(call.n)) \cup {Refusal}
      /\ ~At("run") => Said = {<<Status(OK)>>, Refusal}
  BY <1>2, <1>3, SaidReplies
<1>6. PICK R, t :
        Say(R, t) /\ R \in Said /\ (~At("run") => R # Refusal) /\ (At("auth") => t)
  <2>1. CASE Command = AuthCommand /\ Say(<<Status(OK)>>, TRUE)
    <3>1. ~At("run")
      BY <1>2, <1>4, <2>1 DEF At
    <3> QED
      BY <1>5, <2>1, <3>1
  <2>2. CASE Command # AuthCommand /\ ~link.trusted /\ Say(Refusal, FALSE)
    <3>1. ~At("auth") /\ ~At("select")
      BY <1>2, <1>4, <2>2, <1>1 DEF Sending
    <3>2. At("run")
      BY <1>2, <3>1 DEF InCommand
    <3> QED
      BY <1>5, <2>2, <3>1, <3>2
  <2>3. CASE Command = SelectCommand /\ Say(<<Status(OK)>>, TRUE)
    <3>1. ~At("run")
      BY <1>2, <1>4, <2>3 DEF At
    <3> QED
      BY <1>5, <2>3, <3>1
  <2>4. CASE IsCall /\ \E reply \in Gives(ThisOp.gives, Stamp(call.n)) : Say(reply, TRUE)
    BY <1>2, <1>5, <2>4
  <2> QED
    BY <2>1, <2>2, <2>3, <2>4 DEF ServerRuns
<1> QED
  BY <1>1, <1>3, <1>6, SaidKeeps

LEMMA ServerRefusesKeeps == ASSUME CacheInv, ServerRefuses PROVE CacheInv'
<1>1. /\ link.state = "up" /\ Whole /\ Counted /\ Say(Refusal, link.trusted)
      /\ faults' = faults + 1 /\ UNCHANGED <<client, late, ended, struck>>
  BY DEF ServerRefuses, Fault
<1>2. faults \in Nat /\ struck \in Nat /\ CallOK /\ TypesOK
  BY DEF CacheInv, TypesOK, CountsOK
<1>3. InCommand
  BY <1>1, WholeSent
<1>4. Refusal \in Said
  BY <1>2, <1>3, SaidReplies
<1>5. struck + 2 <= 2 * faults' /\ faults' \in Nat /\ faults' >= faults
  <2>1. Owed = 0
    BY <1>1, <1>2, OwedIs
  <2>2. struck + 0 + Owed <= 2 * faults
    BY DEF CacheInv, Debt
  <2> QED
    BY <1>1, <1>2, <2>1, <2>2
<1> QED
  BY <1>1, <1>4, <1>5, SaidKeeps

(* What holds of a connection that is up. *)
LEMMA UpHas ==
  ASSUME CacheInv, link.state = "up"
  PROVE  /\ context # NULL /\ ~context.err /\ Talking /\ ~At("crashed")
         /\ Owed = 0 /\ struck <= 2 * faults
<1>1. context # NULL
  <2>1. NoLink.state = "none"
    BY NewLinkIs DEF LinkIs
  <2> QED
    BY <2>1 DEF CacheInv, TalkInv
<1>2. ~context.err /\ Talking /\ ~At("crashed")
  <2>1. context.err \in BOOLEAN
    BY <1>1, ContextIs DEF CacheInv, TypesOK
  <2> QED
    BY <1>1, <2>1 DEF CacheInv, TalkInv
<1>3. Owed = 0
  BY OwedIs DEF CacheInv
<1>4. struck <= 2 * faults
  <2>1. struck + 0 + Owed <= 2 * faults /\ struck \in Nat /\ faults \in Nat
    BY DEF CacheInv, TypesOK, CountsOK, Debt
  <2> QED
    BY <1>3, <2>1
<1> QED
  BY <1>1, <1>2, <1>3, <1>4

LEMMA ServerClosesKeeps == ASSUME CacheInv, ServerCloses PROVE CacheInv'
<1>1. /\ link.state = "up" /\ faults' = faults + 1
      /\ link' = [link EXCEPT !.state = "closed", !.inbox = <<>>]
      /\ UNCHANGED <<context, reader, call, answer, late, runs, ended, struck>>
  BY DEF ServerCloses, Fault, client
<1>2. /\ context # NULL /\ ~context.err /\ Talking /\ ~At("crashed")
      /\ Owed = 0 /\ struck <= 2 * faults
  BY <1>1, UpHas
<1>3. /\ TypesOK /\ IsLink(link) /\ faults \in Nat /\ struck \in Nat /\ RunsInv /\ EndedInv
  BY DEF CacheInv, TypesOK, CountsOK
<1>4. /\ IsLink(link') /\ link'.state = "closed" /\ link'.trusted = link.trusted
      /\ link'.inbox = <<>> /\ link'.out = link.out
  <2> DEFINE i == <<>>
             s == "closed"
  <2>1. i \in Seq(Word) /\ link' = [link EXCEPT !.state = s, !.inbox = i]
    BY <1>1
  <2> HIDE DEF i, s
  <2>2. LinkIs(link', s, link.trusted, i, link.out)
    BY <1>3, <2>1, LinkChanges
  <2> QED
    BY <2>2 DEF LinkIs, i, s
<1>5. Owed' = 2
  BY <1>1, <1>2, <1>4 DEF Owed
<1>6. Debt(0)'
  <2>1. struck' + 0 + Owed' <= 2 * faults'
    BY <1>1, <1>2, <1>3, <1>5
  <2> QED
    BY <2>1 DEF Debt
<1>7. Debt(2) => Debt(2)'
  <2> SUFFICES ASSUME Debt(2) PROVE Debt(2)'
    OBVIOUS
  <2>1. struck + 2 + Owed <= 2 * faults
    BY DEF Debt
  <2>2. struck' + 2 + Owed' <= 2 * faults'
    BY <1>1, <1>2, <1>3, <1>5, <2>1
  <2> QED
    BY <2>2 DEF Debt
<1>8. Talking'
  <2>1. Quiet => Quiet'
    BY <1>1, <1>4 DEF Quiet
  <2>2. Sending => Sending'
    BY <1>1, <1>4 DEF Sending
  <2>3. Answered => Answered'
    <3> SUFFICES ASSUME Answered PROVE Answered'
      OBVIOUS
    <3>1. PICK R \in Said : Telling(R)
      BY DEF Answered
    <3>2. Telling(R)'
      BY <1>1, <1>4, <1>7, <3>1 DEF Telling, At
    <3>3. Said' = Said
      BY <1>1 DEF Said, At, ThisOp
    <3> QED
      BY <1>1, <1>4, <3>1, <3>2, <3>3 DEF Answered, At
  <2> QED
    BY <1>1, <1>2, <2>1, <2>2, <2>3 DEF Talking, InCommand, At
<1>9. TalkInv'
  BY <1>1, <1>2, <1>4, <1>8 DEF TalkInv, At
<1>10. TypesOK'
  BY <1>1, <1>3, <1>4 DEF TypesOK, CallOK, CountsOK, At
<1>11. RunsInv' /\ EndedInv' /\ OwnAnswer'
  BY <1>1, <1>3 DEF CacheInv, RunsInv, EndedInv, OwnAnswer, Unrun, At
<1> QED
  BY <1>6, <1>9, <1>10, <1>11 DEF CacheInv

LEMMA NetworkLostKeeps == ASSUME CacheInv, NetworkLost PROVE CacheInv'
<1>1. /\ link.state = "up" /\ faults' = faults + 1
      /\ link' = [link EXCEPT !.state = "lost", !.inbox = <<>>, !.out = <<>>]
      /\ late' = late \cup LeftBehind
      /\ UNCHANGED <<context, reader, call, answer, runs, ended, struck>>
  BY DEF NetworkLost, Fault, client
<1>2. /\ context # NULL /\ ~context.err /\ Talking /\ ~At("crashed")
      /\ Owed = 0 /\ struck <= 2 * faults
  BY <1>1, UpHas
<1>3. /\ TypesOK /\ CallOK /\ IsLink(link) /\ faults \in Nat /\ struck \in Nat
      /\ RunsInv /\ EndedInv
  BY DEF CacheInv, TypesOK, CountsOK
<1>4. /\ IsLink(link') /\ link'.state = "lost" /\ link'.inbox = <<>> /\ link'.out = <<>>
  <2> DEFINE i == <<>>
             s == "lost"
  <2>1. i \in Seq(Word) /\ link' = [link EXCEPT !.state = s, !.inbox = i, !.out = i]
    BY <1>1
  <2> HIDE DEF i, s
  <2>2. LinkIs(link', s, link.trusted, i, i)
    BY <1>3, <2>1, LinkChanges
  <2> QED
    BY <2>2 DEF LinkIs, i, s
<1>5. Owed' = 2
  BY <1>1, <1>2, <1>4 DEF Owed
<1>6. Debt(0)'
  <2>1. struck' + 0 + Owed' <= 2 * faults'
    BY <1>1, <1>2, <1>3, <1>5
  <2> QED
    BY <2>1 DEF Debt
<1>7. TalkInv'
  BY <1>1, <1>2, <1>4 DEF TalkInv, At
<1>8. TypesOK'
  BY <1>1, <1>3, <1>4 DEF TypesOK, CallOK, CountsOK, At
<1>9. RunsInv'
  <2>1. CASE LeftBehind = {}
    BY <1>1, <1>3, <2>1 DEF RunsInv, Unrun, At
  <2>2. CASE LeftBehind # {}
    <3>1. At("run") /\ link.inbox = CommandOf[call.op][call.n] /\ late' = late \cup {call.n}
      BY <1>1, <2>2 DEF LeftBehind
    <3>2. ~At("idle") /\ InCommand /\ ~At("init") /\ ~At("auth") /\ ~At("select")
      BY <3>1 DEF At, InCommand
    <3>3. call.n \in Calls /\ call.op \in DOMAIN AllOps
      BY <1>3, <3>2, CallIs
    <3>4. link.inbox # <<>>
      <4> DEFINE c == CommandOf[call.op][call.n]
                 l == Len(c)
      <4>1. l \in 2 .. 10
        BY <3>3, CommandsAre DEF IsCommand
      <4> HIDE DEF l
      <4>2. l # 0
        BY <4>1
      <4>3. Len(<<>>) = 0
        OBVIOUS
      <4>4. c # <<>>
        BY <4>2, <4>3 DEF l
      <4> QED
        BY <3>1, <4>4
    <3>5. Sending
      BY <1>2, <3>2, <3>4 DEF Talking, Answered
    <3>6. Unrun
      BY <1>1, <3>1, <3>5 DEF Sending
    <3>7. late' \subseteq 1 .. call.n
      <4>1. call.n \in 1 .. call.n
        BY <3>3 DEF Calls
      <4> QED
        BY <1>3, <3>1, <4>1 DEF RunsInv
    <3>8. \A m \in Calls : m > call.n \/ m \in late' => runs[m] = 0
      BY <1>3, <3>1, <3>6 DEF RunsInv, Unrun
    <3> QED
      BY <1>1, <3>2, <3>7, <3>8 DEF RunsInv, At
  <2> QED
    BY <2>1, <2>2
<1>10. EndedInv' /\ OwnAnswer'
  BY <1>1, <1>3 DEF CacheInv, EndedInv, OwnAnswer, At
<1> QED
  BY <1>6, <1>7, <1>8, <1>9, <1>10 DEF CacheInv

LEMMA RunsLateKeeps == ASSUME CacheInv, RunsLate PROVE CacheInv'
<1>1. PICK n \in late : runs' = [runs EXCEPT ![n] = runs[n] + 1] /\ late' = late \ {n}
  BY DEF RunsLate
<1>2. UNCHANGED <<context, reader, call, answer, link, ended, faults, struck>>
  BY DEF RunsLate, client
<1>3. TypesOK /\ RunsInv /\ EndedInv /\ CallOK /\ runs \in [Calls -> {0, 1}] /\ TalkInv
  BY DEF CacheInv, TypesOK, CountsOK
<1>4. n \in Calls
  <2>1. n \in 1 .. call.n /\ call.n \in 0 .. MaxCalls
    BY <1>3 DEF RunsInv, CallOK
  <2> QED
    BY <2>1, CacheAssumption DEF Calls
<1>5. runs[n] = 0
  BY <1>3, <1>4 DEF RunsInv
<1>6. /\ runs' = [runs EXCEPT ![n] = 1] /\ runs' \in [Calls -> {0, 1}]
      /\ \A m \in Calls : m # n => runs'[m] = runs[m]
  <2>1. runs' = [runs EXCEPT ![n] = 1]
    BY <1>1, <1>5
  <2> QED
    BY <1>3, <1>4, <2>1
<1>7. TypesOK'
  BY <1>2, <1>3, <1>6 DEF TypesOK, CallOK, CountsOK, At
<1>8. Unrun => Unrun'
  <2> SUFFICES ASSUME Unrun PROVE Unrun'
    OBVIOUS
  <2>1. n # call.n /\ call.n \notin late'
    BY <1>1 DEF Unrun
  <2>2. runs'[call.n] = runs[call.n]
    BY <1>3, <1>6, <2>1
  <2> QED
    BY <1>2, <2>1, <2>2 DEF Unrun
<1>9. RunsInv'
  <2>1. \A m \in Calls : m > call.n \/ m \in late' => runs'[m] = 0
    <3> SUFFICES ASSUME NEW m \in Calls, m > call.n \/ m \in late' PROVE runs'[m] = 0
      OBVIOUS
    <3>1. n \in 1 .. call.n /\ call.n \in Int
      BY <1>3 DEF RunsInv, CallOK
    <3>2. m # n
      BY <1>1, <3>1
    <3>3. runs[m] = 0
      BY <1>1, <1>3 DEF RunsInv
    <3> QED
      BY <1>6, <3>2, <3>3
  <2> QED
    BY <1>1, <1>2, <1>3, <1>8, <2>1 DEF RunsInv, At
<1>10. Owed' = Owed
  BY <1>2 DEF Owed
<1>11. TalkInv'
  <2>1. Quiet => Quiet'
    BY <1>2 DEF Quiet
  <2>2. Sending => Sending'
    <3>1. Current' = Current
      BY <1>2 DEF Current, At
    <3> QED
      BY <1>2, <1>8, <3>1 DEF Sending, At
  <2>3. InCommand /\ Answered => Answered'
    <3> SUFFICES ASSUME InCommand, Answered PROVE Answered'
      OBVIOUS
    <3>1. PICK R \in Said : Telling(R)
      BY DEF Answered
    <3>2. Telling(R)'
      BY <1>2, <1>10, <3>1 DEF Telling, At, Debt
    <3>3. Said' = Said
      BY <1>2 DEF Said, At, ThisOp
    <3>4. At("run") => runs'[call.n] = 1
      <4> SUFFICES ASSUME At("run") PROVE runs'[call.n] = 1
        OBVIOUS
      <4>1. runs[call.n] = 1
        BY DEF Answered
      <4>2. call.n \in Calls
        BY <1>3, CurrentIs
      <4>3. n # call.n
        BY <1>5, <4>1
      <4> QED
        BY <1>6, <4>1, <4>2, <4>3
    <3> QED
      BY <1>2, <3>1, <3>2, <3>3, <3>4 DEF Answered, At
  <2>4. Talking => Talking'
    BY <1>2, <2>1, <2>2, <2>3 DEF Talking, InCommand, At
  <2> QED
    BY <1>2, <1>3, <2>4 DEF TalkInv, At
<1>12. EndedInv' /\ OwnAnswer' /\ Debt(0)'
  BY <1>2, <1>3, <1>10 DEF CacheInv, EndedInv, OwnAnswer, At, Debt
<1> QED
  BY <1>7, <1>9, <1>11, <1>12 DEF CacheInv

--------------------------------------------------------------------------------
(* The theorems. *)

(* The invariant holds at the start. *)
LEMMA InitHolds == ASSUME Init PROVE CacheInv
<1>1. /\ context = NULL /\ reader = redisReaderCreate
      /\ call = [n |-> 0, op |-> "Get", stage |-> "idle"] /\ answer = NoAnswer
      /\ link = NoLink /\ late = {} /\ faults = 0 /\ struck = 0
      /\ runs = [n \in Calls |-> 0] /\ ended = [n \in Calls |-> "open"]
  BY DEF Init
<1>2. call.n = 0 /\ call.stage = "idle" /\ IsCallRecord(call)
  BY <1>1 DEF IsCallRecord
<1>3. At("idle") /\ ~At("init") /\ ~At("auth") /\ ~At("select")
  BY <1>2 DEF At
<1>4. CallOK
  <2>1. 0 \in 0 .. MaxCalls /\ "idle" \in Stages
    BY CacheAssumption DEF Stages
  <2> QED
    BY <1>2, <1>3, <2>1 DEF CallOK
<1>5. CountsOK
  BY <1>1 DEF CountsOK
<1>6. TypesOK
  BY <1>1, <1>4, <1>5, NewLinkIs DEF TypesOK, LinkIs
<1>7. TalkInv
  BY <1>1, <1>3 DEF TalkInv
<1>8. RunsInv
  BY <1>1, <1>2, <1>3 DEF RunsInv
<1>9. EndedInv
  <2> SUFFICES ASSUME NEW m \in Calls
               PROVE  /\ ended[m] = "open" /\ m > call.n
    BY <1>2, <1>3 DEF EndedInv, Calls
  <2> QED
    BY <1>1, <1>2 DEF Calls
<1>10. Debt(0)
  BY <1>1 DEF Debt, Owed
<1>11. OwnAnswer
  BY <1>1 DEF OwnAnswer, NoAnswer
<1> QED
  BY <1>6, <1>7, <1>8, <1>9, <1>10, <1>11 DEF CacheInv

(* Every step keeps the invariant. *)
LEMMA NextKeeps == ASSUME CacheInv, [Next]_vars PROVE CacheInv'
<1>1. CASE \E op \in Ops : Call(op)
  BY <1>1, CallKeeps
<1>2. CASE InitReady \/ InitTooSoon \/ Connect \/ ConnectFails
  BY <1>2, InitReadyKeeps, TooSoonKeeps, ConnectKeeps, ConnectFailsKeeps
<1>3. CASE SecondPasses
  BY <1>3, NothingKeeps DEF SecondPasses
<1>4. CASE LatchedError \/ SocketFails \/ Restart
  BY <1>4, LatchedErrorKeeps, SocketFailsKeeps, RestartKeeps
<1>5. CASE redisBufferWrite \/ redisBufferRead
  BY <1>5, WriteKeeps, ReadKeeps
<1>6. CASE ServerRuns \/ ServerRefuses \/ ServerCloses \/ NetworkLost \/ RunsLate
  BY <1>6, ServerRunsKeeps, ServerRefusesKeeps, ServerClosesKeeps, NetworkLostKeeps,
     RunsLateKeeps
<1>7. CASE AllReturned \/ UNCHANGED vars
  BY <1>7, NothingKeeps DEF AllReturned, vars, client
<1> QED
  BY <1>1, <1>2, <1>3, <1>4, <1>5, <1>6, <1>7 DEF Next

(* The invariant of a connection: redis has what was sent to it, in the    *)
(* order in which it was sent (redisBufferWrite, redisvAppendCommand); the *)
(* command being sent has not been run, and the one being answered has     *)
(* been run once; the reader holds a beginning of the answer and of        *)
(* nothing else (redisReaderGetReply); and a context outlives a failed     *)
(* call only with an error (CacheConn::Init).                              *)
THEOREM TalkIsKept == Spec => []CacheInv
BY InitHolds, NextKeeps, PTL DEF Spec

(* What a call returns was said of this call: a connection that has failed *)
(* is not used again, and a reply that comes in pieces is read whole,      *)
(* whoever reads it (redisReaderGetReply, redisFree, the operations of     *)
(* CacheConn).                                                             *)
THEOREM AnswersAreOwn == Spec => []OwnAnswer
<1>1. CacheInv => OwnAnswer
  BY DEF CacheInv
<1> QED
  BY <1>1, TalkIsKept, PTL

(* A fault makes at most two calls fail: the one that meets it, and one    *)
(* that finds the error latched in the context or the closed connection    *)
(* (redisGetReply, CacheConn::Init).                                       *)
THEOREM FewFail == Spec => []FewFailures
<1>1. CacheInv => FewFailures
  <2> SUFFICES ASSUME CacheInv PROVE FewFailures
    OBVIOUS
  <2>1. Owed \in {0, 1, 2}
    BY OwedIs DEF CacheInv
  <2>2. struck \in Nat /\ faults \in Nat
    BY DEF CacheInv, TypesOK, CountsOK
  <2>3. struck + 0 + Owed <= 2 * faults
    BY DEF CacheInv, Debt
  <2>4. struck <= 2 * faults
    BY <2>1, <2>2, <2>3
  <2> QED
    BY <2>4 DEF FewFailures
<1> QED
  BY <1>1, TalkIsKept, PTL

--------------------------------------------------------------------------------
(* The refinement of RemoteCall. *)

RemoteStep == Remote!Next \/ UNCHANGED Remote!vars

(* A step that is none of the caller's business. *)
LEMMA RemoteSame ==
  ASSUME call'.n = call.n, UNCHANGED <<runs, ended>> PROVE RemoteStep
BY DEF RemoteStep, Remote!vars

(* Call asks. *)
LEMMA RemoteAsks == ASSUME CacheInv, NEW op, Call(op) PROVE RemoteStep
<1>1. At("idle") /\ call.n < MaxCalls /\ UNCHANGED <<runs, ended>>
      /\ call' = [n |-> call.n + 1, op |-> op, stage |-> "init"]
  BY DEF Call
<1>2. call.n \in 0 .. MaxCalls
  BY DEF CacheInv, TypesOK, CallOK
<1>3. call.n > 0 => ended[call.n] # "open"
  <2> SUFFICES ASSUME call.n > 0 PROVE ended[call.n] # "open"
    OBVIOUS
  <2>1. call.n \in Calls
    BY <1>2, CacheAssumption DEF Calls
  <2> QED
    BY <1>1, <2>1 DEF CacheInv, EndedInv
<1>4. call'.n = call.n + 1
  BY <1>1
<1>5. Remote!Ask
  BY <1>1, <1>3, <1>4 DEF Remote!Ask
<1> QED
  BY <1>5 DEF RemoteStep, Remote!Next

(* A call that ends fails or is told what redis said, having run it. *)
LEMMA RemoteEnds ==
  ASSUME CacheInv, ~At("idle"), NEW how \in {"failed", "told"}, NEW value, Return(how, value),
         UNCHANGED runs, how = "told" => runs[call.n] = 1
  PROVE  RemoteStep
<1>1. CallOK /\ EndedInv /\ CountsOK
  BY DEF CacheInv, TypesOK
<1>2. call.n \in Calls
  BY <1>1, CallIs
<1>3. call'.n = call.n /\ ended' = [ended EXCEPT ![call.n] = how]
  BY <1>1, Returned
<1>4. ended[call.n] = "open"
  BY <1>1, <1>2 DEF EndedInv
<1>5. CASE how = "failed"
  <2>1. Remote!Fail(call.n)
    BY <1>3, <1>4, <1>5 DEF Remote!Fail
  <2> QED
    BY <1>2, <2>1 DEF RemoteStep, Remote!Next, Remote!Calls, Calls
<1>6. CASE how = "told"
  <2>1. Remote!Tell(call.n)
    BY <1>3, <1>4, <1>6 DEF Remote!Tell
  <2> QED
    BY <1>2, <2>1 DEF RemoteStep, Remote!Next, Remote!Calls, Calls
<1> QED
  BY <1>5, <1>6

(* Redis runs a command that it has not run. *)
LEMMA RemoteRuns ==
  ASSUME CacheInv, NEW n \in Calls, n <= call.n, runs[n] = 0,
         runs' = [runs EXCEPT ![n] = runs[n] + 1], call'.n = call.n, ended' = ended
  PROVE  RemoteStep
<1>1. runs' = [runs EXCEPT ![n] = 1]
  OBVIOUS
<1>2. Remote!Run(n)
  BY <1>1 DEF Remote!Run
<1> QED
  BY <1>2 DEF RemoteStep, Remote!Next, Remote!Calls, Calls

(* A step to another stage is none of the caller's business. *)
LEMMA RemoteStage ==
  ASSUME CacheInv, NEW st, call' = [call EXCEPT !.stage = st], UNCHANGED <<runs, ended>>
  PROVE  RemoteStep
<1>1. call'.n = call.n
  BY CallChanges DEF CacheInv, TypesOK, CallOK
<1> QED
  BY <1>1, RemoteSame

(* redisGetReply fails: the call fails, or the process ends first. *)
LEMMA RemoteLoses ==
  ASSUME CacheInv, InCommand, Lost(reader), UNCHANGED runs PROVE RemoteStep
<1>1. ~At("idle")
  BY DEF InCommand, At
<1>2. CASE call' = [call EXCEPT !.stage = "crashed"] /\ UNCHANGED <<answer, ended, struck>>
  BY <1>2, RemoteStage
<1>3. CASE Return("failed", NoAnswer)
  BY <1>1, <1>3, RemoteEnds
<1> QED
  BY <1>2, <1>3 DEF Lost, Fail

(* ServerRuns and ServerRefuses run the command of the call, once. *)
LEMMA RemoteServes ==
  ASSUME CacheInv, link.state = "up", Whole, Counted, UNCHANGED <<client, ended>>
  PROVE  RemoteStep
<1>1. call' = call /\ ended' = ended
  BY DEF client
<1>2. InCommand /\ Sending /\ (IsCall <=> At("run"))
  BY WholeSent
<1>3. CASE ~IsCall
  BY <1>1, <1>3, RemoteSame DEF Counted
<1>4. CASE IsCall
  <2>1. runs[call.n] = 0
    BY <1>2, <1>4 DEF Sending, Unrun
  <2>2. call.n \in Calls
    BY <1>2, CurrentIs DEF CacheInv, TypesOK
  <2>3. call.n <= call.n
    BY <2>2 DEF Calls
  <2>4. runs' = [runs EXCEPT ![call.n] = runs[call.n] + 1]
    BY <1>4 DEF Counted
  <2> QED
    BY <1>1, <2>1, <2>2, <2>3, <2>4, RemoteRuns
<1> QED
  BY <1>3, <1>4

(* A reply is told, or leads on to the next command. *)
LEMMA RemoteReads == ASSUME CacheInv, redisBufferRead PROVE RemoteStep
<1>1. InCommand /\ UNCHANGED runs
  BY DEF redisBufferRead
<1>2. ~At("idle")
  BY <1>1 DEF InCommand, At
<1>3. CASE UNCHANGED <<context, call, answer, ended, struck>>
  BY <1>1, <1>3, RemoteSame
<1>4. ASSUME Answered, NEW R \in Said, Received(R) PROVE RemoteStep
  <2>1. CASE At("run") /\ Return("told", Reads(ThisOp.reads, R))
    BY <1>1, <1>2, <1>4, <2>1, RemoteEnds DEF Answered
  <2>2. CASE Send("select", SelectCommand) \/ Send("run", CommandOf[call.op][call.n])
    BY <1>1, <2>2, RemoteStage DEF Send
  <2>3. CASE Fail
    BY <1>1, <1>2, <2>3, RemoteEnds DEF Fail
  <2> QED
    BY <1>4, <2>1, <2>2, <2>3 DEF Received
<1> QED
  BY <1>3, <1>4, ReadKeeps

(* Writing is none of the caller's business. *)
LEMMA RemoteWrites == ASSUME CacheInv, redisBufferWrite PROVE RemoteStep
<1>1. InCommand /\ ~context.err /\ context.obuf # <<>> /\ link.state # "lost"
      /\ UNCHANGED runs
  BY DEF redisBufferWrite
<1>2. Sending
  BY <1>1, NotLostTalks DEF Answered
<1>3. redisReaderGetReply(reader).reply = <<>>
  BY <1>2, CleanAsked DEF Sending
<1>4. Write
  BY <1>3 DEF redisBufferWrite
<1>5. UNCHANGED <<call, ended>>
  BY <1>4 DEF Write
<1> QED
  BY <1>1, <1>5, RemoteSame

(* RunsLate runs a command that was left behind. *)
LEMMA RemoteLate == ASSUME CacheInv, RunsLate PROVE RemoteStep
<1>1. PICK n \in late : runs' = [runs EXCEPT ![n] = runs[n] + 1]
  BY DEF RunsLate
<1>2. call' = call /\ ended' = ended
  BY DEF RunsLate, client
<1>3. n \in 1 .. call.n /\ call.n \in 0 .. MaxCalls
  BY DEF CacheInv, RunsInv, TypesOK, CallOK
<1>4. n \in Calls /\ n <= call.n
  BY <1>3, CacheAssumption DEF Calls
<1>5. runs[n] = 0
  BY <1>4 DEF CacheInv, RunsInv
<1> QED
  BY <1>1, <1>2, <1>4, <1>5, RemoteRuns

(* The initial states map to initial states. *)
LEMMA RemoteInit == ASSUME Init PROVE Remote!Init
<1>1. call.n = 0
  BY DEF Init
<1> QED
  BY <1>1 DEF Init, Remote!Init, Remote!Calls, Calls

(* Every step maps to a step of RemoteCall or to none. *)
LEMMA NextIsRemote == ASSUME CacheInv, [Next]_vars PROVE RemoteStep
<1>1. CASE \E op \in Ops : Call(op)
  BY <1>1, RemoteAsks
<1>2. CASE InitReady \/ Connect
  <2>1. /\ \E st : call' = [call EXCEPT !.stage = st]
        /\ UNCHANGED <<runs, ended>>
    BY <1>2 DEF InitReady, Connect, Send
  <2> QED
    BY <2>1, RemoteStage
<1>3. CASE InitTooSoon \/ ConnectFails \/ Restart
  <2>1. Return("failed", NoAnswer) /\ UNCHANGED runs /\ ~At("idle")
    BY <1>3 DEF InitTooSoon, ConnectFails, Restart, Fail, At
  <2> QED
    BY <2>1, RemoteEnds
<1>4. CASE LatchedError \/ SocketFails
  BY <1>4, RemoteLoses DEF LatchedError, SocketFails
<1>5. CASE redisBufferWrite \/ redisBufferRead
  BY <1>5, RemoteWrites, RemoteReads
<1>6. CASE ServerRuns \/ ServerRefuses
  BY <1>6, RemoteServes DEF ServerRuns, ServerRefuses
<1>7. CASE ServerCloses \/ NetworkLost
  BY <1>7, RemoteSame DEF ServerCloses, NetworkLost, client
<1>8. CASE RunsLate
  BY <1>8, RemoteLate
<1>9. CASE SecondPasses \/ AllReturned \/ UNCHANGED vars
  BY <1>9, RemoteSame DEF SecondPasses, AllReturned, vars, client
<1> QED
  BY <1>1, <1>2, <1>3, <1>4, <1>5, <1>6, <1>7, <1>8, <1>9 DEF Next

(* A connection does what RemoteCall promises: every command is run at     *)
(* most once, and a call is told something only when redis has run its     *)
(* command. Nothing is sent again on a new connection (redisFree,          *)
(* CacheConn::Init).                                                       *)
THEOREM CallsImplement == Spec => Implements
<1>1. CacheInv /\ [Next]_vars => [Remote!Next]_(Remote!vars)
  BY NextIsRemote DEF RemoteStep
<1> QED
  BY <1>1, RemoteInit, TalkIsKept, PTL DEF Spec, Implements, Remote!Spec
=============================================================================
