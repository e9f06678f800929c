--------------------------- MODULE LogServiceProofs ---------------------------
(* Theorems about AsyncLogging, for buffers of any size, lines of any      *)
(* number and length, and a writer that may be behind by any number; and   *)
(* about LogFile and the two together in LogService, for any sizes,        *)
(* periods and clock.                                                      *)
EXTENDS LogService, SequenceTheorems, TLAPS

-----------------------------------------------------------------------------
(* The logger: AsyncLogging by itself.                                     *)

(* The buffers of toWrite and buffers_ hold at least what is missing. *)
Looping == at \in {"top", "lock", "tested", "asleep", "woken"}
Missing == IF spare2 = Null THEN 2 ELSE 1

(* The argument: nextBuffer_ is only given away by an append that puts a   *)
(* full buffer into the queue, so a swap that has to replace it takes two  *)
(* buffers, one for each spare buffer it hands out.  What waits as the     *)
(* next buffer has no line in it.                                          *)
SpareInv ==
  /\ next \in {Null, Empty}
  /\ next = Null => Len(buffers) >= 1
  /\ owner = "new" => at = "none"
  /\ at \in {"none", "born", "end", "aborted"} => toWrite = <<>> /\ written = 0
  /\ Looping => /\ spare1 = Empty
                /\ spare2 = Empty
                /\ toWrite = <<>>
                /\ written = 0
  /\ at = "trim" => written = 0
  /\ at \in {"trim", "write"} => /\ spare1 = Null
                                 /\ spare2 \in {Null, Empty}
                                 /\ Len(toWrite) >= Missing
                                 /\ written <= Len(toWrite)

Inv == TypeOK /\ SpareInv

LEMMA BufferFacts ==
  /\ Empty \in Buffers
  /\ Null # Empty
  /\ \A b \in Buffers, n, k \in Nat : Put(b, n, k) \in Buffers
<1>1. Empty \in Buffers
  BY DEF Empty, Buffers
<1>2. Null # Empty
  BY <1>1, AsyncLoggingAssumption
<1>3. ASSUME NEW b \in Buffers, NEW n \in Nat, NEW k \in Nat
      PROVE  Put(b, n, k) \in Buffers
  <2>1. b.text \in Seq(Nat) /\ b.len \in Nat
    BY DEF Buffers
  <2>2. Append(b.text, n) \in Seq(Nat) /\ b.len + k \in Nat
    BY <2>1, AppendProperties
  <2>3. [text |-> Append(b.text, n), len |-> b.len + k] \in Buffers
    BY <2>2 DEF Buffers
  <2> QED
    BY <2>3 DEF Put
<1> QED
  BY <1>1, <1>2, <1>3

LEMMA QueueFacts ==
  ASSUME NEW q \in Seq(Buffers), NEW b \in Buffers
  PROVE  /\ Append(q, b) \in Seq(Buffers)
         /\ Len(Append(q, b)) = Len(q) + 1
         /\ Len(q) \in Nat
  BY AppendProperties, LenProperties

LEMMA InitInv == Init => Inv
<1> SUFFICES ASSUME Init PROVE Inv
  OBVIOUS
<1>1. <<>> \in Seq(Buffers) /\ <<>> \in Seq(Nat)
  BY EmptySeq
<1>2. TypeOK
  BY <1>1, BufferFacts DEF Init, TypeOK
<1>3. SpareInv
  BY AsyncLoggingAssumption, BufferFacts DEF Init, SpareInv, Looping
<1> QED
  BY <1>2, <1>3 DEF Inv

(* A swap: what the writer gets and what it hands out. *)
LEMMA SwapInv ==
  ASSUME Inv, Looping, Swap, UNCHANGED <<running, owner, appended, output>>
  PROVE  Inv'
<1>1. /\ spare1 = Empty /\ spare2 = Empty /\ toWrite = <<>> /\ written = 0
      /\ next = Null => Len(buffers) >= 1
      /\ current \in Buffers /\ buffers \in Seq(Buffers)
      /\ next \in {Null, Empty}
  BY DEF Inv, TypeOK, SpareInv
<1>2. /\ Append(buffers, current) \in Seq(Buffers)
      /\ Len(Append(buffers, current)) = Len(buffers) + 1
      /\ Len(buffers) \in Nat
  BY <1>1, QueueFacts
<1>3. TypeOK'
  BY <1>1, <1>2, BufferFacts, EmptySeq DEF Swap, Inv, TypeOK, output
<1>4. SpareInv'
  <2>1. next' = Empty /\ next' # Null
    BY <1>1, BufferFacts DEF Swap
  <2>2. Len(toWrite') >= Missing'
    BY <1>1, <1>2, BufferFacts DEF Swap, Missing
  <2>3. /\ at' = "trim" /\ spare1' = Null /\ written' = 0
        /\ owner' # "new"
    BY <1>1 DEF Swap, Looping, Inv, SpareInv
  <2>4. toWrite' = Append(buffers, current)
    BY DEF Swap
  <2>5. written' <= Len(toWrite')
    BY <2>3, <2>4, <1>2
  <2>6. spare2' \in {Null, Empty}
    BY <1>1 DEF Swap
  <2> QED
    BY <2>1, <2>2, <2>3, <2>5, <2>6 DEF SpareInv, Looping
<1> QED
  BY <1>3, <1>4 DEF Inv

LEMMA AppendInv ==
  ASSUME Inv, NEW k \in Lengths, append(k)
  PROVE  Inv'
<1>1. /\ k \in Nat /\ appended \in Nat /\ appended + 1 \in Nat
      /\ current \in Buffers /\ buffers \in Seq(Buffers)
      /\ next \in Buffers \cup {Null}
  BY AsyncLoggingAssumption DEF Inv, TypeOK
<1>2. /\ Append(buffers, current) \in Seq(Buffers)
      /\ Len(Append(buffers, current)) = Len(buffers) + 1
      /\ Len(buffers) \in Nat
  BY <1>1, QueueFacts
<1>3. CASE ~ Full(k)
  <2>1. current' = Put(current, appended + 1, k) /\ UNCHANGED <<next, buffers, at>>
    BY <1>3 DEF append
  <2>2. current' \in Buffers
    BY <1>1, <2>1, BufferFacts
  <2>3. TypeOK'
    BY <2>1, <2>2, <1>1 DEF append, Inv, TypeOK, local, output
  <2>4. SpareInv'
    BY <2>1 DEF append, Inv, SpareInv, Looping, Missing, local
  <2> QED
    BY <2>3, <2>4 DEF Inv
<1>4. CASE Full(k)
  <2>1. /\ buffers' = Append(buffers, current)
        /\ current' = Put(IF next = Null THEN Empty ELSE next, appended + 1, k)
        /\ next' = Null
        /\ at' = IF at = "asleep" THEN "woken" ELSE at
    BY <1>4 DEF append, Notify
  <2>2. current' \in Buffers
    BY <1>1, <2>1, BufferFacts
  <2>3. TypeOK'
    BY <2>1, <2>2, <1>1, <1>2 DEF append, Inv, TypeOK, local, output
  <2>4. Len(buffers') >= 1
    BY <2>1, <1>2
  <2>5. SpareInv'
    BY <2>1, <2>4 DEF append, Inv, SpareInv, Looping, Missing, local
  <2> QED
    BY <2>3, <2>5 DEF Inv
<1> QED
  BY <1>3, <1>4

(* The owner's steps and the ones of the writer that only move it on. *)
LEMMA MoveInv ==
  ASSUME Inv,
         start \/ stop \/ StopNotify \/ Join \/ Begin \/ Top \/ Sleep \/ Spurious
         \/ (at \in {"lock", "woken"} /\ at' = "tested"
             /\ UNCHANGED <<memory, local, running, owner, appended, output>>)
  PROVE  Inv'
<1> USE DEF Inv, TypeOK, SpareInv, Looping, Missing, memory, local, output
<1>1. CASE start
  BY <1>1 DEF start
<1>2. CASE stop
  BY <1>2 DEF stop
<1>3. CASE StopNotify
  BY <1>3 DEF StopNotify, Notify
<1>4. CASE Join
  BY <1>4 DEF Join
<1>5. CASE Begin
  BY <1>5, BufferFacts DEF Begin
<1>6. CASE Top
  BY <1>6 DEF Top
<1>7. CASE Sleep
  BY <1>7 DEF Sleep
<1>8. CASE Spurious
  BY <1>8 DEF Spurious
<1>9. CASE at \in {"lock", "woken"} /\ at' = "tested"
           /\ UNCHANGED <<memory, local, running, owner, appended, output>>
  BY <1>9
<1> QED
  BY <1>1, <1>2, <1>3, <1>4, <1>5, <1>6, <1>7, <1>8, <1>9

LEMMA TrimInv ==
  ASSUME Inv, Trim
  PROVE  Inv'
<1>1. /\ at = "trim" /\ spare1 = Null /\ Len(toWrite) >= Missing
      /\ toWrite \in Seq(Buffers) /\ written \in Nat /\ written <= Len(toWrite)
      /\ MaxBehind \in Nat /\ MaxBehind >= 2 /\ Len(toWrite) \in Nat
  BY AsyncLoggingAssumption, LenProperties DEF Trim, Inv, TypeOK, SpareInv
<1>2. CASE Len(toWrite) > MaxBehind
  <2>1. /\ toWrite' = SubSeq(toWrite, 1, 2)
        /\ dropped' = dropped \cup
             UNION {LinesOf(toWrite[i].text) : i \in 3 .. Len(toWrite)}
    BY <1>1, <1>2 DEF Trim
  <2>2. toWrite' \in Seq(Buffers) /\ Len(toWrite') = 2
    BY <2>1, <1>1, <1>2, SubSeqProperties
  <2>3. dropped' \subseteq Nat
    <3>1. \A i \in 3 .. Len(toWrite) : LinesOf(toWrite[i].text) \subseteq Nat
      <4> SUFFICES ASSUME NEW i \in 3 .. Len(toWrite)
                   PROVE  LinesOf(toWrite[i].text) \subseteq Nat
        OBVIOUS
      <4>1. toWrite[i] \in Buffers
        BY <1>1, ElementOfSeq
      <4>2. toWrite[i].text \in Seq(Nat)
        BY <4>1 DEF Buffers
      <4> QED
        BY <4>2, ElementOfSeq, LenProperties DEF LinesOf
    <3> QED
      BY <3>1, <2>1 DEF Inv, TypeOK
  <2>4. TypeOK'
    BY <2>2, <2>3 DEF Trim, Inv, TypeOK, memory
  <2>5. written = 0
    BY <1>1 DEF Inv, SpareInv
  <2>6. SpareInv'
    BY <2>2, <2>5, <1>1 DEF Trim, Inv, SpareInv, Looping, Missing, memory
  <2> QED
    BY <2>4, <2>6 DEF Inv
<1>3. CASE ~ (Len(toWrite) > MaxBehind)
  <2>1. UNCHANGED <<toWrite, dropped>>
    BY <1>1, <1>3 DEF Trim
  <2> QED
    BY <2>1, <1>1 DEF Trim, Inv, TypeOK, SpareInv, Looping, Missing, memory
<1> QED
  BY <1>2, <1>3

LEMMA WriteInv ==
  ASSUME Inv, Write
  PROVE  Inv'
<1>1. /\ toWrite \in Seq(Buffers) /\ written \in Nat /\ written < Len(toWrite)
      /\ Len(toWrite) \in Nat /\ file \in Seq(Nat)
  BY LenProperties DEF Write, Inv, TypeOK
<1>2. toWrite[written + 1] \in Buffers
  BY <1>1, ElementOfSeq
<1>3. toWrite[written + 1].text \in Seq(Nat)
  BY <1>2 DEF Buffers
<1>4. file' \in Seq(Nat)
  BY <1>1, <1>3, ConcatProperties DEF Write
<1>5. written' \in Nat /\ written' <= Len(toWrite')
  BY <1>1 DEF Write
<1>6. TypeOK'
  BY <1>4, <1>5 DEF Write, Inv, TypeOK, memory
<1>7. SpareInv'
  BY <1>5 DEF Write, Inv, SpareInv, Looping, Missing, memory
<1> QED
  BY <1>6, <1>7 DEF Inv

LEMMA RefillInv ==
  ASSUME Inv, Refill
  PROVE  Inv'
<1>1. spare1 = Null
  BY DEF Refill, Inv, SpareInv
<1>2. spare1' = Empty
  BY <1>1 DEF Refill, Refill1, Reset
<1>3. spare2' = IF spare2 # Null THEN spare2 ELSE Empty
  BY DEF Refill, Refill2, Reset
<1>4. TypeOK'
  BY <1>2, <1>3, BufferFacts, EmptySeq DEF Refill, Inv, TypeOK, memory, output
<1>5. spare2' = Empty
  BY <1>3 DEF Refill, Inv, SpareInv
<1>6. SpareInv'
  BY <1>2, <1>5 DEF Refill, Inv, SpareInv, Looping, Missing, memory, output
<1> QED
  BY <1>4, <1>6 DEF Inv

LEMMA NextInv == Inv /\ [Next]_vars => Inv'
<1> SUFFICES ASSUME Inv, [Next]_vars PROVE Inv'
  OBVIOUS
<1>1. CASE \E k \in Lengths : append(k)
  BY <1>1, AppendInv
<1>2. CASE start \/ stop \/ StopNotify \/ Join \/ Begin \/ Top \/ Sleep \/ Spurious
  BY <1>2, MoveInv
<1>3. CASE Lock
  <2>1. Looping
    BY <1>3 DEF Lock, Looping
  <2> QED
    BY <1>3, <2>1, SwapInv, MoveInv DEF Lock
<1>4. CASE Wake
  <2>1. Looping
    BY <1>4 DEF Wake, Looping
  <2> QED
    BY <1>4, <2>1, SwapInv, MoveInv DEF Wake
<1>5. CASE TimeOut
  <2>1. Looping
    BY <1>5 DEF TimeOut, Looping
  <2> QED
    BY <1>5, <2>1, SwapInv DEF TimeOut
<1>6. CASE Trim
  BY <1>6, TrimInv
<1>7. CASE Write
  BY <1>7, WriteInv
<1>8. CASE Refill
  BY <1>8, RefillInv
<1>9. CASE UNCHANGED vars
  BY <1>9 DEF vars, memory, local, output, Inv, TypeOK, SpareInv, Looping, Missing
<1> QED
  BY <1>1, <1>2, <1>3, <1>4, <1>5, <1>6, <1>7, <1>8, <1>9 DEF Next, Writer

LEMMA InvHolds == Spec => []Inv
  BY InitInv, NextInv, PTL DEF Spec

(* Every variable keeps its type; in particular currentBuffer_, which      *)
(* append uses without a test, is never a moved-from pointer.              *)
THEOREM TypeCorrect == Spec => []TypeOK
<1>1. Inv => TypeOK
  BY DEF Inv
<1> QED
  BY <1>1, InvHolds, PTL

(* The assertions of threadFunc at the head of its loop, after the swap    *)
(* and before each reuse of a written buffer never fail.                   *)
THEOREM AssertionsHold == Spec => []Ready
<1>1. Inv => Ready
  BY AsyncLoggingAssumption, BufferFacts DEF Inv, SpareInv, Ready, Looping, Missing
<1> QED
  BY <1>1, InvHolds, PTL

-----------------------------------------------------------------------------
(* The lines.  Texts is a sequence of texts, all of which are numbered; a  *)
(* step adds a line at its end, joins its first two texts, or takes some   *)
(* away.  The facts are stated of any such sequence.                       *)

Ordered(T) ==
  \A i, j \in DOMAIN T : \A p \in DOMAIN T[i], q \in DOMAIN T[j] :
    i < j \/ (i = j /\ p < q) => T[i][p] < T[j][q]

AllLines(T) == UNION {LinesOf(T[i]) : i \in DOMAIN T}

LEMMA InLines ==
  ASSUME NEW T, NEW x
  PROVE  x \in AllLines(T) <=> \E i \in DOMAIN T : \E p \in DOMAIN T[i] : x = T[i][p]
  BY DEF AllLines, LinesOf

LEMMA OrderedWithin ==
  ASSUME NEW S, Ordered(S), NEW i \in DOMAIN S,
         NEW p \in DOMAIN S[i], NEW q \in DOMAIN S[i], p < q
  PROVE  S[i][p] < S[i][q]
  BY DEF Ordered

LEMMA OrderedAcross ==
  ASSUME NEW S, Ordered(S), NEW i \in DOMAIN S, NEW j \in DOMAIN S, i < j,
         NEW p \in DOMAIN S[i], NEW q \in DOMAIN S[j]
  PROVE  S[i][p] < S[j][q]
  BY DEF Ordered

(* A new line at the end of the last text. *)
AddsLine(S, T, n, m, a) ==
  /\ n \in Nat
  /\ m \in Nat
  /\ a \in Nat
  /\ n > 0
  /\ DOMAIN S = 1 .. n
  /\ DOMAIN T = 1 .. n
  /\ \A i \in 1 .. n - 1 : T[i] = S[i]
  /\ DOMAIN S[n] = 1 .. m
  /\ DOMAIN T[n] = 1 .. m + 1
  /\ \A p \in 1 .. m : T[n][p] = S[n][p]
  /\ T[n][m + 1] = a + 1
  /\ Ordered(S)
  /\ \A x \in AllLines(S) : x \in Nat /\ x <= a

LEMMA LineAdded ==
  ASSUME NEW S, NEW T, NEW n, NEW m, NEW a, AddsLine(S, T, n, m, a)
  PROVE  Ordered(T) /\ AllLines(T) = AllLines(S) \cup {a + 1}
<1> USE DEF AddsLine
<1>1. n \in 1 .. n /\ \A i \in 1 .. n : i # n => T[i] = S[i]
  OBVIOUS
<1>2. \A i \in 1 .. n : \A p \in DOMAIN T[i] :
        \/ p \in DOMAIN S[i] /\ T[i][p] = S[i][p]
        \/ i = n /\ p = m + 1 /\ T[i][p] = a + 1
  BY <1>1
<1>3. \A i \in 1 .. n : \A p \in DOMAIN S[i] : S[i][p] \in Nat /\ S[i][p] <= a
  BY InLines
<1>4. Ordered(T)
  <2> SUFFICES ASSUME NEW i \in 1 .. n, NEW j \in 1 .. n,
                      NEW p \in DOMAIN T[i], NEW q \in DOMAIN T[j],
                      i < j \/ (i = j /\ p < q)
               PROVE  T[i][p] < T[j][q]
    BY DEF Ordered
  <2>1. CASE p \in DOMAIN S[i] /\ T[i][p] = S[i][p]
             /\ q \in DOMAIN S[j] /\ T[j][q] = S[j][q]
    BY <2>1 DEF Ordered
  <2>2. CASE p \in DOMAIN S[i] /\ T[i][p] = S[i][p] /\ T[j][q] = a + 1
    BY <2>2, <1>3
  <2>3. CASE i = n /\ p = m + 1 /\ T[i][p] = a + 1
    <3>1. j = n /\ q > m + 1
      BY <2>3
    <3> QED
      BY <3>1
  <2> QED
    BY <2>1, <2>2, <2>3, <1>2
<1>5. /\ DOMAIN S = DOMAIN T
      /\ \A i \in DOMAIN S : \A p \in DOMAIN S[i] : p \in DOMAIN T[i] /\ T[i][p] = S[i][p]
  BY <1>1
<1>6. /\ \A i \in DOMAIN T : \A p \in DOMAIN T[i] :
           (p \in DOMAIN S[i] /\ T[i][p] = S[i][p]) \/ T[i][p] = a + 1
      /\ \E i \in DOMAIN T : \E p \in DOMAIN T[i] : a + 1 = T[i][p]
  BY <1>1, <1>2
<1> HIDE DEF AddsLine
<1>7. \A x : x \in AllLines(T) <=> x \in AllLines(S) \cup {a + 1}
  <2> TAKE x
  <2>1. ASSUME x \in AllLines(T) PROVE x \in AllLines(S) \cup {a + 1}
    <3>1. PICK i \in DOMAIN T : \E p \in DOMAIN T[i] : x = T[i][p]
      BY <2>1, InLines
    <3>2. PICK p \in DOMAIN T[i] : x = T[i][p]
      BY <3>1
    <3>3. CASE p \in DOMAIN S[i] /\ T[i][p] = S[i][p]
      <4>1. x \in AllLines(S)
        BY <3>2, <3>3, <1>5, InLines
      <4> QED
        BY <4>1
    <3>4. CASE T[i][p] = a + 1
      BY <3>2, <3>4
    <3> QED
      BY <3>3, <3>4, <1>6
  <2>2. ASSUME x \in AllLines(S) PROVE x \in AllLines(T)
    <3>1. PICK i \in DOMAIN S : \E p \in DOMAIN S[i] : x = S[i][p]
      BY <2>2, InLines
    <3>2. PICK p \in DOMAIN S[i] : x = S[i][p]
      BY <3>1
    <3>3. p \in DOMAIN T[i] /\ T[i][p] = x /\ i \in DOMAIN T
      BY <3>2, <1>5
    <3> QED
      BY <3>3, InLines
  <2>3. a + 1 \in AllLines(T)
    BY <1>6, InLines
  <2> QED
    BY <2>1, <2>2, <2>3
<1> QED
  BY <1>4, <1>7

(* A text at the end that has no line. *)
AddsEmpty(S, T, n) ==
  /\ n \in Nat
  /\ DOMAIN S = 1 .. n
  /\ DOMAIN T = 1 .. n + 1
  /\ \A i \in 1 .. n : T[i] = S[i]
  /\ DOMAIN T[n + 1] = {}
  /\ Ordered(S)

LEMMA EmptyAdded ==
  ASSUME NEW S, NEW T, NEW n, AddsEmpty(S, T, n)
  PROVE  Ordered(T) /\ AllLines(T) = AllLines(S)
<1> USE DEF AddsEmpty
<1>1. DOMAIN S \subseteq DOMAIN T /\ \A i \in DOMAIN S : T[i] = S[i]
  OBVIOUS
<1>2. \A i \in DOMAIN T : \A p \in DOMAIN T[i] : i \in DOMAIN S /\ T[i] = S[i]
  OBVIOUS
<1>3. Ordered(T)
  BY <1>2 DEF Ordered
<1>4. \A x : x \in AllLines(T) <=> x \in AllLines(S)
  BY <1>1, <1>2, InLines
<1> QED
  BY <1>3, <1>4

(* The first two texts become one. *)
JoinsFirst(S, T, n, m, k) ==
  /\ n \in Nat
  /\ m \in Nat
  /\ k \in Nat
  /\ n >= 2
  /\ DOMAIN S = 1 .. n
  /\ DOMAIN T = 1 .. n - 1
  /\ DOMAIN S[1] = 1 .. m
  /\ DOMAIN S[2] = 1 .. k
  /\ DOMAIN T[1] = 1 .. m + k
  /\ \A p \in 1 .. m : T[1][p] = S[1][p]
  /\ \A p \in m + 1 .. m + k : T[1][p] = S[2][p - m]
  /\ \A i \in 2 .. n - 1 : T[i] = S[i + 1]
  /\ Ordered(S)

LEMMA Thirds == \A n \in Nat : \A i \in 1 .. n : i = 1 \/ i = 2 \/ i > 2
  OBVIOUS

LEMMA FirstJoined ==
  ASSUME NEW S, NEW T, NEW n, NEW m, NEW k, JoinsFirst(S, T, n, m, k)
  PROVE  Ordered(T) /\ AllLines(T) = AllLines(S)
<1> USE DEF JoinsFirst
<1>1. Ordered(T)
  <2> SUFFICES ASSUME NEW i \in 1 .. n - 1, NEW j \in 1 .. n - 1,
                      NEW p \in DOMAIN T[i], NEW q \in DOMAIN T[j],
                      i < j \/ (i = j /\ p < q)
               PROVE  T[i][p] < T[j][q]
    BY DEF Ordered
  <2>1. CASE i = 1 /\ j = 1
    <3>1. /\ p \in 1 .. m + k /\ q \in 1 .. m + k /\ p < q
          /\ T[i][p] = T[1][p] /\ T[j][q] = T[1][q]
      BY <2>1
    <3>2. 1 \in DOMAIN S /\ 2 \in DOMAIN S
      OBVIOUS
    <3>3. CASE q <= m
      <4>1. T[1][p] = S[1][p] /\ T[1][q] = S[1][q] /\ p \in 1 .. m /\ q \in 1 .. m
        BY <3>1, <3>3
      <4> QED
        <5>1. p \in DOMAIN S[1] /\ q \in DOMAIN S[1] /\ p < q
          BY <4>1, <3>1
        <5>2. S[1][p] < S[1][q]
          BY <5>1, <3>2, OrderedWithin
        <5> QED
          BY <5>2, <4>1, <3>1
    <3>4. CASE p <= m /\ q > m
      <4>1. T[1][p] = S[1][p] /\ p \in 1 .. m
        BY <3>1, <3>4
      <4>2. T[1][q] = S[2][q - m] /\ q - m \in 1 .. k
        BY <3>1, <3>4
      <4>3. p \in DOMAIN S[1] /\ q - m \in DOMAIN S[2] /\ 1 < 2
        BY <4>1, <4>2
      <4>4. S[1][p] < S[2][q - m]
        BY <4>3, <3>2, OrderedAcross
      <4> QED
        BY <4>1, <4>2, <4>4, <3>1
    <3>5. CASE p > m
      <4>1. p \in m + 1 .. m + k /\ q \in m + 1 .. m + k
        BY <3>1, <3>5
      <4>2. T[1][p] = S[2][p - m] /\ p - m \in 1 .. k
        BY <4>1
      <4>3. T[1][q] = S[2][q - m] /\ q - m \in 1 .. k
        BY <4>1
      <4>4. p - m < q - m
        BY <3>1
      <4>5. p - m \in DOMAIN S[2] /\ q - m \in DOMAIN S[2]
        BY <4>2, <4>3
      <4>6. S[2][p - m] < S[2][q - m]
        BY <4>5, <4>4, <3>2, OrderedWithin
      <4> QED
        BY <4>2, <4>3, <4>6, <3>1
    <3> QED
      BY <3>1, <3>3, <3>4, <3>5
  <2>2. CASE i = 1 /\ j # 1
    <3>1. /\ T[j] = S[j + 1] /\ j + 1 \in 1 .. n /\ j + 1 > 2 /\ q \in DOMAIN S[j + 1]
          /\ p \in 1 .. m + k /\ T[i][p] = T[1][p] /\ T[j][q] = S[j + 1][q]
      BY <2>2
    <3>2. 1 \in DOMAIN S /\ 2 \in DOMAIN S
      OBVIOUS
    <3>3. CASE p <= m
      <4>1. T[1][p] = S[1][p] /\ p \in DOMAIN S[1]
        BY <3>1, <3>3
      <4>2. 1 < j + 1 /\ j + 1 \in DOMAIN S
        BY <3>1
      <4>3. S[1][p] < S[j + 1][q]
        BY <4>1, <4>2, <3>1, <3>2, OrderedAcross
      <4> QED
        BY <4>1, <4>3, <3>1
    <3>4. CASE p > m
      <4>1. p \in m + 1 .. m + k
        BY <3>1, <3>4
      <4>2. T[1][p] = S[2][p - m] /\ p - m \in 1 .. k
        BY <4>1
      <4>3. p - m \in DOMAIN S[2] /\ 2 < j + 1 /\ j + 1 \in DOMAIN S
        BY <4>2, <3>1
      <4>4. S[2][p - m] < S[j + 1][q]
        BY <4>3, <3>1, <3>2, OrderedAcross
      <4> QED
        BY <4>2, <4>4, <3>1
    <3> QED
      BY <3>1, <3>3, <3>4
  <2>3. CASE i # 1
    <3>1. i \in 2 .. n - 1 /\ j \in 2 .. n - 1
      BY <2>3
    <3>2. /\ T[i] = S[i + 1] /\ T[j] = S[j + 1]
          /\ i + 1 \in DOMAIN S /\ j + 1 \in DOMAIN S
          /\ p \in DOMAIN S[i + 1] /\ q \in DOMAIN S[j + 1]
      BY <3>1
    <3>3. CASE i < j
      <4>1. i + 1 < j + 1
        BY <3>3
      <4>2. S[i + 1][p] < S[j + 1][q]
        BY <4>1, <3>2, OrderedAcross
      <4> QED
        BY <4>2, <3>2
    <3>4. CASE i = j /\ p < q
      <4>1. S[i + 1][p] < S[i + 1][q]
        BY <3>2, <3>4, OrderedWithin
      <4> QED
        BY <4>1, <3>2, <3>4
    <3> QED
      BY <3>3, <3>4
  <2> QED
    BY <2>1, <2>2, <2>3
<1>2. \A x : x \in AllLines(T) <=> x \in AllLines(S)
  <2> TAKE x
  <2>1. ASSUME NEW i \in 1 .. n - 1, NEW p \in DOMAIN T[i], x = T[i][p]
        PROVE  x \in AllLines(S)
    <3>1. CASE i # 1
      <4>1. T[i] = S[i + 1] /\ i + 1 \in 1 .. n
        BY <3>1
      <4> QED
        BY <4>1, <2>1, InLines
    <3>2. CASE i = 1 /\ p <= m
      <4>1. x = S[1][p] /\ p \in DOMAIN S[1] /\ 1 \in DOMAIN S
        BY <3>2, <2>1
      <4> QED
        BY <4>1, InLines
    <3>3. CASE i = 1 /\ p > m
      <4>1. x = S[2][p - m] /\ p - m \in DOMAIN S[2] /\ 2 \in DOMAIN S
        BY <3>3, <2>1
      <4> QED
        BY <4>1, InLines
    <3> QED
      BY <3>1, <3>2, <3>3
  <2>2. ASSUME NEW i \in 1 .. n, NEW p \in DOMAIN S[i], x = S[i][p]
        PROVE  x \in AllLines(T)
    <3>1. CASE i = 1
      <4>1. x = T[1][p] /\ p \in DOMAIN T[1] /\ 1 \in DOMAIN T
        BY <3>1, <2>2
      <4> QED
        BY <4>1, InLines
    <3>2. CASE i = 2
      <4>1. /\ p \in 1 .. k /\ m + p \in m + 1 .. m + k /\ m + p \in 1 .. m + k
            /\ (m + p) - m = p
        BY <3>2, <2>2
      <4>2. T[1][m + p] = S[2][(m + p) - m]
        BY <4>1
      <4>3. x = T[1][m + p] /\ m + p \in DOMAIN T[1] /\ 1 \in DOMAIN T
        BY <3>2, <2>2, <4>1, <4>2
      <4> QED
        BY <4>3, InLines
    <3>3. CASE i > 2
      <4>1. T[i - 1] = S[i] /\ i - 1 \in 1 .. n - 1
        BY <3>3
      <4> QED
        BY <4>1, <2>2, InLines
    <3>4. n \in Nat
      OBVIOUS
    <3>5. i = 1 \/ i = 2 \/ i > 2
      BY ONLY <3>4, i \in 1 .. n, Thirds
    <3> QED
      BY <3>1, <3>2, <3>3, <3>5
  <2>3. DOMAIN S = 1 .. n /\ DOMAIN T = 1 .. n - 1
    OBVIOUS
  <2> HIDE DEF JoinsFirst
  <2> QED
    BY <2>1, <2>2, <2>3, InLines
<1> QED
  BY <1>1, <1>2

(* d texts are taken away after the first c. *)
Removes(S, T, n, c, d) ==
  /\ n \in Nat
  /\ c \in Nat
  /\ d \in Nat
  /\ c + d <= n
  /\ DOMAIN S = 1 .. n
  /\ DOMAIN T = 1 .. n - d
  /\ \A i \in 1 .. c : T[i] = S[i]
  /\ \A i \in c + 1 .. n - d : T[i] = S[i + d]
  /\ Ordered(S)

LEMMA SomeRemoved ==
  ASSUME NEW S, NEW T, NEW n, NEW c, NEW d, Removes(S, T, n, c, d)
  PROVE  /\ Ordered(T)
         /\ AllLines(S) = AllLines(T) \cup UNION {LinesOf(S[i]) : i \in c + 1 .. c + d}
<1> USE DEF Removes
<1> DEFINE Old(i) == IF i <= c THEN i ELSE i + d
<1>1. \A i \in 1 .. n - d : Old(i) \in 1 .. n /\ T[i] = S[Old(i)]
  OBVIOUS
<1>2. \A i, j \in 1 .. n - d : i < j => Old(i) < Old(j)
  OBVIOUS
<1>3. Ordered(T)
  <2> SUFFICES ASSUME NEW i \in 1 .. n - d, NEW j \in 1 .. n - d,
                      NEW p \in DOMAIN T[i], NEW q \in DOMAIN T[j],
                      i < j \/ (i = j /\ p < q)
               PROVE  T[i][p] < T[j][q]
    BY DEF Ordered
  <2> HIDE DEF Old
  <2>1. Old(i) < Old(j) \/ (Old(i) = Old(j) /\ p < q)
    BY <1>2
  <2> QED
    BY <2>1, <1>1 DEF Ordered
<1>4. \A i \in 1 .. n : \/ i \in c + 1 .. c + d
                        \/ \E j \in 1 .. n - d : T[j] = S[i]
  <2> SUFFICES ASSUME NEW i \in 1 .. n, i \notin c + 1 .. c + d
               PROVE  \E j \in 1 .. n - d : T[j] = S[i]
    OBVIOUS
  <2>1. CASE i <= c
    BY <2>1
  <2>2. CASE i > c + d
    <3>1. i - d \in c + 1 .. n - d /\ (i - d) + d = i
      BY <2>2
    <3>2. T[i - d] = S[i]
      BY <3>1
    <3>3. i - d \in 1 .. n - d
      BY <3>1
    <3> QED
      BY <3>2, <3>3
  <2>3. i <= c \/ i > c + d
    OBVIOUS
  <2> QED
    BY <2>1, <2>2, <2>3
<1>5. c + 1 .. c + d \subseteq 1 .. n
  OBVIOUS
<1> HIDE DEF Old
<1>6. \A x : x \in AllLines(S) <=>
               x \in AllLines(T) \cup UNION {LinesOf(S[i]) : i \in c + 1 .. c + d}
  BY <1>1, <1>4, <1>5 DEF AllLines
<1> QED
  BY <1>3, <1>6

(* What Texts consists of. *)
Left  == Len(toWrite) - written
Count == Left + Len(buffers) + 2

Shape ==
  /\ Left \in Nat /\ Len(buffers) \in Nat /\ Len(toWrite) \in Nat
  /\ Count \in Nat /\ Count = Left + Len(buffers) + 2
  /\ DOMAIN Texts = 1 .. Count
  /\ Texts[1] = file
  /\ \A i \in 2 .. Left + 1 : Texts[i] = toWrite[written + (i - 1)].text
  /\ \A i \in Left + 2 .. Count - 1 : Texts[i] = buffers[i - (Left + 1)].text
  /\ Texts[Count] = current.text

(* Where a text can be: in the file, and in front of or behind the lth of  *)
(* those behind it.                                                        *)
LEMMA Places ==
  \A c, l \in Nat : \A i \in 1 .. c :
    \/ i = 1 \/ i \in 2 .. l + 1
    \/ i \in l + 2 .. c - 1 \/ i = c
  OBVIOUS

LEMMA Between ==
  \A c, l \in Nat : \A i \in 2 .. c - 1 :
    i \in 2 .. l \/ i \in l + 1 .. c - 2 \/ i = c - 1
  OBVIOUS

LEMMA TextsShape == Inv => Shape
<1> SUFFICES ASSUME Inv PROVE Shape
  OBVIOUS
<1>1. /\ toWrite \in Seq(Buffers) /\ buffers \in Seq(Buffers) /\ current \in Buffers
      /\ written \in Nat
  BY DEF Inv, TypeOK
<1>2. Len(toWrite) \in Nat /\ Len(buffers) \in Nat /\ written <= Len(toWrite)
  BY <1>1 DEF Inv, TypeOK, SpareInv, Looping
<1>3. Left \in Nat
  BY <1>1, <1>2 DEF Left
<1>4. /\ Unwritten \in Seq(Buffers)
      /\ Len(Unwritten) = Left
      /\ \A i \in 1 .. Left : Unwritten[i] = toWrite[written + i]
  BY <1>1, <1>2 DEF Unwritten, Left
<1>5. /\ Unwritten \o buffers \in Seq(Buffers)
      /\ Len(Unwritten \o buffers) = Left + Len(buffers)
      /\ \A i \in 1 .. Left : (Unwritten \o buffers)[i] = toWrite[written + i]
      /\ \A i \in 1 .. Len(buffers) : (Unwritten \o buffers)[Left + i] = buffers[i]
  <2>1. /\ Unwritten \o buffers \in Seq(Buffers)
        /\ Len(Unwritten \o buffers) = Left + Len(buffers)
        /\ \A i \in 1 .. Left + Len(buffers) :
             (Unwritten \o buffers)[i] = IF i <= Left THEN Unwritten[i] ELSE buffers[i - Left]
    BY <1>1, <1>4, ConcatProperties
  <2> QED
    BY <2>1, <1>2, <1>3, <1>4
<1>6. /\ InMemory \in Seq(Buffers)
      /\ Len(InMemory) = Left + Len(buffers) + 1
      /\ \A i \in 1 .. Left : InMemory[i] = toWrite[written + i]
      /\ \A i \in 1 .. Len(buffers) : InMemory[Left + i] = buffers[i]
      /\ InMemory[Left + Len(buffers) + 1] = current
  <2> DEFINE U == Unwritten \o buffers
             m == Left + Len(buffers)
  <2>1. U \in Seq(Buffers) /\ Len(U) = m /\ m \in Nat
    BY <1>5, <1>3, <1>2
  <2>2. InMemory = U \o <<current>>
    BY DEF InMemory
  <2>3. /\ \A i \in 1 .. Left : U[i] = toWrite[written + i] /\ i \in 1 .. m
        /\ \A i \in 1 .. Len(buffers) : U[Left + i] = buffers[i] /\ Left + i \in 1 .. m
    BY <1>5, <1>3, <1>2
  <2> HIDE DEF U
  <2>4. /\ U \o <<current>> \in Seq(Buffers)
        /\ Len(U \o <<current>>) = m + 1
        /\ \A i \in 1 .. m : (U \o <<current>>)[i] = U[i]
        /\ (U \o <<current>>)[m + 1] = current
    BY <2>1, <1>1
  <2> QED
    BY <2>2, <2>3, <2>4
<1>7. DOMAIN InMemory = 1 .. Count - 1 /\ Count \in Nat
  BY <1>6, <1>3, <1>2 DEF Count
<1> DEFINE R == [i \in DOMAIN InMemory |-> InMemory[i].text]
<1>8. R \in Seq(Seq(Nat)) /\ Len(R) = Count - 1 /\ DOMAIN R = 1 .. Count - 1
  <2>1. ASSUME NEW i \in 1 .. Count - 1 PROVE InMemory[i].text \in Seq(Nat)
    <3>1. InMemory[i] \in Buffers
      BY <1>6, <1>7, ElementOfSeq
    <3> QED
      BY <3>1 DEF Buffers
  <2>2. R \in [1 .. Count - 1 -> Seq(Nat)]
    BY <2>1, <1>7
  <2>3. Count - 1 \in Nat
    BY <1>3, <1>2 DEF Count
  <2> HIDE DEF R
  <2> QED
    BY <2>2, <2>3
<1>9. file \in Seq(Nat)
  BY DEF Inv, TypeOK
<1>10. Texts = <<file>> \o R
  BY DEF Texts
<1>11. \A i \in 1 .. Count - 1 : R[i] = InMemory[i].text
  BY <1>7
<1> HIDE DEF R
<1>12. /\ DOMAIN Texts = 1 .. Count
       /\ Texts[1] = file
       /\ \A i \in 1 .. Count - 1 : Texts[i + 1] = R[i]
  BY <1>7, <1>8, <1>9, <1>10
<1>13. ASSUME NEW i \in 2 .. Left + 1
       PROVE  Texts[i] = toWrite[written + (i - 1)].text
  <2> DEFINE j == i - 1
  <2>1. j \in 1 .. Count - 1 /\ j \in 1 .. Left /\ j + 1 = i
    BY <1>3, <1>2 DEF Count
  <2> HIDE DEF j
  <2>2. Texts[j + 1] = toWrite[written + j].text
    BY <2>1, <1>12, <1>11, <1>6
  <2> QED
    BY <2>1, <2>2 DEF j
<1>14. ASSUME NEW i \in Left + 2 .. Count - 1
       PROVE  Texts[i] = buffers[i - (Left + 1)].text
  <2> DEFINE j == i - (Left + 1)
  <2>1. Left + j \in 1 .. Count - 1 /\ j \in 1 .. Len(buffers) /\ (Left + j) + 1 = i
    BY <1>3, <1>2 DEF Count
  <2> HIDE DEF j
  <2>2. Texts[(Left + j) + 1] = buffers[j].text
    BY <2>1, <1>12, <1>11, <1>6
  <2> QED
    BY <2>1, <2>2 DEF j
<1>15. Texts[Count] = current.text
  <2>1. Count - 1 \in 1 .. Count - 1 /\ (Count - 1) + 1 = Count /\ Count - 1 = Left + Len(buffers) + 1
    BY <1>3, <1>2 DEF Count
  <2> QED
    BY <2>1, <1>12, <1>11, <1>6
<1> QED
  BY <1>2, <1>3, <1>7, <1>12, <1>13, <1>14, <1>15 DEF Shape, Count

LEMMA TextsShapeNext == Inv' => Shape'
  BY TextsShape, PTL

(* A step that leaves the texts as they are. *)
LEMMA LinesAccounted ==
  ASSUME InOrder, NoneLost, Texts' = Texts, dropped' = dropped, appended' = appended
  PROVE  InOrder' /\ NoneLost'
  BY DEF InOrder, NoneLost

LEMMA LinesAre ==
  /\ InOrder <=> Ordered(Texts)
  /\ NoneLost <=> dropped \cup AllLines(Texts) = 1 .. appended
  BY DEF InOrder, NoneLost, Ordered, AllLines

LEMMA LinesAreNext ==
  /\ InOrder' <=> Ordered(Texts')
  /\ NoneLost' <=> dropped' \cup AllLines(Texts') = 1 .. appended'
  BY DEF InOrder, NoneLost, Ordered, AllLines

(* The text of a buffer that a line is put into. *)
LEMMA PutText ==
  ASSUME NEW b \in Buffers, NEW l \in Nat, NEW k \in Nat, Avail(b) > k
  PROVE  /\ Len(b.text) \in Nat
         /\ DOMAIN b.text = 1 .. Len(b.text)
         /\ DOMAIN Put(b, l, k).text = 1 .. Len(b.text) + 1
         /\ \A p \in 1 .. Len(b.text) : Put(b, l, k).text[p] = b.text[p]
         /\ Put(b, l, k).text[Len(b.text) + 1] = l
<1>1. b.text \in Seq(Nat)
  BY DEF Buffers
<1>2. Put(b, l, k).text = Append(b.text, l)
  BY DEF Put
<1> QED
  BY <1>1, <1>2

LEMMA AppendLines ==
  ASSUME Inv, Inv', InOrder, NoneLost, NEW k \in Lengths, append(k)
  PROVE  InOrder' /\ NoneLost'
<1>1. Shape /\ Shape'
  BY TextsShape, TextsShapeNext
<1>2. /\ appended \in Nat /\ k \in Nat /\ current \in Buffers
      /\ buffers \in Seq(Buffers) /\ next \in {Null, Empty}
      /\ Avail(Empty) > k /\ Empty \in Buffers
  BY AsyncLoggingAssumption, BufferFacts DEF Inv, TypeOK, SpareInv, Avail, Empty
<1>3. /\ appended' = appended + 1 /\ dropped' = dropped /\ file' = file
      /\ toWrite' = toWrite /\ written' = written /\ Left' = Left
  BY DEF append, local, output, Left
<1>4. Count \in Nat /\ Count > 0
  BY <1>1 DEF Shape
<1>5. \A x \in AllLines(Texts) : x \in Nat /\ x <= appended
  BY LinesAre, <1>2
<1>6. Ordered(Texts) /\ dropped \cup AllLines(Texts) = 1 .. appended
  BY LinesAre
<1>7. SUFFICES Ordered(Texts') /\ AllLines(Texts') = AllLines(Texts) \cup {appended + 1}
  BY <1>2, <1>3, <1>6, LinesAreNext
<1>8. CASE ~ Full(k)
  <2>1. /\ current' = Put(current, appended + 1, k)
        /\ buffers' = buffers
        /\ Avail(current) > k
    BY <1>8 DEF append, Full
  <2>2. Count' = Count
    BY <2>1, <1>3 DEF Count
  <2>3. /\ DOMAIN Texts = 1 .. Count /\ DOMAIN Texts' = 1 .. Count
        /\ Texts[Count] = current.text /\ Texts'[Count] = current'.text
    BY <1>1, <2>2 DEF Shape
  <2>4. ASSUME NEW i \in 1 .. Count - 1 PROVE Texts'[i] = Texts[i]
    <3>1. CASE i = 1
      BY <3>1, <1>1, <1>3 DEF Shape
    <3>2. CASE i \in 2 .. Left + 1
      BY <3>2, <1>1, <1>3 DEF Shape
    <3>3. CASE i \in Left + 2 .. Count - 1
      BY <3>3, <1>1, <1>3, <2>1, <2>2 DEF Shape
    <3>4. Left \in Nat /\ i \in 1 .. Count /\ i # Count
      BY <1>1, <1>4 DEF Shape
    <3> QED
      BY <3>1, <3>2, <3>3, <3>4, <1>4, Places
  <2>5. DOMAIN Texts[Count] = 1 .. Len(current.text)
    BY <2>3, <1>2, <2>1, PutText
  <2>6. /\ DOMAIN Texts'[Count] = 1 .. Len(current.text) + 1
        /\ \A p \in 1 .. Len(current.text) : Texts'[Count][p] = Texts[Count][p]
        /\ Texts'[Count][Len(current.text) + 1] = appended + 1
        /\ Len(current.text) \in Nat
    BY <2>1, <2>3, <1>2, PutText
  <2>7. AddsLine(Texts, Texts', Count, Len(current.text), appended)
    BY <2>3, <2>4, <2>5, <2>6, <1>2, <1>4, <1>5, <1>6 DEF AddsLine
  <2> QED
    BY <2>7, LineAdded
<1>9. CASE Full(k)
  <2>1. /\ buffers' = Append(buffers, current)
        /\ current' = Put(Empty, appended + 1, k)
    BY <1>9, <1>2 DEF append
  <2>2. Len(buffers') = Len(buffers) + 1 /\ Count' = Count + 1
    BY <1>1, <1>2, <1>3, <2>1, QueueFacts DEF Count, Shape
  <2> DEFINE M == [i \in 1 .. Count + 1 |-> IF i = Count + 1 THEN <<>> ELSE Texts[i]]
  <2>3. /\ DOMAIN M = 1 .. Count + 1 /\ DOMAIN M[Count + 1] = {}
        /\ \A i \in 1 .. Count : M[i] = Texts[i]
    BY <1>4
  <2> HIDE DEF M
  <2>4. Ordered(M) /\ AllLines(M) = AllLines(Texts)
    <3>1. DOMAIN Texts = 1 .. Count
      BY <1>1 DEF Shape
    <3>2. AddsEmpty(Texts, M, Count)
      BY <3>1, <2>3, <1>4, <1>6 DEF AddsEmpty
    <3> QED
      BY <3>2, EmptyAdded
  <2>5. DOMAIN Texts' = 1 .. Count + 1 /\ Texts'[Count + 1] = current'.text
    BY <1>1, <2>2 DEF Shape
  <2>6. ASSUME NEW i \in 1 .. Count PROVE Texts'[i] = M[i]
    <3>1. CASE i = 1
      BY <3>1, <1>1, <1>3, <2>3 DEF Shape
    <3>2. CASE i \in 2 .. Left + 1
      BY <3>2, <1>1, <1>3, <2>3 DEF Shape
    <3>3. CASE i \in Left + 2 .. Count - 1
      <4> DEFINE j == i - (Left + 1)
      <4>1. j \in 1 .. Len(buffers) /\ i \in Left + 2 .. (Count + 1) - 1
        BY <3>3, <1>1 DEF Shape
      <4>2. Texts'[i] = buffers'[j].text /\ Texts[i] = buffers[j].text
        BY <3>3, <4>1, <1>1, <1>3, <2>2 DEF Shape
      <4>3. buffers'[j] = buffers[j]
        BY <4>1, <2>1, <1>2
      <4> QED
        BY <4>2, <4>3, <2>3
    <3>4. CASE i = Count
      <4> DEFINE j == i - (Left + 1)
      <4>1. j = Len(buffers) + 1 /\ i \in Left + 2 .. (Count + 1) - 1
        BY <3>4, <1>1 DEF Shape
      <4>2. Texts'[i] = buffers'[j].text
        BY <4>1, <1>1, <1>3, <2>2 DEF Shape
      <4>3. buffers'[j] = current
        BY <4>1, <2>1, <1>2
      <4>4. Texts[i] = current.text
        BY <3>4, <1>1 DEF Shape
      <4> QED
        BY <4>2, <4>3, <4>4, <2>3
    <3>5. Left \in Nat
      BY <1>1 DEF Shape
    <3> QED
      BY <3>1, <3>2, <3>3, <3>4, <3>5, <1>4, Places
  <2>7. Len(Empty.text) = 0 /\ appended + 1 \in Nat
    BY <1>2 DEF Empty
  <2>8. /\ DOMAIN Texts'[Count + 1] = 1 .. 0 + 1
        /\ Texts'[Count + 1][0 + 1] = appended + 1
    BY <2>1, <2>5, <2>7, <1>2, PutText
  <2>9. /\ Count + 1 \in Nat /\ Count + 1 > 0 /\ DOMAIN M[Count + 1] = 1 .. 0
        /\ \A i \in 1 .. (Count + 1) - 1 : Texts'[i] = M[i]
        /\ \A p \in 1 .. 0 : Texts'[Count + 1][p] = M[Count + 1][p]
    BY <1>4, <2>3, <2>6
  <2>10. \A x \in AllLines(M) : x \in Nat /\ x <= appended
    BY <2>4, <1>5
  <2>11. AddsLine(M, Texts', Count + 1, 0, appended)
    BY <2>3, <2>4, <2>5, <2>8, <2>9, <2>10, <1>2 DEF AddsLine
  <2> QED
    BY <2>4, <2>11, LineAdded
<1> QED
  BY <1>8, <1>9

LEMMA SwapLines ==
  ASSUME Inv, Inv', InOrder, NoneLost, Looping, Swap,
         UNCHANGED <<running, owner, appended, output>>
  PROVE  InOrder' /\ NoneLost'
<1>1. Shape /\ Shape'
  BY TextsShape, TextsShapeNext
<1>2. /\ current \in Buffers /\ buffers \in Seq(Buffers)
      /\ spare1 = Empty /\ toWrite = <<>> /\ written = 0
  BY DEF Inv, TypeOK, SpareInv
<1>3. /\ toWrite' = Append(buffers, current) /\ buffers' = <<>> /\ current' = Empty
      /\ written' = 0 /\ appended' = appended /\ dropped' = dropped /\ file' = file
  BY <1>2 DEF Swap, output
<1>4. /\ Left = 0 /\ Count = Len(buffers) + 2
      /\ Left' = Len(buffers) + 1 /\ Count' = Count + 1
  BY <1>1, <1>2, <1>3, QueueFacts DEF Left, Count, Shape
<1>5. DOMAIN Texts'[Count + 1] = {}
  BY <1>1, <1>3, <1>4 DEF Shape, Empty
<1>6. ASSUME NEW i \in 1 .. Count PROVE Texts'[i] = Texts[i]
  <2>1. CASE i = 1
    BY <2>1, <1>1, <1>3 DEF Shape
  <2>2. CASE i \in 2 .. Count - 1
    <3>1. Texts'[i] = toWrite'[i - 1].text /\ Texts[i] = buffers[i - 1].text
      BY <2>2, <1>1, <1>2, <1>3, <1>4 DEF Shape
    <3>2. toWrite'[i - 1] = buffers[i - 1]
      BY <2>2, <1>2, <1>3, <1>4
    <3> QED
      BY <3>1, <3>2
  <2>3. CASE i = Count
    <3>1. Texts'[i] = toWrite'[i - 1].text /\ Texts[i] = current.text
      BY <2>3, <1>1, <1>2, <1>3, <1>4 DEF Shape
    <3>2. toWrite'[i - 1] = current
      BY <2>3, <1>2, <1>3, <1>4
    <3> QED
      BY <3>1, <3>2
  <2> QED
    BY <2>1, <2>2, <2>3, <1>1 DEF Shape
<1>7. AddsEmpty(Texts, Texts', Count)
  BY <1>1, <1>4, <1>5, <1>6, LinesAre DEF AddsEmpty, Shape
<1>8. Ordered(Texts') /\ AllLines(Texts') = AllLines(Texts)
  BY <1>7, EmptyAdded
<1> QED
  BY <1>3, <1>8, LinesAre, LinesAreNext

LEMMA TrimLines ==
  ASSUME Inv, Inv', InOrder, NoneLost, Trim
  PROVE  InOrder' /\ NoneLost'
<1>1. Shape /\ Shape'
  BY TextsShape, TextsShapeNext
<1>2. /\ toWrite \in Seq(Buffers) /\ written = 0 /\ Len(toWrite) \in Nat
      /\ MaxBehind \in Nat /\ MaxBehind >= 2
  BY <1>1, AsyncLoggingAssumption DEF Trim, Inv, TypeOK, SpareInv, Shape
<1>3. /\ written' = written /\ appended' = appended /\ file' = file
      /\ buffers' = buffers /\ current' = current
  BY DEF Trim, memory
<1>4. CASE Len(toWrite) <= MaxBehind
  <2>1. dropped' = dropped /\ toWrite' = toWrite
    BY <1>4, <1>2 DEF Trim
  <2>2. Texts' = Texts
    BY <2>1, <1>3 DEF Texts, InMemory, Unwritten
  <2> QED
    BY <2>1, <2>2, <1>3, LinesAccounted
<1>5. CASE Len(toWrite) > MaxBehind
  <2> DEFINE d == Len(toWrite) - 2
  <2>1. /\ toWrite' = SubSeq(toWrite, 1, 2)
        /\ dropped' = dropped \cup
             UNION {LinesOf(toWrite[i].text) : i \in 3 .. Len(toWrite)}
    BY <1>5, <1>2 DEF Trim
  <2>2. /\ Len(toWrite') = 2 /\ toWrite'[1] = toWrite[1] /\ toWrite'[2] = toWrite[2]
    BY <2>1, <1>2, <1>5
  <2>3. /\ d \in Nat /\ Left = d + 2 /\ Left' = 2
        /\ Count = d + Len(buffers) + 4 /\ Count' = Count - d
        /\ Len(buffers) \in Nat
    BY <2>2, <1>1, <1>2, <1>3, <1>5 DEF Left, Count, Shape
  <2> HIDE DEF d
  <2>4. ASSUME NEW i \in 1 .. 3 PROVE Texts'[i] = Texts[i]
    <3>1. CASE i = 1
      BY <3>1, <1>1, <1>3 DEF Shape
    <3>2. CASE i \in 2 .. 3
      <4>1. i \in 2 .. Left + 1 /\ i \in 2 .. Left' + 1
        BY <3>2, <2>3
      <4>2. /\ Texts'[i] = toWrite'[written' + (i - 1)].text
            /\ Texts[i] = toWrite[written + (i - 1)].text
        BY <4>1, <1>1 DEF Shape
      <4>3. toWrite'[written' + (i - 1)] = toWrite[written + (i - 1)]
        BY <3>2, <1>2, <1>3, <2>2
      <4> QED
        BY <4>2, <4>3
    <3> QED
      BY <3>1, <3>2
  <2>5. ASSUME NEW i \in 3 + 1 .. Count - d PROVE Texts'[i] = Texts[i + d]
    <3>1. CASE i = Count - d
      BY <3>1, <1>1, <1>3, <2>3 DEF Shape
    <3>2. CASE i < Count - d
      <4>1. i \in Left' + 2 .. Count' - 1 /\ i + d \in Left + 2 .. Count - 1
        BY <3>2, <2>3
      <4>2. /\ Texts'[i] = buffers[i - (Left' + 1)].text
            /\ Texts[i + d] = buffers[(i + d) - (Left + 1)].text
        BY <4>1, <1>1, <1>3 DEF Shape
      <4>3. i - (Left' + 1) = (i + d) - (Left + 1)
        BY <2>3
      <4> QED
        BY <4>2, <4>3
    <3> QED
      BY <3>1, <3>2, <2>3
  <2>6. /\ Count \in Nat /\ 3 \in Nat /\ 3 + d <= Count
        /\ DOMAIN Texts = 1 .. Count /\ DOMAIN Texts' = 1 .. Count - d
    <3>1. Count \in Nat /\ DOMAIN Texts = 1 .. Count /\ DOMAIN Texts' = 1 .. Count'
      BY <1>1 DEF Shape
    <3> QED
      BY <3>1, <2>3
  <2>7. Removes(Texts, Texts', Count, 3, d)
    BY <2>6, <2>3, <2>4, <2>5, LinesAre DEF Removes
  <2>8. /\ Ordered(Texts')
        /\ AllLines(Texts) =
             AllLines(Texts') \cup UNION {LinesOf(Texts[i]) : i \in 3 + 1 .. 3 + d}
    BY <2>7, SomeRemoved
  <2>9. \A i \in 3 .. Len(toWrite) : i + 1 \in 3 + 1 .. 3 + d /\ Texts[i + 1] = toWrite[i].text
    BY <1>1, <1>2, <2>3 DEF Shape, d
  <2>10. \A i \in 3 + 1 .. 3 + d : i - 1 \in 3 .. Len(toWrite) /\ Texts[i] = toWrite[i - 1].text
    BY <1>1, <1>2, <2>3 DEF Shape, d
  <2>11. UNION {LinesOf(Texts[i]) : i \in 3 + 1 .. 3 + d}
         = UNION {LinesOf(toWrite[i].text) : i \in 3 .. Len(toWrite)}
    BY <2>9, <2>10
  <2> QED
    BY <2>1, <2>8, <2>11, <1>3, LinesAre, LinesAreNext
<1> QED
  BY <1>4, <1>5, <1>2

LEMMA WriteLines ==
  ASSUME Inv, Inv', InOrder, NoneLost, Write
  PROVE  InOrder' /\ NoneLost'
<1>1. Shape /\ Shape'
  BY TextsShape, TextsShapeNext
<1> DEFINE t == toWrite[written + 1].text
           m == Len(file)
           k == Len(t)
<1>2. /\ toWrite \in Seq(Buffers) /\ written \in Nat /\ written < Len(toWrite)
      /\ file \in Seq(Nat) /\ Len(toWrite) \in Nat
  BY <1>1 DEF Write, Inv, TypeOK, Shape
<1>3. t \in Seq(Nat)
  <2>1. toWrite[written + 1] \in Buffers
    BY <1>2, ElementOfSeq
  <2> QED
    BY <2>1 DEF Buffers
<1>4. /\ file' = file \o t /\ written' = written + 1 /\ toWrite' = toWrite
      /\ buffers' = buffers /\ current' = current
      /\ appended' = appended /\ dropped' = dropped
  BY DEF Write, memory
<1> HIDE DEF t
<1>5. Left > 0 /\ Left' = Left - 1 /\ Count' = Count - 1 /\ Count >= 3 /\ Count \in Nat
  BY <1>1, <1>2, <1>4 DEF Left, Count, Shape
<1>6. /\ m \in Nat /\ k \in Nat
      /\ DOMAIN file = 1 .. m /\ DOMAIN t = 1 .. k /\ DOMAIN file' = 1 .. m + k
      /\ \A p \in 1 .. m : file'[p] = file[p]
      /\ \A p \in m + 1 .. m + k : file'[p] = t[p - m]
  BY <1>2, <1>3, <1>4
<1> HIDE DEF m, k
<1>7. Texts[1] = file /\ Texts[2] = t /\ Texts'[1] = file'
  BY <1>1, <1>2, <1>5 DEF Shape, t
<1>8. Left \in Nat
  BY <1>1 DEF Shape
<1>9. ASSUME NEW i \in 2 .. Count - 1 PROVE Texts'[i] = Texts[i + 1]
  <2>1. CASE i \in 2 .. Left
    <3>1. /\ Texts'[i] = toWrite[written' + (i - 1)].text
          /\ Texts[i + 1] = toWrite[written + ((i + 1) - 1)].text
      <4>1. i \in 2 .. Left' + 1 /\ i + 1 \in 2 .. Left + 1
        BY <2>1, <1>5, <1>8
      <4> QED
        BY <4>1, <1>1, <1>4 DEF Shape
    <3>2. written' + (i - 1) = written + ((i + 1) - 1)
      BY <1>2, <1>4
    <3> QED
      BY <3>1, <3>2
  <2>2. CASE i \in Left + 1 .. Count - 2
    <3>1. /\ Texts'[i] = buffers[i - (Left' + 1)].text
          /\ Texts[i + 1] = buffers[(i + 1) - (Left + 1)].text
      BY <2>2, <1>1, <1>4, <1>5 DEF Shape
    <3>2. i - (Left' + 1) = (i + 1) - (Left + 1)
      BY <1>5, <1>8
    <3> QED
      BY <3>1, <3>2
  <2>3. CASE i = Count - 1
    <3>1. Texts'[Count'] = current'.text /\ Texts[Count] = current.text
      BY <1>1 DEF Shape
    <3>2. Count' = i /\ Count = i + 1
      BY <2>3, <1>5
    <3> QED
      BY <3>1, <3>2, <1>4
  <2>4. \/ i \in 2 .. Left
        \/ i \in Left + 1 .. Count - 2 \/ i = Count - 1
    BY <1>5, <1>8, Between
  <2> QED
    BY <2>1, <2>2, <2>3, <2>4
<1>10. JoinsFirst(Texts, Texts', Count, m, k)
  <2>1. /\ Count >= 2 /\ DOMAIN Texts = 1 .. Count /\ DOMAIN Texts' = 1 .. Count - 1
    BY <1>1, <1>5 DEF Shape
  <2>2. /\ DOMAIN Texts[1] = 1 .. m /\ DOMAIN Texts[2] = 1 .. k
        /\ DOMAIN Texts'[1] = 1 .. m + k
        /\ \A p \in 1 .. m : Texts'[1][p] = Texts[1][p]
        /\ \A p \in m + 1 .. m + k : Texts'[1][p] = Texts[2][p - m]
    BY <1>6, <1>7
  <2>3. Ordered(Texts)
    BY LinesAre
  <2> QED
    BY <1>5, <1>6, <1>9, <2>1, <2>2, <2>3 DEF JoinsFirst
<1>11. Ordered(Texts') /\ AllLines(Texts') = AllLines(Texts)
  BY <1>10, FirstJoined
<1> QED
  BY <1>4, <1>11, LinesAre, LinesAreNext

LEMMA RefillLines ==
  ASSUME Inv, Inv', InOrder, NoneLost, Refill
  PROVE  InOrder' /\ NoneLost'
<1>1. /\ toWrite \in Seq(Buffers) /\ written = Len(toWrite) /\ toWrite' = <<>> /\ written' = 0
      /\ file' = file /\ buffers' = buffers /\ current' = current
      /\ appended' = appended /\ dropped' = dropped
  BY DEF Inv, TypeOK, Refill, memory, output
<1>2. Unwritten = <<>> /\ Unwritten' = <<>>
  BY <1>1 DEF Unwritten
<1>3. Texts' = Texts
  BY <1>1, <1>2 DEF Texts, InMemory
<1> QED
  BY <1>1, <1>3, LinesAccounted

(* The other steps do not touch the lines. *)
LEMMA OtherLines ==
  ASSUME InOrder, NoneLost,
         UNCHANGED <<memory, toWrite, written, appended, output>>
  PROVE  InOrder' /\ NoneLost'
<1>1. Texts' = Texts /\ appended' = appended /\ dropped' = dropped
  BY DEF memory, output, Texts, InMemory, Unwritten
<1> QED
  BY <1>1, LinesAccounted

LEMMA NextLines == Inv /\ Inv' /\ InOrder /\ NoneLost /\ [Next]_vars => InOrder' /\ NoneLost'
<1> SUFFICES ASSUME Inv, Inv', InOrder, NoneLost, [Next]_vars
             PROVE  InOrder' /\ NoneLost'
  OBVIOUS
<1> DEFINE Still == UNCHANGED <<memory, toWrite, written, appended, output>>
<1>1. CASE \E k \in Lengths : append(k)
  BY <1>1, AppendLines
<1>2. CASE start \/ stop \/ StopNotify \/ Join \/ Begin \/ Top \/ Sleep \/ Spurious
  <2>1. Still
    BY <1>2 DEF start, stop, StopNotify, Join, Begin, Top, Sleep, Spurious,
                memory, local, output
  <2> QED
    BY <2>1, OtherLines
<1>3. CASE Lock
  <2>1. CASE Swap
    BY <1>3, <2>1, SwapLines DEF Lock, Looping
  <2>2. CASE Still
    BY <2>2, OtherLines
  <2> QED
    BY <1>3, <2>1, <2>2 DEF Lock, local
<1>4. CASE Wake
  <2>1. CASE Swap
    BY <1>4, <2>1, SwapLines DEF Wake, Looping
  <2>2. CASE Still
    BY <2>2, OtherLines
  <2> QED
    BY <1>4, <2>1, <2>2 DEF Wake, local
<1>5. CASE TimeOut
  BY <1>5, SwapLines DEF TimeOut, Looping
<1>6. CASE Trim
  BY <1>6, TrimLines
<1>7. CASE Write
  BY <1>7, WriteLines
<1>8. CASE Refill
  BY <1>8, RefillLines
<1>9. CASE UNCHANGED vars
  <2>1. Still
    BY <1>9 DEF vars, memory, local, output
  <2> QED
    BY <2>1, OtherLines
<1> QED
  BY <1>1, <1>2, <1>3, <1>4, <1>5, <1>6, <1>7, <1>8, <1>9 DEF Next, Writer

LEMMA InitLines == Init => InOrder /\ NoneLost
<1> SUFFICES ASSUME Init PROVE InOrder /\ NoneLost
  OBVIOUS
<1>1. Shape
  BY InitInv, TextsShape
<1>2. Count = 2 /\ file = <<>> /\ current.text = <<>> /\ dropped = {} /\ appended = 0
  BY DEF Init, Count, Left, Empty
<1>3. DOMAIN Texts = 1 .. 2 /\ Texts[1] = <<>> /\ Texts[2] = <<>>
  BY <1>1, <1>2 DEF Shape
<1>4. \A i \in DOMAIN Texts : DOMAIN Texts[i] = {}
  BY <1>3
<1>5. Ordered(Texts)
  BY <1>4 DEF Ordered
<1>6. \A x : x \notin AllLines(Texts)
  BY <1>4, InLines
<1> QED
  BY <1>2, <1>5, <1>6, LinesAre

LEMMA LinesHold == Spec => [](InOrder /\ NoneLost)
  BY InitLines, NextLines, InvHolds, PTL DEF Spec

(* What append numbers reaches the file in that order, and no line twice,  *)
(* however the writer swaps, waits, drops and writes its buffers.          *)
THEOREM LinesInOrder == Spec => []InOrder
  BY LinesHold, PTL

(* Every line that was appended is in a buffer, in the file, or in one of  *)
(* the buffers that a writer too far behind threw away.                    *)
THEOREM NoLineLost == Spec => []NoneLost
  BY LinesHold, PTL

-----------------------------------------------------------------------------
(* The file below it, and the two together.                                *)

Pending(f) == IF f = NoFile THEN <<>> ELSE f.pending

Rising(s)   == \A i, j \in DOMAIN s : i < j => s[i] < s[j]
Below(s, t) == \A i \in DOMAIN s, j \in DOMAIN t : s[i] < t[j]

(* The argument: one file has everything, and what is in its text, in the  *)
(* buffer of the file to be closed and in the buffer of the open one is in *)
(* order, in this order; together with what is lost these are all units.   *)
FilesInv ==
  /\ \A n \in Names : n # Base => disk[n] = <<>>
  /\ fp # NoFile => fp.name = Base
  /\ old # NoFile => old.name = Base
  /\ turn = "down" <=> fp = NoFile
  /\ old # NoFile => turn = "write"
  /\ turn = "idle" => fp.pending = <<>>

Chain(a, b, c) ==
  /\ Rising(a) /\ Rising(b) /\ Rising(c)
  /\ Below(a, b) /\ Below(a, c) /\ Below(b, c)

All(a, b, c) == Units(a) \cup Units(b) \cup Units(c)

UnitsInv ==
  /\ Chain(disk[Base], Pending(old), Pending(fp))
  /\ lost \cup All(disk[Base], Pending(old), Pending(fp)) = 1 .. units

FileInv == FileTypeOK /\ FilesInv /\ UnitsInv

-----------------------------------------------------------------------------
(* Texts. *)

LEMMA InUnits ==
  ASSUME NEW s, NEW x
  PROVE  x \in Units(s) <=> \E i \in DOMAIN s : x = s[i]
  BY DEF Units

(* What two texts have between them, put together. *)
LEMMA Joined ==
  ASSUME NEW s \in Seq(Nat), NEW t \in Seq(Nat)
  PROVE  /\ s \o t \in Seq(Nat)
         /\ Units(s \o t) = Units(s) \cup Units(t)
         /\ Rising(s) /\ Rising(t) /\ Below(s, t) => Rising(s \o t)
         /\ \A u : Below(s, u) /\ Below(t, u) => Below(s \o t, u)
         /\ \A u : Below(u, s) /\ Below(u, t) => Below(u, s \o t)
<1>1. /\ s \o t \in Seq(Nat) /\ Len(s) \in Nat /\ Len(t) \in Nat
      /\ DOMAIN s = 1 .. Len(s) /\ DOMAIN t = 1 .. Len(t)
      /\ DOMAIN (s \o t) = 1 .. Len(s) + Len(t)
      /\ \A i \in 1 .. Len(s) + Len(t) :
           (s \o t)[i] = IF i <= Len(s) THEN s[i] ELSE t[i - Len(s)]
  BY ConcatProperties, LenProperties
<1> DEFINE r == s \o t
           m == Len(s)
           k == Len(t)
<1>2. /\ \A i \in DOMAIN r : \/ i \in DOMAIN s /\ r[i] = s[i]
                             \/ i > m /\ i - m \in DOMAIN t /\ r[i] = t[i - m]
      /\ \A i \in DOMAIN s : i \in DOMAIN r /\ r[i] = s[i]
      /\ \A i \in DOMAIN t : i + m \in DOMAIN r /\ r[i + m] = t[i]
      /\ DOMAIN r \subseteq Int /\ m \in Int /\ r \in Seq(Nat)
      /\ \A i \in DOMAIN s : i <= m
  BY <1>1
<1> HIDE DEF r, m, k
<1>3. Units(r) = Units(s) \cup Units(t)
  <2>1. \A x \in Units(r) : x \in Units(s) \cup Units(t)
    BY <1>2 DEF Units
  <2>2. \A x \in Units(s) : x \in Units(r)
    BY <1>2 DEF Units
  <2>3. \A x \in Units(t) : x \in Units(r)
    BY <1>2 DEF Units
  <2> QED
    BY <2>1, <2>2, <2>3
<1>4. ASSUME Rising(s), Rising(t), Below(s, t) PROVE Rising(r)
  <2> SUFFICES ASSUME NEW i \in DOMAIN r, NEW j \in DOMAIN r, i < j
               PROVE  r[i] < r[j]
    BY DEF Rising
  <2>1. CASE i \in DOMAIN s /\ r[i] = s[i] /\ j \in DOMAIN s /\ r[j] = s[j]
    BY <1>4, <2>1 DEF Rising
  <2>2. CASE i \in DOMAIN s /\ r[i] = s[i] /\ j - m \in DOMAIN t /\ r[j] = t[j - m]
    BY <1>4, <2>2 DEF Below
  <2>3. CASE i > m /\ i - m \in DOMAIN t /\ r[i] = t[i - m]
    <3>1. j - m \in DOMAIN t /\ r[j] = t[j - m] /\ i - m < j - m
      BY <1>2, <2>3, SMTT(15)
    <3> QED
      BY <1>4, <2>3, <3>1 DEF Rising
  <2> QED
    BY <1>2, <2>1, <2>2, <2>3
<1>5. \A u : Below(s, u) /\ Below(t, u) => Below(r, u)
  BY <1>2 DEF Below
<1>6. \A u : Below(u, s) /\ Below(u, t) => Below(u, r)
  BY <1>2 DEF Below
<1> QED
  BY <1>2, <1>3, <1>4, <1>5, <1>6 DEF r

(* The text r is s from a to b. *)
IsPart(r, s, a, b) ==
  /\ r \in Seq(Nat) /\ DOMAIN r \subseteq Int
  /\ \A i \in DOMAIN r :
       \E p \in DOMAIN s : p = a + (i - 1) /\ p \in a .. b /\ r[i] = s[p]
  /\ \A p \in a .. b : \E i \in DOMAIN r : r[i] = s[p]

LEMMA Part ==
  ASSUME NEW s \in Seq(Nat), NEW a \in Nat, NEW b \in Nat, 1 <= a, b <= Len(s)
  PROVE  IsPart(SubSeq(s, a, b), s, a, b)
<1>1. Len(s) \in Nat /\ DOMAIN s = 1 .. Len(s)
  BY LenProperties
<1>2. /\ SubSeq(s, a, b) = [i \in 1 .. b - a + 1 |-> s[i + a - 1]]
      /\ \A i \in 1 .. b - a + 1 : s[i + a - 1] \in Nat
  BY <1>1
<1>3. SubSeq(s, a, b) \in Seq(Nat)
  BY <1>1
<1> DEFINE r == SubSeq(s, a, b)
<1>4. DOMAIN r = 1 .. b - a + 1 /\ \A i \in 1 .. b - a + 1 : r[i] = s[a + (i - 1)]
  BY <1>2
<1> HIDE DEF r
<1>5. \A i \in DOMAIN r : a + (i - 1) \in DOMAIN s /\ a + (i - 1) \in a .. b
  <2> SUFFICES ASSUME NEW i \in 1 .. b - a + 1
               PROVE  a + (i - 1) \in 1 .. Len(s) /\ a + (i - 1) \in a .. b
    BY <1>1, <1>4
  <2> QED
    BY <1>1, SMTT(15)
<1>6. ASSUME NEW p \in a .. b PROVE \E i \in DOMAIN r : r[i] = s[p]
  <2> DEFINE i == p - a + 1
  <2>1. i \in 1 .. b - a + 1 /\ a + (i - 1) = p
    BY SMTT(15)
  <2> HIDE DEF i
  <2> QED
    BY <2>1, <1>4
<1> QED
  BY <1>3, <1>4, <1>5, <1>6 DEF r, IsPart

LEMMA PartRises ==
  ASSUME NEW s \in Seq(Nat), NEW a \in Nat, NEW b \in Nat, 1 <= a, b <= Len(s)
  PROVE  /\ Rising(s) => Rising(SubSeq(s, a, b))
         /\ \A u : Below(s, u) => Below(SubSeq(s, a, b), u)
         /\ \A u : Below(u, s) => Below(u, SubSeq(s, a, b))
<1> DEFINE r == SubSeq(s, a, b)
<1>1. /\ \A i \in DOMAIN r : \E p \in DOMAIN s : p = a + (i - 1) /\ r[i] = s[p]
      /\ DOMAIN r \subseteq Int
  BY Part DEF IsPart
<1> HIDE DEF r
<1>2. Rising(s) => Rising(r)
  BY <1>1 DEF Rising
<1>3. /\ \A u : Below(s, u) => Below(r, u)
      /\ \A u : Below(u, s) => Below(u, r)
  BY <1>1 DEF Below
<1> QED
  BY <1>2, <1>3 DEF r

LEMMA EmptyText ==
  /\ <<>> \in Seq(Nat) /\ Units(<<>>) = {} /\ Rising(<<>>)
  /\ \A u : Below(<<>>, u) /\ Below(u, <<>>)
  BY EmptySeq DEF Units, Rising, Below

(* A text t cut in three, after i and after j. *)
LEMMA Cut ==
  ASSUME NEW t \in Seq(Nat), NEW j \in 0 .. Len(t), NEW i \in 0 .. j
  PROVE  /\ SubSeq(t, 1, i) \in Seq(Nat)
         /\ SubSeq(t, j + 1, Len(t)) \in Seq(Nat)
         /\ Units(t) = Units(SubSeq(t, 1, i)) \cup Units(SubSeq(t, i + 1, j))
                       \cup Units(SubSeq(t, j + 1, Len(t)))
         /\ Rising(t) => Below(SubSeq(t, 1, i), SubSeq(t, j + 1, Len(t)))
<1>1. Len(t) \in Nat /\ DOMAIN t = 1 .. Len(t)
  BY LenProperties
<1>2. /\ 1 <= 1 /\ i <= Len(t) /\ i \in Nat
      /\ i + 1 \in Nat /\ 1 <= i + 1 /\ j <= Len(t) /\ j \in Nat
      /\ j + 1 \in Nat /\ 1 <= j + 1 /\ Len(t) <= Len(t)
  BY <1>1
<1> DEFINE a == SubSeq(t, 1, i)
           b == SubSeq(t, i + 1, j)
           c == SubSeq(t, j + 1, Len(t))
<1>3. IsPart(a, t, 1, i)
  BY <1>2, Part
<1>4. IsPart(b, t, i + 1, j)
  BY <1>2, Part
<1>5. IsPart(c, t, j + 1, Len(t))
  BY <1>1, <1>2, Part
<1> HIDE DEF a, b, c
<1>6. \A x \in Units(t) : x \in Units(a) \cup Units(b) \cup Units(c)
  <2> SUFFICES ASSUME NEW p \in DOMAIN t
               PROVE  t[p] \in Units(a) \cup Units(b) \cup Units(c)
    BY InUnits
  <2>1. p \in 1 .. i \/ p \in i + 1 .. j \/ p \in j + 1 .. Len(t)
    BY <1>1, <1>2
  <2> QED
    BY <2>1, <1>3, <1>4, <1>5 DEF Units, IsPart
<1>7. /\ Units(a) \subseteq Units(t)
      /\ Units(b) \subseteq Units(t)
      /\ Units(c) \subseteq Units(t)
  BY <1>3, <1>4, <1>5 DEF Units, IsPart
<1>8. ASSUME Rising(t) PROVE Below(a, c)
  <2> SUFFICES ASSUME NEW k \in DOMAIN a, NEW l \in DOMAIN c
               PROVE  a[k] < c[l]
    BY DEF Below
  <2>1. PICK p \in DOMAIN t : p \in 1 .. i /\ a[k] = t[p]
    BY <1>3 DEF IsPart
  <2>2. PICK q \in DOMAIN t : q \in j + 1 .. Len(t) /\ c[l] = t[q]
    BY <1>5 DEF IsPart
  <2>3. p < q
    BY <2>1, <2>2, <1>2
  <2> QED
    BY <2>1, <2>2, <2>3, <1>8 DEF Rising
<1> QED
  BY <1>3, <1>5, <1>6, <1>7, <1>8 DEF a, b, c, IsPart

(* The text t goes on from d: its first part joins d, its second is lost.  *)
Poured(d, t, l, n, i, j) ==
  /\ d \in Seq(Nat) /\ t \in Seq(Nat) /\ n \in Nat
  /\ j \in 0 .. Len(t) /\ i \in 0 .. j
  /\ Rising(d) /\ Rising(t) /\ Below(d, t)
  /\ l \cup Units(d) \cup Units(t) = 1 .. n

Kept(e, p, k, d, t, n) ==
  /\ e \in Seq(Nat) /\ p \in Seq(Nat) /\ k \subseteq Nat
  /\ Rising(e) /\ Rising(p) /\ Below(e, p)
  /\ k \cup Units(e) \cup Units(p) = 1 .. n
  /\ \A u : Below(d, u) /\ Below(t, u) => Below(e, u) /\ Below(p, u)

LEMMA PourKeeps ==
  ASSUME NEW d, NEW t, NEW l, NEW n, NEW i, NEW j, Poured(d, t, l, n, i, j)
  PROVE  Kept(d \o SubSeq(t, 1, i), SubSeq(t, j + 1, Len(t)),
              l \cup Units(SubSeq(t, i + 1, j)), d, t, n)
<1> USE DEF Poured
<1> DEFINE a == SubSeq(t, 1, i)
           p == SubSeq(t, j + 1, Len(t))
           e == d \o a
           k == l \cup Units(SubSeq(t, i + 1, j))
<1>1. /\ a \in Seq(Nat) /\ p \in Seq(Nat)
      /\ Units(t) = Units(a) \cup Units(SubSeq(t, i + 1, j)) \cup Units(p)
      /\ Below(a, p)
  BY Cut
<1>2. Len(t) \in Nat /\ i \in Nat /\ j + 1 \in Nat /\ i <= Len(t) /\ 1 <= j + 1
  BY LenProperties
<1>3. Rising(a) /\ Below(d, a) /\ \A u : Below(t, u) => Below(a, u)
  BY <1>2, PartRises
<1>4. Rising(p) /\ Below(d, p) /\ \A u : Below(t, u) => Below(p, u)
  BY <1>2, PartRises
<1> HIDE DEF a, p, Poured
<1>5. d \in Seq(Nat) /\ Rising(d) /\ l \cup Units(d) \cup Units(t) = 1 .. n
  BY DEF Poured
<1>6. /\ e \in Seq(Nat) /\ Rising(e) /\ Units(e) = Units(d) \cup Units(a)
      /\ Below(e, p)
      /\ \A u : Below(d, u) /\ Below(a, u) => Below(e, u)
  BY <1>1, <1>3, <1>4, <1>5, Joined
<1>7. k \cup Units(e) \cup Units(p) = 1 .. n /\ k \subseteq Nat
  <2> HIDE DEF e
  <2>1. k \cup Units(e) \cup Units(p) = 1 .. n
    BY <1>1, <1>5, <1>6
  <2>2. n \in Nat
    BY DEF Poured
  <2> QED
    BY <2>1, <2>2
<1> HIDE DEF e, k
<1>8. Kept(e, p, k, d, t, n)
  BY <1>1, <1>3, <1>4, <1>6, <1>7 DEF Kept
<1> QED
  BY <1>8 DEF e, p, k, a

(* The units that are appended next. *)
LEMMA NewUnits ==
  ASSUME NEW n \in Nat, NEW k \in Nat, NEW u, u = [i \in 1 .. k |-> n + i]
  PROVE  /\ u \in Seq(Nat) /\ Rising(u) /\ Units(u) = n + 1 .. n + k
         /\ \A s : Units(s) \subseteq 1 .. n => Below(s, u)
<1>1. u \in Seq(Nat) /\ DOMAIN u = 1 .. k /\ \A i \in 1 .. k : u[i] = n + i
  OBVIOUS
<1>2. Rising(u)
  BY <1>1 DEF Rising
<1>3. \A x \in Units(u) : x \in n + 1 .. n + k
  BY <1>1 DEF Units
<1>4. ASSUME NEW x \in n + 1 .. n + k PROVE x \in Units(u)
  <2>1. x - n \in 1 .. k /\ u[x - n] = x
    BY <1>1
  <2> QED
    BY <2>1, <1>1, InUnits
<1>5. ASSUME NEW s, Units(s) \subseteq 1 .. n PROVE Below(s, u)
  <2> SUFFICES ASSUME NEW i \in DOMAIN s, NEW j \in DOMAIN u PROVE s[i] < u[j]
    BY DEF Below
  <2>1. s[i] \in 1 .. n
    BY <1>5, InUnits
  <2> QED
    BY <2>1, <1>1
<1> QED
  BY <1>1, <1>2, <1>3, <1>4, <1>5

-----------------------------------------------------------------------------
(* The steps. *)

LEMMA FileInitInv == FileInit => FileInv
<1> SUFFICES ASSUME FileInit PROVE FileInv
  OBVIOUS
<1>1. FileTypeOK
  BY EmptyText, LogFileAssumption DEF FileInit, FileTypeOK
<1>2. FilesInv
  BY DEF FileInit, FilesInv
<1>3. disk[Base] = <<>> /\ Pending(old) = <<>> /\ Pending(fp) = <<>> /\ lost = {} /\ units = 0
  BY LogFileAssumption DEF FileInit, Pending
<1>4. UnitsInv
  BY <1>3, EmptyText DEF UnitsInv, Chain, All
<1> QED
  BY <1>1, <1>2, <1>4 DEF FileInv

(* The files while the process runs. *)
LEMMA FilesAre ==
  ASSUME FileInv
  PROVE  /\ disk \in [Names -> Seq(Nat)] /\ disk[Base] \in Seq(Nat) /\ Base \in Names
         /\ units \in Nat /\ lost \subseteq Nat /\ faults \in Nat
         /\ turn # "down" => /\ fp \in AppendFiles /\ fp # NoFile /\ fp.name = Base
                           /\ fp.pending \in Seq(Nat) /\ fp.written \in Nat
                           /\ Pending(fp) = fp.pending
         /\ old # NoFile => /\ old \in AppendFiles /\ old.name = Base /\ turn = "write"
                          /\ old.pending \in Seq(Nat) /\ Pending(old) = old.pending
         /\ old = NoFile => Pending(old) = <<>>
<1>1. ASSUME NEW f \in AppendFiles
      PROVE  f.pending \in Seq(Nat) /\ f.written \in Nat
  BY DEF AppendFiles
<1> QED
  BY <1>1, LogFileAssumption DEF FileInv, FileTypeOK, FilesInv, Pending

LEMMA NewFile ==
  /\ AppendFile(Base) \in AppendFiles /\ AppendFile(Base) # NoFile
  /\ AppendFile(Base).name = Base /\ Pending(AppendFile(Base)) = <<>>
  /\ AppendFile(Base).pending = <<>>
<1>1. AppendFile(Base) \in AppendFiles
  BY EmptyText, LogFileAssumption DEF AppendFile, AppendFiles
<1>2. AppendFile(Base) # NoFile
  BY <1>1, LogFileAssumption DEF AppendFiles
<1> QED
  BY <1>1, <1>2 DEF AppendFile, Pending

(* A part of the text t goes to the open file while no other is open. *)
LEMMA PourInv ==
  ASSUME FileInv, turn # "down", old = NoFile, UNCHANGED old,
         NEW t \in Seq(Nat), NEW j \in 0 .. Len(t), NEW i \in 0 .. j,
         Pour(t, i, j),
         Rising(t), Below(disk[Base], t),
         units' \in Nat,
         lost \cup Units(disk[Base]) \cup Units(t) = 1 .. units',
         NEW w \in Nat,
         fp' = [fp EXCEPT !.pending = SubSeq(t, j + 1, Len(t)), !.written = w]
  PROVE  /\ disk' \in [Names -> Seq(Nat)] /\ \A n \in Names : n # Base => disk'[n] = disk[n]
         /\ lost' \subseteq Nat /\ faults' \in Nat
         /\ fp' \in AppendFiles /\ fp'.name = Base /\ fp' # NoFile
         /\ UnitsInv'
<1>1. /\ disk \in [Names -> Seq(Nat)] /\ disk[Base] \in Seq(Nat) /\ Base \in Names
      /\ fp \in AppendFiles /\ fp # NoFile /\ fp.name = Base /\ faults \in Nat
  BY FilesAre
<1> DEFINE e == disk[Base] \o SubSeq(t, 1, i)
           p == SubSeq(t, j + 1, Len(t))
           k == lost \cup Units(SubSeq(t, i + 1, j))
<1>2. disk' = [disk EXCEPT ![Base] = e] /\ lost' = k
  BY <1>1 DEF Pour
<1>3. Poured(disk[Base], t, lost, units', i, j)
  BY <1>1 DEF Poured, FileInv, UnitsInv, Chain
<1>4. /\ e \in Seq(Nat) /\ p \in Seq(Nat) /\ k \subseteq Nat
      /\ Rising(e) /\ Rising(p) /\ Below(e, p)
      /\ k \cup Units(e) \cup Units(p) = 1 .. units'
  <2>1. Kept(e, p, k, disk[Base], t, units')
    BY <1>3, PourKeeps
  <2> QED
    BY <2>1 DEF Kept
<1>5. faults' \in Nat
  BY <1>1 DEF Pour
<1> HIDE DEF e, p, k
<1>6. /\ disk' \in [Names -> Seq(Nat)] /\ disk'[Base] = e
      /\ \A n \in Names : n # Base => disk'[n] = disk[n]
  BY <1>1, <1>2, <1>4
<1>7. /\ fp' \in AppendFiles /\ fp'.name = Base /\ fp'.pending = p
  BY <1>1, <1>4 DEF AppendFiles, p
<1>8. fp' # NoFile
  BY <1>7, LogFileAssumption DEF AppendFiles
<1>9. Pending(fp') = p /\ Pending(old') = <<>>
  BY <1>7, <1>8 DEF Pending
<1>10. UnitsInv'
  BY <1>2, <1>4, <1>6, <1>9, EmptyText DEF UnitsInv, Chain, All, Pending
<1> QED
  BY <1>2, <1>4, <1>5, <1>6, <1>7, <1>8, <1>10

LEMMA FileAppendInv ==
  ASSUME FileInv, NEW n \in Nat, append_unlocked(n)
  PROVE  FileInv'
<1> DEFINE u == [i \in 1 .. n |-> units + i]
           t == fp.pending \o u
<1>1. /\ turn # "down" /\ turn' = "wrote" /\ old = NoFile /\ old' = NoFile
      /\ units' = units + n
      /\ UNCHANGED <<count, times>>
      /\ \E j \in 0 .. Len(t) : \E i \in 0 .. j :
           /\ Pour(t, i, j)
           /\ fp' = [fp EXCEPT !.pending = SubSeq(t, j + 1, Len(t)), !.written = @ + n]
  BY DEF append_unlocked, Settled
<1>2. /\ n \in Nat /\ units \in Nat /\ units' \in Nat
      /\ disk[Base] \in Seq(Nat) /\ fp.pending \in Seq(Nat) /\ fp.written \in Nat
      /\ fp.written + n \in Nat
      /\ Pending(fp) = fp.pending /\ Pending(old) = <<>>
  <2>1. units \in Nat /\ disk[Base] \in Seq(Nat) /\ fp.pending \in Seq(Nat)
        /\ fp.written \in Nat /\ Pending(fp) = fp.pending /\ Pending(old) = <<>>
    BY <1>1, FilesAre
  <2>2. units' = units + n
    BY <1>1
  <2> HIDE DEF t, u
  <2> QED
    BY <2>1, <2>2
<1>3. /\ Rising(disk[Base]) /\ Rising(fp.pending) /\ Below(disk[Base], fp.pending)
      /\ lost \cup Units(disk[Base]) \cup Units(fp.pending) = 1 .. units
  BY <1>2, EmptyText DEF FileInv, UnitsInv, Chain, All
<1>4. /\ u \in Seq(Nat) /\ Rising(u) /\ Units(u) = units + 1 .. units + n
      /\ Below(disk[Base], u) /\ Below(fp.pending, u)
  <2>1. Units(disk[Base]) \subseteq 1 .. units /\ Units(fp.pending) \subseteq 1 .. units
    BY <1>3
  <2> QED
    BY <2>1, <1>2, NewUnits
<1> HIDE DEF u
<1>5. /\ t \in Seq(Nat) /\ Rising(t) /\ Below(disk[Base], t)
      /\ Units(t) = Units(fp.pending) \cup Units(u)
  BY <1>2, <1>3, <1>4, Joined
<1>6. lost \cup Units(disk[Base]) \cup Units(t) = 1 .. units'
  BY <1>1, <1>2, <1>3, <1>4, <1>5
<1> HIDE DEF t
<1>7. PICK j \in 0 .. Len(t) : \E i \in 0 .. j :
        /\ Pour(t, i, j)
        /\ fp' = [fp EXCEPT !.pending = SubSeq(t, j + 1, Len(t)), !.written = @ + n]
  BY <1>1
<1>8. PICK i \in 0 .. j :
        /\ Pour(t, i, j)
        /\ fp' = [fp EXCEPT !.pending = SubSeq(t, j + 1, Len(t)), !.written = @ + n]
  BY <1>7
<1>9. fp' = [fp EXCEPT !.pending = SubSeq(t, j + 1, Len(t)), !.written = fp.written + n]
  BY <1>8
<1>10. /\ disk' \in [Names -> Seq(Nat)] /\ \A x \in Names : x # Base => disk'[x] = disk[x]
       /\ lost' \subseteq Nat /\ faults' \in Nat
       /\ fp' \in AppendFiles /\ fp'.name = Base /\ fp' # NoFile
       /\ UnitsInv'
  BY <1>1, <1>2, <1>5, <1>6, <1>8, <1>9, PourInv
<1>11. FileTypeOK'
  BY <1>1, <1>2, <1>10 DEF FileInv, FileTypeOK, times
<1>12. FilesInv'
  BY <1>1, <1>10 DEF FileInv, FilesInv
<1> QED
  BY <1>10, <1>11, <1>12 DEF FileInv

(* What a flush keeps, at the end of a turn or by time. *)
LEMMA FflushKeeps ==
  ASSUME FileInv, turn # "down", old = NoFile, UNCHANGED old, Fflush
  PROVE  /\ disk' \in [Names -> Seq(Nat)] /\ \A n \in Names : n # Base => disk'[n] = disk[n]
         /\ lost' \subseteq Nat /\ faults' \in Nat /\ units' = units
         /\ fp' \in AppendFiles /\ fp'.name = Base /\ fp' # NoFile /\ fp'.pending = <<>>
         /\ UnitsInv'
<1> DEFINE t == fp.pending
<1>1. /\ t \in Seq(Nat) /\ fp.written \in Nat /\ units \in Nat /\ fp \in AppendFiles
      /\ Pending(fp) = t /\ Pending(old) = <<>> /\ Len(t) \in Nat
  BY FilesAre, LenProperties
<1>2. /\ Rising(t) /\ Below(disk[Base], t)
      /\ lost \cup Units(disk[Base]) \cup Units(t) = 1 .. units
  BY <1>1, EmptyText DEF FileInv, UnitsInv, Chain, All
<1> HIDE DEF t
<1>3. PICK i \in 0 .. Len(t) : /\ Pour(t, i, Len(t))
                               /\ fp' = [fp EXCEPT !.pending = <<>>]
                               /\ units' = units
  BY DEF Fflush, t
<1>4. SubSeq(t, Len(t) + 1, Len(t)) = <<>> /\ Len(t) \in 0 .. Len(t)
  BY <1>1
<1>5. fp' = [fp EXCEPT !.pending = SubSeq(t, Len(t) + 1, Len(t)), !.written = fp.written]
  BY <1>1, <1>3, <1>4 DEF AppendFiles
<1>6. fp'.pending = <<>>
  BY <1>1, <1>3 DEF AppendFiles
<1>7. /\ units' \in Nat
      /\ lost \cup Units(disk[Base]) \cup Units(t) = 1 .. units'
  BY <1>1, <1>2, <1>3
<1>8. /\ disk' \in [Names -> Seq(Nat)] /\ \A n \in Names : n # Base => disk'[n] = disk[n]
      /\ lost' \subseteq Nat /\ faults' \in Nat
      /\ fp' \in AppendFiles /\ fp'.name = Base /\ fp' # NoFile
      /\ UnitsInv'
  <2>1. Pour(t, i, Len(t))
    BY <1>3
  <2> QED
    BY <2>1, <1>1, <1>2, <1>4, <1>5, <1>7, PourInv
<1> QED
  BY <1>3, <1>6, <1>8

LEMMA FlushInv ==
  ASSUME FileInv, flush
  PROVE  FileInv'
<1>1. /\ turn # "down" /\ turn' = "idle" /\ old = NoFile /\ old' = NoFile
      /\ UNCHANGED <<old, count, times>> /\ Fflush
  BY DEF flush, Settled
<1>2. /\ disk' \in [Names -> Seq(Nat)] /\ \A n \in Names : n # Base => disk'[n] = disk[n]
      /\ lost' \subseteq Nat /\ faults' \in Nat /\ units' = units
      /\ fp' \in AppendFiles /\ fp'.name = Base /\ fp' # NoFile /\ fp'.pending = <<>>
      /\ UnitsInv'
  BY <1>1, FflushKeeps
<1>3. FileTypeOK'
  BY <1>1, <1>2 DEF FileInv, FileTypeOK, times
<1>4. FilesInv'
  BY <1>1, <1>2 DEF FileInv, FilesInv
<1> QED
  BY <1>2, <1>3, <1>4 DEF FileInv

LEMMA PeriodIs ==
  ASSUME NEW t \in Nat
  PROVE  Period(t) \in Nat
<1>1. t \div Day \in Nat
  BY LogFileAssumption
<1> QED
  BY <1>1, LogFileAssumption DEF Period

LEMMA RollInv ==
  ASSUME FileInv, turn = "wrote", turn' = "write", rollFile, count' \in Nat
  PROVE  FileInv'
<1>1. old = NoFile /\ fp # NoFile
  BY DEF FileInv, FileTypeOK, FilesInv
<1>2. ASSUME NEW now \in Times, now > lastRoll,
             lastRoll' = now, lastFlush' = now, startOfPeriod' = Period(now),
             disk' = AfterOpen(getLogFileName(now)),
             fp' = AppendFile(getLogFileName(now)), old' = fp, UNCHANGED history
      PROVE  FileInv'
  <2> now \in Nat
    BY LogFileAssumption DEF Times
  <2>1. /\ lastRoll' = now /\ lastFlush' = now /\ startOfPeriod' = Period(now)
        /\ disk' = disk /\ fp' = AppendFile(Base) /\ old' = fp
        /\ UNCHANGED history
    BY <1>1, <1>2 DEF AfterOpen, getLogFileName
  <2>2. FileTypeOK'
    BY <1>1, <2>1, NewFile, PeriodIs DEF FileInv, FileTypeOK, history
  <2>3. FilesInv'
    BY <1>1, <2>1, NewFile DEF FileInv, FilesInv
  <2>4. UnitsInv'
    <3>1. Pending(old) = <<>> /\ Pending(old') = Pending(fp) /\ Pending(fp') = <<>>
      BY <1>1, <2>1, NewFile DEF Pending
    <3>2. /\ Rising(disk[Base]) /\ Rising(Pending(fp)) /\ Below(disk[Base], Pending(fp))
          /\ lost \cup Units(disk[Base]) \cup Units(Pending(fp)) = 1 .. units
      BY <3>1, EmptyText DEF FileInv, UnitsInv, Chain, All
    <3>3. Chain(disk[Base], Pending(fp), <<>>)
      BY <3>2, EmptyText DEF Chain
    <3>4. All(disk[Base], Pending(fp), <<>>) = Units(disk[Base]) \cup Units(Pending(fp))
      BY EmptyText DEF All
    <3>5. lost' = lost /\ units' = units
      BY <2>1 DEF history
    <3> QED
      BY <3>1, <3>2, <3>3, <3>4, <3>5, <2>1 DEF UnitsInv
  <2> QED
    BY <2>2, <2>3, <2>4 DEF FileInv
<1>3. CASE UNCHANGED <<disk, fp, old, times, history>>
  BY <1>3, <1>1 DEF FileInv, FileTypeOK, FilesInv, UnitsInv, times, history
<1> QED
  BY <1>2, <1>3 DEF rollFile

LEMMA AfterAppendInv ==
  ASSUME FileInv, AfterAppend
  PROVE  FileInv'
<1>1. /\ turn = "wrote" /\ turn' = "write"
      /\ count \in Nat /\ count + 1 \in Nat /\ 0 \in Nat
  BY DEF AfterAppend, FileInv, FileTypeOK
<1>2. count' \in Nat
  BY <1>1 DEF AfterAppend
<1>3. CASE rollFile
  BY <1>1, <1>2, <1>3, RollInv
<1>4. CASE Stay
  BY <1>1, <1>2, <1>4 DEF Stay, FileInv, FileTypeOK, FilesInv, UnitsInv, times, history
<1>5. ASSUME NEW now \in Times, lastFlush' = now, Fflush,
             UNCHANGED <<old, startOfPeriod, lastRoll>>
      PROVE  FileInv'
  <2>1. old = NoFile /\ old' = NoFile /\ turn # "down" /\ now \in Nat
    BY <1>1, <1>5, LogFileAssumption DEF FileInv, FileTypeOK, FilesInv, Times
  <2>2. /\ disk' \in [Names -> Seq(Nat)] /\ \A n \in Names : n # Base => disk'[n] = disk[n]
        /\ lost' \subseteq Nat /\ faults' \in Nat /\ units' = units
        /\ fp' \in AppendFiles /\ fp'.name = Base /\ fp' # NoFile
        /\ UnitsInv'
    BY <1>5, <2>1, FflushKeeps
  <2>3. FileTypeOK'
    BY <1>1, <1>2, <1>5, <2>1, <2>2 DEF FileInv, FileTypeOK
  <2>4. FilesInv'
    BY <1>1, <2>1, <2>2 DEF FileInv, FilesInv
  <2> QED
    BY <2>2, <2>3, <2>4 DEF FileInv
<1> QED
  BY <1>3, <1>4, <1>5 DEF AfterAppend

LEMMA CloseInv ==
  ASSUME FileInv, Close
  PROVE  FileInv'
<1> DEFINE t == old.pending
<1>1. /\ old # NoFile /\ old' = NoFile /\ old.name = Base /\ turn = "write" /\ fp # NoFile
      /\ t \in Seq(Nat) /\ Len(t) \in Nat /\ Pending(old) = t
      /\ disk \in [Names -> Seq(Nat)] /\ disk[Base] \in Seq(Nat) /\ Base \in Names
      /\ units \in Nat /\ faults \in Nat /\ lost \subseteq Nat
      /\ UNCHANGED <<fp, count, times, turn, units>>
  BY FilesAre, LenProperties DEF Close, FileInv, FilesInv
<1> DEFINE c == Pending(fp)
<1> HIDE DEF t, c
<1>2. PICK i \in 0 .. Len(t) :
        /\ disk' = [disk EXCEPT ![Base] = @ \o SubSeq(t, 1, i)]
        /\ lost' = lost \cup Units(SubSeq(t, i + 1, Len(t)))
        /\ faults' = IF i < Len(t) THEN faults + 1 ELSE faults
  BY <1>1 DEF Close, t
<1>3. /\ Rising(disk[Base]) /\ Rising(t) /\ Rising(c)
      /\ Below(disk[Base], t) /\ Below(disk[Base], c) /\ Below(t, c)
      /\ lost \cup Units(disk[Base]) \cup Units(t) \cup Units(c) = 1 .. units
  BY <1>1 DEF FileInv, UnitsInv, Chain, All, c
<1> DEFINE e == disk[Base] \o SubSeq(t, 1, i)
           p == SubSeq(t, Len(t) + 1, Len(t))
           k == (lost \cup Units(c)) \cup Units(SubSeq(t, i + 1, Len(t)))
<1>4. Poured(disk[Base], t, lost \cup Units(c), units, i, Len(t))
  BY <1>1, <1>3 DEF Poured
<1>5. Kept(e, p, k, disk[Base], t, units)
  BY <1>4, PourKeeps
<1>6. p = <<>> /\ k = lost' \cup Units(c)
  BY <1>1, <1>2
<1>7. /\ disk' = [disk EXCEPT ![Base] = e]
  BY <1>2
<1> HIDE DEF e, p, k
<1>8. /\ e \in Seq(Nat) /\ Rising(e) /\ Below(e, c)
      /\ lost' \cup Units(c) \cup Units(e) = 1 .. units
      /\ lost' \subseteq Nat
  BY <1>3, <1>5, <1>6, EmptyText DEF Kept
<1>9. /\ disk' \in [Names -> Seq(Nat)] /\ disk'[Base] = e
      /\ \A n \in Names : n # Base => disk'[n] = disk[n]
  BY <1>1, <1>7, <1>8
<1>10. Pending(fp') = c /\ Pending(old') = <<>> /\ units' = units
  BY <1>1 DEF Pending, c
<1>11. UnitsInv'
  <2>1. Chain(e, <<>>, c)
    BY <1>3, <1>8, EmptyText DEF Chain
  <2>2. All(e, <<>>, c) = Units(c) \cup Units(e)
    BY EmptyText DEF All
  <2> QED
    BY <1>8, <1>9, <1>10, <2>1, <2>2 DEF UnitsInv
<1>12. faults' \in Nat
  BY <1>1, <1>2
<1>13. FileTypeOK'
  BY <1>1, <1>8, <1>9, <1>12 DEF FileInv, FileTypeOK, times
<1>14. FilesInv'
  BY <1>1, <1>9 DEF FileInv, FilesInv
<1> QED
  BY <1>11, <1>13, <1>14 DEF FileInv

LEMMA OpenInv ==
  ASSUME FileInv, Open
  PROVE  FileInv'
<1>1. /\ turn = "down" /\ turn' = "write" /\ fp = NoFile /\ old = NoFile /\ old' = NoFile
      /\ count' = 0 /\ lastRoll' \in Nat /\ lastFlush' \in Nat /\ startOfPeriod' \in Nat
      /\ disk' = disk /\ fp' = AppendFile(Base)
      /\ UNCHANGED history
  <2>1. Times \subseteq Nat
    BY LogFileAssumption DEF Times
  <2> QED
    BY <2>1, PeriodIs DEF Open, AfterOpen, getLogFileName, FileInv, FilesInv
<1>2. FileTypeOK'
  BY <1>1, NewFile DEF FileInv, FileTypeOK, history
<1>3. FilesInv'
  BY <1>1, NewFile DEF FileInv, FilesInv
<1>4. /\ Pending(fp) = <<>> /\ Pending(fp') = <<>> /\ Pending(old') = Pending(old)
      /\ lost' = lost /\ units' = units
  BY <1>1, NewFile DEF Pending, history
<1>5. UnitsInv'
  BY <1>1, <1>4 DEF FileInv, UnitsInv
<1> QED
  BY <1>2, <1>3, <1>5 DEF FileInv

LEMMA LeaveInv ==
  ASSUME FileInv, Leave
  PROVE  FileInv'
<1>1. /\ turn = "idle" /\ turn' = "down" /\ fp' = NoFile /\ fp # NoFile /\ fp.pending = <<>>
      /\ UNCHANGED <<disk, old, history>> /\ Gone
  BY DEF Leave, FileInv, FilesInv
<1>2. /\ Pending(fp) = <<>> /\ Pending(fp') = <<>> /\ Pending(old') = Pending(old)
  BY <1>1 DEF Pending
<1>3. UnitsInv'
  BY <1>1, <1>2 DEF FileInv, UnitsInv, history
<1> QED
  BY <1>1, <1>3 DEF FileInv, FileTypeOK, FilesInv, Gone, history

LEMMA KillInv ==
  ASSUME FileInv, Kill
  PROVE  FileInv'
<1>1. /\ turn # "down" /\ turn' = "down" /\ fp' = NoFile /\ old' = NoFile
      /\ lost' = lost \cup Held(fp) \cup Held(old)
      /\ UNCHANGED <<disk, units>> /\ faults' = faults + 1 /\ Gone
      /\ units \in Nat
  BY FilesAre DEF Kill
<1>2. Held(fp) = Units(Pending(fp)) /\ Held(old) = Units(Pending(old))
  BY EmptyText DEF Held, Pending
<1>3. Pending(fp') = <<>> /\ Pending(old') = <<>>
  BY <1>1 DEF Pending
<1>4. Chain(disk[Base], <<>>, <<>>)
  BY EmptyText DEF FileInv, UnitsInv, Chain
<1>5. lost' \cup All(disk[Base], <<>>, <<>>) = 1 .. units
  BY <1>1, <1>2, EmptyText DEF FileInv, UnitsInv, All
<1>6. UnitsInv'
  BY <1>1, <1>3, <1>4, <1>5 DEF UnitsInv
<1>7. lost' \subseteq Nat
  BY <1>1, <1>5
<1> QED
  BY <1>1, <1>6, <1>7 DEF FileInv, FileTypeOK, FilesInv, Gone

LEMMA FileNextInv == FileInv /\ [FileNext]_fileVars => FileInv'
<1> SUFFICES ASSUME FileInv, [FileNext]_fileVars PROVE FileInv'
  OBVIOUS
<1>1. CASE \E n \in Nat : append_unlocked(n)
  BY <1>1, FileAppendInv
<1>2. CASE AfterAppend
  BY <1>2, AfterAppendInv
<1>3. CASE Close
  BY <1>3, CloseInv
<1>4. CASE flush
  BY <1>4, FlushInv
<1>5. CASE Open
  BY <1>5, OpenInv
<1>6. CASE Leave
  BY <1>6, LeaveInv
<1>7. CASE Kill
  BY <1>7, KillInv
<1>8. CASE UNCHANGED fileVars
  BY <1>8 DEF fileVars, FileInv, FileTypeOK, FilesInv, UnitsInv, times, history
<1> QED
  BY <1>1, <1>2, <1>3, <1>4, <1>5, <1>6, <1>7, <1>8 DEF FileNext

LEMMA FileInvHolds == FileSpec => []FileInv
  BY FileInitInv, FileNextInv, PTL DEF FileSpec

(* Every variable keeps its type; the writer finds a file whenever it      *)
(* appends or flushes.                                                     *)
THEOREM FileTypeCorrect == FileSpec => []FileTypeOK
<1>1. FileInv => FileTypeOK
  BY DEF FileInv
<1> QED
  BY <1>1, FileInvHolds, PTL

(* A file has its units in the order in which they were appended, whatever *)
(* is rolled, killed, lost, and whatever the clock shows.                  *)
THEOREM UnitsStayInOrder == FileSpec => []UnitsInOrder
<1>1. FileInv => UnitsInOrder
  <2> SUFFICES ASSUME FileInv, NEW n \in Names PROVE Rising(disk[n])
    BY DEF UnitsInOrder, Rising
  <2>1. CASE n = Base
    BY <2>1 DEF FileInv, UnitsInv, Chain
  <2>2. CASE n # Base
    BY <2>2, EmptyText DEF FileInv, FilesInv
  <2> QED
    BY <2>1, <2>2
<1> QED
  BY <1>1, FileInvHolds, PTL

(* At the end of a turn of the writer nothing is behind in a buffer.       *)
THEOREM TurnsAreFlushed == FileSpec => []Flushed
<1>1. FileInv => Flushed
  <2> SUFFICES ASSUME FileInv, turn = "idle"
               PROVE  1 .. units \subseteq lost \cup UNION {Units(disk[n]) : n \in Names}
    BY DEF Flushed
  <2>1. Pending(fp) = <<>> /\ Pending(old) = <<>>
    BY DEF FileInv, FilesInv, Pending
  <2>2. lost \cup Units(disk[Base]) = 1 .. units
    BY <2>1, EmptyText DEF FileInv, UnitsInv, All
  <2> QED
    BY <2>2, LogFileAssumption
<1> QED
  BY <1>1, FileInvHolds, PTL

(* What the system has of a file it keeps: a roll or a start opens it to   *)
(* go on at its end.                                                       *)
THEOREM FilesOnlyGrow == FileSpec => OnlyGrows
<1> DEFINE Grow == \A n \in Names :
                     /\ Len(disk'[n]) >= Len(disk[n])
                     /\ SubSeq(disk'[n], 1, Len(disk[n])) = disk[n]
<1>1. ASSUME NEW s \in Seq(Nat), NEW t \in Seq(Nat)
      PROVE  Len(s \o t) >= Len(s) /\ SubSeq(s \o t, 1, Len(s)) = s
  BY <1>1
<1>2. ASSUME NEW s \in Seq(Nat)
      PROVE  Len(s) >= Len(s) /\ SubSeq(s, 1, Len(s)) = s
  BY <1>2
<1>3. ASSUME FileInv, disk' = disk PROVE Grow
  BY <1>2, <1>3 DEF FileInv, FileTypeOK
<1>4. ASSUME FileInv, NEW t \in Seq(Nat), NEW m \in Names,
             disk' = [disk EXCEPT ![m] = @ \o t]
      PROVE  Grow
  <2> SUFFICES ASSUME NEW n \in Names
               PROVE  /\ Len(disk'[n]) >= Len(disk[n])
                      /\ SubSeq(disk'[n], 1, Len(disk[n])) = disk[n]
    OBVIOUS
  <2>1. disk[n] \in Seq(Nat)
    BY <1>4 DEF FileInv, FileTypeOK
  <2>2. CASE n = m
    <3>1. disk'[n] = disk[n] \o t
      BY <1>4, <2>2 DEF FileInv, FileTypeOK
    <3> QED
      BY <3>1, <2>1, <1>1, <1>4
  <2>3. CASE n # m
    <3>1. disk'[n] = disk[n]
      BY <1>4, <2>3 DEF FileInv, FileTypeOK
    <3> QED
      BY <3>1, <2>1, <1>2
  <2> QED
    BY <2>2, <2>3
<1> HIDE DEF Grow
<1>5. ASSUME FileInv, turn # "down", NEW t \in Seq(Nat), NEW j \in 0 .. Len(t), NEW i \in 0 .. j,
             Pour(t, i, j)
      PROVE  Grow
  <2>1. fp.name \in Names
    BY <1>5, FilesAre, LogFileAssumption
  <2>2. SubSeq(t, 1, i) \in Seq(Nat)
    BY Cut
  <2> QED
    BY <1>4, <1>5, <2>1, <2>2 DEF Pour
<1>6. ASSUME FileInv, turn # "down", Fflush PROVE Grow
  <2>1. fp.pending \in Seq(Nat) /\ Len(fp.pending) \in 0 .. Len(fp.pending)
    BY <1>6, FilesAre, LenProperties
  <2> QED
    BY <1>5, <1>6, <2>1 DEF Fflush
<1>7. ASSUME FileInv, [FileNext]_fileVars PROVE Grow
  <2>1. ASSUME NEW n \in Nat, append_unlocked(n) PROVE Grow
    <3> DEFINE t == fp.pending \o [i \in 1 .. n |-> units + i]
    <3>1. /\ turn # "down"
          /\ \E j \in 0 .. Len(t) : \E i \in 0 .. j : Pour(t, i, j)
      BY <2>1 DEF append_unlocked, Settled
    <3>2. t \in Seq(Nat)
      <4>1. fp.pending \in Seq(Nat) /\ n \in Nat /\ units \in Nat
        BY <1>7, <3>1, FilesAre, LogFileAssumption
      <4> QED
        BY <4>1, NewUnits, Joined
    <3> HIDE DEF t
    <3> QED
      BY <1>7, <1>5, <3>1, <3>2
  <2>2. CASE AfterAppend
    <3>1. turn # "down"
      BY <2>2 DEF AfterAppend
    <3>2. disk' = disk \/ Fflush
      BY <2>2 DEF AfterAppend, rollFile, AfterOpen, Stay
    <3> QED
      BY <1>7, <3>1, <3>2, <1>3, <1>6
  <2>3. CASE Close
    <3>1. /\ old.name \in Names /\ old.pending \in Seq(Nat)
          /\ Len(old.pending) \in 0 .. Len(old.pending)
      BY <1>7, <2>3, FilesAre, LenProperties DEF Close
    <3>2. PICK i \in 0 .. Len(old.pending) :
            disk' = [disk EXCEPT ![old.name] = @ \o SubSeq(old.pending, 1, i)]
      BY <2>3 DEF Close
    <3>3. SubSeq(old.pending, 1, i) \in Seq(Nat)
      BY <3>1, Cut
    <3> QED
      BY <1>7, <3>1, <3>2, <3>3, <1>4
  <2>4. CASE flush
    BY <1>7, <2>4, <1>6 DEF flush, Settled
  <2>5. CASE Open \/ Leave \/ Kill \/ UNCHANGED fileVars
    BY <1>7, <2>5, <1>3 DEF Open, AfterOpen, Leave, Kill, fileVars
  <2> QED
    BY <1>7, <2>1, <2>2, <2>3, <2>4, <2>5 DEF FileNext
<1>8. FileInv /\ [FileNext]_fileVars => [Grow]_fileVars
  BY <1>7
<1> QED
  BY <1>8, FileInvHolds, PTL DEF FileSpec, OnlyGrows, Grow
-----------------------------------------------------------------------------
(* The two together. *)

(* A file is open only while the writer is in its loop. *)
Linked == turn # "down" => at \notin {"none", "born", "end", "aborted"}

ServiceInv == Inv /\ InOrder /\ NoneLost /\ Linked

(* A process whose memory is gone, or new. *)
Blank ==
  /\ at \in {"none", "aborted"}
  /\ owner \in {"new", "up", "stopping", "notified", "joined"}
  /\ at = "aborted" => owner # "new"
  /\ running = FALSE
  /\ current = Empty /\ next = Empty /\ buffers = <<>>
  /\ spare1 = Null /\ spare2 = Null /\ toWrite = <<>>
  /\ appended = 0 /\ written = 0
  /\ file = <<>> /\ dropped = {}

LEMMA BlankInv == Blank => Inv /\ InOrder /\ NoneLost
<1> SUFFICES ASSUME Blank PROVE Inv /\ InOrder /\ NoneLost
  OBVIOUS
<1>1. <<>> \in Seq(Buffers) /\ <<>> \in Seq(Nat)
  BY EmptySeq
<1>2. TypeOK
  BY <1>1, BufferFacts DEF Blank, TypeOK
<1>3. SpareInv
  BY AsyncLoggingAssumption, BufferFacts DEF Blank, SpareInv, Looping
<1>4. Inv
  BY <1>2, <1>3 DEF Inv
<1>5. Shape
  BY <1>4, TextsShape
<1>6. Count = 2 /\ file = <<>> /\ current.text = <<>> /\ dropped = {} /\ appended = 0
  BY DEF Blank, Count, Left, Empty
<1>7. DOMAIN Texts = 1 .. 2 /\ Texts[1] = <<>> /\ Texts[2] = <<>>
  BY <1>5, <1>6 DEF Shape
<1>8. \A i \in DOMAIN Texts : DOMAIN Texts[i] = {}
  BY <1>7
<1>9. Ordered(Texts)
  BY <1>8 DEF Ordered
<1>10. \A x : x \notin AllLines(Texts)
  BY <1>8, InLines
<1> QED
  BY <1>4, <1>6, <1>9, <1>10, LinesAre

LEMMA BlankInvNext == Blank' => Inv' /\ InOrder' /\ NoneLost'
  BY BlankInv, PTL

(* A step of the process is one of the logger, or the end of its memory. *)
LEMMA LoggerSteps ==
  ASSUME ServiceInv, [ServiceNext]_serviceVars
  PROVE  [Next]_vars \/ Blank'
<1>1. ASSUME NEW k \in Lengths, Log(k) PROVE Next
  BY <1>1 DEF Log, Next
<1>2. CASE Owner
  BY <1>2 DEF Owner, Next
<1>3. CASE WriterStep
  BY <1>3 DEF WriterStep, Waits, Rolls, Begins, Trims, Writes, EndsTurn, LastFlush,
              Returns, Next, Writer
<1>4. CASE Spurious
  BY <1>4 DEF Next
<1>5. CASE Killed
  <2>1. owner # "new" /\ owner' = owner
    BY <1>5 DEF Killed, Kill, ServiceInv, Linked, Inv, SpareInv
  <2> QED
    BY <1>5, <2>1 DEF Killed, Forget, Blank, ServiceInv, Inv, TypeOK
<1>6. CASE Restart
  BY <1>6 DEF Restart, Forget, Blank
<1>7. CASE UNCHANGED serviceVars
  BY <1>7 DEF serviceVars
<1> QED
  BY <1>1, <1>2, <1>3, <1>4, <1>5, <1>6, <1>7 DEF ServiceNext

(* A step of the process is one of the file, or none. *)
LEMMA FileSteps ==
  ASSUME ServiceInv, [ServiceNext]_serviceVars
  PROVE  [FileNext]_fileVars
<1>1. CASE Trims
  BY <1>1 DEF Trims, Remark, FileNext
<1>2. CASE Writes
  <2>1. toWrite \in Seq(Buffers) /\ written \in Nat /\ written < Len(toWrite)
    BY <1>2 DEF Writes, Write, ServiceInv, Inv, TypeOK
  <2>2. toWrite[written + 1] \in Buffers
    BY <2>1, ElementOfSeq, LenProperties
  <2>3. Len(toWrite[written + 1].text) \in Nat
    BY <2>2, LenProperties DEF Buffers
  <2> QED
    BY <1>2, <2>3 DEF Writes, FileNext
<1>3. CASE Rolls \/ EndsTurn \/ LastFlush \/ Returns
  BY <1>3 DEF Rolls, EndsTurn, LastFlush, Returns, FileNext
<1>4. CASE Begins
  BY <1>4 DEF Begins, FileNext
<1>5. CASE Killed
  BY <1>5 DEF Killed, FileNext
<1>6. CASE (\E k \in Lengths : Log(k)) \/ Owner \/ Waits \/ Restart
  BY <1>6 DEF Log, Owner, Waits, Restart
<1>7. CASE UNCHANGED serviceVars
  BY <1>7 DEF serviceVars
<1> QED
  BY <1>1, <1>2, <1>3, <1>4, <1>5, <1>6, <1>7 DEF ServiceNext, WriterStep

LEMMA LinkedNext ==
  ASSUME ServiceInv, [ServiceNext]_serviceVars
  PROVE  Linked'
<1>0. Linked /\ SpareInv
  BY DEF ServiceInv, Inv
<1>1. ASSUME NEW k \in Lengths, Log(k) PROVE Linked'
  BY <1>0, <1>1 DEF Log, append, Notify, Linked, fileVars
<1>2. CASE Owner
  BY <1>0, <1>2 DEF Owner, start, stop, StopNotify, Join, Notify, Linked, SpareInv, fileVars
<1>3. CASE Waits
  BY <1>0, <1>3 DEF Waits, Top, Lock, Sleep, Wake, TimeOut, Swap, Linked, fileVars
<1>4. CASE Rolls
  BY <1>0, <1>4 DEF Rolls, AfterAppend, Close, Linked, vars
<1>5. CASE Begins
  BY <1>0, <1>5 DEF Begins, Begin, Open, Linked, fileVars
<1>6. CASE Trims \/ Writes \/ EndsTurn \/ LastFlush
  BY <1>0, <1>6 DEF Trims, Trim, Writes, Write, EndsTurn, Refill, LastFlush, flush,
                    append_unlocked, Linked, vars
<1>7. CASE Returns \/ Killed
  BY <1>7 DEF Returns, Leave, Killed, Kill, Linked
<1>8. CASE Restart
  BY <1>0, <1>8 DEF Restart, Linked, fileVars
<1>9. CASE (Spurious /\ UNCHANGED fileVars) \/ UNCHANGED serviceVars
  BY <1>0, <1>9 DEF Spurious, serviceVars, vars, fileVars, Linked
<1> QED
  BY <1>1, <1>2, <1>3, <1>4, <1>5, <1>6, <1>7, <1>8, <1>9 DEF ServiceNext, WriterStep

LEMMA ServiceInitInv == ServiceInit => ServiceInv /\ FileInit
<1> SUFFICES ASSUME ServiceInit PROVE ServiceInv /\ FileInit
  OBVIOUS
<1>1. Linked
  BY DEF ServiceInit, FileInit, Linked
<1> QED
  BY <1>1, InitInv, InitLines DEF ServiceInit, ServiceInv

LEMMA ServiceNextInv == ServiceInv /\ [ServiceNext]_serviceVars => ServiceInv'
<1> SUFFICES ASSUME ServiceInv, [ServiceNext]_serviceVars PROVE ServiceInv'
  OBVIOUS
<1>1. CASE [Next]_vars
  <2>1. Inv'
    BY <1>1, NextInv DEF ServiceInv
  <2> QED
    BY <1>1, <2>1, NextLines, LinkedNext DEF ServiceInv
<1>2. CASE Blank'
  BY <1>2, BlankInvNext, LinkedNext DEF ServiceInv
<1> QED
  BY <1>1, <1>2, LoggerSteps

LEMMA ServiceInvHolds == ServiceSpec => []ServiceInv
  BY ServiceInitInv, ServiceNextInv, PTL DEF ServiceSpec

(* The logger uses its file as LogFile allows it, whatever its buffers,    *)
(* and every kill and start included: an append only after the tests and   *)
(* the roll of the one before, a flush and an end only when it has a file. *)
THEOREM ServiceIsFile == ServiceSpec => FileSpec
<1>1. ServiceInv /\ [ServiceNext]_serviceVars => [FileNext]_fileVars
  BY FileSteps
<1>2. ServiceInit => FileInit
  BY ServiceInitInv
<1> QED
  BY <1>1, <1>2, ServiceInvHolds, PTL DEF ServiceSpec, FileSpec

(* Over kills and starts the assertions of the writer hold, and the lines  *)
(* of every run of the process are in order and accounted for.             *)
THEOREM ServiceKeepsLines == ServiceSpec => [](Ready /\ LinesKept)
<1>1. Inv => Ready
  BY AsyncLoggingAssumption, BufferFacts DEF Inv, SpareInv, Ready, Looping, Missing
<1>2. ServiceInv => Ready /\ LinesKept
  BY <1>1 DEF ServiceInv, LinesKept
<1> QED
  BY <1>2, ServiceInvHolds, PTL

(* In the file the units are in order, a finished turn of the writer has   *)
(* left nothing behind, and nothing that was written goes away again.      *)
THEOREM ServiceKeepsUnits == ServiceSpec => []UnitsKept /\ OnlyGrows
<1>1. UnitsInOrder /\ Flushed => UnitsKept
  BY DEF UnitsKept
<1> QED
  BY <1>1, ServiceIsFile, UnitsStayInOrder, TurnsAreFlushed, FilesOnlyGrow, PTL
==============================================================================
