--------------------------- MODULE AccountsProofs ---------------------------
(***************************************************************************)
(* Theorems about Accounts, for any users, passwords, threads and sizes of  *)
(* the pools: a name has one account, a token that is found belongs to an   *)
(* account, a login's token stays until it expires or another login takes   *)
(* its place, the requests use the two pools by the rule of ConnPool, and   *)
(* no connection is away from its pool when no request is being handled.    *)
(*                                                                         *)
(* A request is a script of calls that Return can cut off at any point. The *)
(* first part says of each script what the rest needs: the answer is last,  *)
(* a connection that is asked for is given back, a token is set only after  *)
(* the check of the password; and that Tail and Return preserve it.         *)
(***************************************************************************)
EXTENDS Accounts, SequenceTheorems, FiniteSetTheorems, TLAPS

(* The calls a request may have still to make.                             *)
Ending == {"free cache", "free db", "answer"}

Calls(op) ==
  IF op = "none" THEN {}
  ELSE Ending \cup {"db", "cache"}
         \cup (IF op = "register" THEN {"find", "insert"}
               ELSE IF op = "login" THEN {"check", "set", "load"}
               ELSE {"verify", "work", "incr"})

Occurs(s, what) == \E i \in 1 .. Len(s) : s[i] = what

(* Every a of a script is followed by a b; is preceded by a b. *)
Followed(s, a, b) ==
  \A i \in 1 .. Len(s) : s[i] = a => \E k \in i + 1 .. Len(s) : s[k] = b

Preceded(s, a, b) ==
  \A i \in 1 .. Len(s) : s[i] = a => \E k \in 1 .. i - 1 : s[k] = b

(* Calls of a request before its answer, which give back what they get. *)
Part(s, op) ==
  /\ s \in Seq(Calls(op))
  /\ Followed(s, "db", "free db") /\ Followed(s, "cache", "free cache")
  /\ ~Occurs(s, "answer")

(* The calls a request of this kind has still to make: the answer is last. *)
Fits(s, op) ==
  /\ s \in Seq(Calls(op))
  /\ Followed(s, "db", "free db") /\ Followed(s, "cache", "free cache")
  /\ \A i \in 1 .. Len(s) : s[i] = "answer" => i = Len(s)

(* Sequences.                                                              *)
LEMMA TailIs ==
  ASSUME NEW S, NEW s \in Seq(S), s # <<>>
  PROVE  \E q \in Seq(S), n \in Nat :
           /\ q = Tail(s) /\ Len(q) = n /\ Len(s) = n + 1
           /\ Head(s) = s[1] /\ s[1] \in S
           /\ \A i \in 1 .. n : q[i] = s[i + 1]
<1>1. /\ Len(s) \in Nat \ {0}
      /\ Tail(s) \in Seq(S) /\ Len(Tail(s)) = Len(s) - 1
      /\ \A i \in 1 .. Len(Tail(s)) : Tail(s)[i] = s[i + 1]
  BY HeadTailProperties, EmptySeq
<1>2. Head(s) = s[1]
  BY <1>1
<1>3. s[1] \in S
  BY <1>1
<1>7. Len(s) - 1 \in Nat
  BY <1>1
<1>4. PICK n \in Nat : n = Len(s) - 1
  BY <1>7
<1>5. PICK q \in Seq(S) : q = Tail(s)
  BY <1>1
<1>6. Len(q) = n /\ Len(s) = n + 1 /\ \A i \in 1 .. n : q[i] = s[i + 1]
  BY <1>1, <1>4, <1>5
<1> QED
  BY <1>2, <1>3, <1>5, <1>6

IsConcat(s, p, q, m, n) ==
  /\ s = p \o q /\ Len(p) = m /\ Len(q) = n /\ Len(s) = m + n
  /\ \A i \in 1 .. m : s[i] = p[i]
  /\ \A i \in 1 .. n : s[m + i] = q[i]
  /\ \A i \in 1 .. m + n : i \in 1 .. m \/ i - m \in 1 .. n

LEMMA ConcatIs ==
  ASSUME NEW S, NEW p \in Seq(S), NEW q \in Seq(S)
  PROVE  \E s \in Seq(S), m \in Nat, n \in Nat : IsConcat(s, p, q, m, n)
<1>1. PICK m \in Nat, n \in Nat : Len(p) = m /\ Len(q) = n
  OBVIOUS
<1>2. p \o q \in Seq(S) /\ Len(p \o q) = m + n
  BY <1>1
<1>4. \A i \in 1 .. m : (p \o q)[i] = p[i]
  BY <1>1
<1>5. ASSUME NEW i \in 1 .. n PROVE (p \o q)[m + i] = q[i]
  <2>1. m + i \in 1 .. m + n /\ m + i > m /\ (m + i) - m = i
    OBVIOUS
  <2> QED
    BY <1>1, <2>1
<1>6. \A i \in 1 .. m + n : i \in 1 .. m \/ i - m \in 1 .. n
  OBVIOUS
<1>7. IsConcat(p \o q, p, q, m, n)
  BY <1>1, <1>2, <1>4, <1>5, <1>6 DEF IsConcat
<1> QED
  BY <1>2, <1>7

LEMMA OccursConcat ==
  ASSUME NEW S, NEW p \in Seq(S), NEW q \in Seq(S), NEW x
  PROVE  Occurs(p \o q, x) <=> Occurs(p, x) \/ Occurs(q, x)
<1>0. PICK s \in Seq(S), m \in Nat, n \in Nat : IsConcat(s, p, q, m, n)
  BY ConcatIs
<1>1. /\ s = p \o q /\ Len(p) = m /\ Len(q) = n /\ Len(s) = m + n
      /\ \A i \in 1 .. m : s[i] = p[i]
      /\ \A i \in 1 .. n : s[m + i] = q[i]
      /\ \A i \in 1 .. m + n : i \in 1 .. m \/ i - m \in 1 .. n
  BY <1>0 DEF IsConcat
<1>2. ASSUME NEW i \in 1 .. m, p[i] = x PROVE Occurs(s, x)
  <2>1. i \in 1 .. m + n /\ s[i] = x
    BY <1>1, <1>2
  <2> QED
    BY <1>1, <2>1 DEF Occurs
<1>3. ASSUME NEW i \in 1 .. n, q[i] = x PROVE Occurs(s, x)
  <2>1. m + i \in 1 .. m + n /\ s[m + i] = x
    BY <1>1, <1>3
  <2> QED
    BY <1>1, <2>1 DEF Occurs
<1>4. ASSUME NEW i \in 1 .. m + n, s[i] = x PROVE Occurs(p, x) \/ Occurs(q, x)
  <2>1. CASE i \in 1 .. m
    BY <1>1, <1>4, <2>1 DEF Occurs
  <2>2. CASE i - m \in 1 .. n
    <3>1. m + (i - m) = i
      OBVIOUS
    <3>2. s[m + (i - m)] = q[i - m]
      BY <1>1, <2>2
    <3>3. q[i - m] = x
      BY <1>4, <3>1, <3>2
    <3> QED
      BY <1>1, <2>2, <3>3 DEF Occurs
  <2> QED
    BY <1>1, <2>1, <2>2
<1> QED
  BY <1>1, <1>2, <1>3, <1>4 DEF Occurs

LEMMA FollowedConcat ==
  ASSUME NEW S, NEW p \in Seq(S), NEW q \in Seq(S), NEW a, NEW b,
         Followed(p, a, b), Followed(q, a, b)
  PROVE  Followed(p \o q, a, b)
<1>0. PICK s \in Seq(S), m \in Nat, n \in Nat : IsConcat(s, p, q, m, n)
  BY ConcatIs
<1>1. /\ s = p \o q /\ Len(p) = m /\ Len(q) = n /\ Len(s) = m + n
      /\ \A i \in 1 .. m : s[i] = p[i]
      /\ \A i \in 1 .. n : s[m + i] = q[i]
      /\ \A i \in 1 .. m + n : i \in 1 .. m \/ i - m \in 1 .. n
  BY <1>0 DEF IsConcat
<1>2. SUFFICES ASSUME NEW i \in 1 .. m + n, s[i] = a
               PROVE  \E k \in i + 1 .. m + n : s[k] = b
  BY <1>1 DEF Followed
<1>3. CASE i \in 1 .. m
  <2>1. p[i] = a
    BY <1>1, <1>2, <1>3
  <2>2. PICK k \in i + 1 .. m : p[k] = b
    BY <1>1, <1>3, <2>1 DEF Followed
  <2>3. k \in 1 .. m /\ k \in i + 1 .. m + n
    OBVIOUS
  <2> QED
    BY <1>1, <2>2, <2>3
<1>4. CASE i - m \in 1 .. n
  <2>1. PICK j \in 1 .. n : j = i - m /\ i = m + j
    BY <1>4
  <2>2. q[j] = a
    BY <1>1, <1>2, <2>1
  <2>3. PICK k \in j + 1 .. n : q[k] = b
    BY <1>1, <2>2 DEF Followed
  <2>4. k \in 1 .. n /\ m + k \in i + 1 .. m + n
    BY <2>1
  <2>5. s[m + k] = b
    BY <1>1, <2>3, <2>4
  <2> QED
    BY <2>4, <2>5
<1> QED
  BY <1>1, <1>3, <1>4

LEMMA PrecededConcat ==
  ASSUME NEW S, NEW p \in Seq(S), NEW q \in Seq(S), NEW a, NEW b,
         Preceded(p, a, b), Occurs(p, b) \/ Preceded(q, a, b)
  PROVE  Preceded(p \o q, a, b)
<1>0. PICK s \in Seq(S), m \in Nat, n \in Nat : IsConcat(s, p, q, m, n)
  BY ConcatIs
<1>1. /\ s = p \o q /\ Len(p) = m /\ Len(q) = n /\ Len(s) = m + n
      /\ \A i \in 1 .. m : s[i] = p[i]
      /\ \A i \in 1 .. n : s[m + i] = q[i]
      /\ \A i \in 1 .. m + n : i \in 1 .. m \/ i - m \in 1 .. n
  BY <1>0 DEF IsConcat
<1>2. SUFFICES ASSUME NEW i \in 1 .. m + n, s[i] = a
               PROVE  \E k \in 1 .. i - 1 : s[k] = b
  BY <1>1 DEF Preceded
<1>3. CASE i \in 1 .. m
  <2>1. p[i] = a
    BY <1>1, <1>2, <1>3
  <2>2. PICK k \in 1 .. i - 1 : p[k] = b
    BY <1>1, <1>3, <2>1 DEF Preceded
  <2>3. k \in 1 .. m
    BY <1>3
  <2> QED
    BY <1>1, <2>2, <2>3
<1>4. CASE i - m \in 1 .. n /\ Occurs(p, b)
  <2>1. PICK k \in 1 .. m : p[k] = b
    BY <1>1, <1>4 DEF Occurs
  <2>2. k \in 1 .. i - 1
    BY <1>4
  <2> QED
    BY <1>1, <2>1, <2>2
<1>5. CASE i - m \in 1 .. n /\ Preceded(q, a, b)
  <2>1. PICK j \in 1 .. n : j = i - m /\ i = m + j
    BY <1>5
  <2>2. q[j] = a
    BY <1>1, <1>2, <2>1
  <2>3. PICK k \in 1 .. j - 1 : q[k] = b
    BY <1>1, <1>5, <2>2 DEF Preceded
  <2>4. k \in 1 .. n /\ m + k \in 1 .. i - 1
    BY <2>1
  <2>5. s[m + k] = b
    BY <1>1, <2>3, <2>4
  <2> QED
    BY <2>4, <2>5
<1> QED
  BY <1>1, <1>3, <1>4, <1>5

LEMMA FollowedTail ==
  ASSUME NEW S, NEW s \in Seq(S), s # <<>>, NEW a, NEW b, Followed(s, a, b)
  PROVE  Followed(Tail(s), a, b)
<1>1. PICK q \in Seq(S), n \in Nat :
        /\ q = Tail(s) /\ Len(q) = n /\ Len(s) = n + 1
        /\ \A i \in 1 .. n : q[i] = s[i + 1]
  BY TailIs
<1>2. SUFFICES ASSUME NEW i \in 1 .. n, q[i] = a
               PROVE  \E k \in i + 1 .. n : q[k] = b
  BY <1>1 DEF Followed
<1>3. i + 1 \in 1 .. n + 1 /\ s[i + 1] = a
  BY <1>1, <1>2
<1>4. PICK k \in (i + 1) + 1 .. n + 1 : s[k] = b
  BY <1>1, <1>3 DEF Followed
<1>5. k - 1 \in i + 1 .. n /\ k - 1 \in 1 .. n /\ (k - 1) + 1 = k
  OBVIOUS
<1>6. q[k - 1] = s[(k - 1) + 1]
  BY <1>1, <1>5
<1> QED
  BY <1>4, <1>5, <1>6

LEMMA PrecededTail ==
  ASSUME NEW S, NEW s \in Seq(S), s # <<>>, NEW a, NEW b, Preceded(s, a, b),
         Head(s) # b
  PROVE  Preceded(Tail(s), a, b)
<1>1. PICK q \in Seq(S), n \in Nat :
        /\ q = Tail(s) /\ Len(q) = n /\ Len(s) = n + 1 /\ Head(s) = s[1]
        /\ \A i \in 1 .. n : q[i] = s[i + 1]
  BY TailIs
<1>2. SUFFICES ASSUME NEW i \in 1 .. n, q[i] = a
               PROVE  \E k \in 1 .. i - 1 : q[k] = b
  BY <1>1 DEF Preceded
<1>3. i + 1 \in 1 .. n + 1 /\ s[i + 1] = a
  BY <1>1, <1>2
<1>4. PICK k \in 1 .. (i + 1) - 1 : s[k] = b
  BY <1>1, <1>3 DEF Preceded
<1>5. k # 1
  BY <1>1, <1>4
<1>6. k - 1 \in 1 .. i - 1 /\ k - 1 \in 1 .. n /\ (k - 1) + 1 = k
  BY <1>5
<1>7. q[k - 1] = s[(k - 1) + 1]
  BY <1>1, <1>6
<1> QED
  BY <1>4, <1>6, <1>7

LEMMA OccursTail ==
  ASSUME NEW S, NEW s \in Seq(S), s # <<>>, NEW x, Head(s) # x
  PROVE  Occurs(Tail(s), x) <=> Occurs(s, x)
<1>1. PICK q \in Seq(S), n \in Nat :
        /\ q = Tail(s) /\ Len(q) = n /\ Len(s) = n + 1 /\ Head(s) = s[1]
        /\ \A i \in 1 .. n : q[i] = s[i + 1]
  BY TailIs
<1>2. ASSUME NEW i \in 1 .. n + 1, s[i] = x
      PROVE  \E k \in 1 .. n : q[k] = x
  <2>1. i # 1
    BY <1>1, <1>2
  <2>2. i - 1 \in 1 .. n /\ (i - 1) + 1 = i
    BY <2>1
  <2>3. q[i - 1] = s[(i - 1) + 1]
    BY <1>1, <2>2
  <2> QED
    BY <1>2, <2>2, <2>3
<1>3. ASSUME NEW i \in 1 .. n, q[i] = x
      PROVE  \E k \in 1 .. n + 1 : s[k] = x
  <2>1. i + 1 \in 1 .. n + 1 /\ s[i + 1] = x
    BY <1>1, <1>3
  <2> QED
    BY <2>1
<1> QED
  BY <1>1, <1>2, <1>3 DEF Occurs

(* What follows the first call still occurs after it. *)
LEMMA FollowedHead ==
  ASSUME NEW S, NEW s \in Seq(S), s # <<>>, NEW a, NEW b, Followed(s, a, b),
         Head(s) = a
  PROVE  Occurs(Tail(s), b) /\ Occurs(s, b)
<1>1. PICK q \in Seq(S), n \in Nat :
        /\ q = Tail(s) /\ Len(q) = n /\ Len(s) = n + 1 /\ Head(s) = s[1]
        /\ \A i \in 1 .. n : q[i] = s[i + 1]
  BY TailIs
<1>2. 1 \in 1 .. n + 1
  OBVIOUS
<1>3. PICK k \in 1 + 1 .. n + 1 : s[k] = b
  BY <1>1, <1>2 DEF Followed
<1>4. k - 1 \in 1 .. n /\ (k - 1) + 1 = k /\ k \in 1 .. n + 1
  OBVIOUS
<1>5. q[k - 1] = s[(k - 1) + 1]
  BY <1>1, <1>4
<1> QED
  BY <1>1, <1>3, <1>4, <1>5 DEF Occurs

(* Scripts.                                                                *)
LEMMA PartConcat ==
  ASSUME NEW op, NEW p, NEW q, Part(p, op), Part(q, op)
  PROVE  Part(p \o q, op)
<1>1. p \in Seq(Calls(op)) /\ q \in Seq(Calls(op))
  BY DEF Part
<1>2. p \o q \in Seq(Calls(op))
  BY <1>1
<1> QED
  BY <1>1, <1>2, FollowedConcat, OccursConcat DEF Part

LEMMA FitsConcat ==
  ASSUME NEW op, NEW p, NEW q, Part(p, op), Fits(q, op)
  PROVE  Fits(p \o q, op)
<1>1. p \in Seq(Calls(op)) /\ q \in Seq(Calls(op))
  BY DEF Part, Fits
<1>0. PICK s \in Seq(Calls(op)), m \in Nat, n \in Nat : IsConcat(s, p, q, m, n)
  BY <1>1, ConcatIs
<1>2. /\ s = p \o q /\ Len(p) = m /\ Len(q) = n /\ Len(s) = m + n
      /\ \A i \in 1 .. m : s[i] = p[i]
      /\ \A i \in 1 .. n : s[m + i] = q[i]
      /\ \A i \in 1 .. m + n : i \in 1 .. m \/ i - m \in 1 .. n
  BY <1>0 DEF IsConcat
<1>3. /\ Followed(s, "db", "free db") /\ Followed(s, "cache", "free cache")
  BY <1>1, <1>2, FollowedConcat DEF Part, Fits
<1>4. ASSUME NEW i \in 1 .. m + n, s[i] = "answer"
      PROVE  i = m + n
  <2>1. i \notin 1 .. m
    BY <1>2, <1>4 DEF Part, Occurs
  <2>2. PICK j \in 1 .. n : j = i - m /\ i = m + j
    BY <1>2, <2>1
  <2>3. q[j] = "answer"
    BY <1>2, <1>4, <2>2
  <2>4. j = n
    BY <1>2, <2>3 DEF Fits
  <2> QED
    BY <2>2, <2>4
<1> QED
  BY <1>2, <1>3, <1>4 DEF Fits

LEMMA FitsTail ==
  ASSUME NEW op, NEW s, Fits(s, op), s # <<>>
  PROVE  Fits(Tail(s), op)
<1>0. s \in Seq(Calls(op))
  BY DEF Fits
<1>5. PICK S : S = Calls(op)
  OBVIOUS
<1>6. s \in Seq(S)
  BY <1>0, <1>5
<1>7. PICK q \in Seq(S), n \in Nat :
        /\ q = Tail(s) /\ Len(q) = n /\ Len(s) = n + 1
        /\ \A i \in 1 .. n : q[i] = s[i + 1]
  BY <1>6, TailIs
<1>1. /\ q = Tail(s) /\ Len(q) = n /\ Len(s) = n + 1
      /\ q \in Seq(Calls(op))
      /\ \A i \in 1 .. n : q[i] = s[i + 1]
  BY <1>5, <1>7
<1>2. ASSUME NEW i \in 1 .. n, q[i] = "answer"
      PROVE  i = n
  <2>1. i + 1 \in 1 .. n + 1
    OBVIOUS
  <2>3. s[i + 1] = "answer"
    BY <1>1, <1>2
  <2>4. \A k \in 1 .. n + 1 : s[k] = "answer" => k = n + 1
    BY <1>1 DEF Fits
  <2>2. i + 1 = n + 1
    BY <2>1, <2>3, <2>4
  <2> QED
    BY <2>2
<1>3. Followed(q, "db", "free db") /\ Followed(q, "cache", "free cache")
  BY <1>0, <1>1, FollowedTail DEF Fits
<1> QED
  BY <1>1, <1>2, <1>3 DEF Fits

(* The answer is the last call. *)
LEMMA FitsAnswer ==
  ASSUME NEW op, NEW s, Fits(s, op), s # <<>>, Head(s) = "answer"
  PROVE  Len(s) = 1 /\ s[1] = "answer" /\ Tail(s) = <<>>
<1>0. s \in Seq(Calls(op))
  BY DEF Fits
<1>1. PICK q \in Seq(Calls(op)), n \in Nat :
        q = Tail(s) /\ Len(q) = n /\ Len(s) = n + 1 /\ s[1] = "answer"
  BY <1>0, TailIs
<1>2. 1 \in 1 .. Len(s)
  BY <1>1
<1>3. 1 = Len(s)
  BY <1>1, <1>2 DEF Fits
<1> QED
  BY <1>1, <1>3, EmptySeq

LEMMA InSeq ==
  ASSUME NEW S, NEW n \in Nat, NEW s \in [1 .. n -> S]
  PROVE  s \in Seq(S)
  OBVIOUS

LEMMA To3 == \A i \in 1 .. 3 : i = 1 \/ i = 2 \/ i = 3
  OBVIOUS

LEMMA To4 == \A i \in 1 .. 4 : i = 1 \/ i = 2 \/ i = 3 \/ i = 4
  OBVIOUS

LEMMA To5 == \A i \in 1 .. 5 : i = 1 \/ i = 2 \/ i = 3 \/ i = 4 \/ i = 5
  OBVIOUS

LEMMA To6 == \A i \in 1 .. 6 : i = 1 \/ i = 2 \/ i = 3 \/ i = 4 \/ i = 5 \/ i = 6
  OBVIOUS

LEMMA To7 == \A i \in 1 .. 7 : i = 1 \/ i = 2 \/ i = 3 \/ i = 4 \/ i = 5 \/ i = 6 \/ i = 7
  OBVIOUS

LEMMA RegisterScriptFits == Fits(RegisterScript, "register")
<1>1. /\ Len(RegisterScript) = 5
      /\ DOMAIN RegisterScript = 1 .. 5
      /\ RegisterScript[1] = "db"
      /\ RegisterScript[2] = "find"
      /\ RegisterScript[3] = "insert"
      /\ RegisterScript[4] = "free db"
      /\ RegisterScript[5] = "answer"
  BY DEF RegisterScript
<1>2. \A i \in 1 .. 5 : RegisterScript[i] \in Calls("register")
  BY <1>1, To5 DEF Calls, Ending
<1>3. RegisterScript = [i \in 1 .. 5 |-> RegisterScript[i]]
  BY DEF RegisterScript
<1>4. RegisterScript \in Seq(Calls("register"))
  <2>1. RegisterScript \in [1 .. 5 -> Calls("register")]
    BY <1>2, <1>3
  <2> QED
    BY <2>1, InSeq
<1>5. Followed(RegisterScript, "db", "free db")
  <2>1. \A i \in 1 .. 5 : RegisterScript[i] = "db" => i = 1
    BY <1>1, To5
  <2>2. 4 \in 1 + 1 .. 5
    OBVIOUS
  <2> QED
    BY <1>1, <2>1, <2>2 DEF Followed
<1>6. Followed(RegisterScript, "cache", "free cache")
  BY <1>1, To5 DEF Followed
<1>7. \A i \in 1 .. 5 : RegisterScript[i] = "answer" => i = 5
  BY <1>1, To5
<1> QED
  BY <1>1, <1>4, <1>5, <1>6, <1>7 DEF Fits

LEMMA CheckPartFits == Part(CheckPart, "login")
<1>1. /\ Len(CheckPart) = 3
      /\ DOMAIN CheckPart = 1 .. 3
      /\ CheckPart[1] = "db"
      /\ CheckPart[2] = "check"
      /\ CheckPart[3] = "free db"
  BY DEF CheckPart
<1>2. \A i \in 1 .. 3 : CheckPart[i] \in Calls("login")
  BY <1>1, To3 DEF Calls, Ending
<1>3. CheckPart = [i \in 1 .. 3 |-> CheckPart[i]]
  BY DEF CheckPart
<1>4. CheckPart \in Seq(Calls("login"))
  <2>1. CheckPart \in [1 .. 3 -> Calls("login")]
    BY <1>2, <1>3
  <2> QED
    BY <2>1, InSeq
<1>5. Followed(CheckPart, "db", "free db")
  <2>1. \A i \in 1 .. 3 : CheckPart[i] = "db" => i = 1
    BY <1>1, To3
  <2>2. 3 \in 1 + 1 .. 3
    OBVIOUS
  <2> QED
    BY <1>1, <2>1, <2>2 DEF Followed
<1>6. Followed(CheckPart, "cache", "free cache")
  BY <1>1, To3 DEF Followed
<1>7. ~Occurs(CheckPart, "answer")
  BY <1>1, To3 DEF Occurs
<1> QED
  BY <1>1, <1>4, <1>5, <1>6, <1>7 DEF Part

LEMMA TokenPartFits == Part(TokenPart, "login")
<1>1. /\ Len(TokenPart) = 3
      /\ DOMAIN TokenPart = 1 .. 3
      /\ TokenPart[1] = "cache"
      /\ TokenPart[2] = "set"
      /\ TokenPart[3] = "free cache"
  BY DEF TokenPart
<1>2. \A i \in 1 .. 3 : TokenPart[i] \in Calls("login")
  BY <1>1, To3 DEF Calls, Ending
<1>3. TokenPart = [i \in 1 .. 3 |-> TokenPart[i]]
  BY DEF TokenPart
<1>4. TokenPart \in Seq(Calls("login"))
  <2>1. TokenPart \in [1 .. 3 -> Calls("login")]
    BY <1>2, <1>3
  <2> QED
    BY <2>1, InSeq
<1>5. Followed(TokenPart, "db", "free db")
  BY <1>1, To3 DEF Followed
<1>6. Followed(TokenPart, "cache", "free cache")
  <2>1. \A i \in 1 .. 3 : TokenPart[i] = "cache" => i = 1
    BY <1>1, To3
  <2>2. 3 \in 1 + 1 .. 3
    OBVIOUS
  <2> QED
    BY <1>1, <2>1, <2>2 DEF Followed
<1>7. ~Occurs(TokenPart, "answer")
  BY <1>1, To3 DEF Occurs
<1> QED
  BY <1>1, <1>4, <1>5, <1>6, <1>7 DEF Part

LEMMA LoadPartFits == Fits(LoadPart, "login")
<1>1. /\ Len(LoadPart) = 6
      /\ DOMAIN LoadPart = 1 .. 6
      /\ LoadPart[1] = "db"
      /\ LoadPart[2] = "cache"
      /\ LoadPart[3] = "load"
      /\ LoadPart[4] = "free cache"
      /\ LoadPart[5] = "free db"
      /\ LoadPart[6] = "answer"
  BY DEF LoadPart
<1>2. \A i \in 1 .. 6 : LoadPart[i] \in Calls("login")
  BY <1>1, To6 DEF Calls, Ending
<1>3. LoadPart = [i \in 1 .. 6 |-> LoadPart[i]]
  BY DEF LoadPart
<1>4. LoadPart \in Seq(Calls("login"))
  <2>1. LoadPart \in [1 .. 6 -> Calls("login")]
    BY <1>2, <1>3
  <2> QED
    BY <2>1, InSeq
<1>5. Followed(LoadPart, "db", "free db")
  <2>1. \A i \in 1 .. 6 : LoadPart[i] = "db" => i = 1
    BY <1>1, To6
  <2>2. 5 \in 1 + 1 .. 6
    OBVIOUS
  <2> QED
    BY <1>1, <2>1, <2>2 DEF Followed
<1>6. Followed(LoadPart, "cache", "free cache")
  <2>1. \A i \in 1 .. 6 : LoadPart[i] = "cache" => i = 2
    BY <1>1, To6
  <2>2. 4 \in 2 + 1 .. 6
    OBVIOUS
  <2> QED
    BY <1>1, <2>1, <2>2 DEF Followed
<1>7. \A i \in 1 .. 6 : LoadPart[i] = "answer" => i = 6
  BY <1>1, To6
<1> QED
  BY <1>1, <1>4, <1>5, <1>6, <1>7 DEF Fits

LEMMA VerifiedFits == Part(Verified, "other")
<1>1. /\ Len(Verified) = 3
      /\ DOMAIN Verified = 1 .. 3
      /\ Verified[1] = "cache"
      /\ Verified[2] = "verify"
      /\ Verified[3] = "free cache"
  BY DEF Verified
<1>2. \A i \in 1 .. 3 : Verified[i] \in Calls("other")
  BY <1>1, To3 DEF Calls, Ending
<1>3. Verified = [i \in 1 .. 3 |-> Verified[i]]
  BY DEF Verified
<1>4. Verified \in Seq(Calls("other"))
  <2>1. Verified \in [1 .. 3 -> Calls("other")]
    BY <1>2, <1>3
  <2> QED
    BY <2>1, InSeq
<1>5. Followed(Verified, "db", "free db")
  BY <1>1, To3 DEF Followed
<1>6. Followed(Verified, "cache", "free cache")
  <2>1. \A i \in 1 .. 3 : Verified[i] = "cache" => i = 1
    BY <1>1, To3
  <2>2. 3 \in 1 + 1 .. 3
    OBVIOUS
  <2> QED
    BY <1>1, <2>1, <2>2 DEF Followed
<1>7. ~Occurs(Verified, "answer")
  BY <1>1, To3 DEF Occurs
<1> QED
  BY <1>1, <1>4, <1>5, <1>6, <1>7 DEF Part

LEMMA BothWorkFits == Fits(BothWork, "other")
<1>1. /\ Len(BothWork) = 6
      /\ DOMAIN BothWork = 1 .. 6
      /\ BothWork[1] = "db"
      /\ BothWork[2] = "cache"
      /\ BothWork[3] = "work"
      /\ BothWork[4] = "free cache"
      /\ BothWork[5] = "free db"
      /\ BothWork[6] = "answer"
  BY DEF BothWork
<1>2. \A i \in 1 .. 6 : BothWork[i] \in Calls("other")
  BY <1>1, To6 DEF Calls, Ending
<1>3. BothWork = [i \in 1 .. 6 |-> BothWork[i]]
  BY DEF BothWork
<1>4. BothWork \in Seq(Calls("other"))
  <2>1. BothWork \in [1 .. 6 -> Calls("other")]
    BY <1>2, <1>3
  <2> QED
    BY <2>1, InSeq
<1>5. Followed(BothWork, "db", "free db")
  <2>1. \A i \in 1 .. 6 : BothWork[i] = "db" => i = 1
    BY <1>1, To6
  <2>2. 5 \in 1 + 1 .. 6
    OBVIOUS
  <2> QED
    BY <1>1, <2>1, <2>2 DEF Followed
<1>6. Followed(BothWork, "cache", "free cache")
  <2>1. \A i \in 1 .. 6 : BothWork[i] = "cache" => i = 2
    BY <1>1, To6
  <2>2. 4 \in 2 + 1 .. 6
    OBVIOUS
  <2> QED
    BY <1>1, <2>1, <2>2 DEF Followed
<1>7. \A i \in 1 .. 6 : BothWork[i] = "answer" => i = 6
  BY <1>1, To6
<1> QED
  BY <1>1, <1>4, <1>5, <1>6, <1>7 DEF Fits

LEMMA DbWorkFits == Fits(DbWork, "other")
<1>1. /\ Len(DbWork) = 4
      /\ DOMAIN DbWork = 1 .. 4
      /\ DbWork[1] = "db"
      /\ DbWork[2] = "work"
      /\ DbWork[3] = "free db"
      /\ DbWork[4] = "answer"
  BY DEF DbWork
<1>2. \A i \in 1 .. 4 : DbWork[i] \in Calls("other")
  BY <1>1, To4 DEF Calls, Ending
<1>3. DbWork = [i \in 1 .. 4 |-> DbWork[i]]
  BY DEF DbWork
<1>4. DbWork \in Seq(Calls("other"))
  <2>1. DbWork \in [1 .. 4 -> Calls("other")]
    BY <1>2, <1>3
  <2> QED
    BY <2>1, InSeq
<1>5. Followed(DbWork, "db", "free db")
  <2>1. \A i \in 1 .. 4 : DbWork[i] = "db" => i = 1
    BY <1>1, To4
  <2>2. 3 \in 1 + 1 .. 4
    OBVIOUS
  <2> QED
    BY <1>1, <2>1, <2>2 DEF Followed
<1>6. Followed(DbWork, "cache", "free cache")
  BY <1>1, To4 DEF Followed
<1>7. \A i \in 1 .. 4 : DbWork[i] = "answer" => i = 4
  BY <1>1, To4
<1> QED
  BY <1>1, <1>4, <1>5, <1>6, <1>7 DEF Fits

LEMMA UploadFits == Fits(Upload, "other")
<1>1. /\ Len(Upload) = 7
      /\ DOMAIN Upload = 1 .. 7
      /\ Upload[1] = "db"
      /\ Upload[2] = "cache"
      /\ Upload[3] = "work"
      /\ Upload[4] = "incr"
      /\ Upload[5] = "free cache"
      /\ Upload[6] = "free db"
      /\ Upload[7] = "answer"
  BY DEF Upload
<1>2. \A i \in 1 .. 7 : Upload[i] \in Calls("other")
  BY <1>1, To7 DEF Calls, Ending
<1>3. Upload = [i \in 1 .. 7 |-> Upload[i]]
  BY DEF Upload
<1>4. Upload \in Seq(Calls("other"))
  <2>1. Upload \in [1 .. 7 -> Calls("other")]
    BY <1>2, <1>3
  <2> QED
    BY <2>1, InSeq
<1>5. Followed(Upload, "db", "free db")
  <2>1. \A i \in 1 .. 7 : Upload[i] = "db" => i = 1
    BY <1>1, To7
  <2>2. 6 \in 1 + 1 .. 7
    OBVIOUS
  <2> QED
    BY <1>1, <2>1, <2>2 DEF Followed
<1>6. Followed(Upload, "cache", "free cache")
  <2>1. \A i \in 1 .. 7 : Upload[i] = "cache" => i = 2
    BY <1>1, To7
  <2>2. 5 \in 2 + 1 .. 7
    OBVIOUS
  <2> QED
    BY <1>1, <2>1, <2>2 DEF Followed
<1>7. \A i \in 1 .. 7 : Upload[i] = "answer" => i = 7
  BY <1>1, To7
<1> QED
  BY <1>1, <1>4, <1>5, <1>6, <1>7 DEF Fits

LEMMA One ==
  ASSUME NEW S, NEW x \in S
  PROVE  \E q \in Seq(S) : q = <<x>> /\ Len(q) = 1 /\ q[1] = x
<1>1. <<x>> \in Seq(S)
  OBVIOUS
<1>2. Len(<<x>>) = 1 /\ <<x>>[1] = x
  OBVIOUS
<1> QED
  BY <1>1, <1>2

LEMMA OnePart ==
  ASSUME NEW op, NEW x \in Calls(op), x \notin {"db", "cache", "answer"}
  PROVE  Part(<<x>>, op)
<1>1. PICK q \in Seq(Calls(op)) : q = <<x>> /\ Len(q) = 1 /\ q[1] = x
  BY One
<1>2. \A i \in 1 .. 1 : q[i] = x
  BY <1>1
<1>3. Part(q, op)
  BY <1>1, <1>2 DEF Part, Followed, Occurs
<1> QED
  BY <1>1, <1>3

NoCalls   == <<>>
FreeCache == <<"free cache">>
FreeDb    == <<"free db">>
TheAnswer == <<"answer">>

LEMMA Singles ==
  ASSUME NEW op, op # "none"
  PROVE  /\ Part(NoCalls, op) /\ Part(FreeCache, op) /\ Part(FreeDb, op)
         /\ Fits(TheAnswer, op)
<1>1. /\ "free cache" \in Calls(op) /\ "free db" \in Calls(op)
      /\ "answer" \in Calls(op)
  BY DEF Calls, Ending
<1>2. Part(NoCalls, op)
  BY DEF NoCalls, Part, Followed, Occurs
<1>3. Part(<<"free cache">>, op) /\ Part(<<"free db">>, op)
  BY <1>1, OnePart
<1>4. Fits(<<"answer">>, op)
  <2>1. PICK q \in Seq(Calls(op)) : q = <<"answer">> /\ Len(q) = 1 /\ q[1] = "answer"
    BY <1>1, One
  <2>2. \A i \in 1 .. 1 : q[i] = "answer" /\ i = 1
    BY <2>1
  <2>3. Fits(q, op)
    BY <2>1, <2>2 DEF Fits, Followed
  <2> QED
    BY <2>1, <2>3
<1> QED
  BY <1>2, <1>3, <1>4 DEF FreeCache, FreeDb, TheAnswer

LEMMA OccursOne ==
  ASSUME NEW x, NEW y
  PROVE  (Occurs(<<x>>, y) <=> x = y) /\ ~Occurs(<<>>, y)
<1>1. PICK q \in Seq({x}) : q = <<x>> /\ Len(q) = 1 /\ q[1] = x
  BY One
<1>2. \A i \in 1 .. 1 : q[i] = x
  BY <1>1
<1>3. 1 \in 1 .. 1
  OBVIOUS
<1>4. Occurs(q, y) <=> x = y
  BY <1>1, <1>2, <1>3 DEF Occurs
<1> QED
  BY <1>1, <1>4 DEF Occurs

LEMMA OccurAlone ==
  /\ \A y : ~Occurs(NoCalls, y)
  /\ \A y : Occurs(FreeCache, y) <=> y = "free cache"
  /\ \A y : Occurs(FreeDb, y) <=> y = "free db"
  /\ \A y : Occurs(TheAnswer, y) <=> y = "answer"
<1>1. \A y : ~Occurs(NoCalls, y)
  BY OccursOne DEF NoCalls
<1>2. \A y : Occurs(FreeCache, y) <=> y = "free cache"
  BY OccursOne DEF FreeCache
<1>3. \A y : Occurs(FreeDb, y) <=> y = "free db"
  BY OccursOne DEF FreeDb
<1>4. \A y : Occurs(TheAnswer, y) <=> y = "answer"
  BY OccursOne DEF TheAnswer
<1> QED
  BY <1>1, <1>2, <1>3, <1>4

(* What Return leaves of a script. *)
Left(c, d) == c \o d \o TheAnswer

LEMMA LeftFits ==
  ASSUME NEW op, op # "none", NEW c \in {NoCalls, FreeCache},
         NEW d \in {NoCalls, FreeDb}
  PROVE  Fits(Left(c, d), op)
<1>1. Part(c, op) /\ Part(d, op) /\ Fits(TheAnswer, op)
  BY Singles
<1>2. Part(c \o d, op)
  BY <1>1, PartConcat
<1> QED
  BY <1>1, <1>2, FitsConcat DEF Left

LEMMA LeftHas ==
  ASSUME NEW c \in {NoCalls, FreeCache}, NEW d \in {NoCalls, FreeDb}
  PROVE  /\ Preceded(Left(c, d), "set", "check")
         /\ c = FreeCache => Occurs(Left(c, d), "free cache")
         /\ d = FreeDb => Occurs(Left(c, d), "free db")
<1>1. PICK S : S = Calls("login")
  OBVIOUS
<1>2. /\ NoCalls \in Seq(S) /\ FreeCache \in Seq(S) /\ FreeDb \in Seq(S)
      /\ TheAnswer \in Seq(S)
  BY <1>1, Singles DEF Part, Fits
<1>3. PICK a \in Seq(S) : a = TheAnswer
  BY <1>2
<1>4. c \in Seq(S) /\ d \in Seq(S)
  BY <1>2
<1>5. c \o d \in Seq(S)
  BY <1>4
<1>6. PICK e \in Seq(S) : e = c \o d
  BY <1>5
<1>7. \A x : Occurs(e, x) <=> Occurs(c, x) \/ Occurs(d, x)
  BY <1>4, <1>6, OccursConcat
<1>8. \A x : Occurs(e \o a, x) <=> Occurs(e, x) \/ Occurs(a, x)
  BY OccursConcat
<1>9. PICK s : s = e \o a /\ s = Left(c, d)
  BY <1>3, <1>6 DEF Left
<1>10. ~Occurs(s, "set")
  BY <1>3, <1>7, <1>8, <1>9, OccurAlone
<1>11. Preceded(s, "set", "check")
  BY <1>10 DEF Preceded, Occurs
<1>12. /\ c = FreeCache => Occurs(s, "free cache")
       /\ d = FreeDb => Occurs(s, "free db")
  BY <1>7, <1>8, <1>9, OccurAlone
<1> QED
  BY <1>9, <1>11, <1>12

LEMMA LoginScriptFits ==
  /\ Fits(LoginScript, "login")
  /\ Occurs(LoginScript, "set") /\ Preceded(LoginScript, "set", "check")
<1>1. /\ CheckPart \in Seq(Calls("login")) /\ TokenPart \in Seq(Calls("login"))
      /\ LoadPart \in Seq(Calls("login"))
  BY CheckPartFits, TokenPartFits, LoadPartFits DEF Part, Fits
<1>8. CheckPart \o TokenPart \in Seq(Calls("login"))
  BY <1>1
<1>2. PICK e \in Seq(Calls("login")) : e = CheckPart \o TokenPart
  BY <1>8
<1>3. Part(e, "login")
  BY <1>2, CheckPartFits, TokenPartFits, PartConcat
<1>4. LoginScript = e \o LoadPart
  BY <1>2 DEF LoginScript
<1>5. Occurs(CheckPart, "check") /\ Preceded(CheckPart, "set", "check")
  <2>1. /\ Len(CheckPart) = 3 /\ CheckPart[1] = "db" /\ CheckPart[2] = "check"
        /\ CheckPart[3] = "free db"
    BY DEF CheckPart
  <2>2. 2 \in 1 .. 3
    OBVIOUS
  <2> QED
    BY <2>1, <2>2, To3 DEF Occurs, Preceded
<1>6. Occurs(TokenPart, "set")
  <2>1. Len(TokenPart) = 3 /\ TokenPart[2] = "set" /\ 2 \in 1 .. 3
    BY DEF TokenPart
  <2> QED
    BY <2>1 DEF Occurs
<1>7. Preceded(e, "set", "check") /\ Occurs(e, "check") /\ Occurs(e, "set")
  <2>1. Occurs(e, "check") /\ Occurs(e, "set")
    BY <1>1, <1>2, <1>5, <1>6, OccursConcat
  <2> QED
    BY <1>1, <1>2, <1>5, <2>1, PrecededConcat
<1>9. Occurs(e \o LoadPart, "set")
  BY <1>1, <1>7, OccursConcat
<1>10. Preceded(e \o LoadPart, "set", "check")
  BY <1>1, <1>7, PrecededConcat
<1> QED
  BY <1>3, <1>4, <1>9, <1>10, LoadPartFits, FitsConcat

LEMMA InlineFits ==
  ASSUME NEW s \in InlineScripts
  PROVE  Fits(s, "other")
  BY VerifiedFits, BothWorkFits, DbWorkFits, UploadFits, FitsConcat
     DEF InlineScripts

-----------------------------------------------------------------------------
(* Accounts and tokens.                                                    *)

RegisterJobs == [op : {"register"}, name : Names, pwd : Pwds, ret : 0 .. 2,
                 row : Nat]
LoginJobs    == [op : {"login"}, name : Names, pwd : Pwds, ret : 0 .. 2,
                 token : Nat]
OtherJobs    == [op : {"other"}, name : Names, token : Nat, ret : 0 .. 2]
Jobs         == RegisterJobs \cup LoginJobs \cup OtherJobs \cup {NoJob}

AccountTypes ==
  /\ accounts \in SUBSET [id : Nat, name : Names, pwd : Pwds]
  /\ IsFiniteSet(accounts)
  /\ tokens \in [Names -> Int]
  /\ issued \in Seq([name : Names, pwd : Pwds])
  /\ lost \in SUBSET (1 .. Len(issued))
  /\ given \in SUBSET [name : Names, token : 1 .. Len(issued)]
  /\ job \in [Threads -> Jobs]
  /\ DOMAIN script = Threads

Matches(n, p) == \E r \in accounts : r.name = n /\ r.pwd = p

(* Token m of the user n is accepted, or has been replaced or has expired. *)
InForce(n, m) ==
  \/ tokens[n] = m
  \/ m \in lost \cup expired
  \/ \E k \in (m + 1 .. Len(issued)) \ lost : issued[k].name = n

(* A request and the calls it has still to make.  A token is drawn when    *)
(* the password was checked; a registration that knows its row has it; a   *)
(* login that will answer 0 draws a token, or has one in force.            *)
Good(s, j) ==
  /\ Fits(s, j.op)
  /\ j.op = "register" /\ j.row # 0 =>
       [id |-> j.row, name |-> j.name, pwd |-> j.pwd] \in accounts
  /\ j.op = "login" =>
       /\ Matches(j.name, j.pwd) \/ Preceded(s, "set", "check")
       /\ j.ret = 0 => \/ Occurs(s, "set")
                       \/ j.token \in 1 .. Len(issued) /\ InForce(j.name, j.token)

Requested == \A t \in Threads : Good(script[t], job[t])

OneRow   == \A r, s \in accounts : r.name = s.name => r = s
ToldRows ==
  \A j \in told :
    j.row # 0 => [id |-> j.row, name |-> j.name, pwd |-> j.pwd] \in accounts

IssuedMatch == \A m \in 1 .. Len(issued) : Matches(issued[m].name, issued[m].pwd)

StoredIssued ==
  \A n \in Names :
    tokens[n] > 0 => tokens[n] \in 1 .. Len(issued) /\ issued[tokens[n]].name = n

GivenInForce == \A g \in given : InForce(g.name, g.token)

AccountInv ==
  /\ AccountTypes /\ Requested /\ ToldRows
  /\ IssuedMatch /\ StoredIssued /\ GivenInForce
  /\ UniqueNames => OneRow

(* What never changes for the worse: the rows, the tokens that were drawn, *)
(* and which of them are in force.                                         *)
Grows ==
  /\ accounts \subseteq accounts'
  /\ Len(issued) \in Nat /\ Len(issued') \in Nat /\ Len(issued) <= Len(issued')
  /\ \A m \in 1 .. Len(issued) : issued'[m] = issued[m]
  /\ \A n \in Names, m \in 1 .. Len(issued) : InForce(n, m) => InForce(n, m)'

LEMMA GoodGrows ==
  ASSUME Grows, NEW s, NEW j \in Jobs, Good(s, j)
  PROVE  Good(s, j)'
<1>1. j.op = "login" => j.name \in Names
  BY DEF Jobs, RegisterJobs, LoginJobs, OtherJobs, NoJob
<1>2. j.op = "register" /\ j.row # 0 =>
        [id |-> j.row, name |-> j.name, pwd |-> j.pwd] \in accounts'
  BY DEF Good, Grows
<1>3. Matches(j.name, j.pwd) => Matches(j.name, j.pwd)'
  BY DEF Matches, Grows
<1>4. ASSUME j.op = "login", j.token \in 1 .. Len(issued), InForce(j.name, j.token)
      PROVE  j.token \in 1 .. Len(issued') /\ InForce(j.name, j.token)'
  BY <1>1, <1>4 DEF Grows
<1> QED
  BY <1>2, <1>3, <1>4 DEF Good

(* One thread takes a step of its request. *)
LEMMA OnlyThread ==
  ASSUME AccountTypes, Requested, Grows, NEW t \in Threads,
         NEW s, NEW j \in Jobs, Good(s, j)',
         script' = [script EXCEPT ![t] = s], job' = [job EXCEPT ![t] = j]
  PROVE  /\ Requested' /\ job' \in [Threads -> Jobs] /\ DOMAIN script' = Threads
<1>1. job' \in [Threads -> Jobs] /\ DOMAIN script' = Threads
  BY DEF AccountTypes
<1>2. ASSUME NEW u \in Threads
      PROVE  Good(script[u], job[u])'
  <2>1. CASE u = t
    BY <2>1 DEF AccountTypes
  <2>2. CASE u # t
    <3>1. PICK q : q = script[u]
      OBVIOUS
    <3>4. PICK k \in Jobs : k = job[u]
      BY DEF AccountTypes
    <3>5. Good(q, k)
      BY <3>1, <3>4 DEF Requested
    <3>2. Good(q, k)'
      BY <3>5, GoodGrows
    <3>3. script'[u] = q /\ job'[u] = k
      BY <2>2, <3>1, <3>4 DEF AccountTypes
    <3> QED
      BY <3>2, <3>3
  <2> QED
    BY <2>1, <2>2
<1> QED
  BY <1>1, <1>2 DEF Requested

(* The thread goes on to its next call. *)
LEMMA GoodTail ==
  ASSUME NEW s, NEW j \in Jobs, Good(s, j), s # <<>>,
         Head(s) \notin {"check", "set", "answer"}
  PROVE  Good(Tail(s), j)
<1>1. s \in Seq(Calls(j.op))
  BY DEF Good, Fits
<1>2. Fits(Tail(s), j.op)
  BY FitsTail DEF Good
<1>3. Preceded(s, "set", "check") => Preceded(Tail(s), "set", "check")
  BY <1>1, PrecededTail
<1>4. Occurs(s, "set") => Occurs(Tail(s), "set")
  BY <1>1, OccursTail
<1> QED
  BY <1>2, <1>3, <1>4 DEF Good

LEMMA SameGrows ==
  ASSUME AccountTypes, UNCHANGED <<accounts, tokens, issued, lost, expired>>
  PROVE  Grows
  BY DEF AccountTypes, Grows, InForce

LEMMA HeadOp ==
  ASSUME NEW s, NEW j \in Jobs, Good(s, j), s # <<>>
  PROVE  /\ Head(s) \in Calls(j.op) /\ j # NoJob /\ j.op # "none"
         /\ Head(s) \in {"find", "insert"} => j \in RegisterJobs
         /\ Head(s) \in {"check", "set", "load"} => j \in LoginJobs
         /\ Head(s) \in {"verify", "work", "incr"} => j \in OtherJobs
<1>1. s \in Seq(Calls(j.op))
  BY DEF Good, Fits
<1>2. Head(s) \in Calls(j.op)
  BY <1>1, TailIs
<1>3. /\ j.op \in {"register", "login", "other", "none"}
      /\ j.op = "register" => j \in RegisterJobs
      /\ j.op = "login" => j \in LoginJobs
      /\ j.op = "other" => j \in OtherJobs
  BY DEF Jobs, RegisterJobs, LoginJobs, OtherJobs, NoJob
<1>4. j.op # "none"
  BY <1>2 DEF Calls
<1>5. j # NoJob
  BY <1>4 DEF NoJob
<1>6. /\ Head(s) \in {"find", "insert"} => j.op = "register"
      /\ Head(s) \in {"check", "set", "load"} => j.op = "login"
      /\ Head(s) \in {"verify", "work", "incr"} => j.op = "other"
  BY <1>2, <1>3, <1>4 DEF Calls, Ending
<1> QED
  BY <1>2, <1>3, <1>4, <1>5, <1>6

(* A call of a script, with the request it belongs to. *)
LEMMA AtCall ==
  ASSUME AccountInv, NEW t \in Threads, NEW what, Doing(t, what)
  PROVE  \E s, j : /\ s = script[t] /\ j = job[t] /\ j \in Jobs /\ Good(s, j)
                   /\ s # <<>> /\ Head(s) = what
<1>1. job[t] \in Jobs /\ Good(script[t], job[t])
  BY DEF AccountInv, AccountTypes, Requested
<1> QED
  BY <1>1 DEF Doing

(* A step that changes the request of one thread, and no account or token. *)
LEMMA QuietStep ==
  ASSUME AccountInv, NEW t \in Threads, NEW s, NEW j \in Jobs, Good(s, j),
         script' = [script EXCEPT ![t] = s], job' = [job EXCEPT ![t] = j],
         UNCHANGED <<storeVars, pastVars>>
  PROVE  AccountInv'
<1>1. Grows
  BY SameGrows DEF AccountInv, storeVars, pastVars
<1>2. Good(s, j)'
  BY <1>1, GoodGrows
<1>3. /\ Requested' /\ job' \in [Threads -> Jobs] /\ DOMAIN script' = Threads
  BY <1>1, <1>2, OnlyThread DEF AccountInv
<1>4. AccountTypes'
  BY <1>3 DEF AccountInv, AccountTypes, storeVars, pastVars
<1>5. /\ ToldRows' /\ IssuedMatch' /\ StoredIssued' /\ GivenInForce'
      /\ UniqueNames => OneRow'
  BY DEF AccountInv, ToldRows, IssuedMatch, StoredIssued, GivenInForce, OneRow,
         Matches, InForce, storeVars, pastVars
<1> QED
  BY <1>3, <1>4, <1>5 DEF AccountInv

(* A step of a thread to its next call. *)
LEMMA AdvanceStep ==
  ASSUME AccountInv, NEW t \in Threads, NEW what, Doing(t, what),
         what \notin {"check", "set", "answer"}, Advance(t),
         UNCHANGED <<storeVars, job, pastVars>>
  PROVE  AccountInv'
<1>1. PICK s, j : /\ s = script[t] /\ j = job[t] /\ j \in Jobs /\ Good(s, j)
                  /\ s # <<>> /\ Head(s) = what
  BY AtCall
<1>2. PICK q : q = Tail(s)
  OBVIOUS
<1>3. Good(q, j)
  BY <1>1, <1>2, GoodTail
<1>4. script' = [script EXCEPT ![t] = q] /\ job' = [job EXCEPT ![t] = j]
  BY <1>1, <1>2 DEF Advance, AccountInv, AccountTypes
<1> QED
  BY <1>1, <1>3, <1>4, QuietStep

(* A handler returns with an error. *)
LEMMA ReturnStep ==
  ASSUME AccountInv, NEW t \in Threads, NEW what, Doing(t, what),
         NEW ret \in 1 .. 2, Return(t, ret), UNCHANGED <<storeVars, pastVars>>
  PROVE  AccountInv'
<1>1. PICK s, j : /\ s = script[t] /\ j = job[t] /\ j \in Jobs /\ Good(s, j)
                  /\ s # <<>> /\ Head(s) = what
  BY AtCall
<1>2. PICK c \in {NoCalls, FreeCache} :
        c = IF HasCache(t) \/ cacheAt[t] = "null" THEN FreeCache ELSE NoCalls
  OBVIOUS
<1>3. PICK d \in {NoCalls, FreeDb} :
        d = IF HasDb(t) \/ dbAt[t] = "null" THEN FreeDb ELSE NoCalls
  OBVIOUS
<1>4. PICK q : q = Left(c, d)
  OBVIOUS
<1>5. PICK k : k = [j EXCEPT !.ret = ret]
  OBVIOUS
<1>6. script' = [script EXCEPT ![t] = q] /\ job' = [job EXCEPT ![t] = k]
  <2>1. script' = [script EXCEPT ![t] = q]
    BY <1>2, <1>3, <1>4 DEF Return, Left, NoCalls, FreeCache, FreeDb, TheAnswer
  <2>2. job' = [job EXCEPT ![t] = k]
    BY <1>1, <1>5 DEF Return, AccountInv, AccountTypes
  <2> QED
    BY <2>1, <2>2
<1>7. j.op # "none"
  BY <1>1, HeadOp
<1>8. Fits(q, j.op) /\ Preceded(q, "set", "check")
  BY <1>4, <1>7, LeftFits, LeftHas
<1>9. /\ k \in Jobs /\ k.op = j.op /\ k.ret = ret
      /\ j.op = "register" => k.row = j.row /\ k.name = j.name /\ k.pwd = j.pwd
  <2>1. CASE j \in RegisterJobs
    BY <1>5, <2>1 DEF Jobs, RegisterJobs
  <2>2. CASE j \in LoginJobs
    BY <1>5, <2>2 DEF Jobs, LoginJobs
  <2>3. CASE j \in OtherJobs
    BY <1>5, <2>3 DEF Jobs, OtherJobs
  <2>4. j # NoJob
    BY <1>7 DEF NoJob
  <2> QED
    BY <1>1, <2>1, <2>2, <2>3, <2>4 DEF Jobs
<1>10. Good(q, k)
  <2>1. Fits(q, k.op) /\ k.ret # 0
    BY <1>8, <1>9
  <2>2. k.op = "register" /\ k.row # 0 =>
          [id |-> k.row, name |-> k.name, pwd |-> k.pwd] \in accounts
    BY <1>1, <1>9 DEF Good
  <2> QED
    BY <1>8, <2>1, <2>2 DEF Good
<1> QED
  BY <1>6, <1>9, <1>10, QuietStep

LEMMA BeginStep ==
  ASSUME AccountInv, NEW t \in Threads, Begin(t)
  PROVE  AccountInv'
<1>1. ASSUME NEW j \in Jobs, NEW s, Good(s, j), Start(t, j, s)
      PROVE  AccountInv'
  BY <1>1, QuietStep DEF Start
<1>2. ASSUME NEW n \in Names, NEW p \in Pwds,
             NEW j, j = [op |-> "register", name |-> n, pwd |-> p, ret |-> 0, row |-> 0],
             Start(t, j, RegisterScript)
      PROVE  AccountInv'
  <2>1. j \in Jobs /\ j.op = "register" /\ j.row = 0
    BY <1>2 DEF Jobs, RegisterJobs
  <2>2. Good(RegisterScript, j)
    BY <2>1, RegisterScriptFits DEF Good
  <2> QED
    BY <1>1, <1>2, <2>1, <2>2
<1>3. ASSUME NEW n \in Names, NEW p \in Pwds,
             NEW j, j = [op |-> "login", name |-> n, pwd |-> p, ret |-> 0, token |-> NoToken],
             Start(t, j, LoginScript)
      PROVE  AccountInv'
  <2>1. j \in Jobs /\ j.op = "login"
    BY <1>3 DEF Jobs, LoginJobs, NoToken
  <2>2. Good(LoginScript, j)
    BY <2>1, LoginScriptFits DEF Good
  <2> QED
    BY <1>1, <1>3, <2>1, <2>2
<1>4. ASSUME NEW g \in given, NEW s \in InlineScripts,
             NEW j, j = [op |-> "other", name |-> g.name, token |-> g.token, ret |-> 0],
             Start(t, j, s)
      PROVE  AccountInv'
  <2>1. g.name \in Names /\ g.token \in Nat
    BY DEF AccountInv, AccountTypes
  <2>2. j \in Jobs /\ j.op = "other"
    BY <1>4, <2>1 DEF Jobs, OtherJobs
  <2>3. Good(s, j)
    BY <2>2, InlineFits DEF Good
  <2> QED
    BY <1>1, <1>4, <2>2, <2>3
<1> QED
  BY <1>2, <1>3, <1>4 DEF Begin

LEMMA PoolsStep ==
  ASSUME AccountInv, NEW t \in Threads, Pools(t)
  PROVE  AccountInv'
<1>1. UNCHANGED <<storeVars, job, pastVars>>
  BY DEF Pools
<1>2. CASE UNCHANGED script
  BY <1>1, <1>2 DEF AccountInv, AccountTypes, Requested, Good, ToldRows,
     IssuedMatch, StoredIssued, GivenInForce, OneRow, Matches, InForce,
     storeVars, pastVars
<1>3. CASE Advance(t) /\ \E what \in {"db", "free db", "cache", "free cache"} :
             Doing(t, what)
  BY <1>1, <1>3, AdvanceStep
<1> QED
  BY <1>2, <1>3 DEF Pools, DbStep, CacheStep

LEMMA CallUnchanged ==
  ASSUME NEW t, NEW what, Call(t, what)
  PROVE  Doing(t, what)
  BY DEF Call

LEMMA CrashStep ==
  ASSUME AccountInv, Crash
  PROVE  AccountInv'
  BY DEF Crash, AccountInv, AccountTypes, Requested, Good, ToldRows,
     IssuedMatch, StoredIssued, GivenInForce, OneRow, Matches, InForce,
     storeVars, pastVars

LEMMA FindStep ==
  ASSUME AccountInv, NEW t \in Threads, FindUser(t)
  PROVE  AccountInv'
<1>1. Doing(t, "find")
  BY DEF FindUser, Call
<1>2. CASE Crash
  BY <1>2, CrashStep
<1>3. CASE UNCHANGED <<storeVars, pastVars>> /\ Return(t, 2)
  BY <1>1, <1>3, ReturnStep
<1>4. CASE UNCHANGED <<storeVars, job, pastVars>> /\ Advance(t)
  BY <1>1, <1>4, AdvanceStep
<1> QED
  BY <1>2, <1>3, <1>4 DEF FindUser

LEMMA LoadStep ==
  ASSUME AccountInv, NEW t \in Threads, LoadCounts(t)
  PROVE  AccountInv'
<1>1. Doing(t, "load")
  BY DEF LoadCounts, Call
<1>2. CASE Crash
  BY <1>2, CrashStep
<1>3. CASE UNCHANGED <<storeVars, pastVars>> /\ Return(t, 1)
  BY <1>1, <1>3, ReturnStep
<1>4. CASE UNCHANGED <<storeVars, job, pastVars>> /\ Advance(t)
  BY <1>1, <1>4, AdvanceStep
<1> QED
  BY <1>2, <1>3, <1>4 DEF LoadCounts

LEMMA VerifyStep ==
  ASSUME AccountInv, NEW t \in Threads, VerifyToken(t)
  PROVE  AccountInv'
<1>1. Doing(t, "verify")
  BY DEF VerifyToken, Call
<1>3. CASE UNCHANGED <<storeVars, pastVars>> /\ Return(t, 1)
  BY <1>1, <1>3, ReturnStep
<1>4. CASE UNCHANGED <<storeVars, job, pastVars>> /\ Advance(t)
  BY <1>1, <1>4, AdvanceStep
<1> QED
  BY <1>3, <1>4 DEF VerifyToken

LEMMA WorkStep ==
  ASSUME AccountInv, NEW t \in Threads, OtherWork(t)
  PROVE  AccountInv'
<1>1. Doing(t, "work")
  BY DEF OtherWork, Call
<1>2. CASE Crash
  BY <1>2, CrashStep
<1>4. CASE UNCHANGED <<storeVars, job, pastVars>> /\ Advance(t)
  BY <1>1, <1>4, AdvanceStep
<1> QED
  BY <1>2, <1>4 DEF OtherWork

(* The password is checked: it matches, or the login ends with an error. *)
LEMMA CheckStep ==
  ASSUME AccountInv, NEW t \in Threads, CheckPassword(t)
  PROVE  AccountInv'
<1>1. Doing(t, "check")
  BY DEF CheckPassword, Call
<1>2. CASE Crash
  BY <1>2, CrashStep
<1>3. CASE UNCHANGED <<storeVars, pastVars>> /\ Return(t, 1)
  BY <1>1, <1>3, ReturnStep
<1>4. CASE /\ UNCHANGED <<storeVars, job, pastVars>> /\ Advance(t)
           /\ \E r \in RowsOf(job[t].name) : r.pwd = job[t].pwd
  <2>1. PICK s, j : /\ s = script[t] /\ j = job[t] /\ j \in Jobs /\ Good(s, j)
                    /\ s # <<>> /\ Head(s) = "check"
    BY <1>1, AtCall
  <2>2. PICK q : q = Tail(s)
    OBVIOUS
  <2>3. Matches(j.name, j.pwd)
    BY <1>4, <2>1 DEF RowsOf, Matches
  <2>4. s \in Seq(Calls(j.op)) /\ j \in LoginJobs
    BY <2>1, HeadOp DEF Good, Fits
  <2>5. Occurs(s, "set") => Occurs(q, "set")
    BY <2>1, <2>2, <2>4, OccursTail
  <2>6. Fits(q, j.op)
    BY <2>1, <2>2, FitsTail DEF Good
  <2>7. Good(q, j)
    BY <2>1, <2>3, <2>4, <2>5, <2>6 DEF Good, LoginJobs
  <2>8. script' = [script EXCEPT ![t] = q] /\ job' = [job EXCEPT ![t] = j]
    BY <1>4, <2>1, <2>2 DEF Advance, AccountInv, AccountTypes
  <2> QED
    BY <1>4, <2>1, <2>7, <2>8, QuietStep
<1> QED
  BY <1>2, <1>3, <1>4 DEF CheckPassword

(* The row of a new account.                                               *)
LEMMA InsertStep ==
  ASSUME AccountInv, NEW t \in Threads, InsertUser(t)
  PROVE  AccountInv'
<1>1. PICK s, j : /\ s = script[t] /\ j = job[t] /\ j \in Jobs /\ Good(s, j)
                  /\ s # <<>> /\ Head(s) = "insert"
  BY AtCall DEF InsertUser, Call
<1>2. j \in RegisterJobs
  BY <1>1, HeadOp
<1>3. PICK q : q = Tail(s)
  OBVIOUS
<1>4. Fits(q, j.op)
  BY <1>1, <1>3, FitsTail DEF Good
<1>5. script' = [script EXCEPT ![t] = q]
  BY <1>1, <1>3 DEF InsertUser, Advance
<1>6. Advance(t) /\ Doing(t, "insert") /\ UNCHANGED <<tokens, pastVars>>
  BY DEF InsertUser, Call
<1>7. CASE UNCHANGED <<accounts, job>>
  BY <1>6, <1>7, AdvanceStep DEF storeVars
<1>8. CASE UNCHANGED accounts /\ job' = [job EXCEPT ![t].ret = 1]
  <2>1. PICK k : k = [j EXCEPT !.ret = 1]
    OBVIOUS
  <2>2. /\ k \in RegisterJobs /\ k.op = "register" /\ j.op = "register"
        /\ k.row = j.row /\ k.name = j.name /\ k.pwd = j.pwd
    BY <1>2, <2>1 DEF RegisterJobs
  <2>3. Good(q, k) /\ k \in Jobs
    BY <1>1, <1>4, <2>2 DEF Good, Jobs
  <2>4. job' = [job EXCEPT ![t] = k]
    BY <1>1, <1>8, <2>1
  <2> QED
    BY <1>5, <1>6, <1>8, <2>3, <2>4, QuietStep DEF storeVars
<1>9. ASSUME Insertable(NewRow(t).name), accounts' = accounts \cup {NewRow(t)},
             \/ job' = [job EXCEPT ![t].row = NewRow(t).id]
             \/ job' = [job EXCEPT ![t].ret = 1]
      PROVE  AccountInv'
  <2>1. PICK r : r = NewRow(t)
    OBVIOUS
  <2>2. /\ r \in [id : Nat, name : Names, pwd : Pwds]
        /\ r.name = j.name /\ r.pwd = j.pwd
    <3>1. Cardinality(accounts) + 1 \in Nat
      BY FS_CardinalityType DEF AccountInv, AccountTypes
    <3> QED
      BY <1>1, <1>2, <2>1, <3>1 DEF NewRow, RegisterJobs
  <2>3. r = [id |-> r.id, name |-> j.name, pwd |-> j.pwd]
    BY <2>2
  <2>4. accounts' = accounts \cup {r}
    BY <1>9, <2>1
  <2>5. IsFiniteSet(accounts')
    BY <2>4, FS_AddElement DEF AccountInv, AccountTypes
  <2>6. PICK k : /\ k = [j EXCEPT !.row = r.id] \/ k = [j EXCEPT !.ret = 1]
                 /\ job' = [job EXCEPT ![t] = k]
    BY <1>1, <1>9, <2>1
  <2>7. /\ k \in RegisterJobs /\ k.op = "register" /\ j.op = "register"
        /\ k.row = j.row \/ k.row = r.id
        /\ k.name = j.name /\ k.pwd = j.pwd
    BY <1>2, <2>2, <2>6 DEF RegisterJobs
  <2>8. Good(q, k)'
    <3>1. k.row # 0 => [id |-> k.row, name |-> k.name, pwd |-> k.pwd] \in accounts'
      BY <1>1, <2>3, <2>4, <2>7 DEF Good
    <3> QED
      BY <1>4, <2>7, <3>1 DEF Good
  <2>9. /\ tokens' = tokens /\ issued' = issued /\ lost' = lost
        /\ expired' = expired /\ given' = given /\ told' = told
    BY <1>6 DEF pastVars
  <2>10. Grows
    <3>1. Len(issued) \in Nat
      BY DEF AccountInv, AccountTypes
    <3> QED
      BY <2>4, <2>9, <3>1 DEF Grows, InForce
  <2>11. /\ Requested' /\ job' \in [Threads -> Jobs] /\ DOMAIN script' = Threads
    BY <1>5, <2>6, <2>7, <2>8, <2>10, OnlyThread DEF AccountInv, Jobs
  <2>12. AccountTypes'
    BY <2>2, <2>4, <2>5, <2>9, <2>11 DEF AccountInv, AccountTypes
  <2>13. \A n, p : Matches(n, p) => Matches(n, p)'
    BY <2>4 DEF Matches
  <2>14. ToldRows' /\ IssuedMatch' /\ StoredIssued' /\ GivenInForce'
    <3>1. ToldRows'
      BY <2>4, <2>9 DEF AccountInv, ToldRows
    <3>2. IssuedMatch'
      BY <2>9, <2>13 DEF AccountInv, IssuedMatch
    <3> QED
      BY <2>9, <3>1, <3>2 DEF AccountInv, StoredIssued, GivenInForce, InForce
  <2>15. ASSUME UniqueNames PROVE OneRow'
    <3>1. \A a \in accounts : a.name # r.name
      BY <1>9, <2>1, <2>15 DEF Insertable, RowsOf
    <3> QED
      BY <2>4, <2>15, <3>1 DEF AccountInv, OneRow
  <2> QED
    BY <2>11, <2>12, <2>14, <2>15 DEF AccountInv
<1> QED
  BY <1>7, <1>8, <1>9 DEF InsertUser

(* A token is drawn. *)
LEMMA SetStep ==
  ASSUME AccountInv, NEW t \in Threads, SetToken(t)
  PROVE  AccountInv'
<1>1. PICK s, j : /\ s = script[t] /\ j = job[t] /\ j \in Jobs /\ Good(s, j)
                  /\ s # <<>> /\ Head(s) = "set"
  BY AtCall DEF SetToken, Call
<1>2. Doing(t, "set") /\ UNCHANGED <<accounts, given, expired, told>>
  BY DEF SetToken, Call
<1>3. CASE Return(t, 1) /\ UNCHANGED <<tokens, issued, lost>>
  BY <1>2, <1>3, ReturnStep DEF storeVars, pastVars
<1>4. ASSUME Advance(t),
             issued' = Append(issued, [name |-> job[t].name, pwd |-> job[t].pwd]),
             job' = [job EXCEPT ![t].token = Len(issued) + 1],
             \/ /\ tokens' = [tokens EXCEPT ![job[t].name] = Len(issued) + 1]
                /\ UNCHANGED lost
             \/ lost' = lost \cup {Len(issued) + 1} /\ UNCHANGED tokens
      PROVE  AccountInv'
  <2>1. j \in LoginJobs
    BY <1>1, HeadOp
  <2>2. PICK n \in Nat : n = Len(issued) /\ Len(issued) \in Nat
    BY DEF AccountInv, AccountTypes
  <2>3. PICK e : e = [name |-> j.name, pwd |-> j.pwd]
    OBVIOUS
  <2>4. /\ e \in [name : Names, pwd : Pwds] /\ j.name \in Names
        /\ e.name = j.name /\ e.pwd = j.pwd /\ j.op = "login"
    BY <2>1, <2>3 DEF LoginJobs
  <2>5. /\ issued' \in Seq([name : Names, pwd : Pwds]) /\ Len(issued') = n + 1
        /\ \A m \in 1 .. n : issued'[m] = issued[m]
        /\ issued'[n + 1] = e
    <3>1. issued \in Seq([name : Names, pwd : Pwds])
      BY DEF AccountInv, AccountTypes
    <3>2. issued' = Append(issued, e)
      BY <1>1, <1>4, <2>3
    <3> QED
      BY <2>2, <2>4, <3>1, <3>2
  <2>6. PICK q : q = Tail(s)
    OBVIOUS
  <2>7. Fits(q, j.op)
    BY <1>1, <2>6, FitsTail DEF Good
  <2>8. PICK k : k = [j EXCEPT !.token = n + 1]
    OBVIOUS
  <2>9. /\ k \in LoginJobs /\ k.op = "login" /\ k.token = n + 1
        /\ k.name = j.name /\ k.pwd = j.pwd
    BY <2>1, <2>8 DEF LoginJobs
  <2>10. /\ script' = [script EXCEPT ![t] = q] /\ job' = [job EXCEPT ![t] = k]
    BY <1>1, <1>4, <2>2, <2>6, <2>8 DEF Advance
  <2>11. Matches(j.name, j.pwd)
    <3>1. ~Preceded(s, "set", "check")
      <4>1. s \in Seq(Calls(j.op))
        BY <1>1 DEF Good, Fits
      <4>2. s[1] = "set" /\ 1 \in 1 .. Len(s)
        BY <1>1, <4>1, TailIs
      <4> QED
        BY <4>2 DEF Preceded
    <3> QED
      BY <1>1, <2>4, <3>1 DEF Good
  <2>12. \A i, p : Matches(i, p) <=> Matches(i, p)'
    BY <1>2 DEF Matches
  <2>13. /\ accounts' = accounts /\ given' = given /\ expired' = expired
         /\ told' = told
    BY <1>2
  <2>14. PICK T : T = tokens /\ T \in [Names -> Int]
    BY DEF AccountInv, AccountTypes
  <2>15. \/ /\ tokens' = [T EXCEPT ![j.name] = n + 1] /\ lost' = lost
         \/ lost' = lost \cup {n + 1} /\ tokens' = T
    BY <1>1, <1>4, <2>2, <2>14
  <2>16. lost \in SUBSET (1 .. n) /\ lost' \in SUBSET (1 .. n + 1)
         /\ tokens' \in [Names -> Int]
    <3>1. lost \in SUBSET (1 .. n)
      BY <2>2 DEF AccountInv, AccountTypes
    <3>2. lost' \in SUBSET (1 .. n + 1)
      <4>1. \A x \in 1 .. n : x \in 1 .. n + 1
        OBVIOUS
      <4>2. n + 1 \in 1 .. n + 1
        OBVIOUS
      <4> QED
        BY <2>15, <3>1, <4>1, <4>2
    <3>3. tokens' \in [Names -> Int]
      BY <2>4, <2>14, <2>15
    <3> QED
      BY <3>1, <3>2, <3>3
  <2>17. InForce(j.name, n + 1)'
    BY <2>4, <2>14, <2>15 DEF InForce
  <2>18. ASSUME NEW i \in Names, NEW m \in 1 .. n, InForce(i, m)
         PROVE  InForce(i, m)'
    <3>1. CASE m \in lost \cup expired
      BY <2>13, <2>15, <3>1 DEF InForce
    <3>2. CASE \E x \in (m + 1 .. n) \ lost : issued[x].name = i
      <4>1. PICK x \in (m + 1 .. n) \ lost : issued[x].name = i
        BY <3>2
      <4>2. x \in (m + 1 .. n + 1) \ lost' /\ x \in 1 .. n
        BY <2>15
      <4> QED
        BY <2>5, <4>1, <4>2 DEF InForce
    <3>3. CASE tokens[i] = m /\ tokens'[i] = m
      BY <3>3 DEF InForce
    <3>4. CASE tokens[i] = m /\ tokens'[i] # m
      <4>1. i = j.name /\ lost' = lost
        BY <2>14, <2>15, <3>4
      <4>2. n + 1 \in (m + 1 .. n + 1) \ lost'
        BY <2>16, <4>1
      <4> QED
        BY <2>4, <2>5, <4>1, <4>2 DEF InForce
    <3> QED
      BY <2>2, <2>18, <3>1, <3>2, <3>3, <3>4 DEF InForce
  <2>19. Grows
    BY <2>2, <2>5, <2>13, <2>18 DEF Grows
  <2>20. Good(q, k)'
    <3>1. n + 1 \in 1 .. Len(issued')
      BY <2>5
    <3> QED
      BY <2>4, <2>7, <2>9, <2>11, <2>12, <2>17, <3>1 DEF Good
  <2>21. /\ Requested' /\ job' \in [Threads -> Jobs] /\ DOMAIN script' = Threads
    BY <2>9, <2>10, <2>19, <2>20, OnlyThread DEF AccountInv, Jobs
  <2>22. AccountTypes'
    <3>1. given' \in SUBSET [name : Names, token : 1 .. Len(issued')]
      <4>1. given \in SUBSET [name : Names, token : 1 .. n]
        BY <2>2 DEF AccountInv, AccountTypes
      <4> QED
        BY <2>5, <2>13, <4>1
    <3> QED
      BY <2>5, <2>13, <2>16, <2>21, <3>1 DEF AccountInv, AccountTypes
  <2>23. ToldRows' /\ (UniqueNames => OneRow')
    BY <2>13 DEF AccountInv, ToldRows, OneRow
  <2>24. IssuedMatch'
    <3>1. PICK I : I = issued'
      OBVIOUS
    <3>2. ASSUME NEW m \in 1 .. n PROVE Matches(I[m].name, I[m].pwd)'
      <4>1. Matches(issued[m].name, issued[m].pwd)
        BY <2>2 DEF AccountInv, IssuedMatch
      <4>2. Matches(I[m].name, I[m].pwd)
        BY <2>5, <3>1, <4>1
      <4> QED
        BY <2>12, <4>2
    <3>3. Matches(I[n + 1].name, I[n + 1].pwd)'
      BY <2>4, <2>5, <2>11, <2>12, <3>1
    <3>4. \A m \in 1 .. n + 1 : m \in 1 .. n \/ m = n + 1
      OBVIOUS
    <3>5. \A m \in 1 .. n + 1 : Matches(I[m].name, I[m].pwd)'
      BY <3>2, <3>3, <3>4
    <3> QED
      BY <2>5, <3>1, <3>5 DEF IssuedMatch
  <2>25. StoredIssued'
    <3>1. SUFFICES ASSUME NEW i \in Names, tokens'[i] > 0
                   PROVE  tokens'[i] \in 1 .. n + 1 /\ issued'[tokens'[i]].name = i
      BY <2>5 DEF StoredIssued
    <3>2. CASE tokens'[i] = tokens[i]
      <4>1. tokens[i] \in 1 .. n /\ issued[tokens[i]].name = i
        BY <2>2, <3>1, <3>2 DEF AccountInv, StoredIssued
      <4> QED
        BY <2>5, <3>2, <4>1
    <3>3. CASE tokens'[i] # tokens[i]
      <4>1. i = j.name /\ tokens'[i] = n + 1
        BY <2>14, <2>15, <3>3
      <4> QED
        BY <2>4, <2>5, <4>1
    <3> QED
      BY <3>2, <3>3
  <2>26. GivenInForce'
    <3>1. \A g \in given : g.name \in Names /\ g.token \in 1 .. n
      BY <2>2 DEF AccountInv, AccountTypes
    <3> QED
      BY <2>13, <2>18, <3>1 DEF AccountInv, GivenInForce
  <2> QED
    BY <2>21, <2>22, <2>23, <2>24, <2>25, <2>26 DEF AccountInv
<1> QED
  BY <1>3, <1>4 DEF SetToken

(* An upload is counted under the name of the user: a token stays.         *)
LEMMA IncrStep ==
  ASSUME AccountInv, NEW t \in Threads, CountUpload(t)
  PROVE  AccountInv'
<1>1. PICK s, j : /\ s = script[t] /\ j = job[t] /\ j \in Jobs /\ Good(s, j)
                  /\ s # <<>> /\ Head(s) = "incr"
  BY AtCall DEF CountUpload, Call
<1>2. j.name \in Names
  BY <1>1, HeadOp DEF OtherJobs
<1>3. PICK q : q = Tail(s)
  OBVIOUS
<1>4. /\ script' = [script EXCEPT ![t] = q] /\ job' = [job EXCEPT ![t] = j]
      /\ accounts' = accounts /\ issued' = issued /\ lost' = lost
      /\ expired' = expired /\ given' = given /\ told' = told
  BY <1>1, <1>3 DEF CountUpload, Advance, pastVars, AccountInv, AccountTypes
<1>5. /\ tokens \in [Names -> Int] /\ tokens' \in [Names -> Int]
      /\ \A n \in Names : tokens'[n] = tokens[n] \/ (tokens[n] <= 0 /\ tokens'[n] <= 0)
  <2>1. tokens \in [Names -> Int]
    BY DEF AccountInv, AccountTypes
  <2>2. tokens' = [tokens EXCEPT ![j.name] = Incremented(tokens[j.name])]
    BY <1>1 DEF CountUpload
  <2>3. Incremented(tokens[j.name]) \in Int
    BY <1>2, <2>1 DEF Incremented, Count
  <2>4. \/ Incremented(tokens[j.name]) = tokens[j.name]
        \/ tokens[j.name] <= 0 /\ Incremented(tokens[j.name]) <= 0
    BY <1>2, <2>1 DEF Incremented, Count, NoToken
  <2> QED
    BY <1>2, <2>1, <2>2, <2>3, <2>4
<1>6. Grows
  <2>1. ASSUME NEW n \in Names, NEW m \in 1 .. Len(issued), InForce(n, m)
        PROVE  InForce(n, m)'
    <3>1. Len(issued) \in Nat
      BY DEF AccountInv, AccountTypes
    <3>2. m > 0 /\ m \in Int
      BY <3>1
    <3>3. tokens[n] = m => tokens'[n] = m
      BY <1>5, <3>2
    <3> QED
      BY <1>4, <2>1, <3>3 DEF InForce
  <2> QED
    BY <1>4, <2>1 DEF Grows, AccountInv, AccountTypes
<1>7. Good(q, j)'
  <2>1. Good(q, j)
    BY <1>1, <1>3, GoodTail
  <2> QED
    BY <1>1, <1>6, <2>1, GoodGrows
<1>8. /\ Requested' /\ job' \in [Threads -> Jobs] /\ DOMAIN script' = Threads
  BY <1>1, <1>4, <1>6, <1>7, OnlyThread DEF AccountInv
<1>9. AccountTypes'
  BY <1>4, <1>5, <1>8 DEF AccountInv, AccountTypes
<1>10. ToldRows' /\ (UniqueNames => OneRow') /\ IssuedMatch'
  BY <1>4 DEF AccountInv, ToldRows, OneRow, IssuedMatch, Matches
<1>11. StoredIssued'
  BY <1>4, <1>5 DEF AccountInv, StoredIssued
<1>12. GivenInForce'
  <2>1. \A g \in given : g.name \in Names /\ g.token \in 1 .. Len(issued)
    BY DEF AccountInv, AccountTypes
  <2> QED
    BY <1>4, <1>6, <2>1 DEF AccountInv, GivenInForce, Grows
<1> QED
  BY <1>8, <1>9, <1>10, <1>11, <1>12 DEF AccountInv

LEMMA ExpireStep ==
  ASSUME AccountInv, NEW n \in Names, TokenExpires(n)
  PROVE  AccountInv'
<1>1. /\ expired' = expired \cup {tokens[n]}
      /\ tokens' = [tokens EXCEPT ![n] = 0]
      /\ script' = script /\ job' = job /\ accounts' = accounts
      /\ issued' = issued /\ lost' = lost /\ given' = given /\ told' = told
  BY DEF TokenExpires, NoToken, poolVars
<1>2. Grows
  <2>1. ASSUME NEW i \in Names, NEW m \in 1 .. Len(issued), InForce(i, m)
        PROVE  InForce(i, m)'
    <3>1. CASE tokens[i] = m
      <4>1. tokens'[i] = m \/ m \in expired'
        BY <1>1, <3>1 DEF AccountInv, AccountTypes
      <4> QED
        BY <4>1 DEF InForce
    <3>2. CASE tokens[i] # m
      BY <1>1, <2>1, <3>2 DEF InForce
    <3> QED
      BY <3>1, <3>2
  <2> QED
    BY <1>1, <2>1 DEF Grows, AccountInv, AccountTypes
<1>3. Requested'
  <2>1. ASSUME NEW u \in Threads PROVE Good(script[u], job[u])'
    <3>1. PICK s : s = script[u]
      OBVIOUS
    <3>2. PICK j \in Jobs : j = job[u]
      BY DEF AccountInv, AccountTypes
    <3>3. Good(s, j)
      BY <3>1, <3>2 DEF AccountInv, Requested
    <3>4. Good(s, j)'
      BY <1>2, <3>3, GoodGrows
    <3>5. script'[u] = s /\ job'[u] = j
      BY <1>1, <3>1, <3>2
    <3> QED
      BY <3>4, <3>5
  <2> QED
    BY <2>1 DEF Requested
<1>4. AccountTypes'
  BY <1>1 DEF AccountInv, AccountTypes
<1>5. ToldRows' /\ (UniqueNames => OneRow') /\ IssuedMatch'
  BY <1>1 DEF AccountInv, ToldRows, OneRow, IssuedMatch, Matches
<1>6. StoredIssued'
  BY <1>1 DEF AccountInv, AccountTypes, StoredIssued
<1>7. GivenInForce'
  <2>1. \A g \in given : g.name \in Names /\ g.token \in 1 .. Len(issued)
    BY DEF AccountInv, AccountTypes
  <2> QED
    BY <1>1, <1>2, <2>1 DEF AccountInv, GivenInForce, Grows
<1> QED
  BY <1>3, <1>4, <1>5, <1>6, <1>7 DEF AccountInv

LEMMA AnswerStep ==
  ASSUME AccountInv, NEW t \in Threads, Answer(t)
  PROVE  AccountInv'
<1>1. PICK s, j : /\ s = script[t] /\ j = job[t] /\ j \in Jobs /\ Good(s, j)
                  /\ s # <<>> /\ Head(s) = "answer"
  BY AtCall DEF Answer, Call
<1>2. Tail(s) = <<>> /\ Len(s) = 1 /\ s[1] = "answer"
  BY <1>1, FitsAnswer DEF Good
<1>3. ~Occurs(s, "set")
  BY <1>2 DEF Occurs
<1>4. PICK q : q = <<>>
  OBVIOUS
<1>5. /\ script' = [script EXCEPT ![t] = q] /\ job' = [job EXCEPT ![t] = NoJob]
      /\ accounts' = accounts /\ tokens' = tokens /\ issued' = issued
      /\ lost' = lost /\ expired' = expired
  BY <1>1, <1>2, <1>4 DEF Answer, Advance, storeVars
<1>6. Good(q, NoJob)' /\ NoJob \in Jobs
  <2>1. Fits(q, "none")
    BY <1>4 DEF Fits, Followed
  <2> QED
    BY <2>1 DEF Good, NoJob, Jobs
<1>7. Grows
  BY <1>5, SameGrows DEF AccountInv
<1>8. /\ Requested' /\ job' \in [Threads -> Jobs] /\ DOMAIN script' = Threads
  BY <1>5, <1>6, <1>7, OnlyThread DEF AccountInv
<1>9. ToldRows'
  <2>1. CASE told' = told
    BY <1>5, <2>1 DEF AccountInv, ToldRows
  <2>2. CASE /\ j.op = "register"
             /\ told' = told \cup {[name |-> j.name, pwd |-> j.pwd, row |-> j.row]}
    <3>1. j.row # 0 => [id |-> j.row, name |-> j.name, pwd |-> j.pwd] \in accounts
      BY <1>1, <2>2 DEF Good
    <3>2. PICK e : e = [name |-> j.name, pwd |-> j.pwd, row |-> j.row]
      OBVIOUS
    <3>3. e.name = j.name /\ e.pwd = j.pwd /\ e.row = j.row
      BY <3>2
    <3>4. told' = told \cup {e}
      BY <2>2, <3>2
    <3> QED
      BY <1>5, <3>1, <3>3, <3>4 DEF AccountInv, ToldRows
  <2> QED
    BY <1>1, <2>1, <2>2 DEF Answer
<1>10. GivenInForce' /\ given' \in SUBSET [name : Names, token : 1 .. Len(issued)]
  <2>1. CASE given' = given
    BY <1>5, <2>1 DEF AccountInv, AccountTypes, GivenInForce, InForce
  <2>2. CASE /\ j.op = "login" /\ j.ret = 0
             /\ given' = given \cup {[name |-> j.name, token |-> j.token]}
    <3>1. j.token \in 1 .. Len(issued) /\ InForce(j.name, j.token)
      BY <1>1, <1>3, <2>2 DEF Good
    <3>2. j.name \in Names
      BY <1>1, <2>2 DEF Jobs, RegisterJobs, LoginJobs, OtherJobs, NoJob
    <3>3. PICK e : e = [name |-> j.name, token |-> j.token]
      OBVIOUS
    <3>4. /\ e.name = j.name /\ e.token = j.token
          /\ e \in [name : Names, token : 1 .. Len(issued)]
      BY <3>1, <3>2, <3>3
    <3>5. given' = given \cup {e}
      BY <2>2, <3>3
    <3>6. \A n, m : InForce(n, m) => InForce(n, m)'
      BY <1>5 DEF InForce
    <3>7. \A g \in given' : InForce(g.name, g.token)
      BY <3>1, <3>4, <3>5 DEF AccountInv, GivenInForce
    <3>8. GivenInForce'
      BY <3>6, <3>7 DEF GivenInForce
    <3> QED
      BY <3>4, <3>5, <3>8 DEF AccountInv, AccountTypes
  <2> QED
    BY <1>1, <2>1, <2>2 DEF Answer
<1>11. AccountTypes'
  BY <1>5, <1>8, <1>10 DEF AccountInv, AccountTypes
<1>12. (UniqueNames => OneRow') /\ IssuedMatch' /\ StoredIssued'
  BY <1>5 DEF AccountInv, OneRow, IssuedMatch, Matches, StoredIssued
<1> QED
  BY <1>8, <1>9, <1>10, <1>11, <1>12 DEF AccountInv

LEMMA AccountStart ==
  ASSUME AccountsInit
  PROVE  AccountInv
<1>1. /\ tokens = [n \in Names |-> 0] /\ job = [t \in Threads |-> NoJob]
      /\ issued = <<>> /\ given = {} /\ lost = {} /\ expired = {} /\ told = {}
      /\ script = [t \in Threads |-> <<>>]
  BY DEF AccountsInit, Init, NoToken
<1>2. /\ accounts \in SUBSET [id : Nat, name : Names, pwd : Pwds]
      /\ IsFiniteSet(accounts) /\ OneRow
  <2>1. CASE accounts = {}
    BY <2>1, FS_EmptySet DEF OneRow
  <2>2. ASSUME NEW n \in Names, NEW p \in Pwds,
               accounts = {[id |-> 1, name |-> n, pwd |-> p]}
        PROVE  /\ accounts \in SUBSET [id : Nat, name : Names, pwd : Pwds]
               /\ IsFiniteSet(accounts) /\ OneRow
    <3>1. PICK r : r = [id |-> 1, name |-> n, pwd |-> p]
      OBVIOUS
    <3>2. accounts = {r} /\ r \in [id : Nat, name : Names, pwd : Pwds]
      BY <2>2, <3>1
    <3> QED
      BY <3>2, FS_Singleton DEF OneRow
  <2> QED
    BY <2>1, <2>2 DEF AccountsInit
<1>3. Len(issued) = 0 /\ issued \in Seq([name : Names, pwd : Pwds])
  BY <1>1
<1>4. AccountTypes
  BY <1>1, <1>2, <1>3 DEF AccountTypes, Jobs
<1>5. Requested
  <2>1. PICK q : q = <<>>
    OBVIOUS
  <2>2. Good(q, NoJob)
    BY <2>1 DEF Good, Fits, Followed, NoJob
  <2> QED
    BY <1>1, <2>1, <2>2 DEF Requested
<1>6. ToldRows /\ IssuedMatch /\ StoredIssued /\ GivenInForce
  BY <1>1, <1>3 DEF ToldRows, IssuedMatch, StoredIssued, GivenInForce
<1> QED
  BY <1>2, <1>4, <1>5, <1>6 DEF AccountInv

LEMMA StillStep ==
  ASSUME AccountInv, UNCHANGED <<storeVars, job, pastVars, script>>
  PROVE  AccountInv'
<1>1. /\ accounts' = accounts /\ tokens' = tokens /\ job' = job
      /\ issued' = issued /\ given' = given /\ lost' = lost
      /\ expired' = expired /\ told' = told /\ script' = script
  BY DEF storeVars, pastVars
<1>2. \A s, j : Good(s, j) => Good(s, j)'
  BY <1>1 DEF Good, Matches, InForce
<1>3. Requested'
  BY <1>1, <1>2 DEF AccountInv, Requested
<1>4. AccountTypes' /\ ToldRows' /\ (UniqueNames => OneRow')
  BY <1>1 DEF AccountInv, AccountTypes, ToldRows, OneRow
<1>5. IssuedMatch' /\ StoredIssued'
  BY <1>1 DEF AccountInv, IssuedMatch, Matches, StoredIssued
<1>6. GivenInForce'
  BY <1>1 DEF AccountInv, GivenInForce, InForce
<1> QED
  BY <1>3, <1>4, <1>5, <1>6 DEF AccountInv

LEMMA AccountStep ==
  ASSUME AccountInv, [Next]_vars
  PROVE  AccountInv'
<1>1. CASE UNCHANGED vars
  BY <1>1, StillStep DEF vars, poolVars
<1>2. ASSUME NEW t \in Threads, Thread(t)
      PROVE  AccountInv'
  BY <1>2, BeginStep, PoolsStep, FindStep, InsertStep, CheckStep, SetStep,
     LoadStep, VerifyStep, WorkStep, IncrStep, AnswerStep DEF Thread
<1>3. ASSUME NEW n \in Names, TokenExpires(n)
      PROVE  AccountInv'
  BY <1>3, ExpireStep
<1>4. CASE Wakeup
  BY <1>4, StillStep DEF Wakeup, Spurious
<1> QED
  BY <1>1, <1>2, <1>3, <1>4 DEF Next

LEMMA AccountAlways == Spec => []AccountInv
  BY AccountStart, AccountStep, PTL DEF Spec

(* With the key uq_user_name a name has one account, and who is told that  *)
(* he is registered has it, although the handler looks for the name and    *)
(* inserts it in two statements.                                           *)
THEOREM OneAccount == ASSUME UniqueNames PROVE Spec => []RegisteredOnce
<1>1. AccountInv => RegisteredOnce
  BY DEF AccountInv, OneRow, ToldRows, RegisteredOnce
<1> QED
  BY <1>1, AccountAlways, PTL

(* The stored token of a user was drawn for him, with his password.        *)
THEOREM TokensMatch == Spec => []TokenOfAccount
<1>1. ASSUME AccountInv PROVE TokenOfAccount
  <2>1. SUFFICES ASSUME NEW n \in Names, tokens[n] > 0
                 PROVE  /\ issued[tokens[n]].name = n
                        /\ \E r \in RowsOf(n) : r.pwd = issued[tokens[n]].pwd
    BY DEF TokenOfAccount
  <2>2. tokens[n] \in 1 .. Len(issued) /\ issued[tokens[n]].name = n
    BY <1>1, <2>1 DEF AccountInv, StoredIssued
  <2>3. Matches(n, issued[tokens[n]].pwd)
    BY <1>1, <2>2 DEF AccountInv, IssuedMatch
  <2> QED
    BY <2>2, <2>3 DEF Matches, RowsOf
<1> QED
  BY <1>1, AccountAlways, PTL

(* What a login answered is accepted until it expires or is replaced: no   *)
(* step of another request undoes it.                                      *)
THEOREM TokensStay == Spec => []TokenStays
<1>1. AccountInv => TokenStays
  BY DEF AccountInv, GivenInForce, InForce, TokenStays
<1> QED
  BY <1>1, AccountAlways, PTL

(* The pools, with the theorems about them.                                *)
DbP == INSTANCE ConnPoolProofs
         WITH Users <- Threads, MinConns <- DbMin, MaxConns <- DbMax,
              Careless <- {}, free <- dbFree, cur <- dbCur, at <- dbAt,
              limit <- dbLimit, has <- dbHas

CacheP == INSTANCE ConnPoolProofs
            WITH Users <- Threads, MinConns <- CacheMin, MaxConns <- CacheMax,
                 Careless <- {}, free <- cacheFree, cur <- cacheCur,
                 at <- cacheAt, limit <- cacheLimit, has <- cacheHas

LEMMA DbConstants == DbP!ConnPoolAssumption
<1>1. DbP!IsFiniteSet(Threads)
  BY ServerPoolsAssumption DEF DbP!IsFiniteSet, IsFiniteSet
<1> QED
  BY <1>1, ServerPoolsAssumption DEF DbP!ConnPoolAssumption

LEMMA CacheConstants == CacheP!ConnPoolAssumption
<1>1. CacheP!IsFiniteSet(Threads)
  BY ServerPoolsAssumption DEF CacheP!IsFiniteSet, IsFiniteSet
<1> QED
  BY <1>1, ServerPoolsAssumption DEF CacheP!ConnPoolAssumption

(* The steps of a thread on a pool are those of a user of the pool.        *)
DbMove ==
  \/ \E t \in Threads :
       Db!Get(t, FALSE) \/ Db!Wake(t) \/ Db!Release(t) \/ Db!ReleaseNull(t)
  \/ Db!Spurious
  \/ UNCHANGED dbVars

CacheMove ==
  \/ \E t \in Threads :
       Cache!Get(t, FALSE) \/ Cache!Wake(t) \/ Cache!Release(t)
         \/ Cache!ReleaseNull(t)
  \/ Cache!Spurious
  \/ UNCHANGED cacheVars

LEMMA PoolMoves ==
  ASSUME [Next]_vars
  PROVE  DbMove /\ CacheMove
<1>1. CASE UNCHANGED vars
  BY <1>1 DEF vars, poolVars, DbMove, CacheMove
<1>2. ASSUME NEW n \in Names, TokenExpires(n)
      PROVE  DbMove /\ CacheMove
  BY <1>2 DEF TokenExpires, poolVars, DbMove, CacheMove
<1>3. CASE Wakeup
  BY <1>3 DEF Wakeup, Spurious, DbMove, CacheMove
<1>4. ASSUME NEW t \in Threads, Pools(t)
      PROVE  DbMove /\ CacheMove
  BY <1>4 DEF Pools, DbStep, CacheStep, DbMove, CacheMove
<1>5. ASSUME NEW t \in Threads, Begin(t)
      PROVE  DbMove /\ CacheMove
  BY <1>5 DEF Begin, Start, DbMove, CacheMove
<1>6. ASSUME NEW t \in Threads, NEW what, Call(t, what)
      PROVE  DbMove /\ CacheMove
  BY <1>6 DEF Call, DbMove, CacheMove
<1>7. ASSUME NEW t \in Threads, Thread(t)
      PROVE  DbMove /\ CacheMove
  BY <1>4, <1>5, <1>6, <1>7 DEF Thread, FindUser, InsertUser, CheckPassword,
     SetToken, LoadCounts, VerifyToken, OtherWork, CountUpload, Answer
<1> QED
  BY <1>1, <1>2, <1>3, <1>7 DEF Next

LEMMA DbRule ==
  ASSUME DbMove
  PROVE  [DbP!Next]_(DbP!vars)
<1>1. ASSUME NEW t \in Threads,
             Db!Get(t, FALSE) \/ Db!Wake(t) \/ Db!Release(t) \/ Db!ReleaseNull(t)
      PROVE  DbP!Get(t, FALSE) \/ DbP!Wake(t) \/ DbP!Release(t) \/ DbP!ReleaseNull(t)
  BY <1>1 DEF Db!Get, DbP!Get, Db!Wake, DbP!Wake, Db!Release, DbP!Release,
     Db!ReleaseNull, DbP!ReleaseNull, Db!TakeFree, DbP!TakeFree, Db!MayCreate,
     DbP!MayCreate, Db!GiveBack, DbP!GiveBack, Db!InFree, DbP!InFree,
     Db!NotifyOne, DbP!NotifyOne, Db!Asleep, DbP!Asleep, Db!NoConn, DbP!NoConn
<1>2. Db!Spurious => DbP!Spurious
  BY DEF Db!Spurious, DbP!Spurious, Db!Asleep, DbP!Asleep
<1>3. UNCHANGED dbVars => UNCHANGED DbP!vars
  BY DEF dbVars, DbP!vars
<1> QED
  BY <1>1, <1>2, <1>3 DEF DbMove, DbP!Next, DbP!User

LEMMA CacheRule ==
  ASSUME CacheMove
  PROVE  [CacheP!Next]_(CacheP!vars)
<1>1. ASSUME NEW t \in Threads,
             Cache!Get(t, FALSE) \/ Cache!Wake(t) \/ Cache!Release(t) \/ Cache!ReleaseNull(t)
      PROVE  CacheP!Get(t, FALSE) \/ CacheP!Wake(t) \/ CacheP!Release(t) \/ CacheP!ReleaseNull(t)
  BY <1>1 DEF Cache!Get, CacheP!Get, Cache!Wake, CacheP!Wake, Cache!Release, CacheP!Release,
     Cache!ReleaseNull, CacheP!ReleaseNull, Cache!TakeFree, CacheP!TakeFree, Cache!MayCreate,
     CacheP!MayCreate, Cache!GiveBack, CacheP!GiveBack, Cache!InFree, CacheP!InFree,
     Cache!NotifyOne, CacheP!NotifyOne, Cache!Asleep, CacheP!Asleep, Cache!NoConn, CacheP!NoConn
<1>2. Cache!Spurious => CacheP!Spurious
  BY DEF Cache!Spurious, CacheP!Spurious, Cache!Asleep, CacheP!Asleep
<1>3. UNCHANGED cacheVars => UNCHANGED CacheP!vars
  BY DEF cacheVars, CacheP!vars
<1> QED
  BY <1>1, <1>2, <1>3 DEF CacheMove, CacheP!Next, CacheP!User

(* The threads use both pools by the rules of their module, so that what   *)
(* is proved of a pool holds of both.                                      *)
THEOREM PoolsByRule == Spec => DbP!Spec /\ CacheP!Spec
<1>1. AccountsInit => DbP!Init /\ CacheP!Init
  BY DEF AccountsInit, Init, Db!Init, DbP!Init, Cache!Init, CacheP!Init,
     Db!NoConn, DbP!NoConn, Cache!NoConn, CacheP!NoConn
<1>2. [Next]_vars => [DbP!Next]_(DbP!vars) /\ [CacheP!Next]_(CacheP!vars)
  BY PoolMoves, DbRule, CacheRule
<1> QED
  BY <1>1, <1>2, PTL DEF Spec, DbP!Spec, CacheP!Spec

-----------------------------------------------------------------------------
(* Connections come back.                                                  *)

(* A thread that has a connection gives it back before its request ends;   *)
(* it waits for one only in the call that gets one.                        *)
Lent(s, h, a, get, give) ==
  /\ h # 0 => Occurs(s, give)
  /\ a \in {"asleep", "woken"} => s # <<>> /\ Head(s) = get

DbLent    == \A t \in Threads : Lent(script[t], dbHas[t], dbAt[t], "db", "free db")
CacheLent ==
  \A t \in Threads :
    Lent(script[t], cacheHas[t], cacheAt[t], "cache", "free cache")

PoolsInv ==
  /\ DbP!ShareInv /\ DbP!NoneLost /\ DbLent
  /\ CacheP!ShareInv /\ CacheP!NoneLost /\ CacheLent

(* What a thread may do with its script besides using the pools.           *)
PoolCalls == {"db", "free db", "cache", "free cache"}

ScriptMove(t) ==
  \/ UNCHANGED script
  \/ \E what : Doing(t, what) /\ what \notin PoolCalls /\ Advance(t)
  \/ \E what, ret : Doing(t, what) /\ what \notin PoolCalls /\ Return(t, ret)
  \/ \E s : job[t] = NoJob /\ script' = [script EXCEPT ![t] = s]

LEMMA ThreadMove ==
  ASSUME NEW t \in Threads, Thread(t)
  PROVE  \/ DbStep(t)
         \/ CacheStep(t)
         \/ ScriptMove(t) /\ UNCHANGED <<dbVars, cacheVars>>
<1>1. ASSUME NEW what, Call(t, what), what \notin PoolCalls,
             Advance(t) \/ UNCHANGED script \/ \E ret : Return(t, ret)
      PROVE  ScriptMove(t) /\ UNCHANGED <<dbVars, cacheVars>>
  BY <1>1 DEF Call, ScriptMove
<1>2. CASE Begin(t)
  BY <1>2 DEF Begin, Start, ScriptMove
<1>3. CASE Pools(t)
  BY <1>3 DEF Pools
<1>4. CASE FindUser(t)
  BY <1>1, <1>4 DEF FindUser, PoolCalls, Crash
<1>5. CASE InsertUser(t)
  BY <1>1, <1>5 DEF InsertUser, PoolCalls
<1>6. CASE CheckPassword(t)
  BY <1>1, <1>6 DEF CheckPassword, PoolCalls, Crash
<1>7. CASE SetToken(t)
  BY <1>1, <1>7 DEF SetToken, PoolCalls
<1>8. CASE LoadCounts(t)
  BY <1>1, <1>8 DEF LoadCounts, PoolCalls, Crash
<1>9. CASE VerifyToken(t)
  BY <1>1, <1>9 DEF VerifyToken, PoolCalls
<1>10. CASE OtherWork(t)
  BY <1>1, <1>10 DEF OtherWork, PoolCalls, Crash
<1>11. CASE CountUpload(t)
  BY <1>1, <1>11 DEF CountUpload, PoolCalls
<1>12. CASE Answer(t)
  BY <1>1, <1>12 DEF Answer, PoolCalls
<1> QED
  BY <1>2, <1>3, <1>4, <1>5, <1>6, <1>7, <1>8, <1>9, <1>10, <1>11, <1>12
     DEF Thread

(* A call that is not of the pool leaves what is owed.                     *)
LEMMA LentTail ==
  ASSUME NEW S, NEW s \in Seq(S), s # <<>>, NEW h, NEW a, NEW get, NEW give,
         Lent(s, h, a, get, give), Head(s) # get, Head(s) # give
  PROVE  Lent(Tail(s), h, a, get, give)
  BY OccursTail DEF Lent

LEMMA ScriptSeq ==
  ASSUME AccountInv, NEW t \in Threads
  PROVE  /\ script[t] \in Seq(Calls(job[t].op))
         /\ Followed(script[t], "db", "free db")
         /\ Followed(script[t], "cache", "free cache")
         /\ job[t] = NoJob => script[t] = <<>>
         /\ DOMAIN script = Threads
<1>1. /\ script[t] \in Seq(Calls(job[t].op))
      /\ Followed(script[t], "db", "free db")
      /\ Followed(script[t], "cache", "free cache")
      /\ DOMAIN script = Threads
  BY DEF AccountInv, AccountTypes, Requested, Good, Fits
<1>2. ASSUME job[t] = NoJob PROVE script[t] = <<>>
  <2>1. job[t].op = "none"
    BY <1>2 DEF NoJob
  <2>2. Calls(job[t].op) = {}
    BY <2>1 DEF Calls
  <2>3. PICK s : s = script[t] /\ s \in Seq({})
    BY <1>1, <2>2
  <2>4. s = <<>>
    <3>1. CASE s # <<>>
      <4>1. s[1] \in {}
        BY <2>3, <3>1, TailIs
      <4> QED
        BY <4>1
    <3> QED
      BY <3>1
  <2> QED
    BY <2>3, <2>4
<1> QED
  BY <1>1, <1>2

(* Steps that leave the pools alone.                                       *)
LEMMA ScriptLent ==
  ASSUME AccountInv, PoolsInv, NEW t \in Threads, ScriptMove(t),
         UNCHANGED <<dbVars, cacheVars>>
  PROVE  DbLent' /\ CacheLent'
<1>1. /\ dbHas' = dbHas /\ dbAt' = dbAt /\ cacheHas' = cacheHas
      /\ cacheAt' = cacheAt
  BY DEF dbVars, cacheVars
<1>2. ASSUME NEW s, script' = [script EXCEPT ![t] = s],
             Lent(s, dbHas[t], dbAt[t], "db", "free db"),
             Lent(s, cacheHas[t], cacheAt[t], "cache", "free cache")
      PROVE  DbLent' /\ CacheLent'
  <2>1. ASSUME NEW u \in Threads
        PROVE  /\ Lent(script[u], dbHas[u], dbAt[u], "db", "free db")'
               /\ Lent(script[u], cacheHas[u], cacheAt[u], "cache", "free cache")'
    <3>1. CASE u = t
      <4>1. script'[u] = s
        BY <1>2, <3>1, ScriptSeq
      <4> QED
        BY <1>1, <1>2, <3>1, <4>1 DEF Lent
    <3>2. CASE u # t
      <4>1. script'[u] = script[u]
        BY <1>2, <3>2, ScriptSeq
      <4> QED
        BY <1>1, <4>1 DEF Lent, PoolsInv, DbLent, CacheLent
    <3> QED
      BY <3>1, <3>2
  <2> QED
    BY <2>1 DEF DbLent, CacheLent
<1>3. /\ Lent(script[t], dbHas[t], dbAt[t], "db", "free db")
      /\ Lent(script[t], cacheHas[t], cacheAt[t], "cache", "free cache")
  BY DEF PoolsInv, DbLent, CacheLent
<1>4. PICK q : q = script[t]
  OBVIOUS
<1>5. PICK S : q \in Seq(S)
  BY <1>4, ScriptSeq
<1>6. CASE UNCHANGED script
  BY <1>1, <1>6 DEF Lent, PoolsInv, DbLent, CacheLent
<1>7. ASSUME NEW what, Doing(t, what), what \notin PoolCalls, Advance(t)
      PROVE  DbLent' /\ CacheLent'
  <2>1. /\ q # <<>> /\ Head(q) \notin PoolCalls
        /\ script' = [script EXCEPT ![t] = Tail(q)]
    BY <1>4, <1>7 DEF Doing, Advance
  <2>2. /\ Lent(Tail(q), dbHas[t], dbAt[t], "db", "free db")
        /\ Lent(Tail(q), cacheHas[t], cacheAt[t], "cache", "free cache")
    BY <1>3, <1>4, <1>5, <2>1, LentTail DEF PoolCalls
  <2> QED
    BY <1>2, <2>1, <2>2
<1>8. ASSUME NEW what, NEW ret, Doing(t, what), what \notin PoolCalls, Return(t, ret)
      PROVE  DbLent' /\ CacheLent'
  <2>1. PICK c \in {NoCalls, FreeCache} :
          c = IF HasCache(t) \/ cacheAt[t] = "null" THEN FreeCache ELSE NoCalls
    OBVIOUS
  <2>2. PICK d \in {NoCalls, FreeDb} :
          d = IF HasDb(t) \/ dbAt[t] = "null" THEN FreeDb ELSE NoCalls
    OBVIOUS
  <2>3. script' = [script EXCEPT ![t] = Left(c, d)]
    BY <1>8, <2>1, <2>2 DEF Return, Left, NoCalls, FreeCache, FreeDb, TheAnswer
  <2>4. q # <<>> /\ Head(q) \notin PoolCalls
    BY <1>4, <1>8 DEF Doing
  <2>5. dbAt[t] \notin {"asleep", "woken"} /\ cacheAt[t] \notin {"asleep", "woken"}
    BY <1>3, <1>4, <2>4 DEF Lent, PoolCalls
  <2>6. (dbHas[t] # 0 => d = FreeDb) /\ (cacheHas[t] # 0 => c = FreeCache)
    BY <2>1, <2>2 DEF HasDb, HasCache, Db!NoConn, Cache!NoConn
  <2>7. /\ Lent(Left(c, d), dbHas[t], dbAt[t], "db", "free db")
        /\ Lent(Left(c, d), cacheHas[t], cacheAt[t], "cache", "free cache")
    BY <2>5, <2>6, LeftHas DEF Lent
  <2> QED
    BY <1>2, <2>3, <2>7
<1>9. ASSUME NEW s, job[t] = NoJob, script' = [script EXCEPT ![t] = s]
      PROVE  DbLent' /\ CacheLent'
  <2>1. q = <<>>
    BY <1>4, <1>9, ScriptSeq
  <2>2. /\ dbHas[t] = 0 /\ dbAt[t] \notin {"asleep", "woken"}
        /\ cacheHas[t] = 0 /\ cacheAt[t] \notin {"asleep", "woken"}
    BY <1>3, <1>4, <2>1 DEF Lent, Occurs
  <2> QED
    BY <1>2, <1>9, <2>2 DEF Lent
<1> QED
  BY <1>6, <1>7, <1>8, <1>9 DEF ScriptMove

(* What a step on the pool of MySQL connections changes. *)
LEMMA DbEffect ==
  ASSUME DbP!ShareInv, NEW t \in Threads,
         Db!Get(t, FALSE) \/ Db!Wake(t) \/ Db!Release(t) \/ Db!ReleaseNull(t)
  PROVE  /\ \A u \in Threads \ {t} :
              /\ dbHas'[u] = dbHas[u]
              /\ \/ dbAt'[u] = dbAt[u]
                 \/ dbAt[u] = "asleep" /\ dbAt'[u] = "woken"
         /\ Db!Release(t) => dbHas'[t] = 0
         /\ Db!ReleaseNull(t) => dbHas'[t] = dbHas[t] /\ dbAt'[t] = "out"
         /\ Db!Release(t) => dbAt'[t] = dbAt[t] \/ dbAt[t] = "asleep"
         /\ dbAt[t] \in {"woken", "null"} => dbHas[t] = 0
<1>1. /\ dbHas \in [Threads -> DbP!Conns \cup {0}]
      /\ dbAt \in [Threads -> {"out", "asleep", "woken", "null"}]
      /\ \A u \in Threads : dbAt[u] # "out" => dbHas[u] = 0
  BY DEF DbP!ShareInv, DbP!TypeOK, DbP!EmptyHanded, DbP!NoConn
<1>2. Db!NotifyOne => \A u \in Threads : dbAt'[u] = dbAt[u] \/ (dbAt[u] = "asleep" /\ dbAt'[u] = "woken")
  BY <1>1 DEF Db!NotifyOne, Db!Asleep
<1>3. ASSUME Db!Release(t)
      PROVE  /\ dbHas' = [dbHas EXCEPT ![t] = 0]
             /\ \A u \in Threads : dbAt'[u] = dbAt[u] \/ (dbAt[u] = "asleep" /\ dbAt'[u] = "woken")
  BY <1>2, <1>3 DEF Db!Release, Db!GiveBack, Db!NoConn
<1>4. CASE Db!Release(t) \/ Db!ReleaseNull(t)
  BY <1>1, <1>3, <1>4 DEF Db!ReleaseNull, Db!Release
<1>5. CASE Db!Get(t, FALSE) \/ Db!Wake(t)
  <2>1. \A u \in Threads \ {t} : dbHas'[u] = dbHas[u] /\ dbAt'[u] = dbAt[u]
    BY <1>1, <1>5 DEF Db!Get, Db!Wake, Db!TakeFree
  <2>2. Db!Release(t) => dbHas'[t] = 0 /\ (dbAt'[t] = dbAt[t] \/ dbAt[t] = "asleep")
    BY <1>1, <1>3
  <2>3. Db!ReleaseNull(t) => dbHas'[t] = dbHas[t] /\ dbAt'[t] = "out"
    BY <1>1 DEF Db!ReleaseNull
  <2> QED
    BY <1>1, <2>1, <2>2, <2>3
<1> QED
  BY <1>4, <1>5

LEMMA DbStepLent ==
  ASSUME AccountInv, PoolsInv, NEW t \in Threads, DbStep(t)
  PROVE  DbLent' /\ CacheLent'
<1>1. PICK q : q = script[t]
  OBVIOUS
<1>2. PICK S : q \in Seq(S)
  BY <1>1, ScriptSeq
<1>3. Followed(q, "db", "free db") /\ DOMAIN script = Threads
  BY <1>1, ScriptSeq
<1>4. /\ Lent(q, dbHas[t], dbAt[t], "db", "free db")
      /\ Lent(q, cacheHas[t], cacheAt[t], "cache", "free cache")
  BY <1>1 DEF PoolsInv, DbLent, CacheLent
<1>5. /\ cacheHas' = cacheHas /\ cacheAt' = cacheAt
  BY DEF DbStep, cacheVars
<1>6. ASSUME NEW s, \A u \in Threads : script'[u] = IF u = t THEN s ELSE script[u],
             Lent(s, cacheHas[t], cacheAt[t], "cache", "free cache"),
             \A u \in Threads \ {t} :
               /\ dbHas'[u] = dbHas[u]
               /\ \/ dbAt'[u] = dbAt[u]
                  \/ dbAt[u] = "asleep" /\ dbAt'[u] = "woken",
             dbHas'[t] # 0 => Occurs(s, "free db"),
             dbAt'[t] \in {"asleep", "woken"} => s # <<>> /\ Head(s) = "db"
      PROVE  DbLent' /\ CacheLent'
  <2>1. ASSUME NEW u \in Threads
        PROVE  /\ Lent(script[u], dbHas[u], dbAt[u], "db", "free db")'
               /\ Lent(script[u], cacheHas[u], cacheAt[u], "cache", "free cache")'
    <3>1. CASE u = t
      BY <1>5, <1>6, <3>1 DEF Lent
    <3>2. CASE u # t
      <4>1. /\ Lent(script[u], dbHas[u], dbAt[u], "db", "free db")
            /\ Lent(script[u], cacheHas[u], cacheAt[u], "cache", "free cache")
        BY DEF PoolsInv, DbLent, CacheLent
      <4> QED
        BY <1>5, <1>6, <3>2, <4>1 DEF Lent
    <3> QED
      BY <3>1, <3>2
  <2> QED
    BY <2>1 DEF DbLent, CacheLent
<1>7. CASE UNCHANGED script /\ ((Doing(t, "db") /\ Db!Get(t, FALSE)) \/ Db!Wake(t))
  <2>1. q # <<>> /\ Head(q) = "db"
    BY <1>1, <1>4, <1>7 DEF Doing, Lent, Db!Wake
  <2>2. Occurs(q, "free db")
    BY <1>2, <1>3, <2>1, FollowedHead
  <2>3. \A u \in Threads : script'[u] = IF u = t THEN q ELSE script[u]
    BY <1>1, <1>7
  <2> QED
    BY <1>4, <1>6, <1>7, <2>1, <2>2, <2>3, DbEffect DEF PoolsInv
<1>8. ASSUME NEW what \in {"db", "free db"}, Doing(t, what), Advance(t)
      PROVE  /\ \A u \in Threads : script'[u] = IF u = t THEN Tail(q) ELSE script[u]
             /\ q # <<>> /\ Head(q) = what
             /\ Lent(Tail(q), cacheHas[t], cacheAt[t], "cache", "free cache")
  BY <1>1, <1>2, <1>3, <1>4, <1>8, LentTail DEF Doing, Advance
<1>9. CASE /\ Doing(t, "db") /\ (dbHas[t] # Db!NoConn \/ dbAt[t] = "null")
           /\ Advance(t) /\ UNCHANGED dbVars
  <2>1. Occurs(Tail(q), "free db")
    BY <1>2, <1>3, <1>8, <1>9, FollowedHead
  <2>2. dbHas' = dbHas /\ dbAt' = dbAt
    BY <1>9 DEF dbVars
  <2>3. dbAt[t] \notin {"asleep", "woken"}
    BY <1>9 DEF PoolsInv, DbP!ShareInv, DbP!EmptyHanded, DbP!NoConn, Db!NoConn
  <2> QED
    BY <1>6, <1>8, <1>9, <2>1, <2>2, <2>3
<1>10. CASE Doing(t, "free db") /\ Advance(t) /\ (Db!Release(t) \/ Db!ReleaseNull(t))
  <2>1. dbAt[t] \notin {"asleep", "woken"}
    BY <1>4, <1>8, <1>10 DEF Lent
  <2>2. Db!ReleaseNull(t) => dbAt[t] = "null"
    BY DEF Db!ReleaseNull
  <2>3. dbHas'[t] = 0 /\ dbAt'[t] \notin {"asleep", "woken"}
    BY <1>10, <2>1, <2>2, DbEffect DEF PoolsInv
  <2> QED
    BY <1>6, <1>8, <1>10, <2>3, DbEffect DEF PoolsInv
<1> QED
  BY <1>7, <1>9, <1>10 DEF DbStep

(* What a step on the pool of redis connections changes. *)
LEMMA CacheEffect ==
  ASSUME CacheP!ShareInv, NEW t \in Threads,
         Cache!Get(t, FALSE) \/ Cache!Wake(t) \/ Cache!Release(t) \/ Cache!ReleaseNull(t)
  PROVE  /\ \A u \in Threads \ {t} :
              /\ cacheHas'[u] = cacheHas[u]
              /\ \/ cacheAt'[u] = cacheAt[u]
                 \/ cacheAt[u] = "asleep" /\ cacheAt'[u] = "woken"
         /\ Cache!Release(t) => cacheHas'[t] = 0
         /\ Cache!ReleaseNull(t) => cacheHas'[t] = cacheHas[t] /\ cacheAt'[t] = "out"
         /\ Cache!Release(t) => cacheAt'[t] = cacheAt[t] \/ cacheAt[t] = "asleep"
         /\ cacheAt[t] \in {"woken", "null"} => cacheHas[t] = 0
<1>1. /\ cacheHas \in [Threads -> CacheP!Conns \cup {0}]
      /\ cacheAt \in [Threads -> {"out", "asleep", "woken", "null"}]
      /\ \A u \in Threads : cacheAt[u] # "out" => cacheHas[u] = 0
  BY DEF CacheP!ShareInv, CacheP!TypeOK, CacheP!EmptyHanded, CacheP!NoConn
<1>2. Cache!NotifyOne => \A u \in Threads : cacheAt'[u] = cacheAt[u] \/ (cacheAt[u] = "asleep" /\ cacheAt'[u] = "woken")
  BY <1>1 DEF Cache!NotifyOne, Cache!Asleep
<1>3. ASSUME Cache!Release(t)
      PROVE  /\ cacheHas' = [cacheHas EXCEPT ![t] = 0]
             /\ \A u \in Threads : cacheAt'[u] = cacheAt[u] \/ (cacheAt[u] = "asleep" /\ cacheAt'[u] = "woken")
  BY <1>2, <1>3 DEF Cache!Release, Cache!GiveBack, Cache!NoConn
<1>4. CASE Cache!Release(t) \/ Cache!ReleaseNull(t)
  BY <1>1, <1>3, <1>4 DEF Cache!ReleaseNull, Cache!Release
<1>5. CASE Cache!Get(t, FALSE) \/ Cache!Wake(t)
  <2>1. \A u \in Threads \ {t} : cacheHas'[u] = cacheHas[u] /\ cacheAt'[u] = cacheAt[u]
    BY <1>1, <1>5 DEF Cache!Get, Cache!Wake, Cache!TakeFree
  <2>2. Cache!Release(t) => cacheHas'[t] = 0 /\ (cacheAt'[t] = cacheAt[t] \/ cacheAt[t] = "asleep")
    BY <1>1, <1>3
  <2>3. Cache!ReleaseNull(t) => cacheHas'[t] = cacheHas[t] /\ cacheAt'[t] = "out"
    BY <1>1 DEF Cache!ReleaseNull
  <2> QED
    BY <1>1, <2>1, <2>2, <2>3
<1> QED
  BY <1>4, <1>5

LEMMA CacheStepLent ==
  ASSUME AccountInv, PoolsInv, NEW t \in Threads, CacheStep(t)
  PROVE  DbLent' /\ CacheLent'
<1>1. PICK q : q = script[t]
  OBVIOUS
<1>2. PICK S : q \in Seq(S)
  BY <1>1, ScriptSeq
<1>3. Followed(q, "cache", "free cache") /\ DOMAIN script = Threads
  BY <1>1, ScriptSeq
<1>4. /\ Lent(q, dbHas[t], dbAt[t], "db", "free db")
      /\ Lent(q, cacheHas[t], cacheAt[t], "cache", "free cache")
  BY <1>1 DEF PoolsInv, DbLent, CacheLent
<1>5. /\ dbHas' = dbHas /\ dbAt' = dbAt
  BY DEF CacheStep, dbVars
<1>6. ASSUME NEW s, \A u \in Threads : script'[u] = IF u = t THEN s ELSE script[u],
             Lent(s, dbHas[t], dbAt[t], "db", "free db"),
             \A u \in Threads \ {t} :
               /\ cacheHas'[u] = cacheHas[u]
               /\ \/ cacheAt'[u] = cacheAt[u]
                  \/ cacheAt[u] = "asleep" /\ cacheAt'[u] = "woken",
             cacheHas'[t] # 0 => Occurs(s, "free cache"),
             cacheAt'[t] \in {"asleep", "woken"} => s # <<>> /\ Head(s) = "cache"
      PROVE  DbLent' /\ CacheLent'
  <2>1. ASSUME NEW u \in Threads
        PROVE  /\ Lent(script[u], dbHas[u], dbAt[u], "db", "free db")'
               /\ Lent(script[u], cacheHas[u], cacheAt[u], "cache", "free cache")'
    <3>1. CASE u = t
      BY <1>5, <1>6, <3>1 DEF Lent
    <3>2. CASE u # t
      <4>1. /\ Lent(script[u], dbHas[u], dbAt[u], "db", "free db")
            /\ Lent(script[u], cacheHas[u], cacheAt[u], "cache", "free cache")
        BY DEF PoolsInv, DbLent, CacheLent
      <4> QED
        BY <1>5, <1>6, <3>2, <4>1 DEF Lent
    <3> QED
      BY <3>1, <3>2
  <2> QED
    BY <2>1 DEF DbLent, CacheLent
<1>7. CASE UNCHANGED script /\ ((Doing(t, "cache") /\ Cache!Get(t, FALSE)) \/ Cache!Wake(t))
  <2>1. q # <<>> /\ Head(q) = "cache"
    BY <1>1, <1>4, <1>7 DEF Doing, Lent, Cache!Wake
  <2>2. Occurs(q, "free cache")
    BY <1>2, <1>3, <2>1, FollowedHead
  <2>3. \A u \in Threads : script'[u] = IF u = t THEN q ELSE script[u]
    BY <1>1, <1>7
  <2> QED
    BY <1>4, <1>6, <1>7, <2>1, <2>2, <2>3, CacheEffect DEF PoolsInv
<1>8. ASSUME NEW what \in {"cache", "free cache"}, Doing(t, what), Advance(t)
      PROVE  /\ \A u \in Threads : script'[u] = IF u = t THEN Tail(q) ELSE script[u]
             /\ q # <<>> /\ Head(q) = what
             /\ Lent(Tail(q), dbHas[t], dbAt[t], "db", "free db")
  BY <1>1, <1>2, <1>3, <1>4, <1>8, LentTail DEF Doing, Advance
<1>9. CASE /\ Doing(t, "cache") /\ (cacheHas[t] # Cache!NoConn \/ cacheAt[t] = "null")
           /\ Advance(t) /\ UNCHANGED cacheVars
  <2>1. Occurs(Tail(q), "free cache")
    BY <1>2, <1>3, <1>8, <1>9, FollowedHead
  <2>2. cacheHas' = cacheHas /\ cacheAt' = cacheAt
    BY <1>9 DEF cacheVars
  <2>3. cacheAt[t] \notin {"asleep", "woken"}
    BY <1>9 DEF PoolsInv, CacheP!ShareInv, CacheP!EmptyHanded, CacheP!NoConn, Cache!NoConn
  <2> QED
    BY <1>6, <1>8, <1>9, <2>1, <2>2, <2>3
<1>10. CASE Doing(t, "free cache") /\ Advance(t) /\ (Cache!Release(t) \/ Cache!ReleaseNull(t))
  <2>1. cacheAt[t] \notin {"asleep", "woken"}
    BY <1>4, <1>8, <1>10 DEF Lent
  <2>2. Cache!ReleaseNull(t) => cacheAt[t] = "null"
    BY DEF Cache!ReleaseNull
  <2>3. cacheHas'[t] = 0 /\ cacheAt'[t] \notin {"asleep", "woken"}
    BY <1>10, <2>1, <2>2, CacheEffect DEF PoolsInv
  <2> QED
    BY <1>6, <1>8, <1>10, <2>3, CacheEffect DEF PoolsInv
<1> QED
  BY <1>7, <1>9, <1>10 DEF CacheStep

LEMMA StillLent ==
  ASSUME PoolsInv, UNCHANGED script,
         \A u \in Threads :
           /\ dbHas'[u] = dbHas[u]
           /\ \/ dbAt'[u] = dbAt[u]
              \/ dbAt[u] = "asleep" /\ dbAt'[u] = "woken"
           /\ cacheHas'[u] = cacheHas[u]
           /\ \/ cacheAt'[u] = cacheAt[u]
              \/ cacheAt[u] = "asleep" /\ cacheAt'[u] = "woken"
  PROVE  DbLent' /\ CacheLent'
  BY DEF PoolsInv, DbLent, CacheLent, Lent

LEMMA WakeupLent ==
  ASSUME PoolsInv, Wakeup
  PROVE  DbLent' /\ CacheLent'
<1>1. /\ dbAt \in [Threads -> {"out", "asleep", "woken", "null"}]
      /\ cacheAt \in [Threads -> {"out", "asleep", "woken", "null"}]
  BY DEF PoolsInv, DbP!ShareInv, DbP!TypeOK, CacheP!ShareInv, CacheP!TypeOK
<1>2. CASE Db!Spurious /\ UNCHANGED <<cacheVars, script>>
  BY <1>1, <1>2, StillLent DEF Db!Spurious, Db!Asleep, cacheVars
<1>3. CASE Cache!Spurious /\ UNCHANGED <<dbVars, script>>
  BY <1>1, <1>3, StillLent DEF Cache!Spurious, Cache!Asleep, dbVars
<1> QED
  BY <1>2, <1>3 DEF Wakeup, Spurious

LEMMA PoolsStart ==
  ASSUME AccountsInit
  PROVE  PoolsInv
<1>1. DbP!Init /\ CacheP!Init
  BY DEF AccountsInit, Init, Db!Init, DbP!Init, Cache!Init, CacheP!Init,
     Db!NoConn, DbP!NoConn, Cache!NoConn, CacheP!NoConn
<1>2. DbP!ShareInv /\ DbP!NoneLost
  BY <1>1, DbConstants, DbP!ShareInit, DbP!LostInit
<1>3. CacheP!ShareInv /\ CacheP!NoneLost
  BY <1>1, CacheConstants, CacheP!ShareInit, CacheP!LostInit
<1>4. /\ dbHas = [t \in Threads |-> 0] /\ dbAt = [t \in Threads |-> "out"]
      /\ cacheHas = [t \in Threads |-> 0] /\ cacheAt = [t \in Threads |-> "out"]
  BY <1>1 DEF DbP!Init, CacheP!Init, DbP!NoConn, CacheP!NoConn
<1>5. DbLent /\ CacheLent
  BY <1>4 DEF DbLent, CacheLent, Lent
<1> QED
  BY <1>2, <1>3, <1>5 DEF PoolsInv

LEMMA PoolsInvStep ==
  ASSUME AccountInv, PoolsInv, [Next]_vars
  PROVE  PoolsInv'
<1>1. [DbP!Next]_(DbP!vars) /\ [CacheP!Next]_(CacheP!vars)
  BY PoolMoves, DbRule, CacheRule
<1>2. DbP!ShareInv' /\ DbP!NoneLost'
  BY <1>1, DbConstants, DbP!ShareStep, DbP!LostStep DEF PoolsInv
<1>3. CacheP!ShareInv' /\ CacheP!NoneLost'
  BY <1>1, CacheConstants, CacheP!ShareStep, CacheP!LostStep DEF PoolsInv
<1>4. DbLent' /\ CacheLent'
  <2>1. CASE UNCHANGED vars
    BY <2>1, StillLent DEF vars, poolVars, dbVars, cacheVars
  <2>2. ASSUME NEW t \in Threads, Thread(t)
        PROVE  DbLent' /\ CacheLent'
    BY <2>2, ThreadMove, DbStepLent, CacheStepLent, ScriptLent
  <2>3. ASSUME NEW n \in Names, TokenExpires(n)
        PROVE  DbLent' /\ CacheLent'
    BY <2>3, StillLent DEF TokenExpires, poolVars, dbVars, cacheVars
  <2>4. CASE Wakeup
    BY <2>4, WakeupLent
  <2> QED
    BY <2>1, <2>2, <2>3, <2>4 DEF Next
<1> QED
  BY <1>2, <1>3, <1>4 DEF PoolsInv

(* When all requests are answered, all connections are back in the pools,  *)
(* whatever calls failed on the way.                                       *)
THEOREM ConnectionsReturn == Spec => []AllReturned
<1>1. ASSUME AccountInv, PoolsInv
      PROVE  AllReturned
  <2>1. SUFFICES ASSUME \A t \in Threads : job[t] = NoJob
                 PROVE  Len(dbFree) = dbCur /\ Len(cacheFree) = cacheCur
    BY DEF AllReturned
  <2>2. \A t \in Threads : script[t] = <<>>
    BY <1>1, <2>1, ScriptSeq
  <2>3. \A t \in Threads : dbHas[t] = 0 /\ cacheHas[t] = 0
    <3>1. /\ ~Occurs(<<>>, "free db")
          /\ ~Occurs(<<>>, "free cache")
      BY OccursOne
    <3>2. ASSUME NEW t \in Threads
          PROVE  dbHas[t] = 0 /\ cacheHas[t] = 0
      <4>1. /\ Lent(script[t], dbHas[t], dbAt[t], "db", "free db")
            /\ Lent(script[t], cacheHas[t], cacheAt[t], "cache", "free cache")
        BY <1>1 DEF PoolsInv, DbLent, CacheLent
      <4>2. script[t] = <<>>
        BY <2>2
      <4> QED
        BY <4>1, <4>2, <3>1 DEF Lent
    <3> QED
      BY <3>2
  <2>4. Len(dbFree) = dbCur
    BY <1>1, <2>3, DbConstants, DbP!AllFree DEF PoolsInv, DbP!NoConn
  <2>5. Len(cacheFree) = cacheCur
    BY <1>1, <2>3, CacheConstants, CacheP!AllFree DEF PoolsInv, CacheP!NoConn
  <2> QED
    BY <2>4, <2>5
<1>2. AccountsInit => PoolsInv
  BY PoolsStart
<1>3. AccountInv /\ PoolsInv /\ [Next]_vars => PoolsInv'
  BY PoolsInvStep
<1> QED
  BY <1>1, <1>2, <1>3, AccountAlways, PTL DEF Spec

=============================================================================
