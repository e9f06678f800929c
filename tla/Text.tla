-------------------------------- MODULE Text --------------------------------
(***************************************************************************)
(* Text as a sequence of characters, a character being a string of length  *)
(* one, and the classes of characters of <ctype.h> and of the macros the   *)
(* parsers use.  Bytes above 127 do not occur; one printable character,    *)
(* the back quote, cannot be written in a TLA+ string and is left out.     *)
(***************************************************************************)
LOCAL INSTANCE Integers
LOCAL INSTANCE Sequences

Chars(word) == [i \in 1 .. Len(word) |-> SubSeq(word, i, i)]

SetOf(word) == {SubSeq(word, i, i) : i \in 1 .. Len(word)}

CR == "\r"
LF == "\n"
HT == "\t"
SP == " "

LowerCase == Chars("abcdefghijklmnopqrstuvwxyz")
UpperCase == Chars("ABCDEFGHIJKLMNOPQRSTUVWXYZ")

Lowers == SetOf("abcdefghijklmnopqrstuvwxyz")
Uppers == SetOf("ABCDEFGHIJKLMNOPQRSTUVWXYZ")
Digits == {"0", "1", "2", "3", "4", "5", "6", "7", "8", "9"}
Alphas == Lowers \cup Uppers
Alnums == Alphas \cup Digits

(* The printable characters that are neither letters nor digits. *)
Signs == SetOf("!#$%&'*+-.^_|~(),/:;<=>?@[]{}") \cup {"\"", "\\"}

LowerTable == [c \in Uppers |->
                 LowerCase[CHOOSE i \in DOMAIN UpperCase : UpperCase[i] = c]]

Lower(c) == IF c \in Uppers THEN LowerTable[c] ELSE c

LowerText(text) == [i \in DOMAIN text |-> Lower(text[i])]

DigitTable == [c \in Digits |->
                 CASE c = "0" -> 0 [] c = "1" -> 1 [] c = "2" -> 2 [] c = "3" -> 3
                   [] c = "4" -> 4 [] c = "5" -> 5 [] c = "6" -> 6 [] c = "7" -> 7
                   [] c = "8" -> 8 [] c = "9" -> 9]

HexTable == [c \in Digits \cup SetOf("abcdef") |->
               IF c \in Digits THEN DigitTable[c]
               ELSE CHOOSE n \in 10 .. 15 : SubSeq("abcdef", n - 9, n - 9) = c]

(* The value of a hexadecimal digit, -1 for any other character. *)
Unhex(c) == IF Lower(c) \in DOMAIN HexTable THEN HexTable[Lower(c)] ELSE -1

(* text begins with the characters of start *)
StartsWith(text, start) ==
  Len(start) <= Len(text) /\ SubSeq(text, 1, Len(start)) = start
=============================================================================
