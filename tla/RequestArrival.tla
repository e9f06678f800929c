--------------------------- MODULE RequestArrival ---------------------------
(***************************************************************************)
(* What a connection makes of the bytes of a request, whatever they are:   *)
(* the request is executed at every read that leaves all of it, and no     *)
(* more than the buffer takes, in the buffer.  HttpConn rests on this.     *)
(***************************************************************************)
EXTENDS Integers

CONSTANT InMax   \* the bytes the connection takes

VARIABLES
  whole,     \* the length of the request
  known,     \* the server knows its url
  got,       \* the bytes that have been read
  executed,  \* how often the request has been executed
  open       \* the connection is open

vars == <<whole, known, got, executed, open>>

Init ==
  /\ whole \in Nat
  /\ known \in BOOLEAN
  /\ got = 0
  /\ executed = 0
  /\ open = TRUE

Read ==
  /\ open
  /\ got' \in Nat /\ got' > got
  /\ \/ got' > InMax /\ open' = FALSE /\ UNCHANGED executed
     \/ got' <= InMax /\ got' < whole /\ UNCHANGED <<executed, open>>
     \/ /\ got' <= InMax /\ got' >= whole
        /\ executed' = IF known THEN executed + 1 ELSE executed
        /\ open' = known
  /\ UNCHANGED <<whole, known>>

(* The answer closes the connection. *)
Answer ==
  /\ open
  /\ executed > 0
  /\ open' = FALSE
  /\ UNCHANGED <<whole, known, got, executed>>

Next == Read \/ Answer

Spec == Init /\ [][Next]_vars
=============================================================================
