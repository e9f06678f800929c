----------------------------- MODULE RemoteCall -----------------------------
(***************************************************************************)
(* What a connection to a remote store promises to the thread that uses    *)
(* it: a command is asked, is run by the store at most once, and ends in   *)
(* a failure or in what the store said of this very command.  A command    *)
(* whose call failed may have been run, and may still be run later.        *)
(***************************************************************************)
EXTENDS Integers

CONSTANT MaxCalls     \* bound: the calls made

Calls == 1 .. MaxCalls

(* The mark the store leaves in everything it says of a call. *)
Stamp(n) == n + 1

VARIABLES
  asked,     \* the number of calls made
  runs,      \* how often the store has run the command of each call
  ended      \* what has become of each call: "open", "failed" or "told"

vars == <<asked, runs, ended>>

Init == asked = 0 /\ runs = [n \in Calls |-> 0] /\ ended = [n \in Calls |-> "open"]

Ask ==
  /\ asked < MaxCalls
  /\ asked > 0 => ended[asked] # "open"
  /\ asked' = asked + 1
  /\ UNCHANGED <<runs, ended>>

Run(n) ==
  /\ n <= asked /\ runs[n] = 0
  /\ runs' = [runs EXCEPT ![n] = 1]
  /\ UNCHANGED <<asked, ended>>

Tell(n) ==
  /\ n = asked /\ ended[n] = "open" /\ runs[n] = 1
  /\ ended' = [ended EXCEPT ![n] = "told"]
  /\ UNCHANGED <<asked, runs>>

Fail(n) ==
  /\ n = asked /\ ended[n] = "open"
  /\ ended' = [ended EXCEPT ![n] = "failed"]
  /\ UNCHANGED <<asked, runs>>

Next == Ask \/ \E n \in Calls : Run(n) \/ Tell(n) \/ Fail(n)

Spec == Init /\ [][Next]_vars
=============================================================================
