----------------------------- MODULE TaskQueue -----------------------------
(* What a thread pool promises to the callers of Exec: a task is begun at  *)
(* most once, the tasks are begun in the order they were given, and none   *)
(* is begun once the pool is closed.                                       *)
EXTENDS Sequences

CONSTANT Tasks

VARIABLES
  queue,    \* tasks that are given and not begun, in order
  running,  \* tasks that are begun and not ended
  ended,    \* tasks that are ended
  open      \* tasks may still begin

vars == <<queue, running, ended, open>>

Waiting == {queue[i] : i \in DOMAIN queue}

Init ==
  /\ queue = <<>>
  /\ running = {}
  /\ ended = {}
  /\ open = TRUE

Give(t) ==
  /\ t \notin Waiting \cup running \cup ended
  /\ queue' = Append(queue, t)
  /\ UNCHANGED <<running, ended, open>>

Begin ==
  /\ open
  /\ queue # <<>>
  /\ queue' = Tail(queue)
  /\ running' = running \cup {Head(queue)}
  /\ UNCHANGED <<ended, open>>

End(t) ==
  /\ t \in running
  /\ running' = running \ {t}
  /\ ended' = ended \cup {t}
  /\ UNCHANGED <<queue, open>>

Close ==
  /\ open' = FALSE
  /\ UNCHANGED <<queue, running, ended>>

Next == Begin \/ Close \/ \E t \in Tasks : Give(t) \/ End(t)

Spec == Init /\ [][Next]_vars
=============================================================================
