----------------------------- MODULE ThreadPool -----------------------------
(***************************************************************************)
(* The thread pool (base/thread_pool.h, base/thread_pool.cc): a task queue *)
(* under one mutex, and one condition variable on which idle workers and   *)
(* the callers of WaitForAllDone sleep alike.                              *)
(*                                                                         *)
(* A step is a critical section of mutex_, or what a thread does between   *)
(* two of them.  A thread that sleeps on condition_ is in "asleep", one    *)
(* that was notified and has not got the mutex back yet in "woken".        *)
(***************************************************************************)
EXTENDS Integers, Sequences, FiniteSets

CONSTANTS
  Workers,  \* the threads the pool may have
  Waiters,  \* the threads that call WaitForAllDone
  Tasks     \* bound: the tasks given to Exec, each once

None == "none"   \* no task

ASSUME PoolAssumption ==
  /\ IsFiniteSet(Workers)
  /\ None \notin Tasks

VARIABLES
  tasks,      \* tasks_
  terminate,  \* terminate_
  crew,       \* the workers Start will create, thread_num_ of them
  threads,    \* threads_
  active,     \* atomic_
  pc,         \* where a worker is in Run and Get
  held,       \* the task a worker has taken
  stopping,   \* a call of Stop is in progress
  wpc,        \* where a waiter is in WaitForAllDone
  limit,      \* the waiter has given a time limit
  given,      \* history: tasks given to Exec
  ended       \* history: tasks executed or dropped as expired

ctlVars    == <<terminate, crew, threads, stopping>>
workerVars == <<active, pc, held>>
waiterVars == <<wpc, limit>>
vars == <<tasks, ctlVars, workerVars, waiterVars, given, ended>>

WorkerPcs ==
  {"none",    \* no thread
   "top",     \* before while (!IsTerminate())
   "get",     \* before the lock of Get
   "asleep",  \* condition_.wait in Get
   "woken",
   "held",    \* Get has returned a task
   "run",     \* ++atomic_ is done, the task is executing
   "done",    \* --atomic_ is done
   "exit"}    \* Run has returned

WaiterPcs == {"out", "asleep", "woken", "true", "false"}

TypeOK ==
  /\ tasks \in Seq(Tasks)
  /\ terminate \in BOOLEAN
  /\ crew \in SUBSET Workers
  /\ threads \in SUBSET Workers
  /\ active \in 0 .. Cardinality(Workers)
  /\ pc \in [Workers -> WorkerPcs]
  /\ held \in [Workers -> Tasks \cup {None}]
  /\ stopping \in BOOLEAN
  /\ wpc \in [Waiters -> WaiterPcs]
  /\ limit \in [Waiters -> BOOLEAN]
  /\ given \in SUBSET Tasks
  /\ ended \in SUBSET Tasks

Asleep    == {w \in Workers : pc[w] = "asleep"}
AsleepOut == {x \in Waiters : wpc[x] = "asleep"}
Woken     == {w \in Workers : pc[w] = "woken"}

-----------------------------------------------------------------------------
(* condition_.  Variants named Operator_What are faults, see HttpConn.     *)

NotifyOne_Nobody == UNCHANGED <<pc, wpc>>

(* Some sleeping thread wakes, if there is one: a worker or a waiter. *)
NotifyOne ==
  \/ \E w \in Asleep    : pc' = [pc EXCEPT ![w] = "woken"] /\ UNCHANGED wpc
  \/ \E x \in AsleepOut : wpc' = [wpc EXCEPT ![x] = "woken"] /\ UNCHANGED pc
  \/ Asleep = {} /\ AsleepOut = {} /\ UNCHANGED <<pc, wpc>>

(* p with every sleeping worker woken, and the same for the waiters. *)
AllWoken(p) == [w \in Workers |-> IF p[w] = "asleep" THEN "woken" ELSE p[w]]

WakeWaiters_Never == UNCHANGED wpc

WakeWaiters ==
  wpc' = [x \in Waiters |-> IF wpc[x] = "asleep" THEN "woken" ELSE wpc[x]]

(* A condition variable may wake a thread for no reason. *)
Spurious ==
  /\ \/ \E w \in Asleep    : pc' = [pc EXCEPT ![w] = "woken"] /\ UNCHANGED wpc
     \/ \E x \in AsleepOut : wpc' = [wpc EXCEPT ![x] = "woken"] /\ UNCHANGED pc
  /\ UNCHANGED <<tasks, ctlVars, active, held, limit, given, ended>>

-----------------------------------------------------------------------------
(* The owner of the pool.                                                  *)

(* Init(num) is refused while there are threads. *)
SetThreadNum(S) ==
  /\ threads = {} /\ ~stopping
  /\ crew' = S
  /\ UNCHANGED <<tasks, terminate, threads, stopping, workerVars, waiterVars,
                 given, ended>>

(* Start creates the threads.  terminate_ is not reset. *)
Start ==
  /\ threads = {} /\ ~stopping
  /\ threads' = crew
  /\ pc' = [w \in Workers |-> IF w \in crew THEN "top" ELSE pc[w]]
  /\ UNCHANGED <<tasks, terminate, crew, stopping, active, held, waiterVars,
                 given, ended>>

StopWakes_Nobody(p) == p

StopWakes(p) == AllWoken(p)

(* The critical section of Stop. *)
Stop ==
  /\ ~stopping
  /\ stopping' = TRUE
  /\ terminate' = TRUE
  /\ pc' = StopWakes(pc)
  /\ WakeWaiters
  /\ UNCHANGED <<tasks, crew, threads, active, held, limit, given, ended>>

(* Stop has joined the threads, deletes and forgets them, and returns. *)
StopReturns ==
  /\ stopping
  /\ \A w \in threads : pc[w] = "exit"
  /\ stopping' = FALSE
  /\ threads' = {}
  /\ pc' = [w \in Workers |-> "none"]
  /\ UNCHANGED <<tasks, terminate, crew, active, held, waiterVars, given,
                 ended>>

(* Exec, called by any thread at any time. *)
Exec(t) ==
  /\ t \notin given
  /\ given' = given \cup {t}
  /\ tasks' = Append(tasks, t)
  /\ NotifyOne
  /\ UNCHANGED <<ctlVars, active, held, limit, ended>>

-----------------------------------------------------------------------------
(* The workers.                                                            *)

(* while (!IsTerminate()), read without the mutex: a worker that has not   *)
(* taken it since Stop may still see the old value.                        *)
RunChecks(w) ==
  /\ pc[w] = "top"
  /\ \/ terminate /\ pc' = [pc EXCEPT ![w] = "exit"]
     \/ pc' = [pc EXCEPT ![w] = "get"]
  /\ UNCHANGED <<tasks, ctlVars, active, held, waiterVars, given, ended>>

Popped_Kept(q) == q

Popped(q) == Tail(q)

MayTake == tasks # <<>> /\ ~terminate

(* The critical section of Get, entered or re-entered after a wait.  When  *)
(* Get returns false, IsTerminate is true and Run returns.                 *)
Get(w) ==
  /\ pc[w] \in {"get", "woken"}
  /\ \/ /\ tasks = <<>> /\ ~terminate
        /\ pc' = [pc EXCEPT ![w] = "asleep"]
        /\ UNCHANGED <<tasks, held>>
     \/ /\ MayTake
        /\ held' = [held EXCEPT ![w] = Head(tasks)]
        /\ tasks' = Popped(tasks)
        /\ pc' = [pc EXCEPT ![w] = "held"]
     \/ /\ terminate /\ ~MayTake
        /\ pc' = [pc EXCEPT ![w] = "exit"]
        /\ UNCHANGED <<tasks, held>>
  /\ UNCHANGED <<ctlVars, active, waiterVars, given, ended>>

(* ++atomic_, and the look at the expiry time: a task with a timeout may   *)
(* be dropped.  Both ways lead to --atomic_.                               *)
RunTask(w) ==
  /\ pc[w] = "held"
  /\ active' = active + 1
  /\ pc' = [pc EXCEPT ![w] = "run"]
  /\ UNCHANGED <<tasks, ctlVars, held, waiterVars, given, ended>>

(* _func() has returned or thrown, or was not called; --atomic_. *)
EndTask(w) ==
  /\ pc[w] = "run"
  /\ active' = active - 1
  /\ pc' = [pc EXCEPT ![w] = "done"]
  /\ ended' = ended \cup {held[w]}
  /\ held' = [held EXCEPT ![w] = None]
  /\ UNCHANGED <<tasks, ctlVars, waiterVars, given>>

(* The critical section at the end of Run's loop. *)
RunNotifies(w) ==
  /\ pc[w] = "done"
  /\ LET p == [pc EXCEPT ![w] = "top"] IN
       \/ active = 0 /\ tasks = <<>> /\ pc' = AllWoken(p) /\ WakeWaiters
       \/ ~(active = 0 /\ tasks = <<>>) /\ pc' = p /\ UNCHANGED wpc
  /\ UNCHANGED <<tasks, ctlVars, active, held, limit, given, ended>>

-----------------------------------------------------------------------------
(* WaitForAllDone.                                                         *)

Wait(x, l) ==
  /\ wpc[x] = "out"
  /\ limit' = [limit EXCEPT ![x] = l]
  /\ wpc' = [wpc EXCEPT ![x] = IF tasks = <<>> THEN "true" ELSE "asleep"]
  /\ UNCHANGED <<tasks, ctlVars, workerVars, given, ended>>

(* The predicate is looked at again. *)
WaitWakes(x) ==
  /\ wpc[x] = "woken"
  /\ wpc' = [wpc EXCEPT ![x] = IF tasks = <<>> THEN "true" ELSE "asleep"]
  /\ UNCHANGED <<tasks, ctlVars, workerVars, limit, given, ended>>

(* The time is up: the value of the predicate is returned. *)
WaitTimesOut(x) ==
  /\ limit[x] /\ wpc[x] \in {"asleep", "woken"}
  /\ wpc' = [wpc EXCEPT ![x] = IF tasks = <<>> THEN "true" ELSE "false"]
  /\ UNCHANGED <<tasks, ctlVars, workerVars, limit, given, ended>>

WaitReturns(x) ==
  /\ wpc[x] \in {"true", "false"}
  /\ wpc' = [wpc EXCEPT ![x] = "out"]
  /\ UNCHANGED <<tasks, ctlVars, workerVars, limit, given, ended>>

-----------------------------------------------------------------------------
Init ==
  /\ tasks = <<>>
  /\ terminate = FALSE
  /\ crew \in {S \in SUBSET Workers : Cardinality(S) = 1}
  /\ threads = {}
  /\ active = 0
  /\ pc = [w \in Workers |-> "none"]
  /\ held = [w \in Workers |-> None]
  /\ stopping = FALSE
  /\ wpc = [x \in Waiters |-> "out"]
  /\ limit = [x \in Waiters |-> FALSE]
  /\ given = {}
  /\ ended = {}

Worker(w) ==
  RunChecks(w) \/ Get(w) \/ RunTask(w) \/ EndTask(w) \/ RunNotifies(w)

Waiter(x) == WaitWakes(x) \/ WaitTimesOut(x) \/ WaitReturns(x)

Owner == Start \/ Stop \/ StopReturns \/ \E S \in SUBSET Workers : SetThreadNum(S)

Next ==
  \/ Owner
  \/ Spurious
  \/ \E t \in Tasks : Exec(t)
  \/ \E w \in Workers : Worker(w)
  \/ \E x \in Waiters : Waiter(x) \/ \E l \in BOOLEAN : Wait(x, l)

Spec == Init /\ [][Next]_vars

(* The threads keep running, tasks return, and a time limit passes.        *)
Fairness ==
  /\ WF_vars(StopReturns)
  /\ \A w \in Workers : WF_vars(Worker(w))
  /\ \A x \in Waiters : WF_vars(Waiter(x))

FairSpec == Spec /\ Fairness

-----------------------------------------------------------------------------
(* Properties.                                                             *)

(* No worker sleeps while there is a task nobody was woken for: as long as *)
(* only workers sleep on condition_, the single notify_one of Exec is      *)
(* enough, although other workers may take the task before the woken one.  *)
NoSleepOnWork == Asleep # {} => Len(tasks) <= Cardinality(Woken)

(* The pool keeps the promises of TaskQueue: each task is begun at most    *)
(* once, in the order of Exec, and none after Stop.                        *)
Running == {held[w] : w \in Workers} \ {None}

Queue == INSTANCE TaskQueue
           WITH queue <- tasks, running <- Running, open <- ~terminate

Implements == Queue!Spec

(* Every task given to a pool that has threads is executed, unless the     *)
(* pool is stopped; also when a waiter gets the notification meant for a   *)
(* worker.                                                                 *)
TasksEnd ==
  \A t \in Tasks :
    (t \in given /\ threads # {}) ~> (t \in ended \/ terminate)

(* A caller of WaitForAllDone, with or without time limit, returns when    *)
(* the tasks are done: the last worker's notify_all is not missed.         *)
WaitersReturn ==
  \A x \in Waiters :
    (wpc[x] = "asleep" /\ threads # {}) ~> (wpc[x] = "out" \/ terminate)

(* Stop returns: every worker that sleeps, runs or is about to sleep       *)
(* notices terminate_.                                                     *)
StopEnds == stopping ~> ~stopping
=============================================================================
