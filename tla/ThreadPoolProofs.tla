-------------------------- MODULE ThreadPoolProofs --------------------------
(* Theorems about ThreadPool, for any number of workers, waiters and tasks. *)
EXTENDS ThreadPool, FiniteSetTheorems, SequenceTheorems, TLAPS

-----------------------------------------------------------------------------
(* Types, and the count of the executing workers.                          *)

Executing == {w \in Workers : pc[w] = "run"}

(* atomic_ is the number of workers between ++atomic_ and --atomic_. *)
Counted == active = Cardinality(Executing)

(* A worker holds a task from Get until the task has ended. *)
HoldsIffBusy == \A w \in Workers : held[w] # None <=> pc[w] \in {"held", "run"}

(* TypeOK without the bound on active, which follows from Counted. *)
Types ==
  /\ tasks \in Seq(Tasks)
  /\ terminate \in BOOLEAN
  /\ crew \in SUBSET Workers
  /\ threads \in SUBSET Workers
  /\ pc \in [Workers -> WorkerPcs]
  /\ held \in [Workers -> Tasks \cup {None}]
  /\ stopping \in BOOLEAN
  /\ wpc \in [Waiters -> WaiterPcs]
  /\ limit \in [Waiters -> BOOLEAN]
  /\ given \in SUBSET Tasks
  /\ ended \in SUBSET Tasks

(* Only workers that Start has created run. *)
OnlyThreads == \A w \in Workers : w \notin threads => pc[w] = "none"

PoolInv == Types /\ Counted /\ HoldsIffBusy /\ OnlyThreads

(* Adding a worker to a set of workers, and taking one out. *)
LEMMA CountWorkers ==
  ASSUME NEW S \in SUBSET Workers, NEW w \in Workers
  PROVE  /\ Cardinality(S) \in Nat
         /\ w \notin S => Cardinality(S \cup {w}) = Cardinality(S) + 1
         /\ w \in S => Cardinality(S \ {w}) = Cardinality(S) - 1
  BY PoolAssumption, FS_Subset, FS_CardinalityType, FS_AddElement,
     FS_RemoveElement

LEMMA InvBoundsActive == PoolInv => TypeOK
<1> SUFFICES ASSUME PoolInv PROVE TypeOK
  OBVIOUS
<1>1. Executing \subseteq Workers
  BY DEF Executing
<1>2. /\ Cardinality(Executing) \in Nat /\ Cardinality(Workers) \in Nat
      /\ Cardinality(Executing) <= Cardinality(Workers)
  BY <1>1, PoolAssumption, FS_Subset, FS_CardinalityType
<1> QED
  BY <1>2 DEF PoolInv, Types, Counted, TypeOK

LEMMA PoolInit == Init => PoolInv
<1> SUFFICES ASSUME Init PROVE PoolInv
  OBVIOUS
<1>1. Executing = {}
  BY DEF Init, Executing
<1> QED
  BY <1>1, FS_EmptySet, EmptySeq
     DEF Init, PoolInv, Types, Counted, HoldsIffBusy, OnlyThreads, WorkerPcs,
         WaiterPcs

(* Steps that only wake sleepers, or move workers that hold nothing. *)
LEMMA WakingKeeps ==
  ASSUME PoolInv, NEW p, p \in [Workers -> WorkerPcs],
         \A w \in Workers :
           p[w] = pc[w] \/ (pc[w] = "asleep" /\ p[w] = "woken"),
         pc' = p, UNCHANGED <<active, held, threads>>
  PROVE  Counted' /\ HoldsIffBusy' /\ OnlyThreads'
<1>1. Executing' = Executing
  BY DEF Executing
<1> QED
  BY <1>1 DEF PoolInv, Counted, HoldsIffBusy, OnlyThreads

LEMMA NotifyOneWakes ==
  ASSUME PoolInv, NotifyOne
  PROVE  /\ pc' \in [Workers -> WorkerPcs]
         /\ wpc' \in [Waiters -> WaiterPcs]
         /\ \A w \in Workers :
              pc'[w] = pc[w] \/ (pc[w] = "asleep" /\ pc'[w] = "woken")
<1> USE DEF PoolInv, Types
<1>1. "woken" \in WorkerPcs /\ "woken" \in WaiterPcs
  BY DEF WorkerPcs, WaiterPcs
<1>2. ASSUME NEW w \in Asleep, pc' = [pc EXCEPT ![w] = "woken"], wpc' = wpc
      PROVE  /\ pc' \in [Workers -> WorkerPcs]
             /\ wpc' \in [Waiters -> WaiterPcs]
             /\ \A v \in Workers :
                  pc'[v] = pc[v] \/ (pc[v] = "asleep" /\ pc'[v] = "woken")
  BY <1>1, <1>2 DEF Asleep
<1>3. ASSUME NEW x \in AsleepOut, wpc' = [wpc EXCEPT ![x] = "woken"], pc' = pc
      PROVE  /\ pc' \in [Workers -> WorkerPcs]
             /\ wpc' \in [Waiters -> WaiterPcs]
             /\ \A v \in Workers : pc'[v] = pc[v]
  BY <1>1, <1>3
<1>4. CASE pc' = pc /\ wpc' = wpc
  BY <1>4
<1> QED
  BY <1>2, <1>3, <1>4 DEF NotifyOne

LEMMA OwnerStep ==
  ASSUME PoolInv, Owner
  PROVE  PoolInv'
<1> USE DEF PoolInv
<1>1. CASE \E S \in SUBSET Workers : SetThreadNum(S)
  BY <1>1
     DEF SetThreadNum, Types, Counted, Executing, HoldsIffBusy, OnlyThreads,
         workerVars, waiterVars
<1>2. CASE Start
  <2>1. Executing' = Executing
    <3>1. \A w \in Workers : pc[w] = "none"
      BY <1>2 DEF Start, OnlyThreads
    <3> QED
      BY <1>2, <3>1 DEF Start, Executing
  <2> QED
    BY <1>2, <2>1
       DEF Start, Types, Counted, HoldsIffBusy, OnlyThreads, WorkerPcs,
           waiterVars
<1>3. CASE Stop
  <2>1. /\ pc' \in [Workers -> WorkerPcs]
        /\ \A w \in Workers :
             pc'[w] = pc[w] \/ (pc[w] = "asleep" /\ pc'[w] = "woken")
    <3>1. pc' = [w \in Workers |-> IF pc[w] = "asleep" THEN "woken" ELSE pc[w]]
      BY <1>3 DEF Stop, StopWakes, AllWoken
    <3>2. pc \in [Workers -> WorkerPcs] /\ "woken" \in WorkerPcs
      BY DEF Types, WorkerPcs
    <3> QED
      BY <3>1, <3>2
  <2>2. Counted' /\ HoldsIffBusy' /\ OnlyThreads'
    BY <1>3, <2>1, WakingKeeps DEF Stop
  <2> QED
    BY <1>3, <2>1, <2>2 DEF Stop, WakeWaiters, Types, WaiterPcs
<1>4. CASE StopReturns
  <2>1. Executing' = {} /\ Executing = {}
    BY <1>4 DEF StopReturns, Executing, OnlyThreads
  <2> QED
    BY <1>4, <2>1
       DEF StopReturns, Types, Counted, HoldsIffBusy, OnlyThreads, WorkerPcs,
           waiterVars
<1> QED
  BY <1>1, <1>2, <1>3, <1>4 DEF Owner

LEMMA WorkerStep ==
  ASSUME PoolInv, NEW w \in Workers, Worker(w)
  PROVE  PoolInv'
<1> USE DEF PoolInv
<1>1. Executing \subseteq Workers
  BY DEF Executing
<1>2. CASE RunChecks(w)
  <2>1. Executing' = Executing
    BY <1>2 DEF RunChecks, Executing, Types
  <2> QED
    BY <1>2, <2>1
       DEF RunChecks, ctlVars, waiterVars, Types, Counted, HoldsIffBusy,
           OnlyThreads, WorkerPcs
<1>3. CASE Get(w)
  <2>1. Executing' = Executing
    BY <1>3 DEF Get, Executing, Types
  <2>2. tasks' \in Seq(Tasks) /\ held' \in [Workers -> Tasks \cup {None}]
    <3>1. CASE MayTake
      <4>1. Head(tasks) \in Tasks /\ Tail(tasks) \in Seq(Tasks)
        BY <3>1, HeadTailProperties DEF MayTake, Types
      <4> QED
        BY <1>3, <4>1 DEF Get, Popped, Types
    <3>2. CASE ~MayTake
      BY <1>3, <3>2 DEF Get, Types
    <3> QED
      BY <3>1, <3>2
  <2>3. HoldsIffBusy'
    <3>1. tasks # <<>> => Head(tasks) # None
      BY HeadTailProperties, PoolAssumption DEF Types
    <3> QED
      BY <1>3, <3>1 DEF Get, MayTake, HoldsIffBusy, Types
  <2> QED
    BY <1>3, <2>1, <2>2, <2>3
       DEF Get, ctlVars, waiterVars, Types, Counted, OnlyThreads, WorkerPcs
<1>4. CASE RunTask(w)
  <2>1. Executing' = Executing \cup {w} /\ w \notin Executing
    BY <1>4 DEF RunTask, Executing, Types
  <2>2. Counted'
    BY <1>1, <1>4, <2>1, CountWorkers DEF RunTask, Counted
  <2> QED
    BY <1>4, <2>2
       DEF RunTask, ctlVars, waiterVars, Types, HoldsIffBusy, OnlyThreads,
           WorkerPcs
<1>5. CASE EndTask(w)
  <2>1. Executing' = Executing \ {w} /\ w \in Executing
    BY <1>5 DEF EndTask, Executing, Types
  <2>2. Counted'
    BY <1>1, <1>5, <2>1, CountWorkers DEF EndTask, Counted
  <2>3. held[w] \in Tasks
    BY <1>5 DEF EndTask, HoldsIffBusy, Types
  <2> QED
    BY <1>5, <2>2, <2>3
       DEF EndTask, ctlVars, waiterVars, Types, HoldsIffBusy, OnlyThreads,
           WorkerPcs
<1>6. CASE RunNotifies(w)
  <2>1. Executing' = Executing
    BY <1>6 DEF RunNotifies, AllWoken, Executing, Types
  <2>2. pc' \in [Workers -> WorkerPcs] /\ wpc' \in [Waiters -> WaiterPcs]
    BY <1>6
       DEF RunNotifies, AllWoken, WakeWaiters, Types, WorkerPcs, WaiterPcs
  <2>3. HoldsIffBusy' /\ OnlyThreads'
    BY <1>6
       DEF RunNotifies, AllWoken, HoldsIffBusy, OnlyThreads, Types, ctlVars
  <2> QED
    BY <1>6, <2>1, <2>2, <2>3 DEF RunNotifies, ctlVars, Types, Counted
<1>7. \/ RunChecks(w) \/ Get(w) \/ RunTask(w) \/ EndTask(w) \/ RunNotifies(w)
  BY DEF Worker
<1> HIDE DEF PoolInv
<1> QED
  BY <1>2, <1>3, <1>4, <1>5, <1>6, <1>7

LEMMA OtherStep ==
  ASSUME PoolInv,
         \/ Spurious
         \/ \E t \in Tasks : Exec(t)
         \/ \E x \in Waiters : Waiter(x) \/ \E l \in BOOLEAN : Wait(x, l)
  PROVE  PoolInv'
<1> USE DEF PoolInv
<1>1. CASE Spurious
  <2>1. NotifyOne
    BY <1>1 DEF Spurious, NotifyOne
  <2> QED
    BY <1>1, <2>1, NotifyOneWakes, WakingKeeps DEF Spurious, ctlVars, Types
<1>2. ASSUME NEW t \in Tasks, Exec(t)
      PROVE  PoolInv'
  <2>1. tasks' \in Seq(Tasks)
    BY <1>2, AppendProperties DEF Exec, Types
  <2> QED
    BY <1>2, <2>1, NotifyOneWakes, WakingKeeps DEF Exec, ctlVars, Types
<1>3. CASE \E x \in Waiters : Waiter(x) \/ \E l \in BOOLEAN : Wait(x, l)
  <2>1. UNCHANGED <<tasks, ctlVars, workerVars, given, ended>>
    BY <1>3 DEF Waiter, Wait, WaitWakes, WaitTimesOut, WaitReturns
  <2>2. wpc' \in [Waiters -> WaiterPcs] /\ limit' \in [Waiters -> BOOLEAN]
    <3>1. ASSUME NEW x \in Waiters, NEW l \in BOOLEAN, Wait(x, l)
          PROVE  wpc' \in [Waiters -> WaiterPcs] /\ limit' \in [Waiters -> BOOLEAN]
      BY <3>1 DEF Wait, Types, WaiterPcs
    <3>2. ASSUME NEW x \in Waiters, Waiter(x)
          PROVE  wpc' \in [Waiters -> WaiterPcs] /\ limit' = limit
      BY <3>2 DEF Waiter, WaitWakes, WaitTimesOut, WaitReturns, Types, WaiterPcs
    <3>3. limit \in [Waiters -> BOOLEAN]
      BY DEF Types
    <3> QED
      BY <1>3, <3>1, <3>2, <3>3
  <2>3. Types'
    BY <2>1, <2>2 DEF Types, ctlVars, workerVars
  <2>4. Counted' /\ HoldsIffBusy' /\ OnlyThreads'
    BY <2>1 DEF Counted, Executing, HoldsIffBusy, OnlyThreads, ctlVars, workerVars
  <2> QED
    BY <2>3, <2>4
<1> HIDE DEF PoolInv
<1> QED
  BY <1>1, <1>2, <1>3

LEMMA PoolStep == PoolInv /\ [Next]_vars => PoolInv'
<1> SUFFICES ASSUME PoolInv, [Next]_vars PROVE PoolInv'
  OBVIOUS
<1>1. CASE UNCHANGED vars
  BY <1>1
     DEF vars, ctlVars, workerVars, waiterVars, PoolInv, Types, Counted,
         Executing, HoldsIffBusy, OnlyThreads
<1> QED
  BY <1>1, OwnerStep, WorkerStep, OtherStep DEF Next

LEMMA PoolInvariant == Spec => []PoolInv
  BY PoolInit, PoolStep, PTL DEF Spec

(* Every variable keeps its type; in particular atomic_ never goes below   *)
(* zero or above the number of workers.                                    *)
THEOREM TypeCorrect == Spec => []TypeOK
  BY PoolInvariant, InvBoundsActive, PTL

-----------------------------------------------------------------------------
(* No sleeping worker while a task has nobody woken for it.                *)

(* Waking a sleeper adds it to Woken, and taking the mutex removes it. *)
LEMMA WokenCounts ==
  ASSUME Types, NEW w \in Workers, NEW q \in WorkerPcs,
         pc' = [pc EXCEPT ![w] = q]
  PROVE  /\ Cardinality(Woken) \in Nat /\ Cardinality(Woken') \in Nat
         /\ (pc[w] = "asleep" /\ q = "woken")
              => Cardinality(Woken') = Cardinality(Woken) + 1
         /\ (pc[w] = "woken" /\ q # "woken")
              => Cardinality(Woken') = Cardinality(Woken) - 1
         /\ (pc[w] # "woken" /\ q # "woken")
              => Cardinality(Woken') = Cardinality(Woken)
<1>1. Woken \in SUBSET Workers /\ Woken' \in SUBSET Workers
  BY DEF Woken
<1>2. (pc[w] = "asleep" /\ q = "woken")
        => Woken' = Woken \cup {w} /\ w \notin Woken
  BY DEF Woken, Types
<1>3. (pc[w] = "woken" /\ q # "woken")
        => Woken' = Woken \ {w} /\ w \in Woken
  BY DEF Woken, Types
<1>4. (pc[w] # "woken" /\ q # "woken") => Woken' = Woken
  BY DEF Woken, Types
<1> QED
  BY <1>1, <1>2, <1>3, <1>4, CountWorkers

LEMMA LengthType ==
  ASSUME Types
  PROVE  /\ Len(tasks) \in Nat
         /\ Cardinality(Woken) \in Nat
         /\ tasks = <<>> => Len(tasks) = 0
         /\ tasks # <<>> => Len(Tail(tasks)) = Len(tasks) - 1 /\ Len(tasks) > 0
         /\ \A t \in Tasks : Len(Append(tasks, t)) = Len(tasks) + 1
<1>1. Woken \in SUBSET Workers
  BY DEF Woken
<1>2. tasks = <<>> => Len(tasks) = 0
  OBVIOUS
<1>3. \A t \in Tasks : Len(Append(tasks, t)) = Len(tasks) + 1
  BY AppendProperties DEF Types
<1>4. tasks # <<>> => Len(Tail(tasks)) = Len(tasks) - 1 /\ Len(tasks) > 0
  BY HeadTailProperties, LenProperties, EmptySeq DEF Types
<1>5. Len(tasks) \in Nat
  BY LenProperties DEF Types
<1>6. Cardinality(Woken) \in Nat
  BY <1>1, PoolAssumption, FS_Subset, FS_CardinalityType
<1> QED
  BY <1>2, <1>3, <1>4, <1>5, <1>6

(* After Stop no worker sleeps: this is why a woken worker may leave Run   *)
(* without taking the task it was woken for.                               *)
StopWokeAll == terminate => Asleep = {}

SleepInv == NoSleepOnWork /\ StopWokeAll

LEMMA ExecWakes ==
  ASSUME PoolInv, SleepInv, Waiters = {}, NEW t \in Tasks, Exec(t)
  PROVE  SleepInv'
<1>1. Types /\ tasks' = Append(tasks, t) /\ terminate' = terminate
  BY DEF PoolInv, Exec, ctlVars
<1>2. ASSUME NEW w \in Asleep, pc' = [pc EXCEPT ![w] = "woken"]
      PROVE  SleepInv'
  <2>1. w \in Workers /\ pc[w] = "asleep"
    BY DEF Asleep
  <2>2. Cardinality(Woken') = Cardinality(Woken) + 1
    BY <1>1, <1>2, <2>1, WokenCounts DEF WorkerPcs
  <2>3. StopWokeAll'
    BY <1>1 DEF SleepInv, StopWokeAll
  <2> QED
    BY <1>1, <2>2, <2>3, LengthType DEF SleepInv, NoSleepOnWork
<1>3. CASE Asleep = {} /\ pc' = pc
  BY <1>3 DEF Asleep, SleepInv, NoSleepOnWork, StopWokeAll
<1> QED
  BY <1>2, <1>3 DEF Exec, NotifyOne, AsleepOut

LEMMA SpuriousWakes ==
  ASSUME PoolInv, SleepInv, Waiters = {}, Spurious
  PROVE  SleepInv'
<1>1. Types /\ tasks' = tasks /\ terminate' = terminate
  BY DEF PoolInv, Spurious, ctlVars
<1>2. PICK w \in Asleep : pc' = [pc EXCEPT ![w] = "woken"]
  BY DEF Spurious, AsleepOut
<1>3. w \in Workers /\ pc[w] = "asleep"
  BY DEF Asleep
<1>4. Cardinality(Woken') = Cardinality(Woken) + 1
  BY <1>1, <1>2, <1>3, WokenCounts DEF WorkerPcs
<1>5. StopWokeAll'
  BY <1>1, <1>2 DEF SleepInv, StopWokeAll
<1> QED
  BY <1>1, <1>2, <1>4, <1>5, LengthType DEF SleepInv, NoSleepOnWork

(* A worker that is awake moves, without waking others or sleeping. *)
LEMMA MoveKeeps ==
  ASSUME PoolInv, SleepInv, NEW w \in Workers, pc[w] # "woken",
         NEW q \in WorkerPcs \ {"woken", "asleep"}, tasks' = tasks,
         terminate' = terminate, pc' = [pc EXCEPT ![w] = q]
  PROVE  SleepInv'
<1>1. Cardinality(Woken') = Cardinality(Woken)
  <2>1. Woken' = Woken
    BY DEF PoolInv, Types, Woken
  <2> QED
    BY <2>1
<1>2. Asleep' \subseteq Asleep
  BY DEF PoolInv, Types, Asleep
<1> QED
  BY <1>1, <1>2 DEF SleepInv, NoSleepOnWork, StopWokeAll

LEMMA GetKeeps ==
  ASSUME PoolInv, SleepInv, NEW w \in Workers, Get(w)
  PROVE  SleepInv'
<1>1. Types /\ pc[w] \in {"get", "woken"} /\ terminate' = terminate
  BY DEF PoolInv, Get, ctlVars
<1>2. CASE /\ tasks = <<>> /\ ~terminate /\ tasks' = tasks
  <2>1. Woken' \in SUBSET Workers
    BY DEF Woken
  <2>2. Cardinality(Woken') \in Nat /\ Len(tasks') = 0
    BY <1>2, <2>1, CountWorkers
  <2> QED
    BY <1>1, <1>2, <2>2 DEF SleepInv, NoSleepOnWork, StopWokeAll
<1>3. CASE /\ MayTake /\ tasks' = Popped(tasks)
           /\ pc' = [pc EXCEPT ![w] = "held"]
  <2>1. Asleep' \subseteq Asleep
    BY <1>1, <1>3 DEF Types, Asleep
  <2>2. /\ Cardinality(Woken') \in Nat
        /\ Cardinality(Woken') >= Cardinality(Woken) - 1
    <3>1. "held" \in WorkerPcs
      BY DEF WorkerPcs
    <3>2. /\ Cardinality(Woken) \in Nat /\ Cardinality(Woken') \in Nat
          /\ pc[w] = "woken" =>
               Cardinality(Woken') = Cardinality(Woken) - 1
          /\ pc[w] = "get" => Cardinality(Woken') = Cardinality(Woken)
      BY <1>1, <1>3, <3>1, WokenCounts
    <3> QED
      BY <1>1, <3>2
  <2>3. Len(tasks') = Len(tasks) - 1
    BY <1>1, <1>3, LengthType DEF MayTake, Popped
  <2>4. NoSleepOnWork'
    BY <1>1, <2>1, <2>2, <2>3, LengthType DEF SleepInv, NoSleepOnWork
  <2> QED
    BY <1>1, <2>1, <2>4 DEF SleepInv, StopWokeAll
<1>4. CASE terminate /\ pc' = [pc EXCEPT ![w] = "exit"]
  <2>1. Asleep' = {}
    BY <1>1, <1>4 DEF SleepInv, StopWokeAll, Asleep, Types
  <2> QED
    BY <2>1 DEF SleepInv, NoSleepOnWork, StopWokeAll
<1> QED
  BY <1>2, <1>3, <1>4 DEF Get

LEMMA WorkerKeeps ==
  ASSUME PoolInv, SleepInv, NEW w \in Workers, Worker(w)
  PROVE  SleepInv'
<1>1. CASE Get(w)
  BY <1>1, GetKeeps
<1>2. CASE RunChecks(w) \/ RunTask(w) \/ EndTask(w)
  <2>1. PICK q \in WorkerPcs \ {"woken", "asleep"} :
          pc' = [pc EXCEPT ![w] = q]
    BY <1>2 DEF RunChecks, RunTask, EndTask, WorkerPcs
  <2>2. pc[w] # "woken" /\ tasks' = tasks /\ terminate' = terminate
    BY <1>2 DEF RunChecks, RunTask, EndTask, ctlVars
  <2> QED
    BY <2>1, <2>2, MoveKeeps
<1>3. CASE RunNotifies(w)
  <2>1. pc[w] = "done" /\ tasks' = tasks /\ terminate' = terminate
    BY <1>3 DEF RunNotifies, ctlVars
  <2>2. CASE pc' = AllWoken([pc EXCEPT ![w] = "top"])
    <3>1. Asleep' = {}
      BY <2>2 DEF AllWoken, Asleep
    <3> QED
      BY <3>1 DEF SleepInv, NoSleepOnWork, StopWokeAll
  <2>3. CASE pc' = [pc EXCEPT ![w] = "top"]
    BY <2>1, <2>3, MoveKeeps DEF WorkerPcs
  <2> QED
    BY <1>3, <2>2, <2>3 DEF RunNotifies
<1> QED
  BY <1>1, <1>2, <1>3 DEF Worker

LEMMA OwnerKeeps ==
  ASSUME PoolInv, SleepInv, Owner
  PROVE  SleepInv'
<1> USE DEF SleepInv, NoSleepOnWork, StopWokeAll
<1>1. CASE \E S \in SUBSET Workers : SetThreadNum(S)
  BY <1>1 DEF SetThreadNum, workerVars, Asleep, Woken
<1>2. CASE Start
  <2>1. \A w \in Workers : pc[w] = "none"
    BY <1>2 DEF Start, PoolInv, OnlyThreads
  <2>2. Asleep' = {}
    BY <1>2, <2>1 DEF Start, Asleep
  <2> QED
    BY <2>2
<1>3. CASE Stop \/ StopReturns
  <2>1. Asleep' = {}
    BY <1>3 DEF Stop, StopReturns, StopWakes, AllWoken, Asleep
  <2> QED
    BY <2>1
<1> QED
  BY <1>1, <1>2, <1>3 DEF Owner

LEMMA SleepStep ==
  ASSUME Waiters = {}
  PROVE  PoolInv /\ SleepInv /\ [Next]_vars => SleepInv'
<1> SUFFICES ASSUME PoolInv, SleepInv, [Next]_vars PROVE SleepInv'
  OBVIOUS
<1>1. CASE UNCHANGED vars
  BY <1>1
     DEF vars, ctlVars, workerVars, SleepInv, NoSleepOnWork, StopWokeAll,
         Asleep, Woken
<1>2. CASE \E x \in Waiters : Waiter(x) \/ \E l \in BOOLEAN : Wait(x, l)
  BY <1>2
<1> QED
  BY <1>1, <1>2, OwnerKeeps, WorkerKeeps, ExecWakes, SpuriousWakes DEF Next

(* As long as nobody calls WaitForAllDone, as in the server, the single    *)
(* notify_one of Exec is enough: no worker sleeps while a task is queued   *)
(* that no woken worker will take.                                         *)
THEOREM WorkWakesWorkers ==
  ASSUME Waiters = {}
  PROVE  Spec => []NoSleepOnWork
<1>1. Init => SleepInv
  BY DEF Init, SleepInv, NoSleepOnWork, StopWokeAll, Asleep
<1>2. PoolInv /\ SleepInv /\ [Next]_vars => SleepInv'
  BY SleepStep
<1>3. SleepInv => NoSleepOnWork
  BY DEF SleepInv
<1> QED
  BY <1>1, <1>2, <1>3, PoolInvariant, PTL DEF Spec

-----------------------------------------------------------------------------
(* The pool implements TaskQueue.                                          *)

(* A task that is queued, held or ended was given to Exec. *)
Known ==
  /\ \A i \in 1 .. Len(tasks) : tasks[i] \in given
  /\ \A w \in Workers : held[w] # None => held[w] \in given
  /\ ended \subseteq given

(* A task is in one place of the queue, or with one worker. *)
OnePlace ==
  /\ \A i, j \in 1 .. Len(tasks) : tasks[i] = tasks[j] => i = j
  /\ \A i \in 1 .. Len(tasks), w \in Workers : held[w] # tasks[i]
  /\ \A v, w \in Workers : held[v] # None /\ held[v] = held[w] => v = w

PlaceInv == PoolInv /\ Known /\ OnePlace

LEMMA ExecPlaces ==
  ASSUME PlaceInv, NEW t \in Tasks, Exec(t)
  PROVE  Known' /\ OnePlace'
<1>1. /\ tasks \in Seq(Tasks) /\ tasks' = Append(tasks, t)
      /\ t \notin given /\ given' = given \cup {t}
      /\ UNCHANGED <<held, ended>>
  BY DEF PlaceInv, PoolInv, Types, Exec
<1>2. /\ Len(tasks) \in Nat /\ Len(tasks') = Len(tasks) + 1
      /\ \A i \in 1 .. Len(tasks) : tasks'[i] = tasks[i]
      /\ tasks'[Len(tasks) + 1] = t
  BY <1>1, AppendProperties, LenProperties
<1>3. \A i \in 1 .. Len(tasks') : i \in 1 .. Len(tasks) \/ i = Len(tasks) + 1
  BY <1>2
<1>4. Known'
  BY <1>1, <1>2, <1>3 DEF PlaceInv, Known
<1>5. t # None
  BY PoolAssumption
<1>6. \A w \in Workers : held[w] # t
  BY <1>1, <1>5 DEF PlaceInv, Known
<1>7. OnePlace'
  BY <1>1, <1>2, <1>3, <1>6 DEF PlaceInv, Known, OnePlace
<1> QED
  BY <1>4, <1>7

LEMMA GetPlaces ==
  ASSUME PlaceInv, NEW w \in Workers, Get(w)
  PROVE  Known' /\ OnePlace'
<1>1. CASE UNCHANGED <<tasks, held>>
  BY <1>1 DEF Get, PlaceInv, Known, OnePlace
<1>2. CASE /\ tasks # <<>> /\ tasks' = Tail(tasks)
           /\ held' = [held EXCEPT ![w] = Head(tasks)]
  <2>1. /\ Len(tasks) \in Nat \ {0} /\ Len(tasks') = Len(tasks) - 1
        /\ \A i \in 1 .. Len(tasks') : tasks'[i] = tasks[i + 1]
        /\ Head(tasks) = tasks[1]
    BY <1>2, HeadTailProperties, LenProperties, EmptySeq
       DEF PlaceInv, PoolInv, Types
  <2>2. /\ \A i \in 1 .. Len(tasks') : i + 1 \in 1 .. Len(tasks) /\ i + 1 # 1
        /\ 1 \in 1 .. Len(tasks)
    BY <2>1
  <2>3. UNCHANGED <<given, ended>>
    BY DEF Get
  <2>4. /\ held'[w] = tasks[1]
        /\ \A v \in Workers \ {w} : held'[v] = held[v]
    BY <1>2, <2>1 DEF PlaceInv, PoolInv, Types
  <2>5. Known'
    BY <2>1, <2>2, <2>3, <2>4 DEF PlaceInv, Known
  <2>6. \A i, j \in 1 .. Len(tasks') : tasks'[i] = tasks'[j] => i = j
    <3> SUFFICES ASSUME NEW i \in 1 .. Len(tasks'), NEW j \in 1 .. Len(tasks'),
                        tasks'[i] = tasks'[j]
                 PROVE  i = j
      OBVIOUS
    <3>1. i + 1 = j + 1
      BY <2>1, <2>2 DEF PlaceInv, OnePlace
    <3> QED
      BY <2>1, <3>1
  <2>7. \A i \in 1 .. Len(tasks'), v \in Workers : held'[v] # tasks'[i]
    BY <2>1, <2>2, <2>4 DEF PlaceInv, OnePlace
  <2>8. \A u, v \in Workers : held'[u] # None /\ held'[u] = held'[v] => u = v
    BY <2>2, <2>4 DEF PlaceInv, OnePlace
  <2> QED
    BY <2>5, <2>6, <2>7, <2>8 DEF OnePlace
<1> QED
  BY <1>1, <1>2 DEF Get, MayTake, Popped

LEMMA EndPlaces ==
  ASSUME PlaceInv, NEW w \in Workers, EndTask(w)
  PROVE  Known' /\ OnePlace'
<1>1. /\ held[w] \in given
      /\ \A v \in Workers : held'[v] = IF v = w THEN None ELSE held[v]
  BY DEF EndTask, PlaceInv, PoolInv, HoldsIffBusy, Types, Known
<1>2. \A i \in 1 .. Len(tasks) : tasks[i] # None
  BY PoolAssumption DEF PlaceInv, Known, PoolInv, Types
<1>3. UNCHANGED <<tasks, given>> /\ ended' = ended \cup {held[w]}
  BY DEF EndTask
<1> QED
  BY <1>1, <1>2, <1>3 DEF PlaceInv, Known, OnePlace

(* All other steps leave the tasks where they are. *)
LEMMA OthersKeep ==
  ASSUME [Next]_vars
  PROVE  \/ UNCHANGED <<tasks, held, given, ended>>
         \/ \E t \in Tasks : Exec(t)
         \/ \E w \in Workers : Get(w) \/ EndTask(w)
<1>1. CASE Owner \/ Spurious
  BY <1>1 DEF Owner, SetThreadNum, Start, Stop, StopReturns, Spurious,
              workerVars
<1>2. ASSUME NEW w \in Workers, RunChecks(w) \/ RunTask(w) \/ RunNotifies(w)
      PROVE  UNCHANGED <<tasks, held, given, ended>>
  BY <1>2 DEF RunChecks, RunTask, RunNotifies
<1>3. CASE \E x \in Waiters : Waiter(x) \/ \E l \in BOOLEAN : Wait(x, l)
  BY <1>3 DEF Waiter, Wait, WaitWakes, WaitTimesOut, WaitReturns, workerVars
<1>4. CASE UNCHANGED vars
  BY <1>4 DEF vars, workerVars
<1> QED
  BY <1>1, <1>2, <1>3, <1>4 DEF Next, Worker

LEMMA PlaceInvariant == Spec => []PlaceInv
<1>1. Init => PlaceInv
  BY PoolInit DEF Init, PlaceInv, Known, OnePlace
<1>2. PlaceInv /\ [Next]_vars => PlaceInv'
  <2> SUFFICES ASSUME PlaceInv, [Next]_vars PROVE PlaceInv'
    OBVIOUS
  <2>1. PoolInv'
    BY PoolStep DEF PlaceInv
  <2>2. UNCHANGED <<tasks, held, given, ended>> => Known' /\ OnePlace'
    BY DEF PlaceInv, Known, OnePlace
  <2>3. Known' /\ OnePlace'
    BY <2>2, OthersKeep, ExecPlaces, GetPlaces, EndPlaces
  <2> QED
    BY <2>1, <2>3 DEF PlaceInv
<1> QED
  BY <1>1, <1>2, PTL DEF Spec

LEMMA QueueInit == Init => Queue!Init
  BY DEF Init, Queue!Init, Running

LEMMA QueueStep == PlaceInv /\ [Next]_vars => [Queue!Next]_(Queue!vars)
<1> SUFFICES ASSUME PlaceInv, [Next]_vars PROVE [Queue!Next]_(Queue!vars)
  OBVIOUS
<1> USE DEF Queue!Next, Queue!vars
<1>1. terminate \in BOOLEAN /\ tasks \in Seq(Tasks)
  BY DEF PlaceInv, PoolInv, Types
<1>2. CASE UNCHANGED <<tasks, held, given, ended>>
  <2>1. Running' = Running
    BY <1>2 DEF Running
  <2>2. terminate' = terminate \/ Stop
    BY DEF Next, Owner, SetThreadNum, Start, StopReturns, Spurious, Exec,
           Worker, RunChecks, Get, RunTask, EndTask, RunNotifies, Waiter,
           Wait, WaitWakes, WaitTimesOut, WaitReturns, ctlVars, vars
  <2>3. CASE Stop
    BY <1>2, <2>1, <2>3 DEF Stop, Queue!Close
  <2> QED
    BY <1>2, <2>1, <2>2, <2>3
<1>3. ASSUME NEW t \in Tasks, Exec(t)
      PROVE  Queue!Give(t)
  <2>1. Running' = Running /\ terminate' = terminate
    BY <1>3 DEF Exec, ctlVars, Running
  <2>2. t \notin Queue!Waiting \cup Running \cup ended
    BY <1>1, <1>3, LenProperties
       DEF Exec, PlaceInv, Known, Queue!Waiting, Running
  <2> QED
    BY <1>3, <2>1, <2>2 DEF Exec, Queue!Give
<1>4. ASSUME NEW w \in Workers, Get(w)
      PROVE  Queue!Begin \/ UNCHANGED <<tasks, held, given, ended>>
  <2>1. CASE MayTake /\ held' = [held EXCEPT ![w] = Head(tasks)]
    <3>1. held[w] = None /\ Head(tasks) # None
      BY <1>1, <1>4, <2>1, HeadTailProperties, PoolAssumption
         DEF Get, MayTake, PlaceInv, PoolInv, HoldsIffBusy
    <3>2. Running' = Running \cup {Head(tasks)}
      BY <2>1, <3>1 DEF Running, PlaceInv, PoolInv, Types
    <3> QED
      BY <1>4, <2>1, <3>2 DEF Get, MayTake, Popped, ctlVars, Queue!Begin
  <2> QED
    BY <1>4, <2>1 DEF Get
<1>5. ASSUME NEW w \in Workers, EndTask(w)
      PROVE  \E t \in Tasks : Queue!End(t)
  <2>1. held[w] \in Tasks /\ held[w] # None
    BY <1>5, PoolAssumption DEF EndTask, PlaceInv, PoolInv, HoldsIffBusy, Types
  <2>2. Running' = Running \ {held[w]}
    BY <1>5, <2>1 DEF EndTask, Running, PlaceInv, OnePlace, PoolInv, Types
  <2>3. held[w] \in Running
    BY <2>1 DEF Running
  <2> QED
    BY <1>5, <2>1, <2>2, <2>3 DEF EndTask, ctlVars, Queue!End
<1> QED
  BY <1>2, <1>3, <1>4, <1>5, OthersKeep

(* The pool keeps TaskQueue's promises: each task is begun at most once,   *)
(* in the order of the calls of Exec, and none after Stop.                 *)
THEOREM PoolImplementsQueue == Spec => Implements
<1>1. Spec => Queue!Init /\ [][Queue!Next]_(Queue!vars)
  BY QueueInit, QueueStep, PlaceInvariant, PTL DEF Spec
<1> QED
  BY <1>1 DEF Implements, Queue!Spec
=============================================================================
