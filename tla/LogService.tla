----------------------------- MODULE LogService -----------------------------
(***************************************************************************)
(* The logger and the file below it as one process: AsyncLogging's writer  *)
(* opens a LogFile when it begins, appends every buffer to it, flushes it  *)
(* at the end of each turn and closes it when it ends.  While a file is    *)
(* written, rolled or flushed the other threads go on logging.             *)
(*                                                                         *)
(* The process may be killed while the file is open, and is started again. *)
(* A line is one unit of the file, and so is the remark that buffers were  *)
(* thrown away.                                                            *)
(***************************************************************************)
EXTENDS AsyncLogging, LogFile

serviceVars == <<vars, fileVars>>

Remark == 1  \* the length of "Dropped log messages ..."

ServiceInit == Init /\ FileInit

-----------------------------------------------------------------------------
(* Steps of the logger alone.  A process that has aborted does nothing.    *)

(* The bound: over all runs of the process MaxLines lines get to the file. *)
MayLog == units + appended - Len(file) < MaxLines

Log(k) ==
  /\ at # "aborted" /\ MayLog
  /\ append(k)
  /\ UNCHANGED fileVars

Owner ==
  /\ at # "aborted"
  /\ start \/ stop \/ StopNotify \/ Join
  /\ UNCHANGED fileVars

Waits ==
  /\ \/ Top /\ running
     \/ Lock \/ Sleep \/ Wake \/ TimeOut
  /\ UNCHANGED fileVars

(* Steps of the file alone. *)
Rolls == (AfterAppend \/ Close) /\ UNCHANGED vars

-----------------------------------------------------------------------------
(* Steps of the writer in both. *)

Begins ==
  /\ Begin
  /\ IF running THEN Open ELSE UNCHANGED fileVars

Trims ==
  /\ Trim
  /\ IF Len(toWrite) > MaxBehind THEN append_unlocked(Remark) ELSE UNCHANGED fileVars

Writes ==
  /\ Write
  /\ append_unlocked(Len(toWrite[written + 1].text))

EndsTurn == Refill /\ flush

(* The loop is left: a last flush, then the file goes with its function. *)
LastFlush ==
  /\ at = "top" /\ ~ running /\ turn = "write"
  /\ flush
  /\ UNCHANGED vars

Returns == Top /\ ~ running /\ Leave

-----------------------------------------------------------------------------
(* The memory of the process is gone. *)
Forget ==
  /\ running' = FALSE
  /\ current' = Empty /\ next' = Empty /\ buffers' = <<>>
  /\ spare1' = Null /\ spare2' = Null /\ toWrite' = <<>>
  /\ appended' = 0 /\ written' = 0
  /\ file' = <<>> /\ dropped' = {}

Killed ==
  /\ Kill
  /\ at' = "aborted"
  /\ Forget
  /\ UNCHANGED owner

(* The next process. *)
Restart ==
  /\ at = "aborted"
  /\ at' = "none"
  /\ owner' = "new"
  /\ Forget
  /\ UNCHANGED fileVars

WriterStep ==
  Waits \/ Rolls \/ Begins \/ Trims \/ Writes \/ EndsTurn \/ LastFlush \/ Returns

ServiceNext ==
  \/ \E k \in Lengths : Log(k)
  \/ Owner \/ WriterStep
  \/ Spurious /\ UNCHANGED fileVars
  \/ Killed \/ Restart

ServiceSpec == ServiceInit /\ [][ServiceNext]_serviceVars

(* The writer and the thread in stop() are scheduled.  The time limit of a *)
(* wait is a deadline, which a writer that is woken again and again to no  *)
(* purpose reaches all the same.  Nobody has to log, start, stop or kill.  *)
FairServiceSpec ==
  /\ ServiceSpec
  /\ WF_serviceVars(WriterStep)
  /\ SF_serviceVars(TimeOut /\ UNCHANGED fileVars)
  /\ WF_serviceVars(at # "aborted" /\ (StopNotify \/ Join) /\ UNCHANGED fileVars)

-----------------------------------------------------------------------------
(* Of the lines: the threads' lines are in order and each is accounted for *)
(* in every run of the process, also while the file below is rolled.       *)
LinesKept == InOrder /\ NoneLost

(* Of the file: it is in order over all runs of the process, and a turn of *)
(* the writer leaves nothing behind in a buffer of stdio.                  *)
UnitsKept == UnitsInOrder /\ Flushed
=============================================================================
