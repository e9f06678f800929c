------------------------------ MODULE LogFile ------------------------------
(***************************************************************************)
(* The file below the logger, log/log_file.cc with log/file_util.cc: the   *)
(* one writer thread appends buffers to it and flushes it at the end of    *)
(* each of its turns.  After an append the file may be rolled, by size or  *)
(* by day, or flushed, by time.  A roll opens the file first and closes    *)
(* the one before it then; both have a buffer of stdio.  The process may   *)
(* be killed at any step and is started again.                             *)
(*                                                                         *)
(* What is appended is counted in units, numbered over all runs of the     *)
(* process.                                                                *)
(***************************************************************************)
EXTENDS Integers, Sequences

CONSTANTS
  Names,          \* the names a file may have
  Base,           \* the name made of basename_ alone
  RollSize,       \* rollSize_
  CheckEvery,     \* checkEveryN_
  FlushInterval,  \* flushInterval_
  Day,            \* kRollPerSeconds_
  MaxUnits,       \* bound: the units that are appended
  MaxTime,        \* bound: the clock
  MaxFaults,      \* bound: the kills and the writes that find the disk full
  NoFile          \* no file_

ASSUME LogFileAssumption ==
  /\ Base \in Names
  /\ RollSize \in Nat /\ CheckEvery \in Nat /\ FlushInterval \in Nat
  /\ Day \in Nat \ {0}
  /\ MaxUnits \in Nat /\ MaxTime \in Nat \ {0} /\ MaxFaults \in Nat
  /\ NoFile \notin [name : Names, pending : Seq(Nat), written : Nat]

VARIABLES
  disk,           \* what the system has been given, by file
  fp,             \* file_: its name, the buffer of stdio, writtenBytes_
  old,            \* the file that a roll has still to close
  count,          \* count_
  startOfPeriod,  \* startOfPeriod_
  lastRoll,       \* lastRoll_
  lastFlush,      \* lastFlush_
  turn,           \* where the writer thread is
  units,          \* how many units have been appended
  lost,           \* the units lost in a kill, or since the disk was full
  faults          \* how many kills and writes on a full disk there were

times    == <<startOfPeriod, lastRoll, lastFlush>>
history  == <<units, lost, faults>>
fileVars == <<disk, fp, old, count, times, turn, history>>

AppendFiles == [name : Names, pending : Seq(Nat), written : Nat]
Units(s) == {s[i] : i \in DOMAIN s}

FileTypeOK ==
  /\ disk \in [Names -> Seq(Nat)]
  /\ fp \in AppendFiles \cup {NoFile}
  /\ old \in AppendFiles \cup {NoFile}
  /\ count \in Nat
  /\ startOfPeriod \in Nat /\ lastRoll \in Nat /\ lastFlush \in Nat
  /\ turn \in {"down", "idle", "write", "wrote"}
  /\ units \in Nat
  /\ lost \subseteq Nat
  /\ faults \in Nat

FileInit ==
  /\ disk = [n \in Names |-> <<>>]
  /\ fp = NoFile
  /\ old = NoFile
  /\ count = 0
  /\ startOfPeriod = 0 /\ lastRoll = 0 /\ lastFlush = 0
  /\ turn = "down"
  /\ units = 0
  /\ lost = {}
  /\ faults = 0

-----------------------------------------------------------------------------
(* The file of stdio.  Variants named Operator_What are faults.            *)

(* The parts of the name that depend on the time, the host and the process *)
(* are commented out.                                                      *)
getLogFileName(t) == Base

AppendFile(n) == [name |-> n, pending |-> <<>>, written |-> 0]

AfterOpen_Truncated(n) == [disk EXCEPT ![n] = <<>>]

(* fopen with "a" leaves the file as it is. *)
AfterOpen(n) == disk

(* Of the text t the system takes the first i units, and what follows the  *)
(* first j stays in the buffer of stdio.  What is between is lost, which   *)
(* happens on a full disk only; a loop that writes the rest ends with it.  *)
Pour(t, i, j) ==
  /\ i <= j
  /\ i < j => faults < MaxFaults
  /\ disk' = [disk EXCEPT ![fp.name] = @ \o SubSeq(t, 1, i)]
  /\ lost' = lost \cup Units(SubSeq(t, i + 1, j))
  /\ faults' = IF i < j THEN faults + 1 ELSE faults

Fflush ==
  \E i \in 0 .. Len(fp.pending) :
    /\ Pour(fp.pending, i, Len(fp.pending))
    /\ fp' = [fp EXCEPT !.pending = <<>>]
    /\ UNCHANGED units

(* The thread is at the head of append() or flush(), every call returned. *)
Settled == turn \in {"idle", "write"} /\ old = NoFile

(* AppendFile::append counts what was to be written, not what was. *)
append_unlocked(n) ==
  /\ Settled
  /\ units + n <= MaxUnits
  /\ LET t == fp.pending \o [i \in 1 .. n |-> units + i]
     IN  \E j \in 0 .. Len(t) : \E i \in 0 .. j :
           /\ Pour(t, i, j)
           /\ fp' = [fp EXCEPT !.pending = SubSeq(t, j + 1, Len(t)),
                               !.written = @ + n]
  /\ units' = units + n
  /\ turn' = "wrote"
  /\ UNCHANGED <<old, count, times>>

-----------------------------------------------------------------------------
(* LogFile *)

Period(t) == (t \div Day) * Day

(* What time() returns; the clock may be set back between two calls. *)
Times == 1 .. MaxTime

(* rollFile(): within the second of the last roll, or before it when the   *)
(* clock was set back, nothing is rolled.                                  *)
rollFile ==
  \E now \in Times :
    \/ /\ now > lastRoll
       /\ lastRoll' = now
       /\ lastFlush' = now
       /\ startOfPeriod' = Period(now)
       /\ disk' = AfterOpen(getLogFileName(now))
       /\ fp' = AppendFile(getLogFileName(now))
       /\ old' = fp
       /\ UNCHANGED history
    \/ /\ now <= lastRoll
       /\ UNCHANGED <<disk, fp, old, times, history>>

Stay == UNCHANGED <<disk, fp, old, times, history>>

(* append_unlocked() after the append: by size; else, at every CheckEvery- *)
(* th append, by day; else a flush by time.                                *)
TooLong == fp.written > RollSize
Checks  == count + 1 >= CheckEvery

AfterAppend ==
  /\ turn = "wrote"
  /\ turn' = "write"
  /\ \/ /\ TooLong
        /\ rollFile
        /\ UNCHANGED count
     \/ /\ ~ TooLong /\ ~ Checks
        /\ count' = count + 1
        /\ Stay
     \/ /\ ~ TooLong /\ Checks
        /\ count' = 0
        /\ \E now \in Times :
             \/ /\ Period(now) # startOfPeriod
                /\ rollFile
             \/ /\ Period(now) = startOfPeriod
                /\ now - lastFlush > FlushInterval
                /\ lastFlush' = now
                /\ Fflush
                /\ UNCHANGED <<old, startOfPeriod, lastRoll>>
             \/ /\ Period(now) = startOfPeriod
                /\ now - lastFlush <= FlushInterval
                /\ Stay

Close_Dropped ==
  /\ old # NoFile
  /\ old' = NoFile
  /\ UNCHANGED <<disk, fp, count, times, turn, history>>

(* file_.reset() deletes the old file after the new one is made; fclose    *)
(* writes what stdio still has of it.                                      *)
Close ==
  /\ old # NoFile
  /\ old' = NoFile
  /\ \E i \in 0 .. Len(old.pending) :
       /\ i < Len(old.pending) => faults < MaxFaults
       /\ disk' = [disk EXCEPT ![old.name] = @ \o SubSeq(old.pending, 1, i)]
       /\ lost' = lost \cup Units(SubSeq(old.pending, i + 1, Len(old.pending)))
       /\ faults' = IF i < Len(old.pending) THEN faults + 1 ELSE faults
  /\ UNCHANGED <<fp, count, times, turn, units>>

(* The writer ends a turn. *)
flush ==
  /\ Settled
  /\ turn' = "idle"
  /\ Fflush
  /\ UNCHANGED <<old, count, times>>

(* The constructor, in threadFunc(). *)
Open ==
  /\ turn = "down"
  /\ turn' = "write"
  /\ count' = 0
  /\ \E now \in Times :
       /\ lastRoll' = now
       /\ lastFlush' = now
       /\ startOfPeriod' = Period(now)
       /\ disk' = AfterOpen(getLogFileName(now))
       /\ fp' = AppendFile(getLogFileName(now))
  /\ UNCHANGED <<old, history>>

(* The fields of an object that is no more. *)
Gone ==
  /\ count' = 0
  /\ startOfPeriod' = 0 /\ lastRoll' = 0 /\ lastFlush' = 0

(* threadFunc() returns after a last flush. *)
Leave ==
  /\ turn = "idle"
  /\ turn' = "down"
  /\ fp' = NoFile
  /\ Gone
  /\ UNCHANGED <<disk, old, history>>

-----------------------------------------------------------------------------
Held(f) == IF f = NoFile THEN {} ELSE Units(f.pending)

(* The process is killed, or aborts since fopen failed in AppendFile. *)
Kill ==
  /\ turn # "down"
  /\ faults < MaxFaults
  /\ faults' = faults + 1
  /\ turn' = "down"
  /\ lost' = lost \cup Held(fp) \cup Held(old)
  /\ fp' = NoFile
  /\ old' = NoFile
  /\ Gone
  /\ UNCHANGED <<disk, units>>

FileNext ==
  \/ \E n \in Nat : append_unlocked(n)
  \/ AfterAppend \/ Close \/ flush \/ Open \/ Leave
  \/ Kill

FileSpec == FileInit /\ [][FileNext]_fileVars

-----------------------------------------------------------------------------
(* A file has its units in the order in which they were appended, none     *)
(* twice, over rolls, kills and full disks: what the file before a roll    *)
(* still has in its buffer comes before what is appended to the next.      *)
UnitsInOrder ==
  \A n \in Names : \A i, j \in DOMAIN disk[n] :
    i < j => disk[n][i] < disk[n][j]

(* Opening the file again, in a roll or after a start, takes nothing away. *)
OnlyGrows ==
  [][\A n \in Names :
       /\ Len(disk'[n]) >= Len(disk[n])
       /\ SubSeq(disk'[n], 1, Len(disk[n])) = disk[n]]_fileVars

(* When the writer has ended its turn everything is with the system, but   *)
(* for what a kill or a full disk took: no roll left anything behind.      *)
Flushed ==
  turn = "idle" =>
    1 .. units \subseteq lost \cup UNION {Units(disk[n]) : n \in Names}
=============================================================================
