---------------------------- MODULE MCLogService ----------------------------
(* LogService with lines of one and two units of space in buffers of       *)
(* three, a writer that throws away what is above two buffers, a roll      *)
(* above two units of the file, and days of two seconds.                   *)
EXTENDS LogService
=============================================================================
