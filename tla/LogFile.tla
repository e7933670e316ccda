------------------------------- MODULE LogFile -------------------------------
(***************************************************************************)
(* LogFile (log_file.cpp) on AppendFile (file_util.cpp), as operators on   *)
(* the record                                                              *)
(*   files          names (times) of the files opened so far               *)
(*   written        writtenBytes_ of the current one                       *)
(*   buf, disk      lines in stdio's buffer, and lines in the files        *)
(*   count, startOfPeriod, lastRoll, lastFlush                             *)
(* A line is its number; what is appended is a sequence of lines and its   *)
(* length.                                                                 *)
(***************************************************************************)
EXTENDS Naturals, Sequences

CONSTANTS
  RollSize, FlushInterval, CheckEveryN,   \* rollSize_, flushInterval_, checkEveryN_
  RollPerSeconds                          \* kRollPerSeconds_

ASSUME LogFileAssumption ==
  /\ {RollSize, FlushInterval} \subseteq Nat
  /\ {CheckEveryN, RollPerSeconds} \subseteq Nat \ {0}

(* AppendFile::flush, and what fclose does to the lines in the buffer.     *)
flush(f) == [f EXCEPT !.disk = @ \o f.buf, !.buf = <<>>]

(* AppendFile::append.  When fwrite fails the lines are lost and counted   *)
(* all the same.                                                           *)
AppendFile_append(f, lines, len, ok) ==
  [f EXCEPT !.buf = IF ok THEN @ \o lines ELSE @, !.written = @ + len]

startOf(now) == (now \div RollPerSeconds) * RollPerSeconds

(* Mutant: a second file within the second.                                *)
rollFile_SameSecond(f, now) ==
  [flush(f) EXCEPT !.lastRoll = now, !.lastFlush = now, !.startOfPeriod = startOf(now),
                   !.written = 0, !.files = Append(@, now)]

(* rollFile: a new file, named after the second, closes the one before.    *)
(* The name is taken to be the time itself; getLogFileName formats it in   *)
(* local time, so that names repeat in the hour the clocks are set back.   *)
rollFile(f, now) ==
  IF now > f.lastRoll
    THEN [flush(f) EXCEPT !.lastRoll = now, !.lastFlush = now,
                          !.startOfPeriod = startOf(now),
                          !.written = 0, !.files = Append(@, now)]
    ELSE f

(* append_unlocked: rolls when the file is too long, and otherwise looks   *)
(* at the time once in checkEveryN_ lines.                                 *)
append_unlocked(f, lines, len, now, ok) ==
  LET g == AppendFile_append(f, lines, len, ok)
      h == [g EXCEPT !.count = 0]
  IN CASE g.written > RollSize -> rollFile(g, now)
       [] g.written <= RollSize /\ g.count + 1 < CheckEveryN -> [g EXCEPT !.count = @ + 1]
       [] OTHER ->
            IF startOf(now) # f.startOfPeriod THEN rollFile(h, now)
            ELSE IF now > f.lastFlush + FlushInterval
                   THEN [flush(h) EXCEPT !.lastFlush = now]
                   ELSE h

(* The constructor opens the first file.                                   *)
NewLogFile(now) ==
  rollFile([files |-> <<>>, written |-> 0, buf |-> <<>>, disk |-> <<>>, count |-> 0,
            startOfPeriod |-> 0, lastRoll |-> 0, lastFlush |-> 0], now)

(* stdio writes out what does not fit its buffer: some of the lines.       *)
StdioWrites(f, k) ==
  [f EXCEPT !.disk = @ \o SubSeq(f.buf, 1, k), !.buf = SubSeq(f.buf, k + 1, Len(f.buf))]
=============================================================================
