---------------------------- MODULE AsyncLogging -----------------------------
(***************************************************************************)
(* Logging: threads that log through Logger (logging.cpp), whose output    *)
(* function is either LogFile::append, as in test/file_log, or             *)
(* AsyncLogging::append, with the thread that AsyncLogging                 *)
(* (async_logging.cpp) runs behind it.  Lines are numbered as g_output is  *)
(* given them, and their lengths chosen at the start; Logger's lines       *)
(* (kSmallBuffer) always fit an empty buffer (kLargeBuffer).  time(NULL)   *)
(* is a wall clock that may be set back: it returns any second.            *)
(***************************************************************************)
EXTENDS LogFile, FiniteSets, SequencesExt

CONSTANTS
  Loggers,      \* threads that log
  MaxLines,     \* bound: lines logged
  Lengths,      \* their lengths
  BufferSize,   \* kLargeBuffer
  MaxBuffers,   \* the 25 of threadFunc: more are dropped
  MaxNow        \* bound: the latest second

Lines == 1 .. MaxLines

ASSUME LoggingAssumption ==
  /\ MaxLines \in Nat /\ MaxNow \in Nat \ {0}
  /\ MaxBuffers \in Nat /\ MaxBuffers >= 2
  /\ Lengths \subseteq 1 .. BufferSize - 1

(* What Logger::setOutput was given: LogFile::append, with LogFile::flush  *)
(* for setFlush, or AsyncLogging::append.                                  *)
Sinks == {"file", "async"}

VARIABLES
  sink,        \* what g_output is
  length,      \* the length of each line
  fatal,       \* the line that is LOG_FATAL, if any
  lpc,         \* each logging thread
  lines,       \* how many lines g_output was given
  aborted,     \* the process has aborted
  lost,        \* lines dropped or not written
  file,        \* the LogFile
  current,     \* current_buf_: the lines in it
  next,        \* next_buf_ is not null
  vector,      \* buffer_vector_
  notified,    \* condition_ was notified while the thread waits on it
  running,     \* running_
  count,       \* launch_'s count_
  mpc,         \* the thread that calls start() and stop()
  apc,         \* threadFunc
  new1, new2,  \* new_buffer1, new_buffer2 are not null
  toWrite,     \* buffer_to_write
  done         \* how many of its buffers have been appended

logVars == <<sink, length, fatal, lpc, lines, aborted, lost, file, current, next, vector,
             notified, running, count, mpc, apc, new1, new2, toWrite, done>>

logger == <<lpc, lines, aborted>>
fixed  == <<sink, length, fatal>>
thread == <<running, count, mpc, apc>>
front  == <<current, next, vector, notified>>
back   == <<new1, new2, toWrite, done>>

LoggingTypeOK ==
  /\ sink \in Sinks
  /\ length \in [Lines -> Lengths]
  /\ fatal \in 0 .. MaxLines
  /\ lpc \in [Loggers -> {"idle", "flush", "abort"}]
  /\ lines \in 0 .. MaxLines
  /\ lost \in SUBSET Lines
  /\ {file.buf, file.disk, current} \subseteq Seq(Lines)
  /\ file.count \in 0 .. CheckEveryN - 1
  /\ {vector, toWrite} \subseteq Seq(Seq(Lines))
  /\ \A b \in {aborted, next, notified, running, new1, new2} : b \in BOOLEAN
  /\ count \in {0, 1}
  /\ mpc \in {"new", "wait", "started", "join", "stopped"}
  /\ apc \in {"none", "launch", "open", "top", "lock", "waiting", "write", "refill", "end"}
  /\ done \in 0 .. Len(toWrite)

LoggingInit ==
  /\ sink \in Sinks
  /\ length \in [Lines -> Lengths]
  /\ fatal \in 0 .. MaxLines
  /\ lpc = [t \in Loggers |-> "idle"]
  /\ lines = 0
  /\ aborted = FALSE
  /\ lost = {}
  /\ file = NewLogFile(1)
  /\ current = <<>>
  /\ next = TRUE
  /\ vector = <<>>
  /\ notified = FALSE
  /\ running = FALSE
  /\ count = 1
  /\ mpc = "new"
  /\ apc = "none"
  /\ new1 = TRUE
  /\ new2 = TRUE
  /\ toWrite = <<>>
  /\ done = 0

Total(ls) == FoldLeft(LAMBDA sum, l : sum + length[l], 0, ls)

-----------------------------------------------------------------------------
(* One LogFile::append.  At most one write fails, and stdio writes out     *)
(* everything or nothing: these are bounds.                                *)
FileAppends(ls) ==
  \E now \in 1 .. MaxNow, ok \in {TRUE, lost # {}} :
    LET f == append_unlocked(file, ls, Total(ls), now, ok) IN
    /\ \E k \in {0, Len(f.buf)} : file' = StdioWrites(f, k)
    /\ lost' = IF ok THEN lost ELSE ToSet(ls)

(* AsyncLogging::append: into the current buffer when it fits, else the    *)
(* current buffer goes to the thread and the spare one, or a new one, is   *)
(* next.                                                                   *)
append(l) ==
  IF BufferSize - Total(current) > length[l]
    THEN /\ current' = Append(current, l)
         /\ UNCHANGED <<next, vector, notified>>
    ELSE /\ vector' = Append(vector, current)
         /\ current' = <<l>>
         /\ next' = FALSE
         /\ notified' = (notified \/ apc = "waiting")

(* ~Logger, its stream complete: g_output ...                              *)
Output(t) ==
  /\ lpc[t] = "idle" /\ lines < MaxLines
  /\ lines' = lines + 1
  /\ lpc' = [lpc EXCEPT ![t] = IF lines' = fatal THEN "flush" ELSE "idle"]
  /\ \/ sink = "file" /\ FileAppends(<<lines'>>) /\ UNCHANGED front
     \/ sink = "async" /\ append(lines') /\ UNCHANGED <<file, lost>>
  /\ UNCHANGED <<fixed, aborted, thread, back>>

(* Mutant: no flush before abort().                                        *)
Flush_None(t) ==
  /\ lpc[t] = "flush"
  /\ lpc' = [lpc EXCEPT ![t] = "abort"]
  /\ UNCHANGED <<fixed, lines, aborted, lost, file, front, thread, back>>

(* ... and, for a fatal line, g_flush: LogFile::flush, or, there being     *)
(* none for AsyncLogging, that of stdout ...                               *)
Flush(t) ==
  /\ lpc[t] = "flush"
  /\ lpc' = [lpc EXCEPT ![t] = "abort"]
  /\ file' = IF sink = "file" THEN flush(file) ELSE file
  /\ UNCHANGED <<fixed, lines, aborted, lost, front, thread, back>>

(* ... and abort.                                                          *)
Abort(t) ==
  /\ lpc[t] = "abort"
  /\ aborted' = TRUE
  /\ UNCHANGED <<fixed, lpc, lines, lost, file, front, thread, back>>

-----------------------------------------------------------------------------
(* start(): the thread is started, and waited for on the latch.            *)
start ==
  /\ sink = "async" /\ mpc = "new"
  /\ running' = TRUE
  /\ apc' = "launch"
  /\ mpc' = "wait"
  /\ UNCHANGED <<count, fixed, logger, lost, file, front, back>>

startReturns ==
  /\ mpc = "wait" /\ count = 0
  /\ mpc' = "started"
  /\ UNCHANGED <<running, count, apc, fixed, logger, lost, file, front, back>>

(* stop(), without the lock; then it joins the thread.                     *)
stop ==
  /\ mpc = "started"
  /\ running' = FALSE
  /\ notified' = (notified \/ apc = "waiting")
  /\ mpc' = "join"
  /\ UNCHANGED <<count, apc, fixed, logger, lost, file, current, next, vector,
                 back>>

stopReturns ==
  /\ mpc = "join" /\ apc = "end"
  /\ mpc' = "stopped"
  /\ UNCHANGED <<running, count, apc, fixed, logger, lost, file, front, back>>

-----------------------------------------------------------------------------
(* threadFunc: launch_.countDown() ...                                     *)
countDown ==
  /\ apc = "launch"
  /\ count' = count - 1
  /\ apc' = "open"
  /\ UNCHANGED <<running, mpc, fixed, logger, lost, file, front, back>>

(* ... the thread's own LogFile ...                                        *)
OpenFile ==
  /\ apc = "open"
  /\ \E now \in 1 .. MaxNow : file' = NewLogFile(now)
  /\ apc' = "top"
  /\ UNCHANGED <<running, count, mpc, fixed, logger, lost, front, back>>

(* ... while(running_), and the flush after the loop.                      *)
CheckRunning ==
  /\ apc = "top"
  /\ IF running THEN apc' = "lock" /\ UNCHANGED file
                ELSE apc' = "end" /\ file' = flush(file)
  /\ UNCHANGED <<running, count, mpc, fixed, logger, lost, front, back>>

(* Every buffer that holds lines is taken; the spares replace them.  Of    *)
(* too many, all but two are dropped, with a line that says so (its length *)
(* is not counted here).                                                   *)
TakeBuffers ==
  LET all == Append(vector, current) IN
  /\ toWrite' = IF Len(all) > MaxBuffers THEN SubSeq(all, 1, 2) ELSE all
  /\ lost' = lost \cup UNION {ToSet(all[i]) : i \in Len(toWrite') + 1 .. Len(all)}
  /\ done' = 0
  /\ vector' = <<>>
  /\ current' = <<>>
  /\ new1' = FALSE
  /\ next' = TRUE
  /\ new2' = (new2 /\ next)
  /\ notified' = FALSE
  /\ apc' = "write"

lockAndTake ==
  /\ apc = "lock"
  /\ IF vector = <<>>
       THEN /\ apc' = "waiting"
            /\ UNCHANGED <<lost, front, back>>
       ELSE TakeBuffers
  /\ UNCHANGED <<running, count, mpc, fixed, logger, file>>

(* Mutant: the wait has no time limit.                                     *)
waitForSeconds_Forever ==
  /\ apc = "waiting" /\ notified
  /\ TakeBuffers
  /\ UNCHANGED <<running, count, mpc, fixed, logger, file>>

(* waitForSeconds returns, notified, timed out or for no reason.           *)
waitForSeconds ==
  /\ apc = "waiting"
  /\ TakeBuffers
  /\ UNCHANGED <<running, count, mpc, fixed, logger, file>>

(* One buffer is appended to the file.                                     *)
WriteBuffer ==
  /\ apc = "write"
  /\ FileAppends(toWrite[done + 1])
  /\ done' = done + 1
  /\ apc' = IF done' = Len(toWrite) THEN "refill" ELSE "write"
  /\ UNCHANGED <<new1, new2, toWrite, running, count, mpc, fixed, logger,
                 front>>

(* Mutant: one is kept.                                                    *)
KeptBuffers_One == 1

(* How many of the buffers written are kept at most: resize(2).            *)
KeptBuffers == 2

(* The spares are taken from them, and the file is flushed.                *)
Refill ==
  LET kept == IF done > KeptBuffers THEN KeptBuffers ELSE done IN
  /\ apc = "refill"
  /\ new1' = (new1 \/ kept > 0)
  /\ new2' = (new2 \/ kept > (IF new1 THEN 0 ELSE 1))
  /\ toWrite' = <<>>
  /\ done' = 0
  /\ file' = flush(file)
  /\ apc' = "top"
  /\ UNCHANGED <<running, count, mpc, fixed, logger, lost, front>>

-----------------------------------------------------------------------------
threadFunc ==
  countDown \/ OpenFile \/ CheckRunning \/ lockAndTake \/ waitForSeconds \/ WriteBuffer \/ Refill

LoggerStep(t) == Output(t) \/ Flush(t) \/ Abort(t)

LoggingNext ==
  /\ ~aborted
  /\ \/ \E t \in Loggers : LoggerStep(t)
     \/ start \/ startReturns \/ stop \/ stopReturns
     \/ threadFunc

(* Threads that are not blocked run; waitForSeconds times out.             *)
LoggingFairness ==
  /\ \A t \in Loggers : WF_logVars(~aborted /\ (Flush(t) \/ Abort(t)))
  /\ WF_logVars(~aborted /\ threadFunc)
  /\ WF_logVars(~aborted /\ (startReturns \/ stopReturns))

-----------------------------------------------------------------------------
Increasing(s) == \A i, j \in DOMAIN s : i < j => s[i] < s[j]

Before(s, t) == \A k \in ToSet(s), l \in ToSet(t) : k < l

(* The lines in the files and, after them, in stdio's buffer; the buffers  *)
(* being written and, after them, those still with append().               *)
Written == file.disk \o file.buf
Pending == SubSeq(toWrite, done + 1, Len(toWrite)) \o Append(vector, current)

(* The lines written and then those pending are the lines given to         *)
(* g_output, each once and in order, but for those dropped or not written; *)
(* and no file is opened a second time.                                    *)
LinesInOrder ==
  /\ Increasing(Written)
  /\ \A p \in DOMAIN Pending : Increasing(Pending[p]) /\ Before(Written, Pending[p])
  /\ \A p, q \in DOMAIN Pending : p < q => Before(Pending[p], Pending[q])
  /\ ToSet(Written) \cup UNION {ToSet(Pending[p]) : p \in DOMAIN Pending} = (1 .. lines) \ lost
  /\ Increasing(file.files)

(* The thread never runs out of buffers: new_buffer1 is there when         *)
(* current_buf_ is taken and new_buffer2 when next_buf_ is null, which is  *)
(* what the assertion in threadFunc (buffer_to_write is not empty when     *)
(* new_buffer2 is to be refilled) protects.                                *)
BuffersSuffice == apc \in {"top", "lock", "waiting"} => new1 /\ new2

(* When the process aborts over a fatal line logged to a LogFile, that     *)
(* line and those before it are in the files.                              *)
FatalOnDisk ==
  aborted /\ sink = "file" => 1 .. fatal \subseteq ToSet(file.disk) \cup lost

(* A line given to AsyncLogging gets to the files, unless it is dropped or *)
(* could not be written, the thread is stopped, or the process aborts; and *)
(* start() and stop() return.                                              *)
LinesReachDisk ==
  /\ \A l \in Lines :
       (l <= lines /\ apc = "top") ~>
         (l \in ToSet(file.disk) \cup lost \/ ~running \/ aborted)
  /\ mpc \in {"wait", "join"} ~> (mpc \notin {"wait", "join"} \/ aborted)
=============================================================================
