---------------------------- MODULE LoggingProofs ----------------------------
(***************************************************************************)
(* The sinks of the log, for any number of threads, lines and buffers:     *)
(* AsyncLogging's thread never runs out of buffers, lines stay in order    *)
(* and none is written twice, and what a LogFile was given is on disk      *)
(* before the process aborts over a fatal line.                            *)
(***************************************************************************)
EXTENDS Logging, SequenceTheorems, NaturalsInduction, WellFoundedInduction, TLAPS

(* The record of a LogFile: its names increase up to lastRoll.  (written   *)
(* is a sum of lengths, of which nothing is needed.)                       *)
FileOK(f) ==
  /\ f = [files |-> f.files, written |-> f.written, buf |-> f.buf, disk |-> f.disk,
          count |-> f.count, startOfPeriod |-> f.startOfPeriod, lastRoll |-> f.lastRoll,
          lastFlush |-> f.lastFlush]
  /\ f.buf \in Seq(Lines) /\ f.disk \in Seq(Lines)
  /\ f.count \in 0 .. CheckEveryN - 1
  /\ f.lastRoll \in Nat
  /\ f.files \in Seq(Nat) /\ Increasing(f.files)
  /\ \A i \in DOMAIN f.files : f.files[i] <= f.lastRoll

SinkType ==
  /\ sink \in Sinks
  /\ length \in [Lines -> Lengths]
  /\ fatal \in 0 .. MaxLines
  /\ lpc \in [Loggers -> {"idle", "flush", "abort"}]
  /\ lines \in 0 .. MaxLines
  /\ lost \subseteq 1 .. lines
  /\ FileOK(file)
  /\ current \in Seq(Lines)
  /\ vector \in Seq(Seq(Lines)) /\ toWrite \in Seq(Seq(Lines))
  /\ aborted \in BOOLEAN /\ next \in BOOLEAN /\ notified \in BOOLEAN /\ running \in BOOLEAN
  /\ new1 \in BOOLEAN /\ new2 \in BOOLEAN

(* Where the threads are: AsyncLogging's runs only when lines go to it,    *)
(* start() starts it once, and it has buffers to write only between taking *)
(* and returning them.                                                     *)
ThreadInv ==
  /\ mpc \in {"new", "wait", "started", "join", "stopped"}
  /\ apc \in {"none", "launch", "open", "top", "lock", "waiting", "write", "refill", "end"}
  /\ mpc = "new" <=> apc = "none"
  /\ count = IF apc \in {"none", "launch"} THEN 1 ELSE 0
  /\ sink = "file" => apc = "none" /\ vector = <<>> /\ current = <<>>
  /\ sink = "async" /\ apc \in {"none", "launch", "open"} => file.buf = <<>> /\ file.disk = <<>>

(* The spare buffers: next_buf_ is only taken together with a buffer that  *)
(* goes to the thread, which so gets two back when it has given both.      *)
SparesInv ==
  /\ ~next => vector # <<>>
  /\ apc \notin {"write", "refill"} => new1 /\ new2 /\ toWrite = <<>> /\ done = 0
  /\ apc \in {"write", "refill"} => Len(toWrite) >= (IF new2 THEN 1 ELSE 2)
  /\ apc = "write" => done \in 0 .. Len(toWrite) - 1
  /\ apc = "refill" => done = Len(toWrite)

(* A fatal line has been given to the sink before it is flushed, and is    *)
(* flushed before abort().                                                 *)
FatalInv ==
  sink = "file" =>
    /\ \A t \in Loggers : lpc[t] = "flush" => fatal <= lines
    /\ (aborted \/ \E t \in Loggers : lpc[t] = "abort")
         => 1 .. fatal \subseteq ToSet(file.disk) \cup lost

SinkInv == SinkType /\ ThreadInv /\ SparesInv /\ FatalInv /\ LinesInOrder

-----------------------------------------------------------------------------
(* Sequences of lines.                                                     *)

LEMMA LineNumbers == Lines \subseteq Nat
BY LoggingAssumption DEF Lines

LEMMA ToSetIs ==
  ASSUME NEW S, NEW s \in Seq(S)
  PROVE  /\ \A i \in 1 .. Len(s) : s[i] \in ToSet(s)
         /\ \A x \in ToSet(s) : \E i \in 1 .. Len(s) : x = s[i]
         /\ ToSet(s) \subseteq S
<1>1. DOMAIN s = 1 .. Len(s) /\ \A i \in 1 .. Len(s) : s[i] \in S
  OBVIOUS
<1> QED
  BY <1>1 DEF ToSet

LEMMA ToSetEmpty == ToSet(<<>>) = {} /\ Increasing(<<>>)
BY DEF ToSet, Increasing

LEMMA ToSetOne ==
  ASSUME NEW l
  PROVE  ToSet(<<l>>) = {l} /\ Increasing(<<l>>)
<1>1. DOMAIN <<l>> = {1} /\ <<l>>[1] = l
  OBVIOUS
<1>2. ToSet(<<l>>) = {l}
  BY <1>1, Zenon DEF ToSet
<1>3. Increasing(<<l>>)
  BY <1>1 DEF Increasing
<1> QED
  BY <1>2, <1>3

LEMMA ToSetAppend ==
  ASSUME NEW S, NEW s \in Seq(S), NEW l \in S
  PROVE  ToSet(Append(s, l)) = ToSet(s) \cup {l}
<1>1. PICK n, a : n = Len(s) /\ a = Append(s, l)
  OBVIOUS
<1>2. n \in Nat /\ a \in Seq(S) /\ Len(a) = n + 1 /\ a[n + 1] = l /\ \A i \in 1 .. n : a[i] = s[i]
  BY <1>1
<1>3. /\ \A i \in 1 .. n + 1 : a[i] \in ToSet(a)
      /\ \A x \in ToSet(a) : \E i \in 1 .. n + 1 : x = a[i]
      /\ \A i \in 1 .. n : s[i] \in ToSet(s)
      /\ \A x \in ToSet(s) : \E i \in 1 .. n : x = s[i]
  <2>1. 1 .. Len(a) = 1 .. n + 1 /\ 1 .. Len(s) = 1 .. n /\ a \in Seq(S)
    BY <1>1, <1>2
  <2> QED
    BY <2>1, ToSetIs, Zenon
<1>4. n + 1 \in 1 .. n + 1 /\ \A i \in 1 .. n + 1 : i = n + 1 \/ i \in 1 .. n
  BY <1>2
<1>5. \A i \in 1 .. n : i \in 1 .. n + 1
  BY <1>2
<1>6. ASSUME NEW x \in ToSet(a) PROVE x \in ToSet(s) \cup {l}
  <2>1. PICK i \in 1 .. n + 1 : x = a[i]
    BY <1>3
  <2> QED
    BY <1>2, <1>3, <1>4, <2>1
<1>7. ASSUME NEW x \in ToSet(s) \cup {l} PROVE x \in ToSet(a)
  <2>1. CASE x = l
    BY <1>2, <1>3, <1>4, <2>1
  <2>2. CASE x # l
    <3>1. PICK i \in 1 .. n : x = s[i]
      BY <1>3, <2>2
    <3> QED
      BY <1>2, <1>3, <1>5, <3>1
  <2> QED
    BY <2>1, <2>2
<1> QED
  BY <1>1, <1>6, <1>7

LEMMA ToSetConcat ==
  ASSUME NEW S, NEW s \in Seq(S), NEW t \in Seq(S)
  PROVE  ToSet(s \o t) = ToSet(s) \cup ToSet(t)
<1>1. PICK n, m, a : n = Len(s) /\ m = Len(t) /\ a = s \o t
  OBVIOUS
<1>2. /\ n \in Nat /\ m \in Nat /\ a \in Seq(S) /\ Len(a) = n + m
      /\ \A i \in 1 .. n + m : a[i] = IF i <= n THEN s[i] ELSE t[i - n]
  BY <1>1
<1>3. /\ \A i \in 1 .. n + m : a[i] \in ToSet(a)
      /\ \A x \in ToSet(a) : \E i \in 1 .. n + m : x = a[i]
      /\ \A i \in 1 .. n : s[i] \in ToSet(s)
      /\ \A x \in ToSet(s) : \E i \in 1 .. n : x = s[i]
      /\ \A i \in 1 .. m : t[i] \in ToSet(t)
      /\ \A x \in ToSet(t) : \E i \in 1 .. m : x = t[i]
  <2>1. /\ 1 .. Len(a) = 1 .. n + m /\ 1 .. Len(s) = 1 .. n /\ 1 .. Len(t) = 1 .. m
        /\ a \in Seq(S)
    BY <1>1, <1>2
  <2> QED
    BY <2>1, ToSetIs, Zenon
<1>4. ASSUME NEW x \in ToSet(a) PROVE x \in ToSet(s) \cup ToSet(t)
  <2>1. PICK i \in 1 .. n + m : x = a[i]
    BY <1>3
  <2>2. CASE i <= n
    <3>1. i \in 1 .. n /\ x = s[i]
      BY <1>2, <2>1, <2>2
    <3> QED
      BY <1>3, <3>1
  <2>3. CASE i > n
    <3>1. i - n \in 1 .. m /\ x = t[i - n]
      BY <1>2, <2>1, <2>3
    <3> QED
      BY <1>3, <3>1
  <2> QED
    BY <1>2, <2>2, <2>3
<1>5. ASSUME NEW x \in ToSet(s) PROVE x \in ToSet(a)
  <2>1. PICK i \in 1 .. n : x = s[i]
    BY <1>3
  <2>2. i \in 1 .. n + m /\ a[i] = x
    BY <1>2, <2>1
  <2> QED
    BY <1>3, <2>2
<1>6. ASSUME NEW x \in ToSet(t) PROVE x \in ToSet(a)
  <2>1. PICK i \in 1 .. m : x = t[i]
    BY <1>3
  <2>2. n + i \in 1 .. n + m /\ ~(n + i <= n) /\ (n + i) - n = i
    BY <1>2
  <2>3. a[n + i] = x
    BY <1>2, <2>1, <2>2
  <2> QED
    BY <1>3, <2>2, <2>3
<1> QED
  BY <1>1, <1>4, <1>5, <1>6

LEMMA IncreasingConcat ==
  ASSUME NEW s \in Seq(Nat), NEW t \in Seq(Nat), Increasing(s), Increasing(t), Before(s, t)
  PROVE  Increasing(s \o t)
<1>1. PICK n, m, a : n = Len(s) /\ m = Len(t) /\ a = s \o t
  OBVIOUS
<1>2. /\ n \in Nat /\ m \in Nat /\ DOMAIN a = 1 .. n + m
      /\ \A i \in 1 .. n + m : a[i] = IF i <= n THEN s[i] ELSE t[i - n]
  BY <1>1
<1>3. /\ \A i \in 1 .. n, j \in 1 .. n : i < j => s[i] < s[j]
      /\ \A i \in 1 .. m, j \in 1 .. m : i < j => t[i] < t[j]
  <2>1. DOMAIN s = 1 .. n /\ DOMAIN t = 1 .. m
    BY <1>1
  <2> QED
    BY <2>1, Zenon DEF Increasing
<1>4. \A i \in 1 .. n, j \in 1 .. m : s[i] < t[j]
  <2>1. \A i \in 1 .. n : s[i] \in ToSet(s)
    BY <1>1, ToSetIs
  <2>2. \A j \in 1 .. m : t[j] \in ToSet(t)
    BY <1>1, ToSetIs
  <2> QED
    BY <2>1, <2>2, Zenon DEF Before
<1> SUFFICES ASSUME NEW i \in 1 .. n + m, NEW j \in 1 .. n + m, i < j PROVE a[i] < a[j]
  BY <1>1, <1>2 DEF Increasing
<1>5. CASE j <= n
  BY <1>2, <1>3, <1>5, SMTT(30)
<1>6. CASE i <= n /\ j > n
  <2>1. i \in 1 .. n /\ j - n \in 1 .. m
    BY <1>2, <1>6
  <2>2. a[i] = s[i] /\ a[j] = t[j - n]
    BY <1>2, <1>6
  <2> QED
    BY <1>4, <2>1, <2>2
<1>7. CASE i > n
  <2>1. i - n \in 1 .. m /\ j - n \in 1 .. m /\ i - n < j - n
    BY <1>2, <1>7
  <2>2. a[i] = t[i - n] /\ a[j] = t[j - n]
    BY <1>2, <1>7
  <2> QED
    BY <1>3, <2>1, <2>2
<1> QED
  BY <1>2, <1>5, <1>6, <1>7

LEMMA IncreasingAppend ==
  ASSUME NEW s \in Seq(Nat), NEW l \in Nat, Increasing(s), \A x \in ToSet(s) : x < l
  PROVE  Increasing(Append(s, l))
<1>1. Append(s, l) = s \o <<l>> /\ <<l>> \in Seq(Nat)
  BY AppendIsConcat
<1>2. Increasing(<<l>>) /\ Before(s, <<l>>)
  BY ToSetOne DEF Before
<1> QED
  BY <1>1, <1>2, IncreasingConcat

LEMMA CheckEvery == CheckEveryN \in Nat \ {0}
BY LogFileAssumption

-----------------------------------------------------------------------------
(* LogFile.                                                                *)

Out(f) == f.disk \o f.buf

(* g is f with ls after its lines, and as much or more of them on disk.    *)
Follows(f, g, ls) ==
  /\ FileOK(g)
  /\ Out(g) = Out(f) \o ls
  /\ ToSet(f.disk) \subseteq ToSet(g.disk)

LEMMA FollowsSelf ==
  ASSUME NEW f, FileOK(f)
  PROVE  Follows(f, f, <<>>)
<1>1. Out(f) \in Seq(Lines)
  BY DEF Out, FileOK
<1> QED
  BY <1>1, ConcatEmptySeq DEF Follows

LEMMA FollowsOn ==
  ASSUME NEW f, NEW g, NEW h, NEW ls \in Seq(Lines), FileOK(f),
         Follows(f, g, ls), Follows(g, h, <<>>)
  PROVE  Follows(f, h, ls)
<1>1. Out(g) \in Seq(Lines) /\ Out(f) \in Seq(Lines)
  BY DEF Out, Follows, FileOK
<1>2. Out(h) = Out(g)
  BY <1>1, ConcatEmptySeq DEF Follows
<1> QED
  BY <1>2 DEF Follows

(* Fields other than those of the invariant do not matter.                 *)
LEMMA SameLines ==
  ASSUME NEW f, NEW g, FileOK(f), FileOK(g), g.disk = f.disk, g.buf = f.buf
  PROVE  Follows(f, g, <<>>)
<1>1. Out(g) = Out(f) /\ Out(f) \in Seq(Lines)
  BY DEF Out, FileOK
<1> QED
  BY <1>1, ConcatEmptySeq DEF Follows

LEMMA FlushKeeps ==
  ASSUME NEW f, FileOK(f)
  PROVE  /\ Follows(f, flush(f), <<>>)
         /\ flush(f).disk = Out(f) /\ flush(f).buf = <<>>
         /\ flush(f).lastRoll = f.lastRoll /\ flush(f).files = f.files
<1>1. PICK d : d = f.disk \o f.buf
  OBVIOUS
<1>2. d \in Seq(Lines) /\ <<>> \in Seq(Lines)
  BY <1>1, EmptySeq DEF FileOK
<1>3. flush(f) = [f EXCEPT !.disk = d, !.buf = <<>>]
  BY <1>1 DEF flush
<1>4. flush(f) = [files |-> f.files, written |-> f.written, buf |-> <<>>, disk |-> d,
          count |-> f.count, startOfPeriod |-> f.startOfPeriod, lastRoll |-> f.lastRoll,
          lastFlush |-> f.lastFlush]
  BY <1>3 DEF FileOK
<1>5. FileOK(flush(f))
  BY <1>2, <1>4 DEF FileOK
<1>6. flush(f).disk = Out(f) /\ flush(f).buf = <<>>
  <2>1. flush(f).disk = d /\ flush(f).buf = <<>>
    BY <1>4
  <2> QED
    BY <1>1, <2>1, Zenon DEF Out
<1>7. Out(flush(f)) = Out(f) \o <<>>
  BY <1>6 DEF Out
<1>8. ToSet(f.disk) \subseteq ToSet(flush(f).disk)
  BY <1>6, ToSetConcat DEF Out, FileOK
<1>9. flush(f).lastRoll = f.lastRoll /\ flush(f).files = f.files
  BY <1>4
<1> QED
  BY <1>5, <1>6, <1>7, <1>8, <1>9 DEF Follows

LEMMA RollKeeps ==
  ASSUME NEW f, FileOK(f), NEW now \in Nat
  PROVE  Follows(f, rollFile(f, now), <<>>)
<1>1. CASE ~(now > f.lastRoll)
  <2>1. rollFile(f, now) = f
    BY <1>1 DEF rollFile
  <2> QED
    BY <2>1, FollowsSelf
<1>2. CASE now > f.lastRoll
  <2>1. PICK g, sp, fs : g = flush(f) /\ sp = startOf(now) /\ fs = Append(f.files, now)
    OBVIOUS
  <2>2. FileOK(g) /\ Follows(f, g, <<>>) /\ g.lastRoll = f.lastRoll /\ g.files = f.files
    BY <2>1, FlushKeeps DEF Follows
  <2>3. rollFile(f, now) = [g EXCEPT !.lastRoll = now, !.lastFlush = now, !.startOfPeriod = sp,
                                     !.written = 0, !.files = fs]
    BY <1>2, <2>1, <2>2 DEF rollFile
  <2>4. rollFile(f, now) = [files |-> fs, written |-> 0, buf |-> g.buf, disk |-> g.disk,
          count |-> g.count, startOfPeriod |-> sp, lastRoll |-> now, lastFlush |-> now]
    BY <2>2, <2>3 DEF FileOK
  <2>5. fs \in Seq(Nat) /\ Increasing(fs) /\ \A i \in DOMAIN fs : fs[i] <= now
    <3>1. f.files \in Seq(Nat) /\ Increasing(f.files) /\ f.lastRoll \in Nat
      BY DEF FileOK
    <3>2. \A x \in ToSet(f.files) : x < now
      BY <1>2, <3>1 DEF FileOK, ToSet
    <3>3. Increasing(fs)
      BY <2>1, <3>1, <3>2, IncreasingAppend
    <3>4. \A i \in DOMAIN fs : fs[i] <= now
      BY <1>2, <2>1, <3>1 DEF FileOK
    <3> QED
      BY <2>1, <3>1, <3>3, <3>4
  <2>6. FileOK(rollFile(f, now))
    BY <2>2, <2>4, <2>5 DEF FileOK
  <2>7. Follows(g, rollFile(f, now), <<>>)
    BY <2>2, <2>4, <2>6, SameLines
  <2>8. <<>> \in Seq(Lines)
    BY EmptySeq
  <2> QED
    BY <2>2, <2>7, <2>8, FollowsOn
<1> QED
  BY <1>1, <1>2

LEMMA FileAppendKeeps ==
  ASSUME NEW f, FileOK(f), NEW ls \in Seq(Lines), NEW len, NEW ok \in BOOLEAN
  PROVE  /\ Follows(f, AppendFile_append(f, ls, len, ok), IF ok THEN ls ELSE <<>>)
         /\ AppendFile_append(f, ls, len, ok).count = f.count
<1>1. PICK b, w, g : /\ b = (IF ok THEN f.buf \o ls ELSE f.buf) /\ w = f.written + len
                     /\ g = AppendFile_append(f, ls, len, ok)
  OBVIOUS
<1>2. g = [f EXCEPT !.buf = b, !.written = w]
  BY <1>1 DEF AppendFile_append
<1>3. g = [files |-> f.files, written |-> w, buf |-> b, disk |-> f.disk,
          count |-> f.count, startOfPeriod |-> f.startOfPeriod, lastRoll |-> f.lastRoll,
          lastFlush |-> f.lastFlush]
  BY <1>2 DEF FileOK
<1>4. b \in Seq(Lines)
  BY <1>1 DEF FileOK
<1>5. FileOK(g)
  BY <1>3, <1>4 DEF FileOK
<1>6. g.disk = f.disk /\ g.buf = b /\ g.count = f.count
  BY <1>3
<1>7. CASE ok
  <2>1. f.disk \in Seq(Lines) /\ f.buf \in Seq(Lines)
    BY DEF FileOK
  <2>2. Out(g) = Out(f) \o ls
    <3>1. b = f.buf \o ls
      BY <1>1, <1>7
    <3>2. ASSUME NEW x \in Seq(Lines), NEW y \in Seq(Lines), NEW z \in Seq(Lines)
          PROVE  (x \o y) \o z = x \o (y \o z)
      BY ConcatAssociative, SMTT(30)
    <3>3. (f.disk \o f.buf) \o ls = f.disk \o b
      BY <2>1, <3>1, <3>2
    <3> QED
      BY <1>6, <3>3 DEF Out
  <2> QED
    BY <1>1, <1>5, <1>6, <1>7, <2>2 DEF Follows
<1>8. CASE ~ok
  BY <1>1, <1>5, <1>6, <1>8, SameLines
<1> QED
  BY <1>7, <1>8

(* LogFile::append, with what stdio then writes out: the lines follow      *)
(* those before them, or, when the write fails, are not there.             *)
LEMMA AppendKeeps ==
  ASSUME NEW f, FileOK(f), NEW ls \in Seq(Lines), NEW len, NEW now \in Nat, NEW ok \in BOOLEAN
  PROVE  Follows(f, append_unlocked(f, ls, len, now, ok), IF ok THEN ls ELSE <<>>)
<1> DEFINE gg == AppendFile_append(f, ls, len, ok)
           r == append_unlocked(f, ls, len, now, ok)
<1>1. PICK g, h, us : /\ g = gg /\ h = [g EXCEPT !.count = 0]
                      /\ us = IF ok THEN ls ELSE <<>>
  OBVIOUS
<1>2. Follows(f, g, us) /\ FileOK(g) /\ us \in Seq(Lines)
  BY <1>1, FileAppendKeeps, EmptySeq, ZenonT(30) DEF Follows
<1>3. h = [files |-> g.files, written |-> g.written, buf |-> g.buf, disk |-> g.disk,
           count |-> 0, startOfPeriod |-> g.startOfPeriod, lastRoll |-> g.lastRoll,
           lastFlush |-> g.lastFlush]
  <2>1. h = [g EXCEPT !.count = 0]
    BY <1>1
  <2> QED
    BY <1>2, <2>1 DEF FileOK
<1>4. FileOK(h) /\ Follows(g, h, <<>>)
  <2>0. 0 \in 0 .. CheckEveryN - 1
    BY CheckEvery
  <2>1. FileOK(h)
    BY <1>2, <1>3, <2>0 DEF FileOK
  <2> QED
    BY <1>2, <1>3, <2>1, SameLines
<1>5. Follows(g, rollFile(g, now), <<>>) /\ Follows(h, rollFile(h, now), <<>>)
  BY <1>2, <1>4, RollKeeps
<1>6. ASSUME g.count + 1 < CheckEveryN PROVE Follows(g, [g EXCEPT !.count = @ + 1], <<>>)
  <2>1. PICK i : i = [g EXCEPT !.count = @ + 1]
    OBVIOUS
  <2>2. i = [files |-> g.files, written |-> g.written, buf |-> g.buf, disk |-> g.disk,
             count |-> g.count + 1, startOfPeriod |-> g.startOfPeriod, lastRoll |-> g.lastRoll,
             lastFlush |-> g.lastFlush]
    BY <1>2, <2>1 DEF FileOK
  <2>3. g.count + 1 \in 0 .. CheckEveryN - 1
    BY <1>2, <1>6, CheckEvery, SMTT(30) DEF FileOK
  <2>4. FileOK(i)
    BY <1>2, <2>2, <2>3 DEF FileOK
  <2> QED
    BY <1>2, <2>1, <2>2, <2>4, SameLines
<1>7. Follows(h, [flush(h) EXCEPT !.lastFlush = now], <<>>)
  <2>1. PICK i, j : i = flush(h) /\ j = [i EXCEPT !.lastFlush = now]
    OBVIOUS
  <2>2. Follows(h, i, <<>>) /\ FileOK(i)
    BY <1>4, <2>1, FlushKeeps DEF Follows
  <2>3. j = [files |-> i.files, written |-> i.written, buf |-> i.buf, disk |-> i.disk,
             count |-> i.count, startOfPeriod |-> i.startOfPeriod, lastRoll |-> i.lastRoll,
             lastFlush |-> now]
    BY <2>1, <2>2 DEF FileOK
  <2>4. FileOK(j)
    BY <2>2, <2>3 DEF FileOK
  <2>5. Follows(i, j, <<>>)
    BY <2>2, <2>3, <2>4, SameLines
  <2>6. <<>> \in Seq(Lines)
    BY EmptySeq
  <2> QED
    BY <1>4, <2>1, <2>2, <2>5, <2>6, FollowsOn
<1>8. r = CASE g.written > RollSize -> rollFile(g, now)
            [] g.written <= RollSize /\ g.count + 1 < CheckEveryN -> [g EXCEPT !.count = @ + 1]
            [] OTHER ->
                 IF startOf(now) # f.startOfPeriod THEN rollFile(h, now)
                 ELSE IF now > f.lastFlush + FlushInterval
                        THEN [flush(h) EXCEPT !.lastFlush = now]
                        ELSE h
  BY <1>1 DEF append_unlocked
<1> HIDE DEF r, gg
<1>9. \/ r = rollFile(g, now)
      \/ r = [g EXCEPT !.count = @ + 1] /\ g.count + 1 < CheckEveryN
      \/ r \in {rollFile(h, now), [flush(h) EXCEPT !.lastFlush = now], h}
  BY <1>8
<1>10. Follows(g, r, <<>>)
  <2>1. <<>> \in Seq(Lines)
    BY EmptySeq
  <2>2. ASSUME NEW x, Follows(h, x, <<>>) PROVE Follows(g, x, <<>>)
    BY <1>2, <1>4, <2>1, <2>2, FollowsOn
  <2>3. Follows(g, rollFile(h, now), <<>>) /\ Follows(g, [flush(h) EXCEPT !.lastFlush = now], <<>>)
    BY <1>5, <1>7, <2>2
  <2> QED
    BY <1>4, <1>5, <1>6, <1>9, <2>3
<1>11. Follows(f, r, us)
  BY <1>2, <1>10, FollowsOn
<1> QED
  BY <1>1, <1>11 DEF r

LEMMA StdioKeeps ==
  ASSUME NEW f, FileOK(f), NEW n \in {0, Len(f.buf)}
  PROVE  Follows(f, StdioWrites(f, n), <<>>)
<1>1. PICK d, b, g : /\ d = f.disk \o SubSeq(f.buf, 1, n) /\ b = SubSeq(f.buf, n + 1, Len(f.buf))
                     /\ g = StdioWrites(f, n)
  OBVIOUS
<1>2. f.disk \in Seq(Lines) /\ f.buf \in Seq(Lines) /\ Len(f.buf) \in Nat
  BY DEF FileOK
<1>3. g = [f EXCEPT !.disk = d, !.buf = b]
  BY <1>1 DEF StdioWrites
<1>4. g = [files |-> f.files, written |-> f.written, buf |-> b, disk |-> d,
           count |-> f.count, startOfPeriod |-> f.startOfPeriod, lastRoll |-> f.lastRoll,
           lastFlush |-> f.lastFlush]
  BY <1>3 DEF FileOK
<1>5. CASE n = 0
  <2>1. SubSeq(f.buf, 1, 0) = <<>>
    BY SubSeqEmpty
  <2>2. SubSeq(f.buf, 1, Len(f.buf)) = f.buf
    BY <1>2, SubSeqFull
  <2>3. d = f.disk /\ b = f.buf
    BY <1>1, <1>2, <1>5, <2>1, <2>2, ConcatEmptySeq
  <2>4. FileOK(g) /\ g.disk = f.disk /\ g.buf = f.buf
    BY <1>4, <2>3 DEF FileOK
  <2> QED
    BY <1>1, <2>4, SameLines
<1>6. CASE n = Len(f.buf)
  <2>1. SubSeq(f.buf, 1, n) = f.buf
    BY <1>2, <1>6, SubSeqFull
  <2>2. n + 1 \in Int /\ Len(f.buf) \in Int /\ Len(f.buf) < n + 1
    BY <1>2, <1>6
  <2>3. b = <<>>
    BY <1>1, <2>2, SubSeqEmpty
  <2>4. g = flush(f)
    BY <1>1, <1>3, <2>1, <2>3 DEF flush
  <2> QED
    BY <1>1, <2>4, FlushKeeps
<1> QED
  BY <1>5, <1>6

(* The constructor: an empty file.                                         *)
LEMMA NewLogFileOK ==
  ASSUME NEW now \in Nat \ {0}
  PROVE  FileOK(NewLogFile(now)) /\ NewLogFile(now).disk = <<>> /\ NewLogFile(now).buf = <<>>
<1>1. PICK f : f = [files |-> <<>>, written |-> 0, buf |-> <<>>, disk |-> <<>>, count |-> 0,
                    startOfPeriod |-> 0, lastRoll |-> 0, lastFlush |-> 0]
  OBVIOUS
<1>2. <<>> \in Seq(Lines) /\ <<>> \in Seq(Nat) /\ 0 \in 0 .. CheckEveryN - 1
  BY EmptySeq, CheckEvery
<1>3. FileOK(f)
  BY <1>1, <1>2, ToSetEmpty DEF FileOK
<1>4. NewLogFile(now) = rollFile(f, now)
  BY <1>1 DEF NewLogFile
<1>5. FileOK(rollFile(f, now)) /\ Out(rollFile(f, now)) = <<>>
  <2>1. Follows(f, rollFile(f, now), <<>>)
    BY <1>3, RollKeeps
  <2>2. Out(f) = <<>>
    BY <1>1 DEF Out
  <2> QED
    BY <2>1, <2>2 DEF Follows
<1>6. PICK d, b : d = rollFile(f, now).disk /\ b = rollFile(f, now).buf
  OBVIOUS
<1>7. d \in Seq(Lines) /\ b \in Seq(Lines) /\ d \o b = <<>>
  BY <1>5, <1>6 DEF Out, FileOK
<1>8. d = <<>> /\ b = <<>>
  BY <1>7, ConcatEqualIffEmpty
<1> QED
  BY <1>4, <1>5, <1>6, <1>8

-----------------------------------------------------------------------------
(* The lines w that are written and the n buffers b after them.            *)

Ordered(w, b, n) ==
  /\ n \in Nat
  /\ w \in Seq(Lines) /\ \A p \in 1 .. n : b[p] \in Seq(Lines)
  /\ Increasing(w)
  /\ \A p \in 1 .. n : Increasing(b[p]) /\ Before(w, b[p])
  /\ \A p \in 1 .. n, q \in 1 .. n : p < q => Before(b[p], b[q])

Held(w, b, n) == {l \in Lines : l \in ToSet(w) \/ \E p \in 1 .. n : l \in ToSet(b[p])}

(* What the steps make of them: a line more in the last buffer; a buffer   *)
(* more; the first buffer taken away; the buffers after the first m, and   *)
(* an empty one.                                                           *)
Grown(b, c, n, l) == (\A p \in 1 .. n - 1 : c[p] = b[p]) /\ c[n] = Append(b[n], l)
Added(b, c, n, l) == (\A p \in 1 .. n : c[p] = b[p]) /\ c[n + 1] = <<l>>
Shifted(b, c, n)  == \A p \in 1 .. n - 1 : c[p] = b[p + 1]
Cut(b, c, m)      == (\A p \in 1 .. m : c[p] = b[p]) /\ c[m + 1] = <<>>

LEMMA NatSeqs == \A s \in Seq(Lines) : s \in Seq(Nat)
BY LineNumbers, SeqMonotonic

LEMMA GrownOrdered ==
  ASSUME NEW w, NEW b, NEW c, NEW n, NEW l \in Lines, Ordered(w, b, n), n > 0, Grown(b, c, n, l),
         \A x \in Held(w, b, n) : x < l
  PROVE  Ordered(w, c, n) /\ Held(w, c, n) = Held(w, b, n) \cup {l}
<1>1. n \in Nat /\ n \in 1 .. n /\ b[n] \in Seq(Lines) /\ Increasing(b[n]) /\ c[n] = Append(b[n], l)
  BY DEF Ordered, Grown
<1>2. c[n] \in Seq(Lines) /\ ToSet(c[n]) = ToSet(b[n]) \cup {l}
  BY <1>1, ToSetAppend
<1>3. \A p \in 1 .. n : p # n => p \in 1 .. n - 1 /\ c[p] = b[p]
  BY <1>1 DEF Grown
<1>4. \A p \in 1 .. n : ToSet(b[p]) \subseteq Lines /\ \A x \in ToSet(b[p]) : x < l
  BY ToSetIs DEF Ordered, Held
<1>5. ToSet(w) \subseteq Lines /\ \A x \in ToSet(w) : x < l
  BY ToSetIs DEF Ordered, Held
<1>6. Increasing(c[n])
  <2>1. b[n] \in Seq(Nat) /\ l \in Nat
    BY <1>1, NatSeqs, LineNumbers
  <2> QED
    BY <1>1, <1>4, <2>1, IncreasingAppend
<1>7. \A p \in 1 .. n : c[p] \in Seq(Lines) /\ Increasing(c[p])
  BY <1>2, <1>3, <1>6 DEF Ordered
<1>8. \A p \in 1 .. n : Before(w, c[p])
  BY <1>1, <1>2, <1>3, <1>5 DEF Ordered, Before
<1>9. ASSUME NEW p \in 1 .. n, NEW q \in 1 .. n, p < q PROVE Before(c[p], c[q])
  <2>1. p # n /\ c[p] = b[p] /\ Before(b[p], b[q])
    BY <1>1, <1>3, <1>9 DEF Ordered
  <2>2. ToSet(c[q]) \subseteq ToSet(b[q]) \cup {l}
    BY <1>2, <1>3
  <2> QED
    BY <1>4, <2>1, <2>2 DEF Before
<1>10. Ordered(w, c, n)
  BY <1>1, <1>7, <1>8, <1>9 DEF Ordered
<1>11. Held(w, c, n) = Held(w, b, n) \cup {l}
  BY <1>1, <1>2, <1>3 DEF Held
<1> QED
  BY <1>10, <1>11

LEMMA AddedOrdered ==
  ASSUME NEW w, NEW b, NEW c, NEW n, NEW l \in Lines, Ordered(w, b, n), Added(b, c, n, l),
         \A x \in Held(w, b, n) : x < l
  PROVE  Ordered(w, c, n + 1) /\ Held(w, c, n + 1) = Held(w, b, n) \cup {l}
<1>1. n \in Nat /\ n + 1 \in Nat /\ n + 1 \in 1 .. n + 1 /\ \A p \in 1 .. n : p \in 1 .. n + 1
  BY DEF Ordered
<1>2. c[n + 1] \in Seq(Lines) /\ ToSet(c[n + 1]) = {l} /\ Increasing(c[n + 1])
  BY ToSetOne DEF Added
<1>3. \A p \in 1 .. n + 1 : p # n + 1 => p \in 1 .. n /\ c[p] = b[p]
  BY <1>1 DEF Added
<1>4. \A p \in 1 .. n : ToSet(b[p]) \subseteq Lines /\ \A x \in ToSet(b[p]) : x < l
  BY ToSetIs DEF Ordered, Held
<1>5. ToSet(w) \subseteq Lines /\ \A x \in ToSet(w) : x < l
  BY ToSetIs DEF Ordered, Held
<1>7. \A p \in 1 .. n + 1 : c[p] \in Seq(Lines) /\ Increasing(c[p])
  BY <1>2, <1>3 DEF Ordered
<1>8. \A p \in 1 .. n + 1 : Before(w, c[p])
  BY <1>2, <1>3, <1>5 DEF Ordered, Before
<1>9. ASSUME NEW p \in 1 .. n + 1, NEW q \in 1 .. n + 1, p < q PROVE Before(c[p], c[q])
  <2>1. p \in 1 .. n /\ c[p] = b[p]
    BY <1>1, <1>3, <1>9
  <2>2. CASE q = n + 1
    BY <1>2, <1>4, <2>1, <2>2 DEF Before
  <2>3. CASE q # n + 1
    BY <1>3, <1>9, <2>1, <2>3 DEF Ordered
  <2> QED
    BY <2>2, <2>3
<1>10. Ordered(w, c, n + 1)
  BY <1>1, <1>7, <1>8, <1>9 DEF Ordered
<1>11. Held(w, c, n + 1) = Held(w, b, n) \cup {l}
  <2>1. ASSUME NEW x \in Held(w, c, n + 1) PROVE x \in Held(w, b, n) \cup {l}
    BY <1>2, <1>3 DEF Held
  <2>2. ASSUME NEW x \in Held(w, b, n) PROVE x \in Held(w, c, n + 1)
    BY <1>1, <1>3 DEF Held, Added
  <2>3. l \in Held(w, c, n + 1)
    BY <1>1, <1>2 DEF Held
  <2> QED
    BY <2>1, <2>2, <2>3
<1> QED
  BY <1>10, <1>11

(* The first buffer is written, or its lines are lost.                     *)
LEMMA ShiftedOrdered ==
  ASSUME NEW w, NEW b, NEW c, NEW n, Ordered(w, b, n), n > 0, Shifted(b, c, n)
  PROVE  /\ Ordered(w \o b[1], c, n - 1) /\ Held(w \o b[1], c, n - 1) = Held(w, b, n)
         /\ Ordered(w, c, n - 1) /\ Held(w, c, n - 1) = Held(w, b, n) \ ToSet(b[1])
<1>1. n \in Nat /\ n - 1 \in Nat /\ 1 \in 1 .. n /\ b[1] \in Seq(Lines) /\ w \in Seq(Lines)
  BY DEF Ordered
<1>2. \A p \in 1 .. n - 1 : p + 1 \in 1 .. n /\ c[p] = b[p + 1] /\ 1 < p + 1
  BY <1>1 DEF Shifted
<1>3. \A q \in 1 .. n : q # 1 => q - 1 \in 1 .. n - 1 /\ c[q - 1] = b[q]
  BY <1>1 DEF Shifted
<1>4. \A p \in 1 .. n - 1 : c[p] \in Seq(Lines) /\ Increasing(c[p]) /\ Before(w, c[p])
  BY <1>2 DEF Ordered
<1>5. \A p \in 1 .. n - 1 : Before(b[1], c[p])
  BY <1>1, <1>2 DEF Ordered
<1>6. ASSUME NEW p \in 1 .. n - 1, NEW q \in 1 .. n - 1, p < q PROVE Before(c[p], c[q])
  <2>1. p + 1 < q + 1
    BY <1>1, <1>6
  <2> QED
    BY <1>2, <2>1 DEF Ordered
<1>7. Ordered(w, c, n - 1)
  BY <1>1, <1>4, <1>6 DEF Ordered
<1>8. w \o b[1] \in Seq(Lines) /\ ToSet(w \o b[1]) = ToSet(w) \cup ToSet(b[1])
  BY <1>1, ToSetConcat
<1>9. Increasing(w \o b[1])
  <2>1. w \in Seq(Nat) /\ b[1] \in Seq(Nat)
    BY <1>1, NatSeqs
  <2> QED
    BY <1>1, <2>1, IncreasingConcat DEF Ordered
<1>10. \A p \in 1 .. n - 1 : Before(w \o b[1], c[p])
  BY <1>4, <1>5, <1>8 DEF Before
<1>11. Ordered(w \o b[1], c, n - 1)
  BY <1>1, <1>4, <1>6, <1>8, <1>9, <1>10 DEF Ordered
<1>12. Held(w \o b[1], c, n - 1) = Held(w, b, n)
  <2>1. ASSUME NEW x \in Held(w \o b[1], c, n - 1) PROVE x \in Held(w, b, n)
    BY <1>1, <1>2, <1>8 DEF Held
  <2>2. ASSUME NEW x \in Held(w, b, n) PROVE x \in Held(w \o b[1], c, n - 1)
    BY <1>3, <1>8 DEF Held
  <2> QED
    BY <2>1, <2>2
<1>13. Held(w, c, n - 1) = Held(w, b, n) \ ToSet(b[1])
  <2>1. ASSUME NEW x \in Held(w, c, n - 1) PROVE x \in Held(w, b, n) /\ x \notin ToSet(b[1])
    <3>1. x \in Held(w, b, n)
      BY <1>2 DEF Held
    <3>2. x \in Nat
      BY <2>1, LineNumbers DEF Held
    <3>3. CASE x \in ToSet(w)
      <4>1. Before(w, b[1])
        BY <1>1 DEF Ordered
      <4> QED
        BY <3>1, <3>2, <3>3, <4>1 DEF Before
    <3>4. CASE \E p \in 1 .. n - 1 : x \in ToSet(c[p])
      BY <1>5, <3>1, <3>2, <3>4 DEF Before
    <3> QED
      BY <2>1, <3>1, <3>3, <3>4 DEF Held
  <2>2. ASSUME NEW x \in Held(w, b, n), x \notin ToSet(b[1]) PROVE x \in Held(w, c, n - 1)
    BY <1>3, <2>2 DEF Held
  <2> QED
    BY <2>1, <2>2
<1> QED
  BY <1>7, <1>11, <1>12, <1>13

LEMMA CutOrdered ==
  ASSUME NEW w, NEW b, NEW c, NEW n, NEW m \in 0 .. n, Ordered(w, b, n), Cut(b, c, m)
  PROVE  /\ Ordered(w, c, m + 1)
         /\ Held(w, c, m + 1) =
              {l \in Held(w, b, n) : \A p \in m + 1 .. n : l \notin ToSet(b[p])}
<1>1. n \in Nat /\ m \in Nat /\ m <= n /\ m + 1 \in Nat
  BY DEF Ordered
<1>2. c[m + 1] \in Seq(Lines) /\ ToSet(c[m + 1]) = {} /\ Increasing(c[m + 1])
  BY ToSetEmpty, EmptySeq DEF Cut
<1>3. \A p \in 1 .. m + 1 : p # m + 1 => p \in 1 .. m
  BY <1>1
<1>4. \A p \in 1 .. m : p \in 1 .. n /\ p \in 1 .. m + 1 /\ c[p] = b[p]
  BY <1>1 DEF Cut
<1>5. \A p \in 1 .. m + 1 : c[p] \in Seq(Lines) /\ Increasing(c[p]) /\ Before(w, c[p])
  BY <1>2, <1>3, <1>4 DEF Ordered, Before
<1>6. ASSUME NEW p \in 1 .. m + 1, NEW q \in 1 .. m + 1, p < q PROVE Before(c[p], c[q])
  <2>1. p \in 1 .. m
    BY <1>1, <1>6
  <2>2. CASE q = m + 1
    BY <1>2, <2>2 DEF Before
  <2>3. CASE q # m + 1
    BY <1>3, <1>4, <1>6, <2>1, <2>3 DEF Ordered
  <2> QED
    BY <2>2, <2>3
<1>7. Ordered(w, c, m + 1)
  BY <1>1, <1>5, <1>6 DEF Ordered
<1>8. ASSUME NEW x \in Held(w, c, m + 1)
      PROVE  x \in Held(w, b, n) /\ \A p \in m + 1 .. n : x \notin ToSet(b[p])
  <2>1. x \in Nat
    BY <1>8, LineNumbers DEF Held
  <2>2. CASE x \in ToSet(w)
    <3>1. \A p \in m + 1 .. n : p \in 1 .. n
      BY <1>1
    <3> QED
      BY <1>8, <2>1, <2>2, <3>1 DEF Ordered, Before, Held
  <2>3. CASE \E p \in 1 .. m + 1 : x \in ToSet(c[p])
    <3>1. PICK p \in 1 .. m : x \in ToSet(b[p])
      BY <1>2, <1>3, <1>4, <2>3
    <3>2. p \in 1 .. n /\ \A q \in m + 1 .. n : q \in 1 .. n /\ p < q
      BY <1>1
    <3>3. \A q \in m + 1 .. n : Before(b[p], b[q])
      BY <3>2 DEF Ordered
    <3>4. \A q \in m + 1 .. n : x \notin ToSet(b[q])
      BY <2>1, <3>1, <3>3 DEF Before
    <3> QED
      BY <1>8, <3>1, <3>2, <3>4 DEF Held
  <2> QED
    BY <1>8, <2>2, <2>3 DEF Held
<1>9. ASSUME NEW x \in Held(w, b, n), \A p \in m + 1 .. n : x \notin ToSet(b[p])
      PROVE  x \in Held(w, c, m + 1)
  <2>1. \A p \in 1 .. n : p \in m + 1 .. n \/ p \in 1 .. m
    BY <1>1
  <2> QED
    BY <1>4, <1>9, <2>1 DEF Held
<1> QED
  BY <1>7, <1>8, <1>9

-----------------------------------------------------------------------------
(* The buffers after those written, one by one.                            *)

PendingOf(tw, dn, v, c) == SubSeq(tw, dn + 1, Len(tw)) \o Append(v, c)

Laid(a, tw, dn, v, c, k, m) ==
  /\ \A i \in 1 .. k : a[i] = tw[dn + i]
  /\ \A i \in 1 .. m : a[k + i] = v[i]
  /\ a[k + m + 1] = c

LEMMA PendingAt ==
  ASSUME NEW tw \in Seq(Seq(Lines)), NEW dn \in 0 .. Len(tw), NEW v \in Seq(Seq(Lines)),
         NEW c \in Seq(Lines)
  PROVE  /\ PendingOf(tw, dn, v, c) \in Seq(Seq(Lines))
         /\ Len(PendingOf(tw, dn, v, c)) = (Len(tw) - dn) + Len(v) + 1
         /\ Laid(PendingOf(tw, dn, v, c), tw, dn, v, c, Len(tw) - dn, Len(v))
<1>1. PICK n, m, s, a : /\ n = Len(tw) - dn /\ m = Len(v)
                        /\ s = SubSeq(tw, dn + 1, Len(tw)) /\ a = Append(v, c)
  OBVIOUS
<1>2. /\ n \in Nat /\ m \in Nat /\ dn \in Nat /\ dn + 1 \in Int /\ Len(tw) \in Int
      /\ \A i \in dn + 1 .. Len(tw) : tw[i] \in Seq(Lines)
  BY <1>1
<1>3. s \in Seq(Seq(Lines))
  <2>1. PICK x, y : x = dn + 1 /\ y = Len(tw)
    OBVIOUS
  <2>2. x \in Int /\ y \in Int /\ \A i \in x .. y : tw[i] \in Seq(Lines)
    BY <1>2, <2>1
  <2>3. SubSeq(tw, x, y) \in Seq(Seq(Lines))
    BY <2>2, SubSeqProperties
  <2> QED
    BY <1>1, <2>1, <2>3
<1>4. Len(s) = n
  BY <1>1, <1>2
<1>5. \A i \in 1 .. n : s[i] = tw[dn + i]
  BY <1>1, <1>2
<1>6. a \in Seq(Seq(Lines)) /\ Len(a) = m + 1 /\ a[m + 1] = c /\ \A i \in 1 .. m : a[i] = v[i]
  BY <1>1
<1>7. PICK r : r = s \o a
  OBVIOUS
<1>8. r \in Seq(Seq(Lines)) /\ Len(r) = n + m + 1
  <2>1. a \in Seq(Seq(Lines)) /\ Len(a) = m + 1
    BY <1>6
  <2>2. s \o a \in Seq(Seq(Lines)) /\ Len(s \o a) = Len(s) + Len(a)
    BY <1>3, <2>1, ConcatProperties, Zenon
  <2> QED
    BY <1>2, <1>4, <1>7, <2>1, <2>2
<1>9. \A i \in 1 .. n : r[i] = s[i]
  BY <1>2, <1>3, <1>4, <1>6, <1>7
<1>10. \A i \in 1 .. m + 1 : r[n + i] = a[i]
  <2>1. a \in Seq(Seq(Lines)) /\ Len(a) = m + 1
    BY <1>6
  <2>2. \A i \in 1 .. Len(s) + Len(a) : r[i] = IF i <= Len(s) THEN s[i] ELSE a[i - Len(s)]
    BY <1>3, <1>7, <2>1, ConcatProperties, Zenon
  <2>3. \A i \in 1 .. n + m + 1 : r[i] = IF i <= n THEN s[i] ELSE a[i - n]
    BY <1>2, <1>4, <2>1, <2>2
  <2>4. \A i \in 1 .. m + 1 : n + i \in 1 .. n + m + 1 /\ ~(n + i <= n) /\ (n + i) - n = i
    BY <1>2
  <2> QED
    BY <2>3, <2>4
<1>11. (\A i \in 1 .. m : r[n + i] = v[i]) /\ r[n + m + 1] = c
  <2>1. m + 1 \in 1 .. m + 1 /\ n + (m + 1) = n + m + 1 /\ \A i \in 1 .. m : i \in 1 .. m + 1
    BY <1>2
  <2> QED
    BY <1>6, <1>10, <2>1
<1>12. PendingOf(tw, dn, v, c) = r
  BY <1>1, <1>7 DEF PendingOf
<1>13. Laid(r, tw, dn, v, c, n, m)
  BY <1>5, <1>9, <1>11 DEF Laid
<1> QED
  BY <1>1, <1>8, <1>12, <1>13

(* What append(), the thread's loop and its critical section make of them. *)
LEMMA GrowPending ==
  ASSUME NEW tw \in Seq(Seq(Lines)), NEW dn \in 0 .. Len(tw), NEW v \in Seq(Seq(Lines)),
         NEW c \in Seq(Lines), NEW l \in Lines
  PROVE  Grown(PendingOf(tw, dn, v, c), PendingOf(tw, dn, v, Append(c, l)),
               (Len(tw) - dn) + Len(v) + 1, l)
<1>1. PICK k, m, d, a, b : /\ k = Len(tw) - dn /\ m = Len(v) /\ d = Append(c, l)
                           /\ a = PendingOf(tw, dn, v, c) /\ b = PendingOf(tw, dn, v, d)
  OBVIOUS
<1>2. k \in Nat /\ m \in Nat /\ d \in Seq(Lines)
  BY <1>1
<1>3. /\ \A i \in 1 .. k : a[i] = tw[dn + i]
      /\ \A i \in 1 .. m : a[k + i] = v[i]
      /\ a[k + m + 1] = c
  <2>1. Laid(a, tw, dn, v, c, k, m)
    BY <1>1, PendingAt
  <2> QED
    BY <2>1 DEF Laid
<1>4. /\ \A i \in 1 .. k : b[i] = tw[dn + i]
      /\ \A i \in 1 .. m : b[k + i] = v[i]
      /\ b[k + m + 1] = d
  <2>1. Laid(b, tw, dn, v, d, k, m)
    <3>1. Laid(PendingOf(tw, dn, v, d), tw, dn, v, d, Len(tw) - dn, Len(v))
      BY <1>2, PendingAt
    <3> QED
      BY <1>1, <3>1
  <2> QED
    BY <2>1 DEF Laid
<1>5. ASSUME NEW p \in 1 .. (k + m + 1) - 1 PROVE b[p] = a[p]
  <2>1. CASE p <= k
    BY <1>2, <1>3, <1>4, <2>1
  <2>2. CASE p > k
    <3>1. p - k \in 1 .. m /\ k + (p - k) = p
      BY <1>2, <2>2
    <3> QED
      BY <1>3, <1>4, <3>1
  <2> QED
    BY <1>2, <2>1, <2>2
<1>6. Grown(a, b, k + m + 1, l)
  BY <1>1, <1>3, <1>4, <1>5 DEF Grown
<1> QED
  BY <1>1, <1>6

LEMMA AddPending ==
  ASSUME NEW tw \in Seq(Seq(Lines)), NEW dn \in 0 .. Len(tw), NEW v \in Seq(Seq(Lines)),
         NEW c \in Seq(Lines), NEW l \in Lines
  PROVE  Added(PendingOf(tw, dn, v, c), PendingOf(tw, dn, Append(v, c), <<l>>),
               (Len(tw) - dn) + Len(v) + 1, l)
<1>1. PICK k, m, w, d, a, b :
        /\ k = Len(tw) - dn /\ m = Len(v) /\ w = Append(v, c) /\ d = <<l>>
        /\ a = PendingOf(tw, dn, v, c) /\ b = PendingOf(tw, dn, w, d)
  OBVIOUS
<1>2. /\ k \in Nat /\ m \in Nat /\ d \in Seq(Lines) /\ w \in Seq(Seq(Lines)) /\ Len(w) = m + 1
      /\ \A i \in 1 .. m : w[i] = v[i]
      /\ w[m + 1] = c
  BY <1>1
<1>3. /\ \A i \in 1 .. k : a[i] = tw[dn + i]
      /\ \A i \in 1 .. m : a[k + i] = v[i]
      /\ a[k + m + 1] = c
  <2>1. Laid(a, tw, dn, v, c, k, m)
    BY <1>1, PendingAt
  <2> QED
    BY <2>1 DEF Laid
<1>4. /\ \A i \in 1 .. k : b[i] = tw[dn + i]
      /\ \A i \in 1 .. m + 1 : b[k + i] = w[i]
      /\ b[k + (m + 1) + 1] = d
  <2>1. w \in Seq(Seq(Lines)) /\ d \in Seq(Lines) /\ Len(w) = m + 1
    BY <1>2
  <2>2. Laid(PendingOf(tw, dn, w, d), tw, dn, w, d, Len(tw) - dn, Len(w))
    BY <2>1, PendingAt
  <2>3. Laid(b, tw, dn, w, d, k, m + 1)
    BY <1>1, <2>1, <2>2
  <2> QED
    BY <2>3 DEF Laid
<1>5. ASSUME NEW p \in 1 .. k + m + 1 PROVE b[p] = a[p]
  <2>1. CASE p <= k
    BY <1>2, <1>3, <1>4, <2>1
  <2>2. CASE p > k /\ p < k + m + 1
    <3>1. p - k \in 1 .. m /\ p - k \in 1 .. m + 1 /\ k + (p - k) = p
      BY <1>2, <2>2
    <3> QED
      BY <1>2, <1>3, <1>4, <3>1, ZenonT(30)
  <2>3. CASE p = k + m + 1
    <3>1. m + 1 \in 1 .. m + 1 /\ k + (m + 1) = p
      BY <1>2, <2>3
    <3> QED
      BY <1>2, <1>3, <1>4, <2>3, <3>1
  <2>4. p <= k \/ (p > k /\ p < k + m + 1) \/ p = k + m + 1
    <3>1. k \in Nat /\ m \in Nat
      BY <1>2
    <3> QED
      BY <3>1
  <2> QED
    BY <2>1, <2>2, <2>3, <2>4
<1>6. b[(k + m + 1) + 1] = d
  <2>1. (k + m + 1) + 1 = k + (m + 1) + 1
    BY <1>2
  <2> QED
    BY <1>4, <2>1
<1>7. Added(a, b, k + m + 1, l)
  BY <1>1, <1>5, <1>6 DEF Added
<1> QED
  BY <1>1, <1>7

LEMMA ShiftPending ==
  ASSUME NEW tw \in Seq(Seq(Lines)), NEW dn \in 0 .. Len(tw) - 1, NEW v \in Seq(Seq(Lines)),
         NEW c \in Seq(Lines)
  PROVE  /\ Shifted(PendingOf(tw, dn, v, c), PendingOf(tw, dn + 1, v, c),
                    (Len(tw) - dn) + Len(v) + 1)
         /\ PendingOf(tw, dn, v, c)[1] = tw[dn + 1]
<1>1. PICK k, m, e, a, b :
        /\ k = Len(tw) - dn /\ m = Len(v) /\ e = dn + 1
        /\ a = PendingOf(tw, dn, v, c) /\ b = PendingOf(tw, e, v, c)
  OBVIOUS
<1>2. /\ k \in Nat \ {0} /\ m \in Nat /\ dn \in Nat /\ dn \in 0 .. Len(tw) /\ e \in 0 .. Len(tw)
      /\ Len(tw) - e = k - 1
  BY <1>1
<1>3. /\ \A i \in 1 .. k : a[i] = tw[dn + i]
      /\ \A i \in 1 .. m : a[k + i] = v[i]
      /\ a[k + m + 1] = c
  <2>1. dn \in 0 .. Len(tw)
    BY <1>2
  <2>2. Laid(PendingOf(tw, dn, v, c), tw, dn, v, c, Len(tw) - dn, Len(v))
    BY <2>1, PendingAt
  <2> QED
    BY <1>1, <2>2 DEF Laid
<1>4. /\ \A i \in 1 .. k - 1 : b[i] = tw[e + i]
      /\ \A i \in 1 .. m : b[(k - 1) + i] = v[i]
      /\ b[(k - 1) + m + 1] = c
  <2>1. e \in 0 .. Len(tw) /\ Len(tw) - e = k - 1
    BY <1>2
  <2>2. Laid(PendingOf(tw, e, v, c), tw, e, v, c, Len(tw) - e, Len(v))
    BY <2>1, PendingAt
  <2>3. Laid(b, tw, e, v, c, k - 1, m)
    BY <1>1, <2>1, <2>2
  <2> QED
    BY <2>3 DEF Laid
<1>5. ASSUME NEW p \in 1 .. (k + m + 1) - 1 PROVE b[p] = a[p + 1]
  <2>1. CASE p <= k - 1
    <3>1. p \in 1 .. k - 1 /\ p + 1 \in 1 .. k /\ e + p = dn + (p + 1)
      BY <1>1, <1>2, <2>1
    <3>2. b[p] = tw[e + p] /\ a[p + 1] = tw[dn + (p + 1)]
      BY <1>3, <1>4, <3>1
    <3> QED
      BY <3>1, <3>2
  <2>2. CASE p > k - 1 /\ p < k + m
    <3>1. p + 1 - k \in 1 .. m /\ k + (p + 1 - k) = p + 1 /\ (k - 1) + (p + 1 - k) = p
      BY <1>2, <2>2
    <3> QED
      BY <1>3, <1>4, <3>1
  <2>3. CASE p = k + m
    <3>1. (k - 1) + m + 1 = p /\ k + m + 1 = p + 1
      BY <1>2, <2>3
    <3> QED
      BY <1>3, <1>4, <3>1
  <2>4. p <= k - 1 \/ (p > k - 1 /\ p < k + m) \/ p = k + m
    <3>1. k \in Nat /\ m \in Nat
      BY <1>2
    <3> QED
      BY <3>1
  <2> QED
    BY <2>1, <2>2, <2>3, <2>4
<1>6. Shifted(a, b, k + m + 1) /\ a[1] = tw[dn + 1]
  BY <1>2, <1>3, <1>5 DEF Shifted
<1> QED
  BY <1>1, <1>6

Begins(tw, all) == \A i \in 1 .. Len(tw) : tw[i] = all[i]

Taken(v, c, tw, all) ==
  /\ Cut(PendingOf(<<>>, 0, v, c), PendingOf(tw, 0, <<>>, <<>>), Len(tw))
  /\ \A i \in 1 .. Len(v) + 1 : PendingOf(<<>>, 0, v, c)[i] = all[i]

LEMMA TakePending ==
  ASSUME NEW v \in Seq(Seq(Lines)), NEW c \in Seq(Lines), NEW tw \in Seq(Seq(Lines)),
         NEW all, all = Append(v, c), Len(tw) <= Len(v) + 1, Begins(tw, all)
  PROVE  Taken(v, c, tw, all)
<1>1. PICK n, m, a, b, z :
        /\ n = Len(tw) /\ m = Len(v) /\ z = <<>>
        /\ a = PendingOf(z, 0, v, c) /\ b = PendingOf(tw, 0, z, z)
  OBVIOUS
<1>2. /\ n \in Nat /\ m \in Nat /\ z \in Seq(Seq(Lines)) /\ z \in Seq(Lines) /\ Len(z) = 0
      /\ 0 \in 0 .. Len(z) /\ 0 \in 0 .. Len(tw)
  BY <1>1, EmptySeq
<1>3. (\A i \in 1 .. m : a[0 + i] = v[i]) /\ a[0 + m + 1] = c
  <2>1. z \in Seq(Seq(Lines)) /\ 0 \in 0 .. Len(z) /\ Len(z) - 0 = 0
    BY <1>2
  <2>2. Laid(PendingOf(z, 0, v, c), z, 0, v, c, Len(z) - 0, Len(v))
    BY <2>1, PendingAt
  <2>3. Laid(a, z, 0, v, c, 0, m)
    BY <1>1, <2>1, <2>2
  <2> QED
    BY <2>3 DEF Laid
<1>4. (\A i \in 1 .. n : b[i] = tw[0 + i]) /\ b[n + 0 + 1] = z
  <2>1. z \in Seq(Seq(Lines)) /\ z \in Seq(Lines) /\ 0 \in 0 .. Len(tw) /\ Len(z) = 0 /\ Len(tw) - 0 = n
    BY <1>1, <1>2
  <2>2. Laid(PendingOf(tw, 0, z, z), tw, 0, z, z, Len(tw) - 0, Len(z))
    BY <2>1, PendingAt
  <2>3. Laid(b, tw, 0, z, z, n, 0)
    BY <1>1, <2>1, <2>2
  <2> QED
    BY <2>3 DEF Laid
<1>5. \A i \in 1 .. m + 1 : a[i] = all[i]
  <2>1. all[m + 1] = c /\ \A i \in 1 .. m : all[i] = v[i]
    BY <1>1
  <2>2. a[m + 1] = c /\ \A i \in 1 .. m : a[i] = v[i]
    BY <1>2, <1>3
  <2>3. \A i \in 1 .. m + 1 : i = m + 1 \/ i \in 1 .. m
    BY <1>2
  <2> QED
    BY <2>1, <2>2, <2>3
<1>6. Cut(a, b, n)
  <2>1. b[n + 1] = z /\ \A i \in 1 .. n : b[i] = tw[i]
    BY <1>2, <1>4
  <2>2. \A i \in 1 .. n : i \in 1 .. m + 1 /\ tw[i] = all[i]
    BY <1>1, <1>2 DEF Begins
  <2> QED
    BY <1>1, <1>5, <2>1, <2>2 DEF Cut
<1> QED
  BY <1>1, <1>5, <1>6 DEF Taken

LEMMA RefillPending ==
  ASSUME NEW tw \in Seq(Seq(Lines)), NEW v, NEW c
  PROVE  PendingOf(tw, Len(tw), v, c) = PendingOf(<<>>, 0, v, c)
<1>1. PICK n : n = Len(tw)
  OBVIOUS
<1>2. n + 1 \in Int /\ n \in Int /\ n < n + 1
  BY <1>1
<1>3. SubSeq(tw, n + 1, n) = <<>>
  BY <1>2, SubSeqEmpty
<1>4. SubSeq(<<>>, 0 + 1, 0) = <<>> /\ Len(<<>>) = 0
  BY SubSeqEmpty
<1> QED
  BY <1>1, <1>3, <1>4 DEF PendingOf

(* LinesInOrder in these terms.                                            *)
InOrder(w, b, n, ls) ==
  /\ Increasing(w)
  /\ \A p \in DOMAIN b : Increasing(b[p]) /\ Before(w, b[p])
  /\ \A p, q \in DOMAIN b : p < q => Before(b[p], b[q])
  /\ ToSet(w) \cup UNION {ToSet(b[p]) : p \in DOMAIN b} = (1 .. n) \ ls

LEMMA InOrderIs ==
  ASSUME NEW w \in Seq(Lines), NEW b \in Seq(Seq(Lines)), NEW n, NEW ls
  PROVE  InOrder(w, b, n, ls) <=> Ordered(w, b, Len(b)) /\ Held(w, b, Len(b)) = (1 .. n) \ ls
<1>1. PICK m : m = Len(b)
  OBVIOUS
<1>2. DOMAIN b = 1 .. m /\ m \in Nat /\ \A p \in 1 .. m : b[p] \in Seq(Lines)
  BY <1>1
<1>3. ToSet(w) \subseteq Lines /\ \A p \in 1 .. m : ToSet(b[p]) \subseteq Lines
  BY <1>2, ToSetIs
<1>4. ToSet(w) \cup UNION {ToSet(b[p]) : p \in 1 .. m} = Held(w, b, m)
  BY <1>3 DEF Held
<1>5. InOrder(w, b, n, ls) <=>
        /\ Increasing(w)
        /\ \A p \in 1 .. m : Increasing(b[p]) /\ Before(w, b[p])
        /\ \A p, q \in 1 .. m : p < q => Before(b[p], b[q])
        /\ ToSet(w) \cup UNION {ToSet(b[p]) : p \in 1 .. m} = (1 .. n) \ ls
  BY <1>2, Zenon DEF InOrder
<1>6. Ordered(w, b, m) <=>
        /\ Increasing(w)
        /\ \A p \in 1 .. m : Increasing(b[p]) /\ Before(w, b[p])
        /\ \A p, q \in 1 .. m : p < q => Before(b[p], b[q])
  BY <1>2 DEF Ordered
<1> QED
  BY <1>1, <1>4, <1>5, <1>6

PendingNow == PendingOf(toWrite, done, vector, current)
PendingLen == (Len(toWrite) - done) + Len(vector) + 1

(* Before a step, and after it.                                            *)
LEMMA OrderBefore ==
  ASSUME SinkType, done \in 0 .. Len(toWrite), LinesInOrder
  PROVE  /\ Ordered(Out(file), PendingNow, PendingLen)
         /\ Held(Out(file), PendingNow, PendingLen) = (1 .. lines) \ lost
<1>1. Out(file) \in Seq(Lines)
  BY DEF SinkType, FileOK, Out
<1>2. PendingNow \in Seq(Seq(Lines)) /\ Len(PendingNow) = PendingLen
  <2>1. toWrite \in Seq(Seq(Lines)) /\ vector \in Seq(Seq(Lines)) /\ current \in Seq(Lines)
    BY DEF SinkType
  <2>2. /\ PendingOf(toWrite, done, vector, current) \in Seq(Seq(Lines))
        /\ Len(PendingOf(toWrite, done, vector, current)) = (Len(toWrite) - done) + Len(vector) + 1
    BY <2>1, PendingAt
  <2> QED
    BY <2>2, Zenon DEF PendingNow, PendingLen
<1>3. InOrder(Out(file), PendingNow, lines, lost)
  BY Zenon DEF LinesInOrder, InOrder, Out, Written, Pending, PendingNow, PendingOf
<1> QED
  BY <1>1, <1>2, <1>3, InOrderIs

LEMMA OrderAfter ==
  ASSUME SinkType', done' \in 0 .. Len(toWrite'),
         Ordered(Out(file'), PendingNow', PendingLen'),
         Held(Out(file'), PendingNow', PendingLen') = (1 .. lines') \ lost'
  PROVE  LinesInOrder'
<1>1. Out(file') \in Seq(Lines) /\ Increasing(file'.files)
  BY DEF SinkType, FileOK, Out
<1>2. PendingNow' \in Seq(Seq(Lines)) /\ Len(PendingNow') = PendingLen'
  <2>1. toWrite' \in Seq(Seq(Lines)) /\ vector' \in Seq(Seq(Lines)) /\ current' \in Seq(Lines)
    BY DEF SinkType
  <2>2. PICK tw, dn, v, c : tw = toWrite' /\ dn = done' /\ v = vector' /\ c = current'
    OBVIOUS
  <2>3. /\ PendingOf(tw, dn, v, c) \in Seq(Seq(Lines))
        /\ Len(PendingOf(tw, dn, v, c)) = (Len(tw) - dn) + Len(v) + 1
    <3>1. tw \in Seq(Seq(Lines)) /\ v \in Seq(Seq(Lines)) /\ c \in Seq(Lines) /\ dn \in 0 .. Len(tw)
      BY <2>1, <2>2
    <3> QED
      BY <3>1, PendingAt
  <2> QED
    BY <2>2, <2>3, Zenon DEF PendingNow, PendingLen
<1>3. InOrder(Out(file'), PendingNow', lines', lost')
  BY <1>1, <1>2, InOrderIs
<1> QED
  BY <1>1, <1>3, Zenon DEF LinesInOrder, InOrder, Out, Written, Pending, PendingNow, PendingOf

LEMMA DoneType ==
  ASSUME SinkType, ThreadInv, SparesInv
  PROVE  done \in 0 .. Len(toWrite)
<1>1. Len(toWrite) \in Nat
  BY DEF SinkType
<1>2. CASE apc = "write"
  BY <1>1, <1>2 DEF SparesInv
<1>3. CASE apc = "refill"
  BY <1>1, <1>3 DEF SparesInv
<1>4. CASE apc \notin {"write", "refill"}
  BY <1>1, <1>4 DEF SparesInv
<1> QED
  BY <1>2, <1>3, <1>4

(* LogFile::append on the file.                                            *)
LEMMA FileAppendsIs ==
  ASSUME FileOK(file), NEW ls \in Seq(Lines), FileAppends(ls)
  PROVE  \E ok \in BOOLEAN :
           /\ Follows(file, file', IF ok THEN ls ELSE <<>>)
           /\ lost' = IF ok THEN lost ELSE ToSet(ls)
           /\ ~ok => lost = {}
<1>1. PICK now \in 1 .. MaxNow, ok \in {TRUE, lost # {}} :
        LET f == append_unlocked(file, ls, Total(ls), now, ok) IN
        /\ \E n \in {0, Len(f.buf)} : file' = StdioWrites(f, n)
        /\ lost' = IF ok THEN lost ELSE ToSet(ls)
  BY DEF FileAppends
<1>2. PICK f : f = append_unlocked(file, ls, Total(ls), now, ok)
  OBVIOUS
<1>3. PICK n \in {0, Len(f.buf)} : file' = StdioWrites(f, n)
  BY <1>1, <1>2
<1>4. PICK us : us = IF ok THEN ls ELSE <<>>
  OBVIOUS
<1>5. now \in Nat /\ ok \in BOOLEAN /\ us \in Seq(Lines)
  <2>1. now \in Nat
    BY LoggingAssumption
  <2>2. ok \in BOOLEAN
    BY Zenon
  <2>3. us \in Seq(Lines)
    BY <1>4, EmptySeq
  <2> QED
    BY <2>1, <2>2, <2>3
<1>6. Follows(file, f, us) /\ FileOK(f)
  <2>1. Follows(file, f, us)
    BY <1>2, <1>4, <1>5, AppendKeeps, Zenon
  <2> QED
    BY <2>1 DEF Follows
<1>7. Follows(f, file', <<>>)
  BY <1>3, <1>6, StdioKeeps
<1>8. Follows(file, file', us)
  BY <1>5, <1>6, <1>7, FollowsOn
<1>9. ~ok => lost = {}
  BY <1>1
<1> QED
  BY <1>1, <1>4, <1>5, <1>8, <1>9

-----------------------------------------------------------------------------
(* The loggers.                                                            *)

(* A line is logged to the file, no buffer being in use.                   *)
LEMMA FileOrdered ==
  ASSUME NEW w, NEW b, NEW l \in Lines, Ordered(w, b, 1), b[1] = <<>>,
         \A x \in Held(w, b, 1) : x < l
  PROVE  Ordered(w \o <<l>>, b, 1) /\ Held(w \o <<l>>, b, 1) = Held(w, b, 1) \cup {l}
<1>1. w \in Seq(Lines) /\ Increasing(w) /\ <<l>> \in Seq(Lines) /\ 1 \in 1 .. 1
  BY DEF Ordered
<1>2. w \o <<l>> \in Seq(Lines) /\ ToSet(w \o <<l>>) = ToSet(w) \cup {l}
  <2>1. PICK q : q = <<l>>
    OBVIOUS
  <2>2. q \in Seq(Lines) /\ ToSet(q) = {l}
    BY <1>1, <2>1, ToSetOne
  <2>3. w \o q \in Seq(Lines) /\ ToSet(w \o q) = ToSet(w) \cup {l}
    BY <1>1, <2>2, ToSetConcat
  <2> QED
    BY <2>1, <2>3
<1>3. ToSet(w) \subseteq Lines /\ ToSet(b[1]) = {} /\ \A p \in 1 .. 1 : p = 1
  <2>1. ToSet(w) \subseteq Lines
    BY <1>1, ToSetIs
  <2>2. ToSet(b[1]) = {}
    BY ToSetEmpty
  <2> QED
    BY <2>1, <2>2
<1>4. \A x \in ToSet(w) : x < l
  BY <1>3 DEF Held
<1>5. Increasing(w \o <<l>>)
  <2>1. w \in Seq(Nat) /\ <<l>> \in Seq(Nat)
    BY <1>1, NatSeqs
  <2>2. Increasing(<<l>>) /\ Before(w, <<l>>)
    BY <1>4, ToSetOne DEF Before
  <2> QED
    BY <1>1, <2>1, <2>2, IncreasingConcat
<1>6. \A p \in 1 .. 1 : Before(w \o <<l>>, b[p])
  BY <1>3 DEF Before
<1>7. Ordered(w \o <<l>>, b, 1)
  BY <1>2, <1>5, <1>6 DEF Ordered
<1>8. Held(w \o <<l>>, b, 1) = Held(w, b, 1) \cup {l}
  BY <1>2, <1>3 DEF Held
<1> QED
  BY <1>7, <1>8

LEMMA PendingNone ==
  PendingOf(<<>>, 0, <<>>, <<>>)[1] = <<>> /\ (Len(<<>>) - 0) + Len(<<>>) + 1 = 1
<1>1. SubSeq(<<>>, 0 + 1, 0) = <<>> /\ Len(<<>>) = 0
  BY SubSeqEmpty
<1>2. <<>> \o Append(<<>>, <<>>) = << <<>> >>
  OBVIOUS
<1> QED
  BY <1>1, <1>2 DEF PendingOf

LEMMA OutputToFile ==
  ASSUME SinkInv, NEW t \in Loggers, Output(t), sink = "file"
  PROVE  SinkInv'
<1> USE DEF SinkInv
<1>1. /\ lines \in Nat /\ lines + 1 \in Lines /\ lines' = lines + 1 /\ lines' \in 0 .. MaxLines
      /\ <<lines + 1>> \in Seq(Lines)
  BY LoggingAssumption DEF Output, SinkType, Lines
<1>2. /\ apc = "none" /\ vector = <<>> /\ current = <<>> /\ toWrite = <<>> /\ done = 0
      /\ apc' = "none" /\ vector' = <<>> /\ current' = <<>> /\ toWrite' = <<>> /\ done' = 0
  BY DEF Output, ThreadInv, SparesInv, front, thread, back, Sinks
<1>3. /\ UNCHANGED <<sink, length, fatal, aborted, running, count, mpc, apc, new1, new2, next, notified>>
      /\ lpc' = [lpc EXCEPT ![t] = IF lines' = fatal THEN "flush" ELSE "idle"]
  BY DEF Output, fixed, front, thread, back
<1>4. FileAppends(<<lines + 1>>)
  BY <1>1 DEF Output
<1>5. PICK ok \in BOOLEAN : /\ Follows(file, file', IF ok THEN <<lines + 1>> ELSE <<>>)
                            /\ lost' = IF ok THEN lost ELSE ToSet(<<lines + 1>>)
                            /\ ~ok => lost = {}
  BY <1>1, <1>4, FileAppendsIs DEF SinkType
<1>6. lost' = (IF ok THEN lost ELSE {lines + 1}) /\ lost \subseteq lost' /\ lost' \subseteq 1 .. lines'
  <2>1. ToSet(<<lines + 1>>) = {lines + 1}
    BY ToSetOne
  <2>2. lost \subseteq 1 .. lines
    BY DEF SinkType
  <2>3. CASE ok
    BY <1>1, <1>5, <2>2, <2>3
  <2>4. CASE ~ok
    BY <1>1, <1>5, <2>1, <2>4
  <2> QED
    BY <2>3, <2>4
<1>7. FileOK(file') /\ ToSet(file.disk) \subseteq ToSet(file'.disk)
  BY <1>5 DEF Follows
<1>8. SinkType'
  <2>1. <<>> \in Seq(Lines) /\ <<>> \in Seq(Seq(Lines))
    BY EmptySeq
  <2>2. lpc' \in [Loggers -> {"idle", "flush", "abort"}]
    BY <1>3 DEF SinkType
  <2> QED
    BY <1>1, <1>2, <1>3, <1>6, <1>7, <2>1, <2>2 DEF SinkType
<1>9. ThreadInv' /\ SparesInv'
  BY <1>2, <1>3 DEF ThreadInv, SparesInv
<1>10. FatalInv'
  <2>1. \A u \in Loggers : lpc'[u] = IF u = t THEN (IF lines' = fatal THEN "flush" ELSE "idle")
                                              ELSE lpc[u]
    BY <1>3 DEF SinkType
  <2>2. \A u \in Loggers : lpc'[u] = "flush" => fatal' <= lines'
    BY <1>1, <1>3, <2>1 DEF FatalInv, SinkType
  <2>3. ASSUME aborted' \/ \E u \in Loggers : lpc'[u] = "abort"
        PROVE  1 .. fatal' \subseteq ToSet(file'.disk) \cup lost'
    <3>1. aborted \/ \E u \in Loggers : lpc[u] = "abort"
      BY <1>3, <2>1, <2>3
    <3>2. 1 .. fatal \subseteq ToSet(file.disk) \cup lost
      BY <3>1 DEF FatalInv
    <3> QED
      BY <1>3, <1>6, <1>7, <3>2
  <2> QED
    BY <2>2, <2>3 DEF FatalInv
<1>11. LinesInOrder'
  <2>1. PICK b : b = PendingOf(<<>>, 0, <<>>, <<>>)
    OBVIOUS
  <2>2. /\ PendingNow = b /\ PendingNow' = b /\ PendingLen = 1 /\ PendingLen' = 1
        /\ b[1] = <<>> /\ done \in 0 .. Len(toWrite) /\ done' \in 0 .. Len(toWrite')
    BY <1>2, <2>1, PendingNone DEF PendingNow, PendingLen
  <2>3. Ordered(Out(file), b, 1) /\ Held(Out(file), b, 1) = (1 .. lines) \ lost
    BY <2>2, OrderBefore
  <2>4. \A x \in Held(Out(file), b, 1) : x < lines + 1
    BY <1>1, <2>3
  <2>5. Ordered(Out(file'), b, 1) /\ Held(Out(file'), b, 1) = (1 .. lines') \ lost'
    <3>1. CASE ok
      <4>1. Out(file') = Out(file) \o <<lines + 1>>
        BY <1>5, <3>1 DEF Follows
      <4>2. Ordered(Out(file'), b, 1) /\ Held(Out(file'), b, 1) = Held(Out(file), b, 1) \cup {lines + 1}
        <5>1. /\ Ordered(Out(file) \o <<lines + 1>>, b, 1)
              /\ Held(Out(file) \o <<lines + 1>>, b, 1) = Held(Out(file), b, 1) \cup {lines + 1}
          BY <1>1, <2>2, <2>3, <2>4, FileOrdered
        <5> QED
          BY <4>1, <5>1
      <4>3. lines + 1 \notin lost
        BY <1>1 DEF SinkType
      <4> QED
        BY <1>1, <1>6, <2>3, <3>1, <4>2, <4>3
    <3>2. CASE ~ok
      <4>1. Out(file') = Out(file)
        BY <1>5, <3>2, ConcatEmptySeq, <2>3 DEF Follows, Ordered
      <4>2. (1 .. lines) \ lost = (1 .. lines') \ lost'
        BY <1>1, <1>5, <1>6, <3>2
      <4> QED
        BY <2>3, <4>1, <4>2
    <3> QED
      BY <3>1, <3>2
  <2> QED
    BY <1>8, <2>2, <2>5, OrderAfter
<1> QED
  BY <1>8, <1>9, <1>10, <1>11

LEMMA OutputToBuffer ==
  ASSUME SinkInv, NEW t \in Loggers, Output(t), sink = "async"
  PROVE  SinkInv'
<1> USE DEF SinkInv
<1>1. /\ lines \in Nat /\ lines + 1 \in Lines /\ lines' = lines + 1 /\ lines' \in 0 .. MaxLines
      /\ <<lines + 1>> \in Seq(Lines)
  BY LoggingAssumption DEF Output, SinkType, Lines
<1>2. PICK l : l = lines + 1
  OBVIOUS
<1>3. /\ UNCHANGED <<sink, length, fatal, aborted, running, count, mpc, apc, new1, new2, toWrite, done,
                      file, lost>>
      /\ lpc' = [lpc EXCEPT ![t] = IF lines' = fatal THEN "flush" ELSE "idle"]
      /\ append(l)
  BY <1>1, <1>2 DEF Output, fixed, thread, back
<1>4. lpc' \in [Loggers -> {"idle", "flush", "abort"}] /\ lost' \subseteq 1 .. lines'
  BY <1>1, <1>3 DEF SinkType
<1>5. FatalInv'
  BY <1>3 DEF FatalInv
<1>6. /\ Ordered(Out(file), PendingNow, PendingLen) /\ done \in 0 .. Len(toWrite)
      /\ Held(Out(file), PendingNow, PendingLen) = (1 .. lines) \ lost
  BY DoneType, OrderBefore
<1>7. \A x \in Held(Out(file), PendingNow, PendingLen) : x < l
  BY <1>1, <1>2, <1>6
<1>8. /\ toWrite \in Seq(Seq(Lines)) /\ vector \in Seq(Seq(Lines)) /\ current \in Seq(Lines)
      /\ l \in Lines /\ Len(vector) \in Nat /\ Len(toWrite) \in Nat
  BY <1>1, <1>2 DEF SinkType
<1>9. PendingLen \in Nat \ {0}
  BY <1>6, <1>8 DEF PendingLen
<1>10. (1 .. lines') \ lost' = ((1 .. lines) \ lost) \cup {l}
  BY <1>1, <1>2, <1>3 DEF SinkType
<1>11. CASE BufferSize - Total(current) > length[l]
  <2>1. current' = Append(current, l) /\ UNCHANGED <<next, vector, notified>>
    BY <1>3, <1>11 DEF append
  <2>2. current' \in Seq(Lines)
    BY <1>8, <2>1
  <2>3. SinkType'
    BY <1>1, <1>3, <1>4, <2>1, <2>2 DEF SinkType
  <2>4. ThreadInv' /\ SparesInv'
    BY <1>3, <2>1 DEF ThreadInv, SparesInv
  <2>5. Grown(PendingNow, PendingNow', PendingLen, l)
    <3>1. Grown(PendingOf(toWrite, done, vector, current),
                PendingOf(toWrite, done, vector, Append(current, l)),
                (Len(toWrite) - done) + Len(vector) + 1, l)
      BY <1>6, <1>8, GrowPending
    <3> QED
      BY <1>3, <2>1, <3>1 DEF PendingNow, PendingLen
  <2>6. PendingLen' = PendingLen /\ Out(file') = Out(file)
    BY <1>3, <2>1 DEF PendingLen
  <2>7. PICK b, c, n, w : b = PendingNow /\ c = PendingNow' /\ n = PendingLen /\ w = Out(file)
    OBVIOUS
  <2>8. Ordered(w, c, n) /\ Held(w, c, n) = Held(w, b, n) \cup {l}
    <3>1. Ordered(w, b, n) /\ n > 0 /\ Grown(b, c, n, l) /\ \A x \in Held(w, b, n) : x < l
      BY <1>6, <1>7, <1>9, <2>5, <2>7
    <3> QED
      BY <1>8, <3>1, GrownOrdered
  <2>9. LinesInOrder'
    <3>1. /\ Ordered(Out(file'), PendingNow', PendingLen')
          /\ Held(Out(file'), PendingNow', PendingLen') = (1 .. lines') \ lost'
      BY <1>6, <1>10, <2>6, <2>7, <2>8
    <3>2. done' \in 0 .. Len(toWrite')
      BY <1>3, <1>6
    <3> QED
      BY <2>3, <3>1, <3>2, OrderAfter
  <2> QED
    BY <1>5, <2>3, <2>4, <2>9
<1>12. CASE ~(BufferSize - Total(current) > length[l])
  <2>1. /\ vector' = Append(vector, current) /\ current' = <<l>> /\ next' = FALSE
        /\ notified' = (notified \/ apc = "waiting")
    BY <1>3, <1>12 DEF append
  <2>2. current' \in Seq(Lines) /\ vector' \in Seq(Seq(Lines)) /\ Len(vector') = Len(vector) + 1
    BY <1>8, <2>1
  <2>3. SinkType'
    <3>1. notified' \in BOOLEAN /\ next' \in BOOLEAN
      BY <2>1, Zenon
    <3> QED
      BY <1>1, <1>3, <1>4, <2>1, <2>2, <3>1 DEF SinkType
  <2>4. ThreadInv' /\ SparesInv'
    <3>1. vector' # <<>>
      BY <1>8, <2>2, EmptySeq
    <3>2. ThreadInv'
      BY <1>3 DEF ThreadInv
    <3>3. SparesInv'
      BY <1>3, <3>1 DEF SparesInv
    <3> QED
      BY <3>2, <3>3
  <2>5. Added(PendingNow, PendingNow', PendingLen, l)
    <3>1. Added(PendingOf(toWrite, done, vector, current),
                PendingOf(toWrite, done, Append(vector, current), <<l>>),
                (Len(toWrite) - done) + Len(vector) + 1, l)
      BY <1>6, <1>8, AddPending
    <3> QED
      BY <1>3, <2>1, <3>1 DEF PendingNow, PendingLen
  <2>6. PendingLen' = PendingLen + 1 /\ Out(file') = Out(file)
    BY <1>3, <1>6, <1>8, <2>2 DEF PendingLen
  <2>7. PICK b, c, n, w : b = PendingNow /\ c = PendingNow' /\ n = PendingLen /\ w = Out(file)
    OBVIOUS
  <2>8. Ordered(w, c, n + 1) /\ Held(w, c, n + 1) = Held(w, b, n) \cup {l}
    <3>1. Ordered(w, b, n) /\ Added(b, c, n, l) /\ \A x \in Held(w, b, n) : x < l
      BY <1>6, <1>7, <2>5, <2>7
    <3> QED
      BY <1>8, <3>1, AddedOrdered
  <2>9. LinesInOrder'
    <3>1. /\ Ordered(Out(file'), PendingNow', PendingLen')
          /\ Held(Out(file'), PendingNow', PendingLen') = (1 .. lines') \ lost'
      BY <1>6, <1>10, <2>6, <2>7, <2>8
    <3>2. done' \in 0 .. Len(toWrite')
      BY <1>3, <1>6
    <3> QED
      BY <2>3, <3>1, <3>2, OrderAfter
  <2> QED
    BY <1>5, <2>3, <2>4, <2>9
<1> QED
  BY <1>11, <1>12

(* Steps that move no line.                                                *)
LEMMA SameOrder ==
  ASSUME LinesInOrder, SinkType', Out(file') = Out(file),
         UNCHANGED <<lines, lost, toWrite, done, vector, current>>
  PROVE  LinesInOrder'
<1>1. Written' = Written /\ Pending' = Pending
  BY Zenon DEF Written, Pending, Out
<1>2. Increasing(file'.files)
  BY DEF SinkType, FileOK
<1> QED
  BY <1>1, <1>2, Zenon DEF LinesInOrder

(* All that a LogFile was given is in its files or its buffer.             *)
LEMMA FileHasAll ==
  ASSUME SinkInv, sink = "file"
  PROVE  ToSet(Out(file)) = (1 .. lines) \ lost
<1>1. toWrite = <<>> /\ done = 0 /\ vector = <<>> /\ current = <<>>
  BY DEF SinkInv, ThreadInv, SparesInv
<1>2. PendingNow[1] = <<>> /\ PendingLen = 1
  BY <1>1, PendingNone, Zenon DEF PendingNow, PendingLen
<1>3. Held(Out(file), PendingNow, 1) = (1 .. lines) \ lost /\ Out(file) \in Seq(Lines)
  BY <1>2, DoneType, OrderBefore DEF SinkInv, Ordered
<1>4. \A p \in 1 .. 1 : ToSet(PendingNow[p]) = {}
  BY <1>2, ToSetEmpty
<1>5. ToSet(Out(file)) \subseteq Lines
  BY <1>3, ToSetIs
<1> QED
  BY <1>3, <1>4, <1>5 DEF Held

LEMMA FlushHolds ==
  ASSUME SinkInv, NEW t \in Loggers, Flush(t)
  PROVE  SinkInv'
<1> USE DEF SinkInv
<1>1. /\ UNCHANGED <<sink, length, fatal, lines, aborted, lost, current, next, vector, notified,
                      running, count, mpc, apc, new1, new2, toWrite, done>>
      /\ lpc[t] = "flush" /\ lpc' = [lpc EXCEPT ![t] = "abort"]
      /\ file' = IF sink = "file" THEN flush(file) ELSE file
  BY DEF Flush, fixed, front, thread, back
<1>2. FileOK(file)
  BY DEF SinkType
<1>3. FileOK(file') /\ Out(file') = Out(file)
  <2>1. CASE sink = "file"
    <3>1. Out(file) \in Seq(Lines)
      BY <1>2 DEF FileOK, Out
    <3>2. Follows(file, file', <<>>)
      BY <1>1, <1>2, <2>1, FlushKeeps
    <3> QED
      BY <3>1, <3>2, ConcatEmptySeq DEF Follows
  <2>2. CASE sink # "file"
    BY <1>1, <1>2, <2>2
  <2> QED
    BY <2>1, <2>2
<1>4. SinkType'
  BY <1>1, <1>3 DEF SinkType
<1>5. ThreadInv'
  BY <1>1 DEF ThreadInv
<1>6. SparesInv'
  BY <1>1 DEF SparesInv
<1>7. FatalInv'
  <2>1. SUFFICES ASSUME sink = "file" PROVE FatalInv'
    BY <1>1 DEF FatalInv
  <2>2. fatal <= lines /\ \A u \in Loggers : lpc'[u] = "flush" => fatal <= lines
    BY <1>1, <2>1 DEF FatalInv, SinkType
  <2>3. file'.disk = Out(file)
    BY <1>1, <1>2, <2>1, FlushKeeps
  <2>4. ToSet(file'.disk) = (1 .. lines) \ lost
    BY <2>1, <2>3, FileHasAll
  <2>5. 1 .. fatal \subseteq 1 .. lines
    BY <2>2 DEF SinkType
  <2>6. 1 .. fatal \subseteq ToSet(file'.disk) \cup lost
    BY <2>4, <2>5
  <2> QED
    BY <1>1, <2>2, <2>6 DEF FatalInv
<1>8. LinesInOrder'
  BY <1>1, <1>3, <1>4, SameOrder
<1> QED
  BY <1>4, <1>5, <1>6, <1>7, <1>8

LEMMA AbortHolds ==
  ASSUME SinkInv, NEW t \in Loggers, Abort(t)
  PROVE  SinkInv'
<1> USE DEF SinkInv
<1>1. /\ UNCHANGED <<sink, length, fatal, lpc, lines, lost, file, current, next, vector, notified,
                      running, count, mpc, apc, new1, new2, toWrite, done>>
      /\ lpc[t] = "abort" /\ aborted' = TRUE
  BY DEF Abort, fixed, front, thread, back
<1>2. SinkType'
  BY <1>1 DEF SinkType
<1>3. ThreadInv'
  BY <1>1 DEF ThreadInv
<1>4. SparesInv'
  BY <1>1 DEF SparesInv
<1>5. FatalInv'
  BY <1>1 DEF FatalInv
<1>6. LinesInOrder'
  BY <1>1, <1>2, SameOrder
<1> QED
  BY <1>2, <1>3, <1>4, <1>5, <1>6

-----------------------------------------------------------------------------
(* AsyncLogging::start and stop, and the thread.                           *)

LEMMA ControlHolds ==
  ASSUME SinkInv, start \/ startReturns \/ stop \/ stopReturns \/ countDown
  PROVE  SinkInv'
<1> USE DEF SinkInv
<1>1. /\ UNCHANGED <<sink, length, fatal, lpc, lines, aborted, lost, file, current, next, vector,
                      new1, new2, toWrite, done>>
      /\ running' \in BOOLEAN /\ notified' \in BOOLEAN
  <2>1. UNCHANGED <<sink, length, fatal, lpc, lines, aborted, lost, file, current, next, vector,
                    new1, new2, toWrite, done>>
    BY DEF start, startReturns, stop, stopReturns, countDown, fixed, logger, front, back
  <2>2. running \in BOOLEAN /\ notified \in BOOLEAN
    BY DEF SinkType
  <2>3. running' \in BOOLEAN
    BY <2>2 DEF start, startReturns, stop, stopReturns, countDown
  <2>4. notified' \in BOOLEAN
    <3>1. CASE stop
      BY <3>1, Zenon DEF stop
    <3>2. CASE start \/ startReturns \/ stopReturns \/ countDown
      BY <2>2, <3>2 DEF start, startReturns, stopReturns, countDown, front
    <3> QED
      BY <3>1, <3>2
  <2> QED
    BY <2>1, <2>3, <2>4
<1>2. SinkType'
  BY <1>1 DEF SinkType
<1>3. ThreadInv'
  <2>1. CASE start
    BY <1>1, <2>1 DEF ThreadInv, start
  <2>2. CASE startReturns
    BY <1>1, <2>2 DEF ThreadInv, startReturns
  <2>3. CASE stop
    BY <1>1, <2>3 DEF ThreadInv, stop
  <2>4. CASE stopReturns
    BY <1>1, <2>4 DEF ThreadInv, stopReturns
  <2>5. CASE countDown
    BY <1>1, <2>5 DEF ThreadInv, countDown
  <2> QED
    BY <2>1, <2>2, <2>3, <2>4, <2>5
<1>4. apc' = apc \/ (apc' \notin {"write", "refill"} /\ apc \notin {"write", "refill"})
  BY DEF ThreadInv, start, startReturns, stop, stopReturns, countDown
<1>5. SparesInv'
  BY <1>1, <1>4 DEF SparesInv
<1>6. FatalInv'
  BY <1>1 DEF FatalInv
<1>7. LinesInOrder'
  BY <1>1, <1>2, SameOrder
<1> QED
  BY <1>2, <1>3, <1>5, <1>6, <1>7

(* The thread is AsyncLogging's.                                           *)
LEMMA AsyncOnly ==
  ASSUME ThreadInv, SinkType, apc # "none"
  PROVE  sink = "async"
BY DEF ThreadInv, SinkType, Sinks

LEMMA OpenFileHolds ==
  ASSUME SinkInv, OpenFile
  PROVE  SinkInv'
<1> USE DEF SinkInv
<1>1. /\ UNCHANGED <<sink, length, fatal, lpc, lines, aborted, lost, current, next, vector,
                      notified, running, count, mpc, new1, new2, toWrite, done>>
      /\ apc = "open" /\ apc' = "top"
  BY DEF OpenFile, fixed, logger, front, back
<1>2. PICK now \in 1 .. MaxNow : file' = NewLogFile(now)
  BY DEF OpenFile
<1>3. FileOK(file') /\ file'.disk = <<>> /\ file'.buf = <<>>
  <2>1. now \in Nat \ {0}
    BY LoggingAssumption
  <2> QED
    BY <1>2, <2>1, NewLogFileOK
<1>4. sink = "async" /\ file.buf = <<>> /\ file.disk = <<>>
  BY <1>1, AsyncOnly DEF ThreadInv
<1>5. SinkType'
  BY <1>1, <1>3 DEF SinkType
<1>6. ThreadInv'
  BY <1>1, <1>4 DEF ThreadInv
<1>7. SparesInv'
  BY <1>1 DEF SparesInv
<1>8. FatalInv'
  BY <1>1, <1>4 DEF FatalInv
<1>9. Out(file') = Out(file)
  BY <1>3, <1>4 DEF Out
<1>10. LinesInOrder'
  BY <1>1, <1>5, <1>9, SameOrder
<1> QED
  BY <1>5, <1>6, <1>7, <1>8, <1>10

LEMMA CheckRunningHolds ==
  ASSUME SinkInv, CheckRunning
  PROVE  SinkInv'
<1> USE DEF SinkInv
<1>1. /\ UNCHANGED <<sink, length, fatal, lpc, lines, aborted, lost, current, next, vector,
                      notified, running, count, mpc, new1, new2, toWrite, done>>
      /\ apc = "top" /\ apc' \in {"lock", "end"} /\ file' \in {file, flush(file)}
  BY DEF CheckRunning, fixed, logger, front, back
<1>2. FileOK(file') /\ Out(file') = Out(file)
  <2>1. FileOK(file) /\ Out(file) \in Seq(Lines)
    BY DEF SinkType, FileOK, Out
  <2>2. CASE file' = file
    BY <2>1, <2>2
  <2>3. CASE file' = flush(file)
    <3>1. Follows(file, file', <<>>)
      BY <2>1, <2>3, FlushKeeps
    <3> QED
      BY <2>1, <3>1, ConcatEmptySeq DEF Follows
  <2> QED
    BY <1>1, <2>2, <2>3
<1>3. sink = "async"
  BY <1>1, AsyncOnly
<1>4. SinkType'
  BY <1>1, <1>2 DEF SinkType
<1>5. ThreadInv'
  BY <1>1, <1>3 DEF ThreadInv
<1>6. SparesInv'
  BY <1>1 DEF SparesInv
<1>7. FatalInv'
  BY <1>1, <1>3 DEF FatalInv
<1>8. LinesInOrder'
  BY <1>1, <1>2, <1>4, SameOrder
<1> QED
  BY <1>4, <1>5, <1>6, <1>7, <1>8

(* The buffers are taken, and those beyond the limit dropped.              *)
LEMMA TakeHolds ==
  ASSUME SinkInv, apc \in {"lock", "waiting"}, TakeBuffers,
         UNCHANGED <<sink, length, fatal, lpc, lines, aborted, file, running, count, mpc>>
  PROVE  SinkInv'
<1> USE DEF SinkInv
<1>1. PICK all, tw, m, n : all = Append(vector, current) /\ tw = toWrite' /\ m = Len(tw) /\ n = Len(all)
  OBVIOUS
<1>2. /\ tw = (IF n > MaxBuffers THEN SubSeq(all, 1, 2) ELSE all)
      /\ lost' = lost \cup UNION {ToSet(all[i]) : i \in m + 1 .. n}
      /\ done' = 0 /\ vector' = <<>> /\ current' = <<>> /\ new1' = FALSE /\ next' = TRUE
      /\ new2' = (new2 /\ next) /\ notified' = FALSE /\ apc' = "write"
  BY <1>1 DEF TakeBuffers
<1>3. /\ vector \in Seq(Seq(Lines)) /\ current \in Seq(Lines) /\ lines \in Nat
      /\ new2 /\ next \in BOOLEAN /\ toWrite = <<>> /\ done = 0 /\ lost \subseteq 1 .. lines
  BY DEF SinkType, SparesInv
<1>4. /\ all \in Seq(Seq(Lines)) /\ n = Len(vector) + 1 /\ n \in Nat \ {0}
      /\ (vector # <<>> => n >= 2)
  BY <1>1, <1>3
<1>5. /\ tw \in Seq(Seq(Lines)) /\ m \in Nat \ {0} /\ m <= n /\ (n >= 2 => m >= 2)
      /\ \A i \in 1 .. m : tw[i] = all[i]
  <2>1. CASE n > MaxBuffers
    <3>1. n >= 2 /\ tw = SubSeq(all, 1, 2)
      BY <1>2, <1>4, <2>1, LoggingAssumption
    <3> QED
      BY <1>1, <1>4, <3>1
  <2>2. CASE ~(n > MaxBuffers)
    BY <1>1, <1>2, <1>4, <2>2
  <2> QED
    BY <2>1, <2>2
<1>6. /\ Ordered(Out(file), PendingNow, n)
      /\ Held(Out(file), PendingNow, n) = (1 .. lines) \ lost
  <2>1. PendingLen = n
    BY <1>3, <1>4 DEF PendingLen
  <2> QED
    BY <2>1, DoneType, OrderBefore
<1>7. /\ Cut(PendingNow, PendingNow', m)
      /\ \A i \in 1 .. n : PendingNow[i] = all[i]
  <2>1. PICK v, c : v = vector /\ c = current
    OBVIOUS
  <2>2. /\ v \in Seq(Seq(Lines)) /\ c \in Seq(Lines) /\ all = Append(v, c) /\ Len(tw) <= Len(v) + 1
        /\ Begins(tw, all)
    BY <1>1, <1>3, <1>4, <1>5, <2>1 DEF Begins
  <2>3. /\ Cut(PendingOf(<<>>, 0, v, c), PendingOf(tw, 0, <<>>, <<>>), Len(tw))
        /\ \A i \in 1 .. Len(v) + 1 : PendingOf(<<>>, 0, v, c)[i] = all[i]
    <3>1. Taken(v, c, tw, all)
      BY <1>5, <2>2, TakePending
    <3> QED
      BY <3>1, Zenon DEF Taken
  <2>4. PendingNow = PendingOf(<<>>, 0, v, c) /\ PendingNow' = PendingOf(tw, 0, <<>>, <<>>)
    BY <1>1, <1>2, <1>3, <2>1, Zenon DEF PendingNow
  <2> QED
    BY <1>1, <1>4, <2>1, <2>3, <2>4
<1>8. PICK w, b, c : w = Out(file) /\ b = PendingNow /\ c = PendingNow'
  OBVIOUS
<1>9. /\ Ordered(w, c, m + 1)
      /\ Held(w, c, m + 1) = {l \in Held(w, b, n) : \A p \in m + 1 .. n : l \notin ToSet(b[p])}
  <2>1. Ordered(w, b, n) /\ Cut(b, c, m) /\ m \in 0 .. n
    BY <1>4, <1>5, <1>6, <1>7, <1>8
  <2> QED
    BY <2>1, CutOrdered
<1>10. \A l : l \in lost' <=> l \in lost \/ \E i \in m + 1 .. n : l \in ToSet(all[i])
  BY <1>2, Zenon
<1>11. \A i \in m + 1 .. n : i \in 1 .. n /\ b[i] = all[i]
  BY <1>4, <1>5, <1>7, <1>8
<1>12. \A i \in 1 .. n : ToSet(b[i]) \subseteq (1 .. lines) \ lost
  <2>1. ASSUME NEW i \in 1 .. n, NEW x \in ToSet(b[i]) PROVE x \in (1 .. lines) \ lost
    <3>1. b[i] \in Seq(Lines)
      BY <1>6, <1>8 DEF Ordered
    <3>2. x \in Lines
      BY <3>1, <2>1, ToSetIs
    <3>3. x \in Held(w, b, n)
      BY <2>1, <3>2 DEF Held
    <3> QED
      BY <1>6, <1>8, <3>3
  <2> QED
    BY <2>1
<1>13. lost' \subseteq 1 .. lines
  BY <1>3, <1>10, <1>11, <1>12
<1>14. Held(w, c, m + 1) = (1 .. lines) \ lost'
  <2>1. Held(w, b, n) = (1 .. lines) \ lost
    BY <1>6, <1>8
  <2>2. ASSUME NEW x \in Held(w, c, m + 1) PROVE x \in (1 .. lines) \ lost'
    BY <1>9, <1>10, <1>11, <2>1
  <2>3. ASSUME NEW x \in (1 .. lines) \ lost' PROVE x \in Held(w, c, m + 1)
    BY <1>9, <1>10, <1>11, <2>1
  <2> QED
    BY <2>2, <2>3
<1>15. SinkType'
  <2>1. new2' \in BOOLEAN /\ new1' \in BOOLEAN /\ next' \in BOOLEAN /\ notified' \in BOOLEAN
    BY <1>2, Zenon
  <2>2. vector' \in Seq(Seq(Lines)) /\ current' \in Seq(Lines) /\ toWrite' \in Seq(Seq(Lines))
    BY <1>1, <1>2, <1>5, EmptySeq
  <2> QED
    BY <1>13, <2>1, <2>2 DEF SinkType
<1>16. sink = "async"
  BY AsyncOnly
<1>17. ThreadInv'
  BY <1>2, <1>16 DEF ThreadInv
<1>18. SparesInv'
  <2>1. new2' <=> next
    BY <1>2, <1>3
  <2>2. ~next => m >= 2
    BY <1>4, <1>5 DEF SparesInv
  <2>3. Len(toWrite') = m
    BY <1>1
  <2>4. m >= (IF new2' THEN 1 ELSE 2)
    BY <1>5, <2>1, <2>2
  <2>5. 0 \in 0 .. m - 1
    BY <1>5
  <2> QED
    BY <1>2, <2>3, <2>4, <2>5 DEF SparesInv
<1>19. FatalInv'
  BY <1>16 DEF FatalInv
<1>20. LinesInOrder'
  <2>1. PendingLen' = m + 1 /\ Out(file') = w /\ done' \in 0 .. Len(toWrite')
    BY <1>1, <1>2, <1>5, <1>8 DEF PendingLen
  <2>2. /\ Ordered(Out(file'), PendingNow', PendingLen')
        /\ Held(Out(file'), PendingNow', PendingLen') = (1 .. lines') \ lost'
    BY <1>8, <1>9, <1>14, <2>1
  <2> QED
    BY <1>15, <2>1, <2>2, OrderAfter
<1> QED
  BY <1>15, <1>17, <1>18, <1>19, <1>20

LEMMA lockAndTakeHolds ==
  ASSUME SinkInv, lockAndTake
  PROVE  SinkInv'
<1>1. UNCHANGED <<sink, length, fatal, lpc, lines, aborted, file, running, count, mpc>> /\ apc = "lock"
  BY DEF lockAndTake, fixed, logger
<1>2. CASE vector = <<>>
  <2> USE DEF SinkInv
  <2>1. /\ UNCHANGED <<lost, current, next, vector, notified, new1, new2, toWrite, done>>
        /\ apc' = "waiting" /\ sink = "async"
    BY <1>1, <1>2, AsyncOnly DEF lockAndTake, front, back
  <2>2. SinkType'
    BY <1>1, <2>1 DEF SinkType
  <2>3. ThreadInv'
    BY <1>1, <2>1 DEF ThreadInv
  <2>4. SparesInv'
    BY <1>1, <2>1 DEF SparesInv
  <2>5. FatalInv'
    BY <1>1, <2>1 DEF FatalInv
  <2>6. LinesInOrder'
    BY <1>1, <2>1, <2>2, SameOrder
  <2> QED
    BY <2>2, <2>3, <2>4, <2>5, <2>6
<1>3. CASE vector # <<>>
  BY <1>1, <1>3, TakeHolds DEF lockAndTake
<1> QED
  BY <1>2, <1>3

LEMMA waitForSecondsHolds ==
  ASSUME SinkInv, waitForSeconds
  PROVE  SinkInv'
BY TakeHolds DEF waitForSeconds, fixed, logger

(* A buffer is written, or its lines are lost.                             *)
LEMMA WriteBufferHolds ==
  ASSUME SinkInv, WriteBuffer
  PROVE  SinkInv'
<1> USE DEF SinkInv
<1>1. /\ UNCHANGED <<sink, length, fatal, lpc, lines, aborted, current, next, vector, notified,
                      running, count, mpc, new1, new2, toWrite>>
      /\ apc = "write" /\ FileAppends(toWrite[done + 1]) /\ done' = done + 1
      /\ apc' = IF done' = Len(toWrite) THEN "refill" ELSE "write"
  BY DEF WriteBuffer, fixed, logger, front
<1>2. PICK k, dn, ls : k = Len(toWrite) /\ dn = done /\ ls = toWrite[done + 1]
  OBVIOUS
<1>3. /\ toWrite \in Seq(Seq(Lines)) /\ vector \in Seq(Seq(Lines)) /\ current \in Seq(Lines)
      /\ FileOK(file) /\ Len(vector) \in Nat
  BY DEF SinkType
<1>4. k \in Nat /\ dn \in 0 .. k - 1 /\ dn + 1 \in 1 .. k /\ ls \in Seq(Lines)
  <2>1. k \in Nat /\ dn \in 0 .. k - 1 /\ dn + 1 \in 1 .. k
    BY <1>1, <1>2, <1>3 DEF SparesInv
  <2> QED
    BY <1>2, <1>3, <2>1
<1>5. PICK ok \in BOOLEAN :
        /\ Follows(file, file', IF ok THEN ls ELSE <<>>)
        /\ lost' = IF ok THEN lost ELSE ToSet(ls)
        /\ ~ok => lost = {}
  <2>1. FileAppends(ls)
    BY <1>1, <1>2
  <2> QED
    BY <1>3, <1>4, <2>1, FileAppendsIs
<1>6. PICK w, b, c, n : w = Out(file) /\ b = PendingNow /\ c = PendingNow' /\ n = PendingLen
  OBVIOUS
<1>7. n = (k - dn) + Len(vector) + 1 /\ PendingLen' = n - 1 /\ n > 0
  <2>1. PendingLen' = (k - (dn + 1)) + Len(vector) + 1
    BY <1>1, <1>2 DEF PendingLen
  <2> QED
    BY <1>2, <1>3, <1>4, <1>6, <2>1 DEF PendingLen
<1>8. Ordered(w, b, n) /\ Held(w, b, n) = (1 .. lines) \ lost
  BY <1>6, DoneType, OrderBefore
<1>9. Shifted(b, c, n) /\ b[1] = ls
  <2>1. PICK tw, v, cu : tw = toWrite /\ v = vector /\ cu = current
    OBVIOUS
  <2>2. tw \in Seq(Seq(Lines)) /\ dn \in 0 .. Len(tw) - 1 /\ v \in Seq(Seq(Lines)) /\ cu \in Seq(Lines)
    BY <1>2, <1>3, <1>4, <2>1
  <2>3. /\ Shifted(PendingOf(tw, dn, v, cu), PendingOf(tw, dn + 1, v, cu),
                   (Len(tw) - dn) + Len(v) + 1)
        /\ PendingOf(tw, dn, v, cu)[1] = tw[dn + 1]
    BY <2>2, ShiftPending
  <2>4. b = PendingOf(tw, dn, v, cu) /\ c = PendingOf(tw, dn + 1, v, cu)
    BY <1>1, <1>2, <1>6, <2>1, Zenon DEF PendingNow
  <2>5. n = (Len(tw) - dn) + Len(v) + 1 /\ ls = tw[dn + 1]
    BY <1>2, <1>7, <2>1
  <2> QED
    BY <2>3, <2>4, <2>5
<1>10. /\ Ordered(w \o ls, c, n - 1) /\ Held(w \o ls, c, n - 1) = Held(w, b, n)
       /\ Ordered(w, c, n - 1) /\ Held(w, c, n - 1) = Held(w, b, n) \ ToSet(ls)
  <2>1. /\ Ordered(w \o b[1], c, n - 1) /\ Held(w \o b[1], c, n - 1) = Held(w, b, n)
        /\ Ordered(w, c, n - 1) /\ Held(w, c, n - 1) = Held(w, b, n) \ ToSet(b[1])
    BY <1>7, <1>8, <1>9, ShiftedOrdered
  <2> QED
    BY <1>9, <2>1
<1>11. ToSet(ls) \subseteq (1 .. lines) \ lost
  <2>1. ASSUME NEW x \in ToSet(ls) PROVE x \in (1 .. lines) \ lost
    <3>1. x \in Lines /\ 1 \in 1 .. n /\ x \in ToSet(b[1])
      BY <1>4, <1>7, <1>8, <1>9, <2>1, ToSetIs DEF Ordered
    <3>2. x \in Held(w, b, n)
      BY <3>1 DEF Held
    <3> QED
      BY <1>8, <3>2
  <2> QED
    BY <2>1
<1>12. lost' \subseteq 1 .. lines
  BY <1>5, <1>11 DEF SinkType
<1>13. /\ Ordered(Out(file'), c, n - 1)
       /\ Held(Out(file'), c, n - 1) = (1 .. lines) \ lost'
  <2>1. CASE ok
    <3>1. Out(file') = w \o ls /\ lost' = lost
      BY <1>5, <1>6, <2>1 DEF Follows
    <3> QED
      BY <1>8, <1>10, <3>1
  <2>2. CASE ~ok
    <3>1. w \in Seq(Lines)
      BY <1>8 DEF Ordered
    <3>2. Out(file') = w \o <<>> /\ lost' = ToSet(ls) /\ lost = {}
      BY <1>5, <1>6, <2>2 DEF Follows
    <3>3. Out(file') = w
      BY <3>1, <3>2, ConcatEmptySeq
    <3> QED
      BY <1>8, <1>10, <3>2, <3>3
  <2> QED
    BY <2>1, <2>2
<1>14. SinkType'
  <2>1. FileOK(file')
    BY <1>5 DEF Follows
  <2> QED
    BY <1>1, <1>12, <2>1 DEF SinkType
<1>15. sink = "async"
  BY <1>1, AsyncOnly
<1>16. ThreadInv'
  BY <1>1, <1>15 DEF ThreadInv
<1>17. SparesInv'
  <2>1. CASE dn + 1 = k
    BY <1>1, <1>2, <2>1 DEF SparesInv
  <2>2. CASE dn + 1 # k
    <3>1. dn + 1 \in 0 .. k - 1
      BY <1>4, <2>2
    <3> QED
      BY <1>1, <1>2, <2>2, <3>1 DEF SparesInv
  <2> QED
    BY <2>1, <2>2
<1>18. FatalInv'
  BY <1>1, <1>15 DEF FatalInv
<1>19. LinesInOrder'
  <2>1. done' \in 0 .. Len(toWrite')
    BY <1>1, <1>2, <1>4
  <2>2. /\ Ordered(Out(file'), PendingNow', PendingLen')
        /\ Held(Out(file'), PendingNow', PendingLen') = (1 .. lines') \ lost'
    BY <1>1, <1>6, <1>7, <1>13
  <2> QED
    BY <1>14, <2>1, <2>2, OrderAfter
<1> QED
  BY <1>14, <1>16, <1>17, <1>18, <1>19

(* The buffers written become spares again: there are as many as the       *)
(* thread has given.                                                       *)
LEMMA RefillHolds ==
  ASSUME SinkInv, Refill
  PROVE  SinkInv'
<1> USE DEF SinkInv
<1>1. PICK k : k = IF done > KeptBuffers THEN KeptBuffers ELSE done
  OBVIOUS
<1>2. /\ UNCHANGED <<sink, length, fatal, lpc, lines, aborted, lost, current, next, vector,
                      notified, running, count, mpc>>
      /\ apc = "refill" /\ apc' = "top" /\ toWrite' = <<>> /\ done' = 0 /\ file' = flush(file)
      /\ new1' = (new1 \/ k > 0)
      /\ new2' = (new2 \/ k > (IF new1 THEN 0 ELSE 1))
  BY <1>1 DEF Refill, fixed, logger, front
<1>3. toWrite \in Seq(Seq(Lines)) /\ Len(toWrite) \in Nat /\ done = Len(toWrite) /\ FileOK(file)
  BY <1>2 DEF SinkType, SparesInv
<1>4. done >= (IF new2 THEN 1 ELSE 2)
  BY <1>2, <1>3 DEF SparesInv
<1>5. k > 0 /\ (~new2 => k > 1)
  BY <1>1, <1>3, <1>4 DEF KeptBuffers
<1>6. new1' /\ new2'
  <2>1. k > 0
    BY <1>5
  <2>2. new2 \/ k > (IF new1 THEN 0 ELSE 1)
    BY <1>5
  <2> QED
    BY <1>2, <2>1, <2>2, Zenon
<1>7. new1' \in BOOLEAN /\ new2' \in BOOLEAN
  BY <1>2, Zenon
<1>8. FileOK(file') /\ Out(file') = Out(file)
  <2>1. Out(file) \in Seq(Lines)
    BY <1>3 DEF FileOK, Out
  <2>2. Follows(file, file', <<>>)
    BY <1>2, <1>3, FlushKeeps
  <2> QED
    BY <2>1, <2>2, ConcatEmptySeq DEF Follows
<1>9. SinkType'
  <2>1. toWrite' \in Seq(Seq(Lines))
    BY <1>2, EmptySeq
  <2> QED
    BY <1>2, <1>7, <1>8, <2>1 DEF SinkType
<1>10. sink = "async"
  BY <1>2, AsyncOnly
<1>11. ThreadInv'
  BY <1>2, <1>10 DEF ThreadInv
<1>12. SparesInv'
  BY <1>2, <1>6 DEF SparesInv
<1>13. FatalInv'
  BY <1>2, <1>10 DEF FatalInv
<1>14. LinesInOrder'
  <2>1. PICK v, c : v = vector /\ c = current
    OBVIOUS
  <2>2. PendingOf(toWrite, Len(toWrite), v, c) = PendingOf(<<>>, 0, v, c)
    BY <1>3, RefillPending
  <2>3. PendingNow = PendingOf(toWrite, Len(toWrite), v, c) /\ PendingNow' = PendingOf(<<>>, 0, v, c)
    BY <1>2, <1>3, <2>1, Zenon DEF PendingNow
  <2>4. PendingLen' = PendingLen
    <3>1. Len(toWrite) - done = 0 /\ Len(<<>>) - 0 = 0
      BY <1>3
    <3> QED
      BY <1>2, <3>1 DEF PendingLen
  <2>5. Ordered(Out(file), PendingNow, PendingLen) /\ Held(Out(file), PendingNow, PendingLen) = (1 .. lines) \ lost
    BY DoneType, OrderBefore
  <2>6. done' \in 0 .. Len(toWrite')
    BY <1>2
  <2>7. /\ Ordered(Out(file'), PendingNow', PendingLen')
        /\ Held(Out(file'), PendingNow', PendingLen') = (1 .. lines') \ lost'
    BY <1>2, <1>8, <2>2, <2>3, <2>4, <2>5
  <2> QED
    BY <1>9, <2>6, <2>7, OrderAfter
<1> QED
  BY <1>9, <1>11, <1>12, <1>13, <1>14

-----------------------------------------------------------------------------
LEMMA InitHolds == Init => SinkInv
<1> SUFFICES ASSUME Init PROVE SinkInv
  OBVIOUS
<1> USE DEF Init, LoggingInit
<1>1. FileOK(file) /\ file.disk = <<>> /\ file.buf = <<>>
  BY NewLogFileOK
<1>2. SinkType
  <2>1. <<>> \in Seq(Lines) /\ <<>> \in Seq(Seq(Lines)) /\ 0 \in 0 .. MaxLines
    BY EmptySeq, LoggingAssumption
  <2> QED
    BY <1>1, <2>1 DEF SinkType
<1>3. ThreadInv
  BY <1>1 DEF ThreadInv
<1>4. SparesInv
  BY DEF SparesInv
<1>5. FatalInv
  BY DEF FatalInv
<1>6. LinesInOrder
  <2>1. Written = <<>> /\ Increasing(file.files)
    BY <1>1 DEF Written, FileOK
  <2>2. Pending = << <<>> >>
    <3>1. SubSeq(<<>>, 0 + 1, 0) = <<>> /\ Len(<<>>) = 0
      BY SubSeqEmpty
    <3>2. <<>> \o Append(<<>>, <<>>) = << <<>> >>
      OBVIOUS
    <3> QED
      BY <3>1, <3>2 DEF Pending
  <2>3. DOMAIN Pending = {1} /\ Pending[1] = <<>>
    BY <2>2
  <2>4. ToSet(Written) = {} /\ ToSet(Pending[1]) = {} /\ Increasing(Written) /\ Increasing(Pending[1])
    BY <2>1, <2>3, ToSetEmpty
  <2>5. ToSet(Written) \cup UNION {ToSet(Pending[p]) : p \in DOMAIN Pending} = {}
    BY <2>3, <2>4, Zenon
  <2>6. (1 .. lines) \ lost = {}
    OBVIOUS
  <2> QED
    BY <2>1, <2>3, <2>4, <2>5, <2>6 DEF LinesInOrder, Before
<1> QED
  BY <1>2, <1>3, <1>4, <1>5, <1>6 DEF SinkInv

LEMMA StepHolds == SinkInv /\ [SinkPart \/ StreamPart]_allVars => SinkInv'
<1> SUFFICES ASSUME SinkInv, [SinkPart \/ StreamPart]_allVars PROVE SinkInv'
  OBVIOUS
<1>1. CASE UNCHANGED logVars
  <2>1. /\ UNCHANGED <<sink, length, fatal, lpc, lines, aborted, lost, file, current, next, vector>>
        /\ UNCHANGED <<notified, running, count, mpc, apc, new1, new2, toWrite, done>>
    BY <1>1 DEF logVars
  <2>2. SinkType'
    BY <2>1 DEF SinkInv, SinkType
  <2>3. ThreadInv' /\ SparesInv'
    BY <2>1 DEF SinkInv, ThreadInv, SparesInv
  <2>4. FatalInv'
    BY <2>1 DEF SinkInv, FatalInv
  <2>5. LinesInOrder'
    BY <2>1, <2>2, SameOrder DEF SinkInv
  <2> QED
    BY <2>2, <2>3, <2>4, <2>5 DEF SinkInv
<1>2. CASE UNCHANGED allVars
  BY <1>1, <1>2 DEF allVars
<1>3. CASE StreamPart
  BY <1>1, <1>3 DEF StreamPart
<1>4. CASE SinkPart
  <2>1. LoggingNext
    BY <1>4 DEF SinkPart
  <2>2. ASSUME NEW t \in Loggers, LoggerStep(t) PROVE SinkInv'
    <3>1. CASE Output(t)
      <4>1. sink = "file" \/ sink = "async"
        BY <3>1 DEF Output
      <4> QED
        BY <3>1, <4>1, OutputToFile, OutputToBuffer
    <3>2. CASE Flush(t)
      BY <3>2, FlushHolds
    <3>3. CASE Abort(t)
      BY <3>3, AbortHolds
    <3> QED
      BY <2>2, <3>1, <3>2, <3>3 DEF LoggerStep
  <2>3. CASE start \/ startReturns \/ stop \/ stopReturns \/ countDown
    BY <2>3, ControlHolds
  <2>4. CASE OpenFile
    BY <2>4, OpenFileHolds
  <2>5. CASE CheckRunning
    BY <2>5, CheckRunningHolds
  <2>6. CASE lockAndTake
    BY <2>6, lockAndTakeHolds
  <2>7. CASE waitForSeconds
    BY <2>7, waitForSecondsHolds
  <2>8. CASE WriteBuffer
    BY <2>8, WriteBufferHolds
  <2>9. CASE Refill
    BY <2>9, RefillHolds
  <2> QED
    BY <2>1, <2>2, <2>3, <2>4, <2>5, <2>6, <2>7, <2>8, <2>9 DEF LoggingNext, threadFunc
<1> QED
  BY <1>2, <1>3, <1>4

-----------------------------------------------------------------------------
(* Whatever the threads do, the invariant of the sinks holds: of           *)
(* logging.cpp's output, async_logging.cpp's thread and log_file.cpp.      *)
THEOREM SinkInvariant == Spec => []SinkInv
<1>1. Init => SinkInv
  BY InitHolds
<1>2. SinkInv /\ [SinkPart \/ StreamPart]_allVars => SinkInv'
  BY StepHolds
<1> QED
  BY <1>1, <1>2, PTL DEF Spec

(* AsyncLogging's thread, which gives new_buffer1 and new_buffer2 away     *)
(* under the lock and takes them back from what it has written, has both   *)
(* whenever it comes back to the top of its loop.                          *)
THEOREM BuffersAlwaysSuffice == Spec => []BuffersSuffice
<1>1. SinkInv => BuffersSuffice
  BY DEF SinkInv, SparesInv, BuffersSuffice
<1> QED
  BY <1>1, SinkInvariant, PTL

(* When ~Logger aborts over a fatal line logged to a LogFile, that line    *)
(* and all before it have reached the files, but for those stdio failed to *)
(* write.                                                                  *)
THEOREM FatalReachesDisk == Spec => []FatalOnDisk
<1>1. SinkInv => FatalOnDisk
  BY DEF SinkInv, FatalInv, FatalOnDisk
<1> QED
  BY <1>1, SinkInvariant, PTL

(* Through the buffers of AsyncLogging, the buffer of stdio and the files  *)
(* that LogFile rolls, every line stays, once and in order, unless it was  *)
(* dropped or could not be written; and rollFile opens no file again.      *)
THEOREM LinesKeepOrder == Spec => []LinesInOrder
<1>1. SinkInv => LinesInOrder
  BY DEF SinkInv
<1> QED
  BY <1>1, SinkInvariant, PTL

(* The sinks' half of TypeOK.                                              *)
THEOREM LoggingTypeCorrect == Spec => []LoggingTypeOK
<1>1. SinkInv => LoggingTypeOK
  <2> SUFFICES ASSUME SinkInv PROVE LoggingTypeOK
    OBVIOUS
  <2> USE DEF SinkInv
  <2>1. done \in 0 .. Len(toWrite)
    BY DoneType
  <2>2. lost \in SUBSET Lines
    BY LoggingAssumption DEF SinkType, Lines
  <2>3. {file.buf, file.disk, current} \subseteq Seq(Lines) /\ file.count \in 0 .. CheckEveryN - 1
    BY DEF SinkType, FileOK
  <2>4. {vector, toWrite} \subseteq Seq(Seq(Lines))
    BY DEF SinkType
  <2>5. \A b \in {aborted, next, notified, running, new1, new2} : b \in BOOLEAN
    BY Zenon DEF SinkType
  <2>6. count \in {0, 1}
    BY DEF ThreadInv
  <2> QED
    BY <2>1, <2>2, <2>3, <2>4, <2>5, <2>6 DEF LoggingTypeOK, SinkType, ThreadInv
<1> QED
  BY <1>1, SinkInvariant, PTL

-----------------------------------------------------------------------------
(* LogStream: recursive definitions.  A set that has 0 and, with a number, *)
(* the next one has all of them.                                           *)
LEMMA Induction ==
  ASSUME NEW T, 0 \in T, \A n \in Nat : n \in T => n + 1 \in T
  PROVE  \A n \in Nat : n \in T
<1> SUFFICES ASSUME NEW x \in Nat, x \notin T PROVE FALSE
  OBVIOUS
<1> DEFINE U == {n \in Nat : n \notin T}
           R == OpToRel(<, Nat)
<1>1. U \subseteq Nat /\ U # {}
  OBVIOUS
<1>2. \E u \in U : \A v \in U : <<v, u>> \notin R
  <2>1. IsWellFoundedOn(R, Nat)
    BY NatLessThanWellFounded
  <2> HIDE DEF U, R
  <2> QED
    BY <1>1, <2>1, WFMin
<1>3. PICK u \in U : \A v \in U : <<v, u>> \notin R
  BY <1>2
<1>4. u \in Nat /\ u \notin T /\ u # 0
  BY <1>3
<1>5. u - 1 \in Nat /\ (u - 1) + 1 = u /\ u - 1 < u
  BY <1>4
<1>6. u - 1 \notin T
  BY <1>4, <1>5
<1>7. u - 1 \in U /\ <<u - 1, u>> \in R
  BY <1>4, <1>5, <1>6 DEF OpToRel
<1> QED
  BY <1>3, <1>7

(* The equation of the function val in Value, up to n.                     *)
Valuing(s, base, n, f) ==
  f = [k \in 0 .. n |-> IF k = 0 THEN 0 ELSE f[k - 1] * base + s[k]]

LEMMA ValuingExists ==
  ASSUME NEW s, NEW base
  PROVE  \A n \in Nat : \E f : Valuing(s, base, n, f)
<1> DEFINE T == {n \in Nat : \E f : Valuing(s, base, n, f)}
<1>1. 0 \in T
  <2>1. PICK f : f = [k \in 0 .. 0 |-> 0]
    OBVIOUS
  <2>2. Valuing(s, base, 0, f)
    BY <2>1 DEF Valuing
  <2> QED
    BY <2>2
<1>2. ASSUME NEW n \in Nat, n \in T PROVE n + 1 \in T
  <2>1. PICK f : Valuing(s, base, n, f)
    BY <1>2
  <2>2. PICK x : x = f[n] * base + s[n + 1]
    OBVIOUS
  <2>3. PICK g : g = [k \in 0 .. n + 1 |-> IF k = n + 1 THEN x ELSE f[k]]
    OBVIOUS
  <2>4. g[n + 1] = x /\ \A k \in 0 .. n : g[k] = f[k]
    BY <2>3
  <2>5. \A k \in 0 .. n : f[k] = IF k = 0 THEN 0 ELSE f[k - 1] * base + s[k]
    BY <2>1 DEF Valuing
  <2>6. ASSUME NEW k \in 0 .. n + 1
        PROVE  (IF k = n + 1 THEN x ELSE f[k]) = IF k = 0 THEN 0 ELSE g[k - 1] * base + s[k]
    <3>1. CASE k = n + 1
      <4>1. k # 0 /\ k - 1 = n /\ n \in 0 .. n
        BY <3>1
      <4> QED
        BY <2>2, <2>4, <3>1, <4>1
    <3>2. CASE k # n + 1
      <4>1. k \in 0 .. n /\ (k # 0 => k - 1 \in 0 .. n)
        BY <3>2
      <4> QED
        BY <2>4, <2>5, <3>2, <4>1
    <3> QED
      BY <3>1, <3>2
  <2>7. Valuing(s, base, n + 1, g)
    BY <2>3, <2>6 DEF Valuing
  <2> QED
    BY <2>7
<1> HIDE DEF T
<1>3. \A n \in Nat : n \in T
  BY <1>1, <1>2, Induction
<1> QED
  BY <1>3 DEF T

(* f gives the value of s, of length n, and of what s begins with.         *)
ValueBy(s, base, n, f) ==
  /\ Value(s, base) = f[n]
  /\ f[0] = 0
  /\ \A k \in 1 .. n : f[k] = f[k - 1] * base + s[k]

LEMMA ValueIs ==
  ASSUME NEW s, NEW n \in Nat, Len(s) = n, NEW base
  PROVE  \E f : ValueBy(s, base, n, f)
<1>1. PICK f : f = CHOOSE g : Valuing(s, base, Len(s), g)
  OBVIOUS
<1>2. Value(s, base) = f[Len(s)]
  BY <1>1, Zenon DEF Value, Valuing
<1>3. Valuing(s, base, n, f)
  BY <1>1, ValuingExists
<1>4. f[0] = 0 /\ \A k \in 1 .. n : f[k] = f[k - 1] * base + s[k]
  BY <1>3 DEF Valuing
<1> QED
  BY <1>2, <1>4 DEF ValueBy

(* A digit more at the end.                                                *)
LEMMA ValueAppend ==
  ASSUME NEW S, NEW s \in Seq(S), NEW d \in S, NEW base
  PROVE  Value(Append(s, d), base) = Value(s, base) * base + d
<1>1. PICK z, n : z = Append(s, d) /\ n = Len(s)
  OBVIOUS
<1>2. /\ n \in Nat /\ Len(z) = n + 1 /\ z[n + 1] = d
      /\ \A k \in 1 .. n : z[k] = s[k]
  BY <1>1, AppendProperties
<1>3. PICK f : ValueBy(s, base, n, f)
  BY <1>1, <1>2, ValueIs
<1>4. PICK g : ValueBy(z, base, n + 1, g)
  <2>1. n + 1 \in Nat /\ Len(z) = n + 1
    BY <1>2
  <2> QED
    BY <2>1, ValueIs
<1> DEFINE T == {k \in Nat : k <= n => f[k] = g[k]}
<1>5. 0 \in T
  BY <1>3, <1>4 DEF ValueBy
<1>6. ASSUME NEW k \in Nat, k \in T PROVE k + 1 \in T
  <2> SUFFICES ASSUME k + 1 <= n PROVE f[k + 1] = g[k + 1]
    OBVIOUS
  <2>1. k + 1 \in 1 .. n /\ k + 1 \in 1 .. n + 1 /\ (k + 1) - 1 = k /\ k <= n
    BY <1>2
  <2>2. f[k] = g[k]
    BY <1>6, <2>1
  <2>3. f[k + 1] = f[k] * base + s[k + 1]
    BY <1>3, <2>1 DEF ValueBy
  <2>4. g[k + 1] = g[k] * base + z[k + 1]
    BY <1>4, <2>1 DEF ValueBy
  <2>5. z[k + 1] = s[k + 1]
    BY <1>2, <2>1
  <2> QED
    BY <2>2, <2>3, <2>4, <2>5, Zenon
<1>7. \A k \in Nat : k \in T
  <2> HIDE DEF T
  <2> QED
    BY <1>5, <1>6, Induction
<1>8. f[n] = g[n]
  BY <1>2, <1>7
<1>9. g[n + 1] = g[n] * base + d
  <2>1. n + 1 \in 1 .. n + 1 /\ (n + 1) - 1 = n
    BY <1>2
  <2> QED
    BY <1>2, <1>4, <2>1 DEF ValueBy
<1> QED
  BY <1>1, <1>3, <1>4, <1>8, <1>9, Zenon DEF ValueBy

(* One step of the loops of convert and convertHex: the digit of i, and    *)
(* the digits of the quotient unless it is 0.                              *)
Digits(dig, quo, f, i) == <<dig[i]>> \o (IF quo[i] # 0 THEN f[quo[i]] ELSE <<>>)

(* The loop ends: the quotient is smaller.                                 *)
Shrinks(S, size, quo) ==
  /\ size \in [S -> Nat]
  /\ \A i \in S : quo[i] # 0 => quo[i] \in S /\ size[quo[i]] < size[i]

(* f gives the digits of everything smaller than n.                        *)
DigitsBelow(S, size, dig, quo, n, f) ==
  \A i \in S : size[i] < n => f[i] = Digits(dig, quo, f, i)

LEMMA SmallerDigits ==
  ASSUME NEW S, NEW size, NEW dig, NEW quo, Shrinks(S, size, quo),
         NEW f, NEW g, NEW i \in S,
         \A j \in S : size[j] < size[i] => f[j] = g[j]
  PROVE  Digits(dig, quo, f, i) = Digits(dig, quo, g, i)
<1>1. quo[i] # 0 => f[quo[i]] = g[quo[i]]
  BY DEF Shrinks
<1> QED
  BY <1>1, Zenon DEF Digits

LEMMA DigitsBelowExist ==
  ASSUME NEW S, NEW size, NEW dig, NEW quo, Shrinks(S, size, quo)
  PROVE  \A n \in Nat : \E f : DigitsBelow(S, size, dig, quo, n, f)
<1> DEFINE T == {n \in Nat : \E f : DigitsBelow(S, size, dig, quo, n, f)}
<1>0. \A i \in S : size[i] \in Nat
  BY DEF Shrinks
<1>1. 0 \in T
  <2>1. \A i \in S : ~(size[i] < 0)
    BY <1>0
  <2>2. DigitsBelow(S, size, dig, quo, 0, <<>>)
    BY <2>1 DEF DigitsBelow
  <2> QED
    BY <2>2
<1>2. ASSUME NEW n \in Nat, n \in T PROVE n + 1 \in T
  <2>1. PICK f : DigitsBelow(S, size, dig, quo, n, f)
    BY <1>2
  <2>2. PICK g : g = [i \in S |-> IF size[i] < n THEN f[i] ELSE Digits(dig, quo, f, i)]
    OBVIOUS
  <2>3. \A i \in S : size[i] < n => g[i] = f[i]
    BY <2>2
  <2>4. ASSUME NEW i \in S PROVE g[i] = Digits(dig, quo, f, i)
    BY <2>1, <2>2 DEF DigitsBelow
  <2>5. ASSUME NEW i \in S, size[i] < n + 1 PROVE g[i] = Digits(dig, quo, g, i)
    <3>1. ASSUME NEW j \in S, size[j] < size[i] PROVE f[j] = g[j]
      <4>1. size[j] < n
        BY <1>0, <2>5, <3>1
      <4> QED
        BY <2>3, <4>1
    <3>2. Digits(dig, quo, f, i) = Digits(dig, quo, g, i)
      BY <3>1, SmallerDigits
    <3> QED
      BY <2>4, <3>2, Zenon
  <2>6. DigitsBelow(S, size, dig, quo, n + 1, g)
    BY <2>5 DEF DigitsBelow
  <2> QED
    BY <2>6
<1> HIDE DEF T
<1>3. \A n \in Nat : n \in T
  BY <1>1, <1>2, Induction
<1> QED
  BY <1>3 DEF T

LEMMA DigitsBelowAgree ==
  ASSUME NEW S, NEW size, NEW dig, NEW quo, Shrinks(S, size, quo),
         NEW n \in Nat, NEW f, DigitsBelow(S, size, dig, quo, n, f),
         NEW m \in Nat, NEW g, DigitsBelow(S, size, dig, quo, m, g)
  PROVE  \A i \in S : size[i] < n /\ size[i] < m => f[i] = g[i]
<1> DEFINE T == {k \in Nat : \A i \in S : size[i] < k /\ size[i] < n /\ size[i] < m
                                          => f[i] = g[i]}
<1>0. \A i \in S : size[i] \in Nat
  BY DEF Shrinks
<1>1. 0 \in T
  BY <1>0
<1>2. ASSUME NEW k \in Nat, k \in T PROVE k + 1 \in T
  <2> SUFFICES ASSUME NEW i \in S, size[i] < k + 1, size[i] < n, size[i] < m
               PROVE  f[i] = g[i]
    OBVIOUS
  <2>1. ASSUME NEW j \in S, size[j] < size[i] PROVE f[j] = g[j]
    <3>1. size[j] < k /\ size[j] < n /\ size[j] < m
      BY <1>0, <2>1
    <3> QED
      BY <1>2, <3>1
  <2>2. Digits(dig, quo, f, i) = Digits(dig, quo, g, i)
    BY <2>1, SmallerDigits
  <2>3. f[i] = Digits(dig, quo, f, i) /\ g[i] = Digits(dig, quo, g, i)
    BY DEF DigitsBelow
  <2> QED
    BY <2>2, <2>3, Zenon
<1>3. \A k \in Nat : k \in T
  <2> HIDE DEF T
  <2> QED
    BY <1>1, <1>2, Induction
<1> QED
  BY <1>3

(* There is a function that gives the digits of every number.              *)
GivesDigits(S, dig, quo, f) == f = [i \in S |-> Digits(dig, quo, f, i)]

LEMMA DigitsExist ==
  ASSUME NEW S, NEW size, NEW dig, NEW quo, Shrinks(S, size, quo)
  PROVE  \E f : GivesDigits(S, dig, quo, f)
<1>0. \A i \in S : size[i] \in Nat
  BY DEF Shrinks
<1> DEFINE F(i) == CHOOSE g : DigitsBelow(S, size, dig, quo, size[i] + 1, g)
<1>1. ASSUME NEW i \in S PROVE DigitsBelow(S, size, dig, quo, size[i] + 1, F(i))
  <2>1. size[i] + 1 \in Nat
    BY <1>0
  <2>2. \E g : DigitsBelow(S, size, dig, quo, size[i] + 1, g)
    BY <2>1, DigitsBelowExist
  <2> QED
    BY <2>2
<1> HIDE DEF F
<1>2. PICK f : f = [i \in S |-> F(i)[i]]
  OBVIOUS
<1>3. ASSUME NEW i \in S PROVE F(i)[i] = Digits(dig, quo, f, i)
  <2>1. F(i)[i] = Digits(dig, quo, F(i), i)
    <3>1. size[i] < size[i] + 1
      BY <1>0
    <3> QED
      BY <1>1, <3>1 DEF DigitsBelow
  <2>2. ASSUME NEW j \in S, size[j] < size[i] PROVE F(i)[j] = f[j]
    <3>1. PICK a, b, n, m : a = F(i) /\ b = F(j) /\ n = size[i] + 1 /\ m = size[j] + 1
      OBVIOUS
    <3>2. n \in Nat /\ m \in Nat /\ size[j] < n /\ size[j] < m
      BY <1>0, <2>2, <3>1
    <3>3. DigitsBelow(S, size, dig, quo, n, a) /\ DigitsBelow(S, size, dig, quo, m, b)
      BY <1>1, <3>1
    <3>4. a[j] = b[j]
      BY <3>2, <3>3, DigitsBelowAgree
    <3> QED
      BY <1>2, <3>1, <3>4
  <2>3. Digits(dig, quo, F(i), i) = Digits(dig, quo, f, i)
    BY <2>2, SmallerDigits
  <2> QED
    BY <2>1, <2>3, Zenon
<1>4. f = [i \in S |-> Digits(dig, quo, f, i)]
  BY <1>2, <1>3
<1> QED
  BY <1>4 DEF GivesDigits

LEMMA TenDivides ==
  ASSUME NEW i \in Int
  PROVE  /\ Quotient(i, 10) \in Int /\ Remainder(i, 10) \in -9 .. 9
         /\ i >= 0 => /\ Quotient(i, 10) >= 0 /\ Remainder(i, 10) >= 0
                      /\ Quotient(i, 10) # 0 => Quotient(i, 10) < i
         /\ i < 0 => /\ Quotient(i, 10) <= 0 /\ Remainder(i, 10) <= 0
                     /\ Quotient(i, 10) # 0 => Quotient(i, 10) > i
         /\ i = 10 * Quotient(i, 10) + Remainder(i, 10)
<1>1. CASE i >= 0
  <2>1. PICK q : q = i \div 10
    OBVIOUS
  <2>2. q \in Int /\ q >= 0 /\ 10 * q <= i /\ i <= 10 * q + 9
    BY <1>1, <2>1
  <2>3. Quotient(i, 10) = q /\ Remainder(i, 10) = i - 10 * q
    BY <1>1, <2>1 DEF Quotient, Remainder
  <2>4. PICK r : r = i - 10 * q
    OBVIOUS
  <2>5. r \in -9 .. 9 /\ r >= 0 /\ (q # 0 => q < i) /\ i = 10 * q + r
    BY <1>1, <2>2, <2>4
  <2> QED
    BY <1>1, <2>2, <2>3, <2>4, <2>5
<1>2. CASE i < 0
  <2>1. PICK q : q = (-i) \div 10
    OBVIOUS
  <2>2. q \in Int /\ q >= 0 /\ 10 * q <= -i /\ -i <= 10 * q + 9
    BY <1>2, <2>1
  <2>3. Quotient(i, 10) = -q /\ Remainder(i, 10) = i - 10 * (-q)
    BY <1>2, <2>1 DEF Quotient, Remainder
  <2> QED
    BY <1>2, <2>2, <2>3
<1> QED
  BY <1>1, <1>2

LEMMA DecimalsIs ==
  ASSUME NEW i \in Int
  PROVE  Decimals[i] = <<zero[Remainder(i, 10)]>> \o
                         (IF Quotient(i, 10) # 0 THEN Decimals[Quotient(i, 10)] ELSE <<>>)
<1>1. PICK size, dig, quo : /\ size = [j \in Int |-> IF j >= 0 THEN j ELSE -j]
                            /\ dig = [j \in Int |-> zero[Remainder(j, 10)]]
                            /\ quo = [j \in Int |-> Quotient(j, 10)]
  OBVIOUS
<1>2. Shrinks(Int, size, quo)
  <2>1. size \in [Int -> Nat]
    BY <1>1
  <2>2. ASSUME NEW j \in Int, quo[j] # 0 PROVE quo[j] \in Int /\ size[quo[j]] < size[j]
    <3>1. PICK k : k = quo[j]
      OBVIOUS
    <3>2. k = Quotient(j, 10)
      BY <1>1, <3>1
    <3>3. /\ k \in Int /\ j >= 0 => k >= 0 /\ k < j
          /\ j < 0 => k <= 0 /\ k > j
      BY <2>2, <3>1, <3>2, TenDivides
    <3>4. /\ size[k] = IF k >= 0 THEN k ELSE -k
          /\ size[j] = IF j >= 0 THEN j ELSE -j
      BY <1>1, <3>2, TenDivides
    <3> QED
      BY <3>1, <3>2, <3>3, <3>4, TenDivides
  <2> QED
    BY <2>1, <2>2 DEF Shrinks
<1>3. PICK f : GivesDigits(Int, dig, quo, f)
  BY <1>2, DigitsExist
<1>4. \A j \in Int : Digits(dig, quo, f, j)
                       = <<zero[Remainder(j, 10)]>> \o
                           (IF Quotient(j, 10) # 0 THEN f[Quotient(j, 10)] ELSE <<>>)
  <2> SUFFICES ASSUME NEW j \in Int
               PROVE  Digits(dig, quo, f, j)
                        = <<zero[Remainder(j, 10)]>> \o
                            (IF Quotient(j, 10) # 0 THEN f[Quotient(j, 10)] ELSE <<>>)
    OBVIOUS
  <2>1. dig[j] = zero[Remainder(j, 10)] /\ quo[j] = Quotient(j, 10)
    BY <1>1
  <2> QED
    BY <2>1, Zenon DEF Digits
<1>5. f = [j \in Int |-> <<zero[Remainder(j, 10)]>> \o
                           (IF Quotient(j, 10) # 0 THEN f[Quotient(j, 10)] ELSE <<>>)]
  BY <1>3, <1>4 DEF GivesDigits
<1>6. Decimals = [j \in Int |-> <<zero[Remainder(j, 10)]>> \o
                    (IF Quotient(j, 10) # 0 THEN Decimals[Quotient(j, 10)] ELSE <<>>)]
  BY <1>5, Zenon DEF Decimals
<1> QED
  BY <1>6, Zenon

LEMMA HexDigitsIs ==
  ASSUME NEW i \in Nat
  PROVE  HexDigits[i] = <<i % 16>> \o (IF i \div 16 # 0 THEN HexDigits[i \div 16] ELSE <<>>)
<1>1. PICK size, dig, quo : /\ size = [j \in Nat |-> j]
                            /\ dig = [j \in Nat |-> j % 16]
                            /\ quo = [j \in Nat |-> j \div 16]
  OBVIOUS
<1>2. Shrinks(Nat, size, quo)
  <2>1. size \in [Nat -> Nat]
    BY <1>1
  <2>2. ASSUME NEW j \in Nat, quo[j] # 0 PROVE quo[j] \in Nat /\ size[quo[j]] < size[j]
    <3>1. quo[j] = j \div 16
      BY <1>1
    <3>2. j \div 16 \in Nat /\ (j \div 16 # 0 => j \div 16 < j)
      OBVIOUS
    <3> QED
      BY <1>1, <2>2, <3>1, <3>2
  <2> QED
    BY <2>1, <2>2 DEF Shrinks
<1>3. PICK f : GivesDigits(Nat, dig, quo, f)
  BY <1>2, DigitsExist
<1>4. \A j \in Nat : Digits(dig, quo, f, j)
                       = <<j % 16>> \o (IF j \div 16 # 0 THEN f[j \div 16] ELSE <<>>)
  <2> SUFFICES ASSUME NEW j \in Nat
               PROVE  Digits(dig, quo, f, j)
                        = <<j % 16>> \o (IF j \div 16 # 0 THEN f[j \div 16] ELSE <<>>)
    OBVIOUS
  <2>1. dig[j] = j % 16 /\ quo[j] = j \div 16
    BY <1>1
  <2> QED
    BY <2>1, Zenon DEF Digits
<1>5. f = [j \in Nat |-> <<j % 16>> \o (IF j \div 16 # 0 THEN f[j \div 16] ELSE <<>>)]
  BY <1>3, <1>4 DEF GivesDigits
<1>6. HexDigits
        = [j \in Nat |-> <<j % 16>> \o (IF j \div 16 # 0 THEN HexDigits[j \div 16] ELSE <<>>)]
  BY <1>5, Zenon DEF HexDigits
<1> QED
  BY <1>6, Zenon

-----------------------------------------------------------------------------
(* The characters of a number.                                             *)

LEMMA ReverseIs ==
  ASSUME NEW S, NEW s \in Seq(S)
  PROVE  /\ Reverse(s) \in Seq(S)
         /\ Len(Reverse(s)) = Len(s)
         /\ \A k \in 1 .. Len(s) : Reverse(s)[k] = s[Len(s) - k + 1]
<1>1. PICK n, r : n = Len(s) /\ r = Reverse(s)
  OBVIOUS
<1>2. n \in Nat
  BY <1>1
<1>3. r = [k \in 1 .. n |-> s[(n - k) + 1]]
  BY <1>1 DEF Reverse
<1>4. ASSUME NEW k \in 1 .. n PROVE s[(n - k) + 1] \in S
  <2>1. (n - k) + 1 \in 1 .. Len(s)
    BY <1>1, <1>2
  <2> QED
    BY <2>1, ElementOfSeq
<1>5. r \in [1 .. n -> S]
  BY <1>3, <1>4 DEF GivesDigits
<1>6. r \in Seq(S) /\ Len(r) = n
  BY <1>2, <1>5
<1> QED
  BY <1>1, <1>3, <1>6

(* A character in front ends up at the end.                                *)
LEMMA ReversePrepend ==
  ASSUME NEW S, NEW s \in Seq(S), NEW d \in S
  PROVE  /\ <<d>> \o s \in Seq(S) /\ Len(<<d>> \o s) = Len(s) + 1
         /\ \A k \in 1 .. Len(s) + 1 : (<<d>> \o s)[k] = IF k = 1 THEN d ELSE s[k - 1]
         /\ Reverse(<<d>> \o s) = Append(Reverse(s), d)
<1>1. PICK n, c, z, r, x :
        n = Len(s) /\ c = <<d>> /\ z = <<d>> \o s /\ r = Reverse(s) /\ x = Reverse(z)
  OBVIOUS
<1>2. n \in Nat /\ c \in Seq(S) /\ Len(c) = 1 /\ c[1] = d
  BY <1>1
<1>3. /\ z \in Seq(S) /\ Len(z) = 1 + n
      /\ \A k \in 1 .. 1 + n : z[k] = IF k <= 1 THEN c[k] ELSE s[k - 1]
  <2>1. /\ c \o s \in Seq(S) /\ Len(c \o s) = Len(c) + Len(s)
        /\ \A k \in 1 .. Len(c) + Len(s) :
             (c \o s)[k] = IF k <= Len(c) THEN c[k] ELSE s[k - Len(c)]
    BY <1>2, ConcatProperties
  <2> QED
    BY <1>1, <1>2, <2>1, Zenon
<1>4. Len(z) = n + 1 /\ \A k \in 1 .. n + 1 : z[k] = IF k = 1 THEN d ELSE s[k - 1]
  BY <1>2, <1>3
<1>5. r \in Seq(S) /\ Len(r) = n /\ \A k \in 1 .. n : r[k] = s[n - k + 1]
  BY <1>1, ReverseIs
<1>6. /\ x \in Seq(S) /\ Len(x) = Len(z)
      /\ \A k \in 1 .. Len(z) : x[k] = z[Len(z) - k + 1]
  BY <1>1, <1>3, ReverseIs
<1>7. /\ Append(r, d) \in Seq(S) /\ Len(Append(r, d)) = n + 1
      /\ Append(r, d)[n + 1] = d /\ \A k \in 1 .. n : Append(r, d)[k] = r[k]
  BY <1>5, AppendProperties
<1>8. ASSUME NEW k \in 1 .. n + 1 PROVE x[k] = Append(r, d)[k]
  <2>1. x[k] = z[n + 1 - k + 1] /\ n + 1 - k + 1 \in 1 .. n + 1
    BY <1>2, <1>4, <1>6
  <2>2. CASE k = n + 1
    <3>1. n + 1 - k + 1 = 1 /\ 1 \in 1 .. n + 1
      BY <1>2, <2>2
    <3>2. z[1] = d
      BY <1>4, <3>1
    <3> QED
      BY <1>7, <2>1, <2>2, <3>1, <3>2
  <2>3. CASE k # n + 1
    <3>1. k \in 1 .. n /\ n + 1 - k + 1 # 1 /\ (n + 1 - k + 1) - 1 = n - k + 1
      BY <1>2, <2>3
    <3>2. z[n + 1 - k + 1] = s[n - k + 1]
      BY <1>4, <2>1, <3>1
    <3>3. Append(r, d)[k] = s[n - k + 1]
      BY <1>5, <1>7, <3>1
    <3> QED
      BY <2>1, <3>2, <3>3
  <2> QED
    BY <2>2, <2>3
<1>9. x = Append(r, d)
  <2>1. Len(x) = n + 1
    BY <1>4, <1>6
  <2> QED
    BY <1>6, <1>7, <1>8, <2>1, SeqEqual
<1> QED
  BY <1>1, <1>3, <1>4, <1>9

(* The digits s, the last one first, say v, and no digit is superfluous.   *)
Numeral(s, base, v) ==
  /\ s \in Seq(0 .. base - 1)
  /\ Len(s) >= 1
  /\ Value(Reverse(s), base) = v
  /\ Len(s) > 1 \/ v # 0 => s[Len(s)] # 0

LEMMA NumeralOne ==
  ASSUME NEW base \in Nat, NEW d \in 0 .. base - 1
  PROVE  Numeral(<<d>> \o <<>>, base, d)
<1>1. PICK S, e, z : S = 0 .. base - 1 /\ e = <<>> /\ z = <<d>> \o e
  OBVIOUS
<1>2. e \in Seq(S) /\ Len(e) = 0 /\ d \in S /\ d \in Int
  BY <1>1, EmptySeq
<1>3. /\ z \in Seq(S) /\ Len(z) = 0 + 1
      /\ \A k \in 1 .. 0 + 1 : z[k] = IF k = 1 THEN d ELSE e[k - 1]
      /\ Reverse(z) = Append(Reverse(e), d)
  <2>1. /\ <<d>> \o e \in Seq(S) /\ Len(<<d>> \o e) = Len(e) + 1
        /\ \A k \in 1 .. Len(e) + 1 : (<<d>> \o e)[k] = IF k = 1 THEN d ELSE e[k - 1]
        /\ Reverse(<<d>> \o e) = Append(Reverse(e), d)
    <3>1. e \in Seq(S) /\ d \in S
      BY <1>2
    <3> QED
      BY <3>1, ReversePrepend, SMT
  <2> QED
    BY <1>1, <1>2, <2>1, Zenon
<1>4. Len(z) = 1 /\ z[1] = d
  BY <1>3
<1>5. Reverse(e) \in Seq(S) /\ Len(Reverse(e)) = 0
  BY <1>2, ReverseIs
<1>6. Value(Reverse(e), base) = 0
  <2>1. PICK f : ValueBy(Reverse(e), base, 0, f)
    BY <1>5, ValueIs
  <2> QED
    BY <2>1 DEF ValueBy
<1>7. Value(Append(Reverse(e), d), base) = Value(Reverse(e), base) * base + d
  BY <1>2, <1>5, ValueAppend
<1>8. Value(Reverse(z), base) = d
  <2>1. Value(Reverse(z), base) = 0 * base + d
    BY <1>3, <1>6, <1>7, Zenon
  <2> QED
    BY <1>2, <2>1
<1>9. Numeral(z, base, d)
  BY <1>1, <1>3, <1>4, <1>8 DEF Numeral
<1> QED
  BY <1>1, <1>9, Zenon

LEMMA NumeralMore ==
  ASSUME NEW base \in Nat, NEW d \in 0 .. base - 1, NEW s, NEW q, Numeral(s, base, q), q # 0
  PROVE  Numeral(<<d>> \o s, base, q * base + d)
<1>1. PICK S, n, z : S = 0 .. base - 1 /\ n = Len(s) /\ z = <<d>> \o s
  OBVIOUS
<1>2. s \in Seq(S) /\ d \in S /\ n \in Nat /\ n >= 1 /\ Value(Reverse(s), base) = q
      /\ s[n] # 0
  BY <1>1 DEF Numeral
<1>3. /\ z \in Seq(S) /\ Len(z) = n + 1
      /\ \A k \in 1 .. n + 1 : z[k] = IF k = 1 THEN d ELSE s[k - 1]
      /\ Reverse(z) = Append(Reverse(s), d)
  BY <1>1, <1>2, ReversePrepend
<1>4. z[n + 1] = s[n]
  <2>1. n + 1 \in 1 .. n + 1 /\ n + 1 # 1 /\ (n + 1) - 1 = n
    BY <1>2
  <2> QED
    BY <1>3, <2>1
<1>5. Value(Reverse(z), base) = q * base + d
  <2>1. Reverse(s) \in Seq(S)
    BY <1>2, ReverseIs
  <2>2. Value(Append(Reverse(s), d), base) = Value(Reverse(s), base) * base + d
    BY <1>2, <2>1, ValueAppend
  <2> QED
    BY <1>2, <1>3, <2>2, Zenon
<1>6. Len(z) >= 1 /\ z[Len(z)] # 0
  BY <1>2, <1>3, <1>4
<1>7. Numeral(z, base, q * base + d)
  BY <1>1, <1>3, <1>5, <1>6 DEF Numeral
<1> QED
  BY <1>1, <1>7, Zenon

Magnitude(i) == IF i >= 0 THEN i ELSE -i

(* convert's loop finds the digits of every integer, also of the least one *)
(* of its type, whose negation does not exist: the table has digits for    *)
(* negative remainders.                                                    *)
LEMMA DecimalNumerals ==
  ASSUME NEW v \in Int
  PROVE  Numeral(Decimals[v], 10, Magnitude(v))
<1>1. ASSUME NEW i \in Int,
             Quotient(i, 10) # 0 =>
               Numeral(Decimals[Quotient(i, 10)], 10, Magnitude(Quotient(i, 10)))
      PROVE  Numeral(Decimals[i], 10, Magnitude(i))
  <2>1. PICK q, r, d : q = Quotient(i, 10) /\ r = Remainder(i, 10) /\ d = zero[r]
    OBVIOUS
  <2>2. /\ q \in Int /\ r \in -9 .. 9 /\ i = 10 * q + r
        /\ i >= 0 => q >= 0 /\ r >= 0
        /\ i < 0 => q <= 0 /\ r <= 0
    BY <2>1, TenDivides
  <2>3. d = Magnitude(r)
    BY <2>1, <2>2 DEF zero, Magnitude
  <2>4. d \in 0 .. 10 - 1 /\ 10 \in Nat
    BY <2>2, <2>3 DEF Magnitude
  <2>5. Decimals[i] = <<d>> \o (IF q # 0 THEN Decimals[q] ELSE <<>>)
    BY <2>1, DecimalsIs, Zenon
  <2>6. CASE q = 0
    <3>1. Decimals[i] = <<d>> \o <<>>
      BY <2>5, <2>6, Zenon
    <3>2. Magnitude(i) = d
      BY <2>2, <2>3, <2>6 DEF Magnitude
    <3>3. Numeral(<<d>> \o <<>>, 10, d)
      BY <2>4, NumeralOne
    <3> QED
      BY <3>1, <3>2, <3>3, Zenon
  <2>7. CASE q # 0
    <3>1. Decimals[i] = <<d>> \o Decimals[q]
      BY <2>5, <2>7, Zenon
    <3>2. PICK m : m = Magnitude(q)
      OBVIOUS
    <3>3. m # 0 /\ Magnitude(i) = m * 10 + d
      BY <2>2, <2>3, <2>7, <3>2 DEF Magnitude
    <3>4. Numeral(Decimals[q], 10, m)
      BY <1>1, <2>1, <2>7, <3>2
    <3>5. Numeral(<<d>> \o Decimals[q], 10, m * 10 + d)
      BY <2>4, <3>3, <3>4, NumeralMore
    <3> QED
      BY <3>1, <3>3, <3>5, Zenon
  <2> QED
    BY <2>6, <2>7
<1> DEFINE T == {n \in Nat : \A i \in Int : Magnitude(i) <= n
                                            => Numeral(Decimals[i], 10, Magnitude(i))}
<1>2. 0 \in T
  <2> SUFFICES ASSUME NEW i \in Int, Magnitude(i) <= 0
               PROVE  Numeral(Decimals[i], 10, Magnitude(i))
    OBVIOUS
  <2>1. i = 0
    BY DEF Magnitude
  <2>2. Quotient(i, 10) = 0
    BY <2>1, TenDivides
  <2> QED
    BY <1>1, <2>2
<1>3. ASSUME NEW n \in Nat, n \in T PROVE n + 1 \in T
  <2> SUFFICES ASSUME NEW i \in Int, Magnitude(i) <= n + 1
               PROVE  Numeral(Decimals[i], 10, Magnitude(i))
    OBVIOUS
  <2>1. ASSUME Quotient(i, 10) # 0
        PROVE  Numeral(Decimals[Quotient(i, 10)], 10, Magnitude(Quotient(i, 10)))
    <3>1. PICK q : q = Quotient(i, 10)
      OBVIOUS
    <3>2. q \in Int /\ (i >= 0 => q >= 0 /\ q < i) /\ (i < 0 => q <= 0 /\ q > i)
      BY <2>1, <3>1, TenDivides
    <3>3. Magnitude(q) <= n
      BY <3>2 DEF Magnitude
    <3>4. Numeral(Decimals[q], 10, Magnitude(q))
      BY <1>3, <3>2, <3>3
    <3> QED
      BY <3>1, <3>4
  <2> QED
    BY <1>1, <2>1
<1>4. \A n \in Nat : n \in T
  <2> HIDE DEF T
  <2> QED
    BY <1>2, <1>3, Induction
<1>5. Magnitude(v) \in Nat /\ Magnitude(v) <= Magnitude(v)
  BY DEF Magnitude
<1> QED
  BY <1>4, <1>5

LEMMA HexNumerals ==
  ASSUME NEW v \in Nat
  PROVE  Numeral(HexDigits[v], 16, v)
<1>1. ASSUME NEW i \in Nat, i \div 16 # 0 => Numeral(HexDigits[i \div 16], 16, i \div 16)
      PROVE  Numeral(HexDigits[i], 16, i)
  <2>1. PICK q, d : q = i \div 16 /\ d = i % 16
    OBVIOUS
  <2>2. q \in Nat /\ d \in 0 .. 16 - 1 /\ i = q * 16 + d /\ 16 \in Nat /\ d \in Nat
    BY <2>1
  <2>3. HexDigits[i] = <<d>> \o (IF q # 0 THEN HexDigits[q] ELSE <<>>)
    BY <2>1, HexDigitsIs, Zenon
  <2>4. CASE q = 0
    <3>1. HexDigits[i] = <<d>> \o <<>> /\ i = d
      BY <2>2, <2>3, <2>4
    <3>2. Numeral(<<d>> \o <<>>, 16, d)
      BY <2>2, NumeralOne
    <3> QED
      BY <3>1, <3>2, Zenon
  <2>5. CASE q # 0
    <3>1. HexDigits[i] = <<d>> \o HexDigits[q]
      BY <2>3, <2>5, Zenon
    <3>2. Numeral(HexDigits[q], 16, q)
      BY <1>1, <2>1, <2>5
    <3>3. Numeral(<<d>> \o HexDigits[q], 16, q * 16 + d)
      BY <2>2, <2>5, <3>2, NumeralMore
    <3> QED
      BY <2>2, <3>1, <3>3, Zenon
  <2> QED
    BY <2>4, <2>5
<1> DEFINE T == {n \in Nat : \A i \in Nat : i <= n => Numeral(HexDigits[i], 16, i)}
<1>2. 0 \in T
  <2> SUFFICES ASSUME NEW i \in Nat, i <= 0 PROVE Numeral(HexDigits[i], 16, i)
    OBVIOUS
  <2>1. i \div 16 = 0
    OBVIOUS
  <2> QED
    BY <1>1, <2>1
<1>3. ASSUME NEW n \in Nat, n \in T PROVE n + 1 \in T
  <2> SUFFICES ASSUME NEW i \in Nat, i <= n + 1 PROVE Numeral(HexDigits[i], 16, i)
    OBVIOUS
  <2>1. ASSUME i \div 16 # 0 PROVE Numeral(HexDigits[i \div 16], 16, i \div 16)
    <3>1. i \div 16 \in Nat /\ i \div 16 <= n
      BY <2>1
    <3> QED
      BY <1>3, <3>1
  <2> QED
    BY <1>1, <2>1
<1>4. \A n \in Nat : n \in T
  <2> HIDE DEF T
  <2> QED
    BY <1>2, <1>3, Induction
<1> QED
  BY <1>4

(* What a number's characters are: they say v, without leading zeros.      *)
ReadsAs(s, base, v) ==
  /\ Denotes(s, base) = v
  /\ Len(s) > 1 => s[1] # 0

Chars == 0 .. Newline

LEMMA NumeralReads ==
  ASSUME NEW base \in 10 .. 16, NEW s, NEW v, Numeral(s, base, v)
  PROVE  /\ s \in Seq(Chars) /\ Reverse(s) \in Seq(Chars) /\ Len(Reverse(s)) = Len(s)
         /\ Len(s) >= 1
         /\ ReadsAs(Reverse(s), base, v)
<1>1. PICK S, n, x : S = 0 .. base - 1 /\ n = Len(s) /\ x = Reverse(s)
  OBVIOUS
<1>2. s \in Seq(S) /\ n \in Nat /\ n >= 1 /\ Value(x, base) = v /\ (n > 1 => s[n] # 0)
  BY <1>1 DEF Numeral
<1>3. x \in Seq(S) /\ Len(x) = n /\ \A k \in 1 .. n : x[k] = s[n - k + 1]
  BY <1>1, <1>2, ReverseIs
<1>4. x[1] = s[n] /\ x[1] \in S
  <2>1. 1 \in 1 .. n /\ n - 1 + 1 = n
    BY <1>2
  <2>2. x[1] = s[n]
    BY <1>3, <2>1
  <2>3. x[1] \in S
    BY <1>3, <2>1, ElementOfSeq
  <2> QED
    BY <2>2, <2>3
<1>5. x[1] # MinusSign
  BY <1>1, <1>4 DEF MinusSign
<1>6. Denotes(x, base) = v
  BY <1>2, <1>5 DEF Denotes
<1>7. ReadsAs(x, base, v)
  BY <1>2, <1>3, <1>4, <1>6 DEF ReadsAs
<1>8. S \subseteq Chars
  BY <1>1 DEF Chars, Newline
<1>9. s \in Seq(Chars) /\ x \in Seq(Chars)
  BY <1>2, <1>3, <1>8, SeqMonotonic
<1> QED
  BY <1>1, <1>2, <1>3, <1>7, <1>9

(* The sign is put at the end and comes to the front.                      *)
LEMMA ReverseSign ==
  ASSUME NEW S, NEW s \in Seq(S), NEW d \in S
  PROVE  /\ Reverse(s \o <<d>>) \in Seq(S)
         /\ Len(Reverse(s \o <<d>>)) = Len(s) + 1
         /\ Reverse(s \o <<d>>)[1] = d
         /\ Tail(Reverse(s \o <<d>>)) = Reverse(s)
<1>1. PICK n, z, x, r, t :
        n = Len(s) /\ z = Append(s, d) /\ x = Reverse(z) /\ r = Reverse(s) /\ t = Tail(x)
  OBVIOUS
<1>2. /\ n \in Nat /\ z \in Seq(S) /\ Len(z) = n + 1
      /\ z[n + 1] = d /\ \A k \in 1 .. n : z[k] = s[k]
  BY <1>1, AppendProperties
<1>3. s \o <<d>> = z
  BY <1>1, AppendIsConcat
<1>4. x \in Seq(S) /\ Len(x) = n + 1 /\ \A k \in 1 .. n + 1 : x[k] = z[n + 1 - k + 1]
  <2>1. x \in Seq(S) /\ Len(x) = Len(z) /\ \A k \in 1 .. Len(z) : x[k] = z[Len(z) - k + 1]
    BY <1>1, <1>2, ReverseIs
  <2> QED
    BY <1>2, <2>1
<1>5. r \in Seq(S) /\ Len(r) = n /\ \A k \in 1 .. n : r[k] = s[n - k + 1]
  BY <1>1, ReverseIs
<1>6. x[1] = d
  <2>1. 1 \in 1 .. n + 1 /\ n + 1 - 1 + 1 = n + 1
    BY <1>2
  <2> QED
    BY <1>2, <1>4, <2>1
<1>7. t \in Seq(S) /\ Len(t) = n /\ \A k \in 1 .. n : t[k] = x[k + 1]
  <2>1. x # <<>>
    BY <1>2, <1>4
  <2>2. t \in Seq(S) /\ Len(t) = Len(x) - 1 /\ \A k \in 1 .. Len(x) - 1 : t[k] = x[k + 1]
    BY <1>1, <1>4, <2>1
  <2> QED
    BY <1>2, <1>4, <2>2
<1>8. ASSUME NEW k \in 1 .. n PROVE t[k] = r[k]
  <2>1. k + 1 \in 1 .. n + 1 /\ n + 1 - (k + 1) + 1 = n - k + 1 /\ n - k + 1 \in 1 .. n
    BY <1>2
  <2>2. t[k] = x[k + 1] /\ x[k + 1] = z[n - k + 1]
    BY <1>4, <1>7, <2>1
  <2>3. z[n - k + 1] = s[n - k + 1] /\ r[k] = s[n - k + 1]
    BY <1>2, <1>5, <2>1
  <2> QED
    BY <2>2, <2>3
<1>9. t = r
  BY <1>5, <1>7, <1>8, SeqEqual
<1> QED
  BY <1>1, <1>3, <1>4, <1>6, <1>9

LEMMA ConvertReads ==
  ASSUME NEW v \in Int
  PROVE  /\ convert(v) \in Seq(Chars) /\ Len(convert(v)) >= 1
         /\ ReadsAs(convert(v), 10, v)
<1>1. PICK s, c : s = Decimals[v] /\ c = convert(v)
  OBVIOUS
<1>2. Numeral(s, 10, Magnitude(v)) /\ 10 \in 10 .. 16
  BY <1>1, DecimalNumerals
<1>3. /\ s \in Seq(Chars) /\ Reverse(s) \in Seq(Chars) /\ Len(Reverse(s)) = Len(s)
      /\ Len(s) >= 1
      /\ ReadsAs(Reverse(s), 10, Magnitude(v))
  BY <1>2, NumeralReads
<1>4. c = Reverse(s \o (IF v < 0 THEN <<MinusSign>> ELSE <<>>))
  BY <1>1 DEF convert
<1>5. CASE v >= 0
  <2>1. ~(v < 0) /\ Magnitude(v) = v
    BY <1>5 DEF Magnitude
  <2>2. s \o <<>> = s
    BY <1>3, ConcatEmptySeq
  <2>3. c = Reverse(s)
    BY <1>4, <2>1, <2>2, Zenon
  <2> QED
    BY <1>1, <1>3, <2>1, <2>3
<1>6. CASE v < 0
  <2>1. c = Reverse(s \o <<MinusSign>>)
    BY <1>4, <1>6, Zenon
  <2>2. MinusSign \in Chars /\ MinusSign # 0
    BY DEF MinusSign, Chars, Newline
  <2>3. c \in Seq(Chars) /\ Len(c) = Len(s) + 1 /\ c[1] = MinusSign /\ Tail(c) = Reverse(s)
    BY <1>3, <2>1, <2>2, ReverseSign
  <2>4. Value(Reverse(s), 10) = Magnitude(v) /\ Magnitude(v) = -v
    BY <1>2, <1>6 DEF Numeral, Magnitude
  <2>5. Denotes(c, 10) = -Value(Reverse(s), 10)
    BY <2>3 DEF Denotes
  <2>6. Denotes(c, 10) = v
    BY <2>4, <2>5
  <2>7. ReadsAs(c, 10, v)
    BY <2>2, <2>3, <2>6 DEF ReadsAs
  <2>8. Len(c) >= 1
    BY <1>3, <2>3
  <2> QED
    BY <1>1, <2>3, <2>7, <2>8
<1> QED
  BY <1>5, <1>6

LEMMA ConvertHexReads ==
  ASSUME NEW v \in Nat
  PROVE  /\ convertHex(v) \in Seq(Chars) /\ Len(convertHex(v)) >= 1
         /\ ReadsAs(convertHex(v), 16, v)
<1>1. PICK s : s = HexDigits[v]
  OBVIOUS
<1>2. Numeral(s, 16, v) /\ 16 \in 10 .. 16
  BY <1>1, HexNumerals
<1>3. /\ Reverse(s) \in Seq(Chars) /\ Len(Reverse(s)) = Len(s) /\ Len(s) >= 1
      /\ ReadsAs(Reverse(s), 16, v)
  BY <1>2, NumeralReads
<1> QED
  BY <1>1, <1>3 DEF convertHex

-----------------------------------------------------------------------------
(* The stream.                                                             *)

(* The number p is still where it was put.                                 *)
KeptAt(s, p) ==
  /\ p.from \in Nat \ {0} /\ p.to \in Nat /\ p.to <= Len(s)
  /\ ReadsAs(SubSeq(s, p.from, p.to), p.base, p.value)

StreamInv ==
  /\ StreamTypeOK
  /\ Len(stream) < Size
  /\ \A p \in kept : KeptAt(stream, p)

(* r, which fits the buffer, is b with something more or nothing behind.   *)
Longer(b, r) ==
  /\ r \in Seq(Chars)
  /\ Len(r) < Size
  /\ Len(b) <= Len(r)
  /\ \A k \in 1 .. Len(b) : r[k] = b[k]

LEMMA LongerConcat ==
  ASSUME NEW b \in Seq(Chars), NEW s \in Seq(Chars), Len(b) + Len(s) < Size
  PROVE  Longer(b, b \o s)
<1>1. PICK r, n, m : r = b \o s /\ n = Len(b) /\ m = Len(s)
  OBVIOUS
<1>2. n \in Nat /\ m \in Nat
  BY <1>1
<1>3. r \in Seq(Chars) /\ Len(r) = n + m
  BY <1>1, ConcatProperties
<1>4. ASSUME NEW k \in 1 .. n PROVE r[k] = b[k]
  <2>1. k \in 1 .. Len(b) + Len(s) /\ k <= Len(b)
    BY <1>1, <1>2
  <2>2. (b \o s)[k] = b[k]
    BY <2>1, ConcatProperties
  <2> QED
    BY <1>1, <2>2
<1>5. Len(r) < Size /\ n <= Len(r)
  BY <1>1, <1>2, <1>3
<1>6. Longer(b, r)
  BY <1>1, <1>3, <1>4, <1>5 DEF Longer
<1> QED
  BY <1>1, <1>6

LEMMA LongerSame ==
  ASSUME NEW b \in Seq(Chars), Len(b) < Size
  PROVE  Longer(b, b)
BY DEF Longer

LEMMA LongerTrans ==
  ASSUME NEW b \in Seq(Chars), NEW c, NEW r, Longer(b, c), Longer(c, r)
  PROVE  Longer(b, r)
<1>1. c \in Seq(Chars) /\ r \in Seq(Chars) /\ Len(b) <= Len(c) /\ Len(c) <= Len(r)
      /\ Len(r) < Size
  BY DEF Longer
<1>2. Len(b) \in Nat /\ Len(c) \in Nat /\ Len(r) \in Nat
  BY <1>1
<1>3. ASSUME NEW k \in 1 .. Len(b) PROVE r[k] = b[k]
  <2>1. k \in 1 .. Len(c)
    BY <1>1, <1>2
  <2> QED
    BY <2>1 DEF Longer
<1>4. Len(b) <= Len(r)
  BY <1>1, <1>2
<1> QED
  BY <1>1, <1>3, <1>4 DEF Longer

(* A number stays readable, whatever is streamed behind it.                *)
LEMMA LongerKeeps ==
  ASSUME NEW b \in Seq(Chars), NEW r, Longer(b, r), NEW p, KeptAt(b, p)
  PROVE  KeptAt(r, p)
<1>1. PICK i, j : i = p.from /\ j = p.to
  OBVIOUS
<1>2. /\ i \in Nat \ {0} /\ j \in Nat /\ j <= Len(b)
      /\ ReadsAs(SubSeq(b, i, j), p.base, p.value)
  BY <1>1 DEF KeptAt
<1>3. /\ r \in Seq(Chars) /\ Len(b) <= Len(r)
      /\ \A k \in 1 .. Len(b) : r[k] = b[k]
      /\ Len(b) \in Nat /\ Len(r) \in Nat
  BY DEF Longer
<1>4. j <= Len(r)
  BY <1>2, <1>3
<1>5. SubSeq(r, i, j) = SubSeq(b, i, j)
  <2>1. \A k \in 1 .. (j - i) + 1 : r[i + k - 1] = b[i + k - 1]
    <3> SUFFICES ASSUME NEW k \in 1 .. (j - i) + 1 PROVE r[i + k - 1] = b[i + k - 1]
      OBVIOUS
    <3>1. i + k - 1 \in 1 .. Len(b)
      BY <1>2, <1>3
    <3> QED
      BY <1>3, <3>1
  <2>2. /\ SubSeq(r, i, j) = [k \in 1 .. (j - i) + 1 |-> r[i + k - 1]]
        /\ SubSeq(b, i, j) = [k \in 1 .. (j - i) + 1 |-> b[i + k - 1]]
    BY <1>2, <1>3, <1>4
  <2> QED
    BY <2>1, <2>2
<1> QED
  BY <1>1, <1>2, <1>4, <1>5 DEF KeptAt

LEMMA AppendLonger ==
  ASSUME NEW b \in Seq(Chars), Len(b) < Size, NEW s \in Seq(Chars)
  PROVE  Longer(b, FixedBuffer_append(b, s))
<1>1. Len(b) \in Nat /\ Len(s) \in Nat /\ Size \in Nat
  BY StreamAssumption DEF StreamAssumption
<1>2. CASE avail(b) > Len(s)
  <2>1. Len(b) + Len(s) < Size
    BY <1>1, <1>2 DEF avail
  <2>2. FixedBuffer_append(b, s) = b \o s
    BY <1>2 DEF FixedBuffer_append
  <2> QED
    BY <2>1, <2>2, LongerConcat
<1>3. CASE ~(avail(b) > Len(s))
  <2>1. FixedBuffer_append(b, s) = b
    BY <1>3 DEF FixedBuffer_append
  <2> QED
    BY <2>1, LongerSame
<1> QED
  BY <1>2, <1>3

(* What is behind b in b \o s is s.                                        *)
LEMMA NumberKept ==
  ASSUME NEW b \in Seq(Chars), NEW s \in Seq(Chars), NEW base, NEW v, ReadsAs(s, base, v),
         NEW p, p.from = Len(b) + 1, p.to = Len(b \o s), p.base = base, p.value = v
  PROVE  KeptAt(b \o s, p)
<1>1. PICK r, n, m : r = b \o s /\ n = Len(b) /\ m = Len(s)
  OBVIOUS
<1>2. n \in Nat /\ m \in Nat
  BY <1>1
<1>3. r \in Seq(Chars) /\ Len(r) = n + m
  BY <1>1, ConcatProperties
<1>4. PICK x : x = SubSeq(r, n + 1, Len(r))
  OBVIOUS
<1>5. x \in Seq(Chars) /\ Len(x) = m /\ \A k \in 1 .. m : x[k] = r[n + k]
  <2>1. n \in 0 .. Len(r)
    BY <1>2, <1>3
  <2>2. /\ x = [k \in 1 .. m |-> r[n + k]]
    <3>1. Len(r) - (n + 1) + 1 = m /\ \A k \in 1 .. m : n + 1 + k - 1 = n + k
      BY <1>2, <1>3
    <3>2. x = [k \in 1 .. Len(r) - (n + 1) + 1 |-> r[n + 1 + k - 1]]
      BY <1>2, <1>3, <1>4
    <3> QED
      BY <3>1, <3>2
  <2>3. \A k \in 1 .. m : r[n + k] \in Chars
    <3> SUFFICES ASSUME NEW k \in 1 .. m PROVE r[n + k] \in Chars
      OBVIOUS
    <3>1. n + k \in 1 .. Len(r)
      BY <1>2, <1>3
    <3> QED
      BY <1>3, <3>1, ElementOfSeq
  <2>4. x \in [1 .. m -> Chars]
    BY <2>2, <2>3
  <2>5. x \in Seq(Chars) /\ Len(x) = m
    BY <1>2, <2>4
  <2>6. \A k \in 1 .. m : x[k] = r[n + k]
    BY <2>2
  <2> QED
    BY <2>5, <2>6
<1>6. ASSUME NEW k \in 1 .. m PROVE x[k] = s[k]
  <2>1. n + k \in 1 .. Len(b) + Len(s) /\ ~(n + k <= Len(b)) /\ n + k - Len(b) = k
    BY <1>1, <1>2
  <2>2. PICK j : j = n + k
    OBVIOUS
  <2>3. j \in 1 .. Len(b) + Len(s) /\ ~(j <= Len(b))
    BY <2>1, <2>2
  <2>4. (b \o s)[j] = IF j <= Len(b) THEN b[j] ELSE s[j - Len(b)]
    BY <2>3, ConcatProperties
  <2>5. (b \o s)[j] = s[j - Len(b)]
    BY <2>3, <2>4
  <2> QED
    BY <1>1, <1>5, <2>1, <2>2, <2>5
<1>7. x = s
  BY <1>1, <1>5, <1>6, SeqEqual
<1>8. SubSeq(r, p.from, p.to) = s
  BY <1>1, <1>4, <1>7
<1>9. p.from \in Nat \ {0} /\ p.to \in Nat /\ p.to <= Len(r)
  BY <1>1, <1>2, <1>3
<1> QED
  BY <1>1, <1>8, <1>9 DEF KeptAt

(* formatInteger writes all of the number, or nothing.                     *)
LEMMA IntegerLonger ==
  ASSUME NEW b \in Seq(Chars), Len(b) < Size, NEW v \in Ints
  PROVE  /\ Longer(b, formatInteger(b, v))
         /\ formatInteger(b, v) # b => formatInteger(b, v) = b \o convert(v)
<1>1. Len(b) \in Nat /\ Size \in Nat /\ kMaxNumericSize \in Nat /\ v \in Int
      /\ Len(convert(v)) < kMaxNumericSize
  BY StreamAssumption, NumericAssumption DEF StreamAssumption, NumericAssumption
<1>2. convert(v) \in Seq(Chars) /\ Len(convert(v)) \in Nat
  BY <1>1, ConvertReads
<1>3. CASE avail(b) >= kMaxNumericSize
  <2>1. Len(b) + Len(convert(v)) < Size
    BY <1>1, <1>2, <1>3 DEF avail
  <2>2. formatInteger(b, v) = b \o convert(v)
    BY <1>3 DEF formatInteger
  <2> QED
    BY <1>2, <2>1, <2>2, LongerConcat
<1>4. CASE ~(avail(b) >= kMaxNumericSize)
  <2>1. formatInteger(b, v) = b
    BY <1>4 DEF formatInteger
  <2> QED
    BY <2>1, LongerSame
<1> QED
  BY <1>3, <1>4

(* operator<< of a pointer: "0x" and all of the digits, or nothing.        *)
LEMMA PointerLonger ==
  ASSUME NEW b \in Seq(Chars), Len(b) < Size, NEW v \in Pointers
  PROVE  /\ Longer(b, formatPointer(b, v))
         /\ b \o <<0, HexMark>> \in Seq(Chars) /\ Len(b \o <<0, HexMark>>) = Len(b) + 2
         /\ formatPointer(b, v) # b
              => formatPointer(b, v) = (b \o <<0, HexMark>>) \o convertHex(v)
<1>1. PICK x, c, h : x = <<0, HexMark>> /\ c = b \o x /\ h = convertHex(v)
  OBVIOUS
<1>2. Len(b) \in Nat /\ Size \in Nat /\ kMaxNumericSize \in Nat /\ v \in Nat
      /\ Len(h) + 2 < kMaxNumericSize
  BY <1>1, StreamAssumption, NumericAssumption DEF StreamAssumption, NumericAssumption
<1>3. h \in Seq(Chars) /\ Len(h) \in Nat
  BY <1>1, <1>2, ConvertHexReads, SMTT(30)
<1>4. x \in Seq(Chars) /\ Len(x) = 2
  <2>1. 0 \in Chars /\ HexMark \in Chars
    BY DEF Chars, HexMark, Newline
  <2> QED
    BY <1>1, <2>1
<1>5. c \in Seq(Chars) /\ Len(c) = Len(b) + 2
  <2>1. b \o x \in Seq(Chars) /\ Len(b \o x) = Len(b) + Len(x)
    BY <1>4, ConcatProperties
  <2> QED
    BY <1>1, <1>4, <2>1
<1>6. CASE avail(b) >= kMaxNumericSize
  <2>1. Len(b) + Len(x) < Size /\ Len(c) + Len(h) < Size
    BY <1>2, <1>3, <1>4, <1>5, <1>6 DEF avail
  <2>2. formatPointer(b, v) = c \o h
    BY <1>1, <1>6 DEF formatPointer
  <2>3. Longer(b, c)
    BY <1>1, <1>4, <2>1, LongerConcat
  <2>4. Longer(c, c \o h)
    BY <1>3, <1>5, <2>1, LongerConcat
  <2>5. Longer(b, c \o h)
    BY <2>3, <2>4, LongerTrans
  <2> QED
    BY <1>1, <1>5, <2>2, <2>5, Zenon
<1>7. CASE ~(avail(b) >= kMaxNumericSize)
  <2>1. formatPointer(b, v) = b
    BY <1>7 DEF formatPointer
  <2>2. Longer(b, b)
    BY LongerSame
  <2> QED
    BY <1>1, <1>5, <2>1, <2>2, Zenon
<1> QED
  BY <1>6, <1>7

LEMMA TextChars ==
  ASSUME NEW n \in Nat
  PROVE  Text(n) \in Seq(Chars)
<1>1. Letter \in Chars
  BY DEF Letter, Chars, Newline
<1>2. Text(n) \in [1 .. n -> Chars]
  BY <1>1 DEF Text
<1> QED
  BY <1>2

(* What a step that only makes the stream longer leaves to be shown.       *)
LEMMA LongerHolds ==
  ASSUME StreamInv, Longer(stream, stream'), ended' \in BOOLEAN,
         \A p \in kept' : p \in kept \/ KeptAt(stream', p)
  PROVE  StreamInv'
<1>1. stream \in Seq(Chars)
  BY DEF StreamInv, StreamTypeOK, Chars
<1>2. PICK r : r = stream'
  OBVIOUS
<1>3. Longer(stream, r)
  BY <1>2
<1>4. \A p \in kept : KeptAt(r, p)
  BY <1>1, <1>3, LongerKeeps DEF StreamInv
<1>5. \A p \in kept' : KeptAt(r, p)
  BY <1>2, <1>4
<1>6. r \in Seq(Chars) /\ Len(r) < Size
  BY <1>3 DEF Longer
<1>7. \A p \in kept' : KeptAt(stream', p)
  BY <1>2, <1>5
<1>8. StreamTypeOK' /\ Len(stream') < Size
  BY <1>2, <1>6 DEF StreamTypeOK, Chars
<1> QED
  BY <1>7, <1>8 DEF StreamInv

LEMMA StreamStep ==
  ASSUME StreamInv, StreamNext
  PROVE  StreamInv'
<1>1. stream \in Seq(Chars) /\ Len(stream) < Size /\ ended \in BOOLEAN
  BY DEF StreamInv, StreamTypeOK, Chars
<1>2. TextSizes \subseteq Nat /\ Ints \subseteq Int /\ Pointers \subseteq Nat
  BY StreamAssumption DEF StreamAssumption
<1>3. ASSUME NEW n \in TextSizes, StreamText(n) PROVE StreamInv'
  <2>1. stream' = FixedBuffer_append(stream, Text(n)) /\ kept' = kept /\ ended' = ended
    BY <1>3 DEF StreamText
  <2>2. Longer(stream, stream')
    <3>1. Text(n) \in Seq(Chars)
      BY <1>2, TextChars
    <3>2. Longer(stream, FixedBuffer_append(stream, Text(n)))
      BY <1>1, <3>1, AppendLonger
    <3> QED
      BY <2>1, <3>2
  <2>3. ended' \in BOOLEAN
    BY <1>1, <2>1
  <2> QED
    BY <2>1, <2>2, <2>3, LongerHolds
<1>4. ASSUME NEW v \in Ints, StreamInt(v) PROVE StreamInv'
  <2>1. PICK r, c : r = stream' /\ c = convert(v)
    OBVIOUS
  <2>2. /\ r = formatInteger(stream, v) /\ ended' = ended
        /\ kept' = IF r = stream THEN kept
                   ELSE kept \cup {[from |-> Len(stream) + 1, to |-> Len(r), base |-> 10,
                                    value |-> v]}
    BY <1>4, <2>1 DEF StreamInt
  <2>3. Longer(stream, r) /\ (r # stream => r = stream \o c)
    BY <1>1, <2>1, <2>2, IntegerLonger
  <2>4. c \in Seq(Chars) /\ ReadsAs(c, 10, v)
    BY <1>2, <2>1, ConvertReads
  <2>5. ASSUME NEW p \in kept', p \notin kept PROVE KeptAt(r, p)
    <3>1. r # stream
      BY <2>2, <2>5
    <3>2. p.from = Len(stream) + 1 /\ p.to = Len(r) /\ p.base = 10 /\ p.value = v
      BY <2>2, <2>5, <3>1
    <3>3. r = stream \o c
      BY <2>3, <3>1
    <3>4. p.to = Len(stream \o c)
      BY <3>2, <3>3
    <3>5. KeptAt(stream \o c, p)
      BY <1>1, <2>4, <3>2, <3>4, NumberKept
    <3> QED
      BY <3>3, <3>5
  <2>6. \A p \in kept' : p \in kept \/ KeptAt(stream', p)
    BY <2>1, <2>5
  <2>7. Longer(stream, stream') /\ ended' \in BOOLEAN
    BY <1>1, <2>1, <2>2, <2>3
  <2> QED
    BY <2>6, <2>7, LongerHolds
<1>5. ASSUME NEW v \in Pointers, StreamPointer(v) PROVE StreamInv'
  <2>1. PICK r, c, b : r = stream' /\ c = convertHex(v) /\ b = stream \o <<0, HexMark>>
    OBVIOUS
  <2>2. /\ r = formatPointer(stream, v) /\ ended' = ended
        /\ kept' = IF r = stream THEN kept
                   ELSE kept \cup {[from |-> Len(stream) + 3, to |-> Len(r), base |-> 16,
                                    value |-> v]}
    BY <1>5, <2>1 DEF StreamPointer
  <2>3. /\ Longer(stream, r) /\ b \in Seq(Chars) /\ Len(b) = Len(stream) + 2
        /\ r # stream => r = b \o c
    <3>1. /\ Longer(stream, formatPointer(stream, v))
          /\ stream \o <<0, HexMark>> \in Seq(Chars)
          /\ Len(stream \o <<0, HexMark>>) = Len(stream) + 2
          /\ formatPointer(stream, v) # stream
               => formatPointer(stream, v) = (stream \o <<0, HexMark>>) \o convertHex(v)
      BY <1>1, PointerLonger
    <3> QED
      BY <2>1, <2>2, <3>1, Zenon
  <2>4. c \in Seq(Chars) /\ ReadsAs(c, 16, v)
    BY <1>2, <2>1, ConvertHexReads
  <2>5. ASSUME NEW p \in kept', p \notin kept PROVE KeptAt(r, p)
    <3>1. r # stream
      BY <2>2, <2>5
    <3>2. p.from = Len(stream) + 3 /\ p.to = Len(r) /\ p.base = 16 /\ p.value = v
      BY <2>2, <2>5, <3>1
    <3>3. r = b \o c
      BY <2>3, <3>1
    <3>4. p.from = Len(b) + 1 /\ p.to = Len(b \o c)
      <4>1. Len(stream) \in Nat
        BY <1>1
      <4> QED
        BY <2>3, <3>2, <3>3, <4>1
    <3>5. KeptAt(b \o c, p)
      BY <2>3, <2>4, <3>2, <3>4, NumberKept
    <3> QED
      BY <3>3, <3>5
  <2>6. \A p \in kept' : p \in kept \/ KeptAt(stream', p)
    BY <2>1, <2>5
  <2>7. Longer(stream, stream') /\ ended' \in BOOLEAN
    BY <1>1, <2>1, <2>2, <2>3
  <2> QED
    BY <2>6, <2>7, LongerHolds
<1>6. ASSUME NEW n \in TextSizes, NEW v \in Ints \cap Nat, EndLine(n, v) PROVE StreamInv'
  <2>1. PICK b1, b2, b3, b4, b5 :
          /\ b1 = FixedBuffer_append(stream, Text(3))
          /\ b2 = FixedBuffer_append(b1, Text(n))
          /\ b3 = FixedBuffer_append(b2, Text(1))
          /\ b4 = formatInteger(b3, v)
          /\ b5 = FixedBuffer_append(b4, <<Newline>>)
    OBVIOUS
  <2>2. stream' = b5 /\ kept' = kept /\ ended' = TRUE
    BY <1>6, <2>1 DEF EndLine
  <2>3. /\ Text(3) \in Seq(Chars) /\ Text(n) \in Seq(Chars) /\ Text(1) \in Seq(Chars)
        /\ <<Newline>> \in Seq(Chars)
    <3>1. 3 \in Nat /\ n \in Nat /\ 1 \in Nat /\ Newline \in Chars
      BY <1>2 DEF Newline, Chars
    <3> QED
      BY <3>1, TextChars
  <2>4. Longer(stream, b1)
    BY <1>1, <2>1, <2>3, AppendLonger
  <2>5. b1 \in Seq(Chars) /\ Len(b1) < Size
    BY <2>4 DEF Longer
  <2>6. Longer(b1, b2)
    BY <2>1, <2>3, <2>5, AppendLonger
  <2>7. b2 \in Seq(Chars) /\ Len(b2) < Size
    BY <2>6 DEF Longer
  <2>8. Longer(b2, b3)
    BY <2>1, <2>3, <2>7, AppendLonger
  <2>9. b3 \in Seq(Chars) /\ Len(b3) < Size
    BY <2>8 DEF Longer
  <2>10. Longer(b3, b4)
    BY <2>1, <2>9, IntegerLonger
  <2>11. b4 \in Seq(Chars) /\ Len(b4) < Size
    BY <2>10 DEF Longer
  <2>12. Longer(b4, b5)
    BY <2>1, <2>3, <2>11, AppendLonger
  <2>13. Longer(stream, b5)
    <3>1. Longer(stream, b2)
      BY <1>1, <2>4, <2>6, LongerTrans
    <3>2. Longer(stream, b3)
      BY <1>1, <2>8, <3>1, LongerTrans
    <3>3. Longer(stream, b4)
      BY <1>1, <2>10, <3>2, LongerTrans
    <3> QED
      BY <1>1, <2>12, <3>3, LongerTrans
  <2>14. Longer(stream, stream') /\ ended' \in BOOLEAN
    BY <2>2, <2>13
  <2> QED
    BY <2>2, <2>14, LongerHolds
<1> QED
  BY <1>3, <1>4, <1>5, <1>6 DEF StreamNext

LEMMA StreamStarts == StreamInit => StreamInv
<1> SUFFICES ASSUME StreamInit PROVE StreamInv
  OBVIOUS
<1>1. Size \in Nat \ {0} /\ Header \in Nat
  BY StreamAssumption DEF StreamAssumption
<1>2. <<>> \in Seq(Chars) /\ Len(<<>>) < Size
  <2>1. <<>> \in Seq(Chars)
    BY EmptySeq
  <2>2. Len(<<>>) = 0
    OBVIOUS
  <2> QED
    BY <1>1, <2>1, <2>2
<1>3. Longer(<<>>, FixedBuffer_append(<<>>, Text(Header)))
  BY <1>1, <1>2, TextChars, AppendLonger
<1>4. stream \in Seq(Chars) /\ Len(stream) < Size /\ kept = {} /\ ended = FALSE
  BY <1>3 DEF StreamInit, Longer
<1> QED
  BY <1>4 DEF StreamInv, StreamTypeOK, Chars

LEMMA StreamInvariant == Spec => []StreamInv
<1>1. Init => StreamInv
  BY StreamStarts DEF Init
<1>2. StreamInv /\ [SinkPart \/ StreamPart]_allVars => StreamInv'
  <2> SUFFICES ASSUME StreamInv, [SinkPart \/ StreamPart]_allVars PROVE StreamInv'
    OBVIOUS
  <2>1. CASE UNCHANGED streamVars
    <3>1. stream' = stream /\ kept' = kept /\ ended' = ended
      BY <2>1 DEF streamVars
    <3>2. \A p \in kept' : KeptAt(stream', p)
      BY <3>1 DEF StreamInv
    <3>3. StreamTypeOK' /\ Len(stream') < Size
      BY <3>1 DEF StreamInv, StreamTypeOK
    <3> QED
      BY <3>2, <3>3 DEF StreamInv
  <2>2. CASE StreamPart
    BY <2>2, StreamStep DEF StreamPart
  <2>3. CASE SinkPart
    BY <2>1, <2>3 DEF SinkPart
  <2>4. CASE UNCHANGED allVars
    BY <2>1, <2>4 DEF allVars
  <2> QED
    BY <2>2, <2>3, <2>4
<1> QED
  BY <1>1, <1>2, PTL DEF Spec

(* Whatever is streamed in whatever order, the buffer has room for the NUL *)
(* that convert writes, and every number in it reads back as the value     *)
(* that was streamed: for all integers and pointers, negative ones and the *)
(* least one included, that have fewer characters than kMaxNumericSize.    *)
THEOREM NumbersReadBack == Spec => []StreamSound
<1>1. StreamInv => StreamSound
  BY DEF StreamInv, StreamSound, KeptAt, ReadsAs
<1> QED
  BY <1>1, StreamInvariant, PTL

(* Types of the whole log: those of the sinks, and that convert's table is *)
(* only read inside its bounds and yields characters.                      *)
THEOREM TypesCorrect == Spec => []TypeOK
<1>1. StreamInv => StreamTypeOK
  BY DEF StreamInv
<1>2. LoggingTypeOK /\ StreamTypeOK => TypeOK
  BY DEF TypeOK
<1> QED
  BY <1>1, <1>2, StreamInvariant, LoggingTypeCorrect, PTL
=============================================================================
