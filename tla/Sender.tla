-------------------------------- MODULE Sender -------------------------------
(***************************************************************************)
(* Sender (ydx_sender.cpp): threads that call send() write to the ring     *)
(* without a lock, and Sender's thread reads it and hands what it reads to *)
(* the connection.  Each call of StreamBuffer's byte-level functions is a  *)
(* step, so that header and body of a message are written, and read, apart *)
(* from each other.  Within such a call the other side changes nothing     *)
(* that the call depends on as long as one thread writes and the ring is   *)
(* never filled to its last slot.                                          *)
(*                                                                         *)
(* The connection is reduced to what is_connected() and connection() say   *)
(* about it after a poll; Client models how it comes and goes.             *)
(***************************************************************************)
EXTENDS StreamBuffer

CONSTANTS
  Producers,   \* threads that call send()
  SendLens,    \* message lengths
  AnyLens,     \* what bytes that are no header may decode to
  MaxSends     \* bound: calls of send()

ASSUME SenderAssumption ==
  SendLens \subseteq Nat /\ AnyLens \subseteq Int /\ MaxSends \in Nat

VARIABLES
  sbuf,        \* stream_buffer_
  msg_count,   \* msg_count_
  sends,       \* calls of send() so far; numbers the messages
  ppc,         \* where each producer is in send()
  msg,         \* the message it sends
  spc,         \* where Sender's thread is
  nLen,        \* its nLen
  buf,         \* the header it peeked at, then the frame it read
  link,        \* "claimed": is_connected() without a connection; "up"; "down"
  written,     \* messages write_buffer returned true for, in order (history)
  taken,       \* frames read_buffer returned true for, in order (history)
  filled       \* the last slot of the ring was once used (history)

senderVars == <<sbuf, msg_count, sends, ppc, msg, spc, nLen, buf, link, written, taken,
                filled>>
readerVars == <<spc, nLen, buf, link, taken>>
writerVars == <<sends, ppc, msg, written, filled>>

NoMsg == [id |-> 0, len |-> 0]

SenderInit ==
  /\ sbuf = EmptyRing
  /\ msg_count = 0
  /\ sends = 0
  /\ ppc = [p \in Producers |-> "idle"]
  /\ msg = [p \in Producers |-> NoMsg]
  /\ spc = "poll"
  /\ nLen = 0
  /\ buf = <<>>
  /\ link = "claimed"
  /\ written = <<>>
  /\ taken = <<>>
  /\ filled = FALSE

-----------------------------------------------------------------------------
(* send(), by a producer.                                                  *)

Send(p, len) ==
  /\ ppc[p] = "idle" /\ sends < MaxSends
  /\ sends' = sends + 1
  /\ msg' = [msg EXCEPT ![p] = [id |-> sends + 1, len |-> len]]
  /\ ppc' = [ppc EXCEPT ![p] = "check"]
  /\ UNCHANGED <<sbuf, msg_count, written, filled, readerVars>>

(* write_buffer: is there room for header and body?  If not, send() drops  *)
(* the message and returns true.                                           *)
CheckRoom(p) ==
  /\ ppc[p] = "check"
  /\ ppc' = [ppc EXCEPT ![p] = IF unused(sbuf) < msg[p].len + HeaderSize
                                 THEN "idle" ELSE "header"]
  /\ UNCHANGED <<sbuf, msg_count, sends, msg, written, filled, readerVars>>

(* in_ has met out_: a ring that is full looks like an empty one.          *)
Fills(r) == r.in = r.out

(* "short": the header could not be copied, and write_buffer goes on.      *)
WriteHeader(p) ==
  LET h == copy_in_must(sbuf, Header(msg[p])) IN
  /\ ppc[p] = "header"
  /\ sbuf' = h.ring
  /\ filled' = (filled \/ (h.ret > 0 /\ Fills(h.ring)))
  /\ ppc' = [ppc EXCEPT ![p] = IF h.ret = 0 THEN "short" ELSE "body"]
  /\ UNCHANGED <<msg_count, sends, msg, written, readerVars>>

WriteBody(p) ==
  LET b == copy_in_must(sbuf, Body(msg[p]))
      ok == ppc[p] = "body" /\ b.ret = msg[p].len
  IN
  /\ ppc[p] \in {"body", "short"}
  /\ sbuf' = b.ring
  /\ filled' = (filled \/ (b.ret > 0 /\ Fills(b.ring)))
  /\ written' = IF ok THEN Append(written, msg[p]) ELSE written
  /\ ppc' = [ppc EXCEPT ![p] = IF ok THEN "count" ELSE "idle"]
  /\ UNCHANGED <<msg_count, sends, msg, readerVars>>

(* Mutant: no notify.                                                      *)
Count_NoNotify(p) ==
  /\ ppc[p] = "count"
  /\ ppc' = [ppc EXCEPT ![p] = "idle"]
  /\ msg_count' = IF msg_count = 0 THEN 2 ELSE msg_count + 1
  /\ UNCHANGED <<sbuf, sends, msg, written, filled, readerVars>>

(* The message is counted, twice when the count was 0, with a notify.      *)
Count(p) ==
  /\ ppc[p] = "count"
  /\ ppc' = [ppc EXCEPT ![p] = "idle"]
  /\ msg_count' = IF msg_count = 0 THEN 2 ELSE msg_count + 1
  /\ spc' = IF msg_count = 0 /\ spc = "waiting" THEN "peek" ELSE spc
  /\ UNCHANGED <<sbuf, sends, msg, written, filled, nLen, buf, link, taken>>

-----------------------------------------------------------------------------
(* thread_start_epoll's loop.                                              *)

(* run_one_poll: the connection comes, goes or stays.                      *)
Poll ==
  /\ spc = "poll"
  /\ spc' = "lock"
  /\ link' \in {link, "up"} \cup (IF link = "up" THEN {"down"} ELSE {})
  /\ UNCHANGED <<sbuf, msg_count, nLen, buf, taken, writerVars>>

CheckEmpty ==
  /\ spc = "lock"
  /\ spc' = IF msg_count = 0 THEN "waiting" ELSE "peek"
  /\ UNCHANGED <<sbuf, msg_count, nLen, buf, link, taken, writerVars>>

(* cond_.wait() may return for no reason; there is no loop around it.      *)
SpuriousWakeup ==
  /\ spc = "waiting"
  /\ spc' = "peek"
  /\ UNCHANGED <<sbuf, msg_count, nLen, buf, link, taken, writerVars>>

(* read_buffer: the header is peeked at ...                                *)
PeekHeader(anyLen) ==
  LET h == peek_out_must(sbuf, HeaderSize) IN
  /\ spc = "peek"
  /\ spc' = IF h.ret = 0 THEN "poll" ELSE "length"
  /\ nLen' = IF h.ret = 0 THEN 0 ELSE decoded(h.buf, anyLen)
  /\ buf' = h.buf
  /\ UNCHANGED <<sbuf, msg_count, link, taken, writerVars>>

(* Mutant: the header is taken although the body is not there yet.         *)
CheckLength_TakesHeader ==
  /\ spc = "length"
  /\ IF nLen < -HeaderSize \/ used(sbuf) < nLen + HeaderSize
       THEN /\ spc' = "poll" /\ nLen' = 0
            /\ sbuf' = has_read(sbuf, HeaderSize)
       ELSE spc' = "skip" /\ UNCHANGED <<sbuf, nLen>>
  /\ UNCHANGED <<msg_count, buf, link, taken, writerVars>>

(* ... the whole frame must be there (its length as a uint64_t: less than  *)
(* -sizeof(int) is huge) ...                                               *)
CheckLength ==
  /\ spc = "length"
  /\ IF nLen < -HeaderSize \/ used(sbuf) < nLen + HeaderSize
       THEN spc' = "poll" /\ nLen' = 0
       ELSE spc' = "skip" /\ UNCHANGED nLen
  /\ UNCHANGED <<sbuf, msg_count, buf, link, taken, writerVars>>

(* ... the header is skipped ("short": it was not there any more) ...      *)
SkipHeader ==
  /\ spc = "skip"
  /\ spc' = IF used(sbuf) < HeaderSize THEN "short" ELSE "copy"
  /\ sbuf' = has_read(sbuf, HeaderSize)
  /\ UNCHANGED <<msg_count, nLen, buf, link, taken, writerVars>>

(* ... and the body copied out.  To copy_out_must a negative length is a   *)
(* huge one.                                                               *)
CopyBody ==
  LET b == copy_out_must(sbuf, IF nLen < 0 THEN Size + 1 ELSE nLen)
      ok == (IF spc = "copy" THEN HeaderSize ELSE 0) + b.ret = nLen + HeaderSize
  IN
  /\ spc \in {"copy", "short"}
  /\ sbuf' = b.ring
  /\ buf' = buf \o b.buf
  /\ taken' = IF ok THEN Append(taken, buf') ELSE taken
  /\ spc' = IF ok THEN "send" ELSE "poll"
  /\ UNCHANGED <<msg_count, nLen, link, writerVars>>

(* Both sends and the count, when is_connected(); without a connection     *)
(* connection() is null.  What is read while the link is down is gone, and *)
(* stays counted.                                                          *)
SendFrame ==
  /\ spc = "send"
  /\ spc' = IF link = "claimed" THEN "crashed" ELSE "poll"
  /\ msg_count' = IF link = "up" THEN msg_count - 1 ELSE msg_count
  /\ UNCHANGED <<sbuf, nLen, buf, link, taken, writerVars>>

-----------------------------------------------------------------------------
ProducerStep(p) == CheckRoom(p) \/ WriteHeader(p) \/ WriteBody(p) \/ Count(p)

ThreadStep ==
  \/ Poll \/ CheckEmpty \/ CheckLength \/ SkipHeader \/ CopyBody \/ SendFrame
  \/ \E anyLen \in AnyLens : PeekHeader(anyLen)

SenderNext ==
  /\ spc # "crashed"
  /\ \/ ThreadStep \/ SpuriousWakeup
     \/ \E p \in Producers : ProducerStep(p) \/ \E len \in SendLens : Send(p, len)

SenderSpec == SenderInit /\ [][SenderNext]_senderVars

(* Every thread is scheduled, and a caller finishes send().                *)
SenderFairness ==
  /\ WF_senderVars(ThreadStep /\ spc # "crashed")
  /\ \A p \in Producers : WF_senderVars(ProducerStep(p) /\ spc # "crashed")

-----------------------------------------------------------------------------
Frame(m) == Header(m) \o Body(m)

(* One thread calls send().  As long as the ring was never filled to the   *)
(* last slot (what happens then is StreamBufferUser's AcceptedIsReadable), *)
(* Sender's thread reads exactly the messages send() has written, whole,   *)
(* each once and in order, although it reads while a message is being      *)
(* written.                                                                *)
TakenInOrder ==
  ~filled =>
    /\ Len(taken) <= Len(written)
    /\ \A i \in DOMAIN taken : taken[i] = Frame(written[i])

(* The n-th message that was written has not been read; used() is one too  *)
(* small on a ring that has wrapped, so the last message may look as if a  *)
(* byte of it were missing.                                                *)
Waits(n) == Len(taken) < n /\ n <= Len(written)
LooksShort(n) == n = Len(written) /\ sbuf.in < sbuf.out

(* A message does not stay in the ring, asleep over it or not, whatever    *)
(* the connection does, unless it is the last one and lies across the end  *)
(* of the array (or the ring was filled, or the thread is gone): that one  *)
(* waits for the next message.                                             *)
SenderProgress ==
  \A n \in 1 .. MaxSends : Waits(n) ~> (~Waits(n) \/ LooksShort(n) \/ filled \/ spc = "crashed")
=============================================================================
