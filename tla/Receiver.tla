------------------------------ MODULE Receiver -------------------------------
(***************************************************************************)
(* Receiver (ydx_receiver.cpp): the loop thread of its TcpServer splits    *)
(* the bytes of a connection into messages and writes them to the stream   *)
(* buffer (onMessage); application threads take them out (receive) and     *)
(* sleep on a condition variable when there is none.  Both sides work      *)
(* under mutex_, so a critical section is one step.                        *)
(***************************************************************************)
EXTENDS StreamBuffer

CONSTANTS
  Receivers,        \* application threads calling receive()
  Lens,             \* message lengths
  AnyLens,          \* what bytes that are no header may decode to
  MaxMsgs,          \* bound: messages the peer sends
  MaxPerRead,       \* bound: bytes one read_fd appends
  MaxCount,         \* bound: msg_count_, in a loop that does not end
  Scenes,           \* what may happen: see Scene
  CountMod          \* 2^w for the w-bit counter msg_count_

(* Which threads call receive(), and whether a read may end inside a       *)
(* length header.                                                          *)
Scene == [callers : SUBSET Receivers, cuts : BOOLEAN]

ASSUME ReceiverAssumption ==
  /\ Lens \subseteq Nat /\ AnyLens \subseteq Int
  /\ MaxMsgs \in Nat
  /\ MaxPerRead \in Nat
  /\ Scenes \subseteq Scene
  /\ MaxCount \in Nat /\ MaxMsgs <= MaxCount
  /\ CountMod \in Nat /\ CountMod > MaxCount

VARIABLES
  scene,          \* the scene of this behaviour
  ring,           \* stream_buffer_
  msgCount,       \* msg_count_
  stream,         \* bytes the peer has sent and TCP has not delivered
  array,          \* the connection's Buffer: buffer_ up to its high-water mark
  reader,         \* reader_index_
  readable,       \* readable_bytes()
  lpc,            \* the loop thread: "idle" in epoll_wait, "loop" in onMessage
  rpc,            \* each receiver: not in receive(), in cond_.wait(), or signalled
  accepted,       \* frames write_buffer has put into the ring (history)
  received        \* frames handed to receive()'s callers (history)

inputVars == <<stream, array, reader, readable>>
vars == <<scene, ring, msgCount, inputVars, lpc, rpc, accepted, received>>

Msgs == [id : 1 .. MaxMsgs, len : Lens]

(* Bytes that onMessage has taken for a message of the given length.       *)
Garbage(len) == [id |-> MaxMsgs + 1, len |-> len]

Entries == Msgs \cup {Garbage(len) : len \in AnyLens \cap Nat} \cup {Negative}

TypeOK ==
  /\ scene \in Scenes
  /\ ring \in Ring
  /\ msgCount \in 0 .. CountMod - 1
  /\ stream \in Seq(Msgs \X Nat)
  /\ array \in Seq(Msgs \X Nat)
  /\ reader \in 0 .. Len(array)
  /\ readable \in 0 .. Len(array) - reader
  /\ lpc \in {"idle", "loop"}
  /\ rpc \in [Receivers -> {"idle", "waiting", "signalled"}]
  /\ accepted \in Seq(Entries)
  /\ received \in Seq(Seq(Byte))

(* What the peer sends: MaxMsgs frames of the given lengths.               *)
Frames(lens) ==
  LET F[i \in 0 .. MaxMsgs] ==
        IF i = 0 THEN <<>>
        ELSE LET m == [id |-> i, len |-> lens[i]] IN F[i - 1] \o Header(m) \o Body(m)
  IN F[MaxMsgs]

Init ==
  /\ scene \in Scenes
  /\ ring = EmptyRing
  /\ msgCount = 0
  /\ stream \in {Frames(lens) : lens \in [1 .. MaxMsgs -> Lens]}
  /\ array = <<>>
  /\ reader = 0
  /\ readable = 0
  /\ lpc = "idle"
  /\ rpc = [r \in Receivers |-> "idle"]
  /\ accepted = <<>>
  /\ received = <<>>

-----------------------------------------------------------------------------
(* The loop thread.                                                        *)

(* TcpConnection::handleRead: read_fd appends the next n bytes TCP has     *)
(* delivered, a cut anywhere in the stream, and calls onMessage.  What the *)
(* array holds behind them is left over from earlier messages.             *)
handleRead(n) ==
  LET writer == reader + readable IN
  /\ lpc = "idle"
  /\ lpc' = "loop"
  /\ n <= Len(stream)
  /\ scene.cuts \/ stream[n][2] >= HeaderSize
  /\ array' = SubSeq(array, 1, writer) \o SubSeq(stream, 1, n)
                 \o SubSeq(array, writer + n + 1, Len(array))
  /\ stream' = SubSeq(stream, n + 1, Len(stream))
  /\ readable' = readable + n
  /\ UNCHANGED <<scene, ring, msgCount, reader, rpc, accepted, received>>

(* Mutant: the reader index moves, the writer index is not reset.          *)
retrieve_KeepsReadable(len) ==
  IF len < readable
    THEN reader' = reader + len /\ readable' = readable - len
    ELSE reader' = reader + len /\ UNCHANGED readable

(* Buffer::retrieve                                                        *)
retrieve(len) ==
  IF len < readable
    THEN reader' = reader + len /\ readable' = readable - len
    ELSE reader' = 0 /\ readable' = 0

(* cond_.notify(): one waiting thread, if there is any, is signalled.      *)
notify ==
  LET waiting == {r \in Receivers : rpc[r] = "waiting"} IN
  \/ waiting = {} /\ UNCHANGED rpc
  \/ \E r \in waiting : rpc' = [rpc EXCEPT ![r] = "signalled"]

(* Mutant: if(++msg_count_ == 0) cond_.notify();                           *)
CountMessage_PreIncrement ==
  /\ msgCount' = (msgCount + 1) % CountMod
  /\ IF msgCount' = 0 THEN notify ELSE UNCHANGED rpc

(* if(msg_count_ ++ == 0) cond_.notify();                                  *)
CountMessage ==
  /\ msgCount' = (msgCount + 1) % CountMod
  /\ IF msgCount = 0 THEN notify ELSE UNCHANGED rpc

(* The message whose byte is the first of the readable ones.               *)
First == array[reader + 1][1]

(* The HeaderSize bytes from the reader index on are a header: the one of  *)
(* First.                                                                  *)
AtHeader ==
  /\ reader + HeaderSize <= Len(array)
  /\ SubSeq(array, reader + 1, reader + HeaderSize) = Header(First)

(* The bytes that are taken for a header may make up a negative length:    *)
(* behind the array there are zeros, and the last byte of a header, the    *)
(* most significant one, is not negative.                                  *)
MayBeNegative ==
  /\ reader + HeaderSize <= Len(array)
  /\ array[reader + HeaderSize][2] # HeaderSize

(* message_len: memcpy takes sizeof(int) bytes also when fewer than that   *)
(* are readable, and those left over from earlier messages are behind.     *)
Lengths ==
  IF AtHeader THEN {First.len}
  ELSE IF MayBeNegative THEN AnyLens
  ELSE AnyLens \cap Nat

(* What write_buffer is given.                                             *)
Given(len) == IF AtHeader THEN First ELSE Garbage(len)

(* Mutant: the length of the message is not compared with what is there.   *)
onMessageComplete_NoLengthCheck(len) ==
  /\ lpc = "loop" /\ readable > 0 /\ msgCount < MaxCount
  /\ len >= 0
  /\ readable >= HeaderSize
  /\ \E w \in {write_buffer(ring, Given(len))} :
       /\ ring' = w.ring
       /\ accepted' = IF w.ok THEN Append(accepted, Given(len)) ELSE accepted
  /\ retrieve(HeaderSize + len)
  /\ CountMessage
  /\ UNCHANGED <<scene, stream, array, lpc, received>>

(* One round of onMessage's loop over a complete message: the result of    *)
(* write_buffer is not looked at.                                          *)
onMessageComplete(len) ==
  /\ lpc = "loop" /\ readable > 0 /\ msgCount < MaxCount
  /\ len >= 0
  /\ readable - HeaderSize >= len
  /\ \E w \in {write_buffer(ring, Given(len))} :
       /\ ring' = w.ring
       /\ accepted' = IF w.ok THEN Append(accepted, Given(len)) ELSE accepted
  /\ retrieve(HeaderSize + len)
  /\ CountMessage
  /\ UNCHANGED <<scene, stream, array, lpc, received>>

(* Nothing is left, or an incomplete message: the loop ends.               *)
onMessageBreak ==
  /\ lpc = "loop"
  /\ readable > 0 => \E len \in Lengths : readable - HeaderSize < len
  /\ lpc' = "idle"
  /\ UNCHANGED <<scene, ring, msgCount, inputVars, rpc, accepted, received>>

(* A negative length that is larger than the (negative) rest does not end  *)
(* the loop.  write_buffer fails: at once, or having copied the header.    *)
(* sizeof(int) + len bytes are retrieved, none when that is 0 and all when *)
(* it is negative (as a size_t it is huge), and the message is counted.    *)
onMessageNegative(len) ==
  /\ lpc = "loop" /\ readable > 0 /\ msgCount < MaxCount
  /\ len < 0
  /\ readable - HeaderSize >= len
  /\ IF len < -HeaderSize
       THEN UNCHANGED <<ring, accepted>> /\ retrieve(readable)
       ELSE /\ \E h \in {copy_in_must(ring, Header(Negative))} :
                 /\ ring' = h.ring
                 /\ accepted' = IF h.ret = 0 THEN accepted ELSE Append(accepted, Negative)
            /\ retrieve(HeaderSize + len)
  /\ CountMessage
  /\ UNCHANGED <<scene, stream, array, lpc, received>>

-----------------------------------------------------------------------------
(* Application threads in receive().                                       *)

(* Mutant: msg_count_ goes down although nothing could be read.            *)
take_AlwaysCounts(r, anyLen) ==
  LET b == read_buffer(ring, anyLen) IN
  /\ ring' = b.ring
  /\ received' = IF b.ok THEN Append(received, b.buf) ELSE received
  /\ msgCount' = (msgCount - 1) % CountMod
  /\ rpc' = [rpc EXCEPT ![r] = "idle"]
  /\ UNCHANGED <<scene, inputVars, lpc, accepted>>

(* The second half of receive(), with or without having waited: a failed   *)
(* read_buffer is returned to the caller, not retried.                     *)
take(r, anyLen) ==
  \E b \in {read_buffer(ring, anyLen)} :
  /\ ring' = b.ring
  /\ received' = IF b.ok THEN Append(received, b.buf) ELSE received
  /\ msgCount' = IF b.ok THEN (msgCount - 1) % CountMod ELSE msgCount
  /\ rpc' = [rpc EXCEPT ![r] = "idle"]
  /\ UNCHANGED <<scene, inputVars, lpc, accepted>>

receive(r, anyLen) ==
  /\ r \in scene.callers
  /\ rpc[r] = "idle"
  /\ IF msgCount = 0
       THEN /\ rpc' = [rpc EXCEPT ![r] = "waiting"]
            /\ UNCHANGED <<scene, ring, msgCount, inputVars, lpc, accepted, received>>
       ELSE take(r, anyLen)

(* cond_.wait() returns with the mutex held; msg_count_ is not read again. *)
WaitReturns(r, anyLen) ==
  /\ rpc[r] = "signalled"
  /\ take(r, anyLen)

(* pthread_cond_wait may return without a signal.                          *)
SpuriousWakeup(r) ==
  /\ rpc[r] = "waiting"
  /\ rpc' = [rpc EXCEPT ![r] = "signalled"]
  /\ UNCHANGED <<scene, ring, msgCount, inputVars, lpc, accepted, received>>

-----------------------------------------------------------------------------
Deliver == \E n \in 1 .. MaxPerRead : handleRead(n)

OnMessage ==
  \/ onMessageBreak
  \/ \E len \in Lengths : onMessageComplete(len) \/ onMessageNegative(len)

Next ==
  \/ Deliver
  \/ OnMessage
  \/ \E r \in Receivers, len \in Lens : receive(r, len) \/ WaitReturns(r, len)
  \/ \E r \in Receivers : SpuriousWakeup(r)

Spec == Init /\ [][Next]_vars

(* The loop thread finishes onMessage, and a signalled thread gets the     *)
(* mutex.  Nothing makes the peer send or an application call receive.     *)
FairSpec ==
  /\ Spec
  /\ WF_vars(OnMessage)
  /\ \A r \in Receivers : WF_vars(\E len \in Lens : WaitReturns(r, len))

-----------------------------------------------------------------------------
(* A receiver that finds msg_count_ at 0, and so goes to sleep, leaves     *)
(* nothing behind in the stream buffer, also after write_buffer has failed *)
(* or after a message could not be read at once.                           *)
NoSleepOnMessage == msgCount = 0 => used(ring) = 0

(* What receivers are handed are the frames onMessage has put into the     *)
(* ring, whole, each at most once and in their order, whichever threads    *)
(* take them; and, when no header is cut, these are messages of the peer,  *)
(* in the order in which it has sent them.                                 *)
WholeMessagesInOrder ==
  /\ \E f \in [DOMAIN received -> DOMAIN accepted] :
       /\ \A i \in DOMAIN received :
            received[i] = Header(accepted[f[i]]) \o Body(accepted[f[i]])
       /\ \A i, j \in DOMAIN received : i < j => f[i] < f[j]
  /\ ~scene.cuts =>
       /\ \A i \in DOMAIN accepted : accepted[i] \in Msgs
       /\ \A i, j \in DOMAIN accepted : i < j => accepted[i].id < accepted[j].id

(* onMessage stops at an incomplete message: what it has counted, read or  *)
(* not, are messages that have arrived as a whole.                         *)
OnlyCompleteCounted ==
  LET next == IF readable > 0 THEN First.id
              ELSE IF stream # <<>> THEN Head(stream)[1].id
              ELSE MaxMsgs + 1
  IN msgCount + Len(received) < next

(* The same, when no header is cut.                                        *)
CompleteUnlessCut == ~scene.cuts => OnlyCompleteCounted

(* A thread blocked in receive() while msg_count_ is positive does not     *)
(* stay blocked: it is signalled or the messages are taken by others.      *)
BlockedReceiverServed ==
  \A r \in Receivers :
    (rpc[r] = "waiting" /\ msgCount > 0) ~> (rpc[r] # "waiting" \/ msgCount = 0)

(* The same, for a thread that is the only one to call receive().          *)
OnlyReceiverServed ==
  \A r \in Receivers :
    (scene.callers = {r} /\ rpc[r] = "waiting" /\ msgCount > 0)
      ~> (rpc[r] # "waiting" \/ msgCount = 0)
=============================================================================
