-------------------------- MODULE StreamBufferUser ---------------------------
(***************************************************************************)
(* The users of one StreamBuffer: a producer that calls write_buffer and a *)
(* consumer that calls read_buffer (UserSpec), or callers of its           *)
(* byte-level interface (ByteSpec).  The calls are serialised, as the      *)
(* mutex of Receiver serialises them.                                      *)
(***************************************************************************)
EXTENDS StreamBuffer

CONSTANTS
  Lens,       \* message lengths
  MaxMsgs,    \* bound: number of write_buffer calls
  MaxBytes    \* bound: bytes outstanding in ByteSpec

ASSUME UserAssumption ==
  /\ Lens \subseteq Nat
  /\ MaxMsgs \in Nat
  /\ MaxBytes \in Nat

VARIABLES
  ring,       \* the StreamBuffer
  calls,      \* write_buffer calls so far; numbers the messages
  accepted,   \* messages write_buffer returned true for, in order (history)
  received,   \* frames read_buffer returned true for, in order (history)
  unread      \* bytes written and not read yet (history)

userVars == <<ring, calls, accepted, received, unread>>

Msgs == [id : 1 .. MaxMsgs, len : Lens]

UserTypeOK ==
  /\ ring \in Ring
  /\ calls \in 0 .. MaxMsgs
  /\ accepted \in Seq(Msgs)
  /\ received \in Seq(Seq(Byte))
  /\ unread \in Nat

UserInit ==
  /\ ring = EmptyRing
  /\ calls = 0
  /\ accepted = <<>>
  /\ received = <<>>
  /\ unread = 0

-----------------------------------------------------------------------------
Write(len) ==
  LET m == [id |-> calls + 1, len |-> len]
      w == write_buffer(ring, m)
  IN /\ calls < MaxMsgs
     /\ calls' = calls + 1
     /\ ring' = w.ring
     /\ accepted' = IF w.ok THEN Append(accepted, m) ELSE accepted
     /\ unread' = IF w.ok THEN unread + HeaderSize + len ELSE unread
     /\ UNCHANGED received

Read(anyLen) ==
  LET b == read_buffer(ring, anyLen)
  IN /\ ring' = b.ring
     /\ received' = IF b.ok THEN Append(received, b.buf) ELSE received
     /\ unread' = IF b.ok THEN unread - Len(b.buf) ELSE unread
     /\ UNCHANGED <<calls, accepted>>

UserNext ==
  \/ \E len \in Lens : Write(len)
  \/ \E len \in Lens : Read(len)

UserSpec == UserInit /\ [][UserNext]_userVars

-----------------------------------------------------------------------------
(* The byte-level interface.                                               *)
Bytes(n) == [k \in 1 .. n |-> NoByte]

CopyIn(n) ==
  LET c == copy_in_must(ring, Bytes(n))
  IN /\ unread + n <= MaxBytes
     /\ ring' = c.ring
     /\ unread' = unread + c.ret
     /\ UNCHANGED <<calls, accepted, received>>

CopyOut(n) ==
  LET c == copy_out_must(ring, n)
  IN /\ ring' = c.ring
     /\ unread' = unread - c.ret
     /\ UNCHANGED <<calls, accepted, received>>

HasWriten(n) ==
  /\ unread + n <= MaxBytes
  /\ ring' = has_writen(ring, n)
  /\ unread' = IF n > unused(ring) THEN unread ELSE unread + n
  /\ UNCHANGED <<calls, accepted, received>>

HasRead(n) ==
  /\ ring' = has_read(ring, n)
  /\ unread' = IF n > used(ring) THEN unread ELSE unread - n
  /\ UNCHANGED <<calls, accepted, received>>

Clear ==
  /\ ring' = clear(ring)
  /\ unread' = 0
  /\ UNCHANGED <<calls, accepted, received>>

ByteNext ==
  \/ \E n \in 0 .. Size + 1 : CopyIn(n) \/ CopyOut(n) \/ HasWriten(n) \/ HasRead(n)
  \/ Clear

ByteSpec == UserInit /\ [][ByteNext]_userVars

-----------------------------------------------------------------------------
(* What used() lets a reader take has been written: the read offset never  *)
(* overtakes the write offset, although used() is off by one when the ring *)
(* has wrapped (the error is on the safe side for readers).                *)
ReadsNeverAhead == used(ring) <= unread

(* read_buffer hands out whole messages, each one intact and in the order  *)
(* in which write_buffer accepted them, even where messages are lost.      *)
WholeMessagesInOrder ==
  \E f \in [DOMAIN received -> DOMAIN accepted] :
    /\ \A i \in DOMAIN received :
         received[i] = Header(accepted[f[i]]) \o Body(accepted[f[i]])
    /\ \A i, j \in DOMAIN received : i < j => f[i] < f[j]

(* A call either takes or gives a whole message or leaves the ring as it   *)
(* was: write_buffer never leaves a header without its body, and           *)
(* read_buffer never consumes a header it cannot follow up.                *)
AllOrNothing ==
  [][ring' # ring => accepted' # accepted \/ received' # received]_userVars

(* The queue keeps what it accepted: as long as an accepted message has    *)
(* not been read, the consumer finds one in the ring.                      *)
AcceptedIsReadable ==
  Len(received) < Len(accepted) => read_buffer(ring, 0).ok
=============================================================================
