------------------------- MODULE StreamBufferProofs --------------------------
(***************************************************************************)
(* Proofs about the users of a StreamBuffer, for every size of the ring,   *)
(* of the header and of the messages.                                      *)
(***************************************************************************)
EXTENDS StreamBufferUser, RingProofs

-----------------------------------------------------------------------------
(* The slots between the offsets have been written and not yet read.       *)
RingInv ==
  /\ ring \in Ring
  /\ unread \in Nat
  /\ Distance(ring) <= unread

LEMMA RingInvInit == UserInit => RingInv
<1> SUFFICES ASSUME UserInit PROVE RingInv
  OBVIOUS
<1>1. NoByte \in Byte
  BY DEF NoByte, Byte
<1>2. 0 \in Slots
  BY RingAssumption DEF Slots, RingAssumption
<1>3. EmptyRing \in Ring
  BY <1>1, <1>2 DEF EmptyRing, Ring
<1>4. Distance(EmptyRing) = 0
  BY DEF EmptyRing, Distance
<1>5. QED
  BY <1>3, <1>4 DEF UserInit, RingInv

LEMMA ReadsWithinWrites == RingInv => ReadsNeverAhead
  BY UsedBounds, RingAssumption DEF RingInv, ReadsNeverAhead, RingAssumption

(* The ring holds whole frames, those of the messages accepted last; what  *)
(* was read are frames of earlier ones, in their order.                    *)
QueueInv == \E q : Held(ring, accepted, received, q)

Inv == RingInv /\ UserTypeOK /\ QueueInv

LEMMA AcceptedMessages ==
  ASSUME UserTypeOK
  PROVE  accepted \in Seq(Message) /\ accepted \in Seq(Entry)
<1>1. Msgs \subseteq Message
  <2>1. 1 .. MaxMsgs \subseteq Nat \ {0} /\ Lens \subseteq Nat
    BY UserAssumption DEF UserAssumption
  <2> QED
    BY <2>1 DEF Msgs, Message
<1>2. accepted \in Seq(Message)
  BY <1>1, SeqMonotonic DEF UserTypeOK
<1> QED
  BY <1>2, EntryIs, SeqMonotonic

(* Every entry in the ring is a message.                                   *)
LEMMA FirstIsMessage ==
  ASSUME NEW acc \in Seq(Message), NEW rec, NEW q \in Seq(Entry),
         Delivered(acc, rec, q), q # <<>>
  PROVE  q[1] # Negative
<1>1. PICK a, n : a = Len(acc) /\ n = Len(q)
  OBVIOUS
<1>2. /\ a \in Nat /\ n \in Nat /\ 1 <= n /\ n <= a
      /\ \A i \in 1 .. n : q[i] = acc[a - n + i]
  <2>1. n \in Nat /\ 1 <= n
    BY <1>1, EmptySeq
  <2> QED
    BY <1>1, <2>1 DEF Delivered, Last
<1>3. 1 \in 1 .. n /\ a - n + 1 \in 1 .. a
  BY <1>2
<1>4. q[1] = acc[a - n + 1] /\ acc[a - n + 1] \in Message
  BY <1>1, <1>2, <1>3, ElementOfSeq
<1> QED
  BY <1>4 DEF Message, Negative

(* A write_buffer call preserves the invariant, and records the message    *)
(* exactly when it has changed the ring.                                   *)
LEMMA WriteStep ==
  ASSUME Inv, NEW len \in Lens, Write(len)
  PROVE  Inv' /\ (ring' # ring => accepted' # accepted)
<1>1. PICK m, w : m = [id |-> calls + 1, len |-> len] /\ w = write_buffer(ring, m)
  OBVIOUS
<1>2. calls < MaxMsgs /\ calls \in 0 .. MaxMsgs /\ MaxMsgs \in Nat /\ len \in Nat
  BY UserAssumption DEF UserAssumption, Inv, UserTypeOK, Write
<1>3. m \in Message /\ m \in Msgs /\ m.len = len
  BY <1>1, <1>2 DEF Msgs, Message
<1>4. PICK q : Held(ring, accepted, received, q)
  BY DEF Inv, QueueInv
<1>5. \/ /\ w.ok = TRUE
         /\ w.ring \in Ring
         /\ Distance(w.ring) <= Distance(ring) + HeaderSize + m.len
         /\ \E p : Held(w.ring, Append(accepted, m), received, p)
      \/ w.ok = FALSE /\ w.ring = ring
  BY <1>1, <1>3, <1>4, AcceptedMessages, WriteKeeps, ZenonT(30) DEF Inv, RingInv, UserTypeOK
<1>6. /\ ring' = w.ring
      /\ unread' = IF w.ok THEN unread + HeaderSize + len ELSE unread
      /\ accepted' = IF w.ok THEN Append(accepted, m) ELSE accepted
      /\ calls' = calls + 1
      /\ received' = received
  BY <1>1 DEF Write
<1>7. calls' \in 0 .. MaxMsgs
  BY <1>2, <1>6
<1>8. CASE w.ok = FALSE /\ w.ring = ring
  <2>1. ring' = ring /\ unread' = unread /\ accepted' = accepted
    BY <1>6, <1>8
  <2>2. RingInv' /\ UserTypeOK'
    BY <1>6, <1>7, <2>1 DEF Inv, RingInv, Distance, UserTypeOK
  <2>3. QueueInv'
    BY <1>4, <1>6, <2>1 DEF QueueInv, Held, contents, Distance, SlotAt
  <2> QED
    BY <2>1, <2>2, <2>3 DEF Inv
<1>9. CASE /\ w.ok = TRUE
           /\ w.ring \in Ring
           /\ Distance(w.ring) <= Distance(ring) + HeaderSize + m.len
           /\ \E p : Held(w.ring, Append(accepted, m), received, p)
  <2>1. /\ Distance(w.ring) \in Nat /\ Distance(ring) \in Nat /\ HeaderSize \in Nat
        /\ unread \in Nat /\ Distance(ring) <= unread
    BY <1>9, UsedBounds, RingAssumption DEF Inv, RingInv, RingAssumption
  <2>2. unread' = unread + HeaderSize + len /\ accepted' = Append(accepted, m)
    BY <1>6, <1>9
  <2>3. unread' \in Nat /\ Distance(w.ring) <= unread'
    BY <1>2, <1>3, <1>9, <2>1, <2>2
  <2>4. RingInv'
    BY <1>6, <1>9, <2>3 DEF RingInv, Distance
  <2>5. accepted' \in Seq(Msgs) /\ Len(accepted') = Len(accepted) + 1
    BY <1>3, <2>2 DEF Inv, UserTypeOK
  <2>6. accepted' # accepted
    BY <2>5 DEF Inv, UserTypeOK
  <2>7. UserTypeOK'
    BY <1>6, <1>7, <2>4, <2>5 DEF Inv, UserTypeOK, RingInv
  <2>8. QueueInv'
    <3>1. PICK p : Held(w.ring, Append(accepted, m), received, p)
      BY <1>9
    <3> QED
      BY <1>6, <2>2, <3>1 DEF QueueInv, Held, contents, Distance, SlotAt
  <2> QED
    BY <2>4, <2>6, <2>7, <2>8 DEF Inv
<1> QED
  BY <1>5, <1>8, <1>9

(* A read_buffer call preserves the invariant, and records the frame       *)
(* exactly when it has changed the ring.                                   *)
LEMMA ReadStep ==
  ASSUME Inv, NEW len \in Lens, Read(len)
  PROVE  Inv' /\ (ring' # ring => received' # received)
<1>1. PICK b : b = read_buffer(ring, len)
  OBVIOUS
<1>2. PICK q : Held(ring, accepted, received, q)
  BY DEF Inv, QueueInv
<1>3. /\ ring \in Ring /\ received \in Seq(Seq(Byte))
      /\ accepted \in Seq(Message) /\ accepted \in Seq(Entry)
  BY AcceptedMessages DEF Inv, RingInv, UserTypeOK
<1>4. q # <<>> => q[1] # Negative
  BY <1>2, <1>3, FirstIsMessage DEF Held
<1>5. \/ /\ b.ok = TRUE
         /\ b.ring \in Ring
         /\ b.buf \in Seq(Byte)
         /\ Len(b.buf) <= Distance(ring)
         /\ Distance(b.ring) = Distance(ring) - Len(b.buf)
         /\ Held(b.ring, accepted, Append(received, b.buf), Tail(q))
      \/ b.ok = FALSE /\ b.ring = ring
  <2>1. ReadResult(b, ring, accepted, received, q)
    BY <1>1, <1>2, <1>3, ReadKeeps, ZenonT(30)
  <2> QED
    BY <1>4, <2>1 DEF ReadResult
<1>6. /\ ring' = b.ring
      /\ unread' = IF b.ok THEN unread - Len(b.buf) ELSE unread
      /\ received' = IF b.ok THEN Append(received, b.buf) ELSE received
      /\ calls' = calls
      /\ accepted' = accepted
  BY <1>1 DEF Read
<1>7. CASE b.ok = FALSE /\ b.ring = ring
  <2>1. ring' = ring /\ unread' = unread /\ received' = received
    BY <1>6, <1>7
  <2>2. RingInv' /\ UserTypeOK'
    BY <1>6, <2>1 DEF Inv, RingInv, Distance, UserTypeOK
  <2>3. QueueInv'
    BY <1>2, <1>6, <2>1 DEF QueueInv, Held, contents, Distance, SlotAt
  <2> QED
    BY <2>1, <2>2, <2>3 DEF Inv
<1>8. CASE /\ b.ok = TRUE
           /\ b.ring \in Ring
           /\ b.buf \in Seq(Byte)
           /\ Len(b.buf) <= Distance(ring)
           /\ Distance(b.ring) = Distance(ring) - Len(b.buf)
           /\ Held(b.ring, accepted, Append(received, b.buf), Tail(q))
  <2>1. Distance(ring) \in Nat /\ Len(b.buf) \in Nat
    BY <1>8, UsedBounds DEF Inv, RingInv
  <2>2. unread' = unread - Len(b.buf) /\ received' = Append(received, b.buf)
    BY <1>6, <1>8
  <2>3. unread' \in Nat /\ Distance(b.ring) <= unread'
    BY <1>8, <2>1, <2>2 DEF Inv, RingInv
  <2>4. RingInv'
    BY <1>6, <1>8, <2>3 DEF RingInv, Distance
  <2>5. received' \in Seq(Seq(Byte)) /\ Len(received') = Len(received) + 1
    BY <1>8, <2>2 DEF Inv, UserTypeOK
  <2>6. received' # received
    BY <2>5 DEF Inv, UserTypeOK
  <2>7. UserTypeOK'
    BY <1>6, <2>4, <2>5 DEF Inv, UserTypeOK, RingInv
  <2>8. QueueInv'
    <3>1. PICK p : Held(b.ring, accepted, Append(received, b.buf), p)
      BY <1>8
    <3> QED
      BY <1>6, <2>2, <3>1 DEF QueueInv, Held, contents, Distance, SlotAt
  <2> QED
    BY <2>4, <2>6, <2>7, <2>8 DEF Inv
<1> QED
  BY <1>5, <1>7, <1>8

(* The message interface keeps the ring well formed.                       *)
LEMMA Invariant == UserSpec => []Inv
<1>1. UserInit => Inv
  <2> SUFFICES ASSUME UserInit PROVE Inv
    OBVIOUS
  <2>1. RingInv
    BY RingInvInit
  <2>2. 0 \in 0 .. MaxMsgs
    BY UserAssumption DEF UserAssumption
  <2>3. UserTypeOK
    BY <2>1, <2>2 DEF UserInit, UserTypeOK, RingInv
  <2>4. contents(ring) = <<>>
    <3>1. Distance(ring) = 0
      BY DEF UserInit, EmptyRing, Distance
    <3>2. contents(ring) \in Seq(Byte) /\ Len(contents(ring)) = 0
      BY <2>1, <3>1, ContentsType DEF RingInv
    <3> QED
      BY <3>2
  <2>5. Held(ring, accepted, received, <<>>)
    BY <2>4, DeliveredNone, HeldNothing DEF UserInit
  <2> QED
    BY <2>1, <2>3, <2>5 DEF Inv, QueueInv
<1>2. Inv /\ [UserNext]_userVars => Inv'
  <2>1. ASSUME Inv, UNCHANGED userVars PROVE Inv'
    <3>1. RingInv' /\ UserTypeOK'
      BY <2>1 DEF Inv, userVars, RingInv, Distance, UserTypeOK
    <3>2. QueueInv'
      BY <2>1 DEF Inv, userVars, QueueInv, Held, contents, Distance, SlotAt
    <3> QED
      BY <3>1, <3>2 DEF Inv
  <2> QED
    BY <2>1, WriteStep, ReadStep DEF UserNext
<1> QED
  BY <1>1, <1>2, PTL DEF UserSpec

(* Types: after any sequence of write_buffer and read_buffer calls in_ and *)
(* out_ are slots of the ring and every slot holds a byte.                 *)
THEOREM TypeCorrect == UserSpec => []UserTypeOK
<1>1. Inv => UserTypeOK
  BY DEF Inv
<1> QED
  BY <1>1, Invariant, PTL

(* Through write_buffer and read_buffer the consumer never reads a byte    *)
(* that has not been written.                                              *)
THEOREM MessagesNeverAhead == UserSpec => []ReadsNeverAhead
<1>1. Inv => ReadsNeverAhead
  BY ReadsWithinWrites DEF Inv
<1> QED
  BY <1>1, Invariant, PTL

(* Every call of write_buffer or read_buffer moves a whole message or      *)
(* leaves the ring alone.                                                  *)
THEOREM CallsAllOrNothing == UserSpec => AllOrNothing
<1>1. Inv /\ [UserNext]_userVars
        => [ring' # ring => accepted' # accepted \/ received' # received]_userVars
  BY WriteStep, ReadStep DEF UserNext
<1> QED
  BY <1>1, Invariant, PTL DEF UserSpec, AllOrNothing

(* The consumer is handed whole messages, intact and in the order in which *)
(* write_buffer accepted them, whatever the sizes of ring and messages and *)
(* although used() and unused() are off by one in a ring that has wrapped: *)
(* messages may be lost there, but never a part of one.                    *)
THEOREM MessagesWholeInOrder == UserSpec => []WholeMessagesInOrder
<1>1. Inv => WholeMessagesInOrder
  <2> SUFFICES ASSUME Inv PROVE WholeMessagesInOrder
    OBVIOUS
  <2>1. PICK q \in Seq(Entry) : Delivered(accepted, received, q)
    BY DEF Inv, QueueInv, Held
  <2>2. PICK f : Copies(accepted, received, f, Len(accepted) - Len(q))
    BY <2>1 DEF Delivered
  <2>3. /\ DOMAIN received = 1 .. Len(received) /\ DOMAIN accepted = 1 .. Len(accepted)
        /\ Len(accepted) \in Nat /\ Len(q) \in Nat
    BY DEF Inv, UserTypeOK
  <2>4. f \in [DOMAIN received -> DOMAIN accepted]
    BY <2>2, <2>3 DEF Copies
  <2> QED
    BY <2>2, <2>3, <2>4 DEF Copies, WholeMessagesInOrder, Frame
<1> QED
  BY <1>1, Invariant, PTL

-----------------------------------------------------------------------------
(* The byte-level interface.                                               *)

LEMMA BytesSeq ==
  ASSUME NEW n \in Nat
  PROVE  Bytes(n) \in Seq(Byte) /\ Len(Bytes(n)) = n
<1>1. Bytes(n) \in [1 .. n -> Byte]
  BY DEF Bytes, NoByte, Byte
<1>2. QED
  BY <1>1

(* With copy_in_must, copy_out_must, has_writen, has_read and clear in any *)
(* order a reader never gets a byte that has not been written.             *)
THEOREM BytesNeverAhead == ByteSpec => []ReadsNeverAhead
<1>1. RingInv /\ [ByteNext]_userVars => RingInv'
  <2> SUFFICES ASSUME RingInv, [ByteNext]_userVars PROVE RingInv'
    OBVIOUS
  <2>1. ASSUME NEW s \in Ring, ring' = s, unread' \in Nat, Distance(s) <= unread'
        PROVE  RingInv'
    BY <2>1 DEF RingInv, Distance
  <2>2. Distance(ring) \in Nat /\ used(ring) \in Nat /\ unused(ring) \in Nat
        /\ used(ring) <= Distance(ring)
    BY UsedBounds DEF RingInv
  <2>3. ASSUME NEW n \in 0 .. Size + 1, CopyIn(n) PROVE RingInv'
    <3> DEFINE c == copy_in_must(ring, Bytes(n))
    <3>1. n \in Nat
      OBVIOUS
    <3>2. /\ c.ring \in Ring
          /\ n <= unused(ring) => c.ret = n /\ Distance(c.ring) <= Distance(ring) + n
          /\ n > unused(ring) => c.ret = 0 /\ c.ring = ring
      BY <3>1, BytesSeq, CopyInMustRing DEF RingInv
    <3>3. ring' = c.ring /\ unread' = unread + c.ret
      BY <2>3 DEF CopyIn
    <3> HIDE DEF c
    <3>4. Distance(c.ring) \in Nat
      BY <3>2, UsedBounds
    <3>5. unread' \in Nat /\ Distance(c.ring) <= unread'
      BY <2>2, <3>1, <3>2, <3>3, <3>4 DEF RingInv
    <3>6. QED
      BY <2>1, <3>2, <3>3, <3>5
  <2>4. ASSUME NEW n \in 0 .. Size + 1, CopyOut(n) PROVE RingInv'
    <3> DEFINE c == copy_out_must(ring, n)
    <3>1. n \in Nat
      OBVIOUS
    <3>2. /\ c.ring \in Ring
          /\ n <= used(ring) => c.ret = n /\ Distance(c.ring) = Distance(ring) - n
          /\ n > used(ring) => c.ret = 0 /\ c.ring = ring
      BY <3>1, CopyOutMustRing DEF RingInv
    <3>3. ring' = c.ring /\ unread' = unread - c.ret
      BY <2>4 DEF CopyOut
    <3> HIDE DEF c
    <3>4. unread' \in Nat /\ Distance(c.ring) <= unread'
      BY <2>2, <3>1, <3>2, <3>3 DEF RingInv
    <3>5. QED
      BY <2>1, <3>2, <3>3, <3>4
  <2>5. ASSUME NEW n \in 0 .. Size + 1, HasWriten(n) PROVE RingInv'
    <3> DEFINE s == has_writen(ring, n)
    <3>1. n \in Nat
      OBVIOUS
    <3>2. /\ s \in Ring
          /\ n <= unused(ring) => Distance(s) <= Distance(ring) + n
          /\ n > unused(ring) => s = ring
      BY <3>1, HasWritenRing DEF RingInv
    <3>3. ring' = s /\ unread' = IF n > unused(ring) THEN unread ELSE unread + n
      BY <2>5 DEF HasWriten
    <3> HIDE DEF s
    <3>4. Distance(s) \in Nat
      BY <3>2, UsedBounds
    <3>5. unread' \in Nat /\ Distance(s) <= unread'
      BY <2>2, <3>1, <3>2, <3>3, <3>4 DEF RingInv
    <3>6. QED
      BY <2>1, <3>2, <3>3, <3>5
  <2>6. ASSUME NEW n \in 0 .. Size + 1, HasRead(n) PROVE RingInv'
    <3> DEFINE s == has_read(ring, n)
    <3>1. n \in Nat
      OBVIOUS
    <3>2. /\ s \in Ring
          /\ n <= used(ring) => Distance(s) = Distance(ring) - n
          /\ n > used(ring) => s = ring
      BY <3>1, HasReadRing DEF RingInv
    <3>3. ring' = s /\ unread' = IF n > used(ring) THEN unread ELSE unread - n
      BY <2>6 DEF HasRead
    <3> HIDE DEF s
    <3>4. unread' \in Nat /\ Distance(s) <= unread'
      BY <2>2, <3>1, <3>2, <3>3 DEF RingInv
    <3>5. QED
      BY <2>1, <3>2, <3>3, <3>4
  <2>7. CASE Clear
    <3>1. 0 \in Slots
      BY RingAssumption DEF Slots, RingAssumption
    <3>2. clear(ring) \in Ring /\ clear(ring).in = 0 /\ clear(ring).out = 0
      BY <3>1 DEF clear, Ring, RingInv
    <3>3. Distance(clear(ring)) = 0
      BY <3>2 DEF Distance
    <3>4. QED
      BY <2>1, <2>7, <3>2, <3>3 DEF Clear
  <2>8. CASE UNCHANGED userVars
    BY <2>8 DEF userVars, RingInv, Distance
  <2>9. QED
    BY <2>3, <2>4, <2>5, <2>6, <2>7, <2>8 DEF ByteNext
<1>2. QED
  BY <1>1, RingInvInit, ReadsWithinWrites, PTL DEF ByteSpec
=============================================================================
