----------------------------- MODULE RingProofs ------------------------------
(***************************************************************************)
(* What the operations of the byte ring do, for every size of the ring, of *)
(* the header and of the messages: the lemmas on which the proofs about    *)
(* StreamBufferUser and Receiver rest.                                     *)
(***************************************************************************)
EXTENDS StreamBuffer, SequenceTheorems, TLAPS

(* What is behind the first n elements.                                    *)
LEMMA SuffixIs ==
  ASSUME NEW S, NEW c \in Seq(S), NEW n \in 0 .. Len(c)
  PROVE  /\ SubSeq(c, n + 1, Len(c)) \in Seq(S)
         /\ Len(SubSeq(c, n + 1, Len(c))) = Len(c) - n
         /\ \A k \in 1 .. Len(c) - n : SubSeq(c, n + 1, Len(c))[k] = c[n + k]
<1>1. PICK d, e : d = Len(c) /\ e = SubSeq(c, n + 1, d)
  OBVIOUS
<1>2. d \in Nat /\ n \in Nat /\ n <= d
  BY <1>1
<1>3. n + 1 \in Int /\ d \in Int /\ \A k \in n + 1 .. d : c[k] \in S
  BY <1>1, <1>2, ElementOfSeq
<1>4. /\ e \in Seq(S) /\ Len(e) = (IF n + 1 <= d THEN d - (n + 1) + 1 ELSE 0)
      /\ \A k \in 1 .. d - (n + 1) + 1 : e[k] = c[n + 1 + k - 1]
  BY <1>1, <1>3, SubSeqProperties
<1>5. ASSUME NEW k \in 1 .. d - n PROVE e[k] = c[n + k]
  <2>1. k \in 1 .. d - (n + 1) + 1 /\ n + 1 + k - 1 = n + k
    BY <1>2
  <2> QED
    BY <1>4, <2>1
<1>6. Len(e) = d - n
  BY <1>2, <1>4
<1> QED
  BY <1>1, <1>4, <1>5, <1>6

(* The number of slots from out_ to in_ in a ring of Size + 1 slots.       *)
Distance(r) ==
  IF r.in >= r.out THEN r.in - r.out ELSE r.in - r.out + Size + 1

(* (a % m) for an offset that has run past the end of the array at most    *)
(* once: the way in_ and out_ are advanced.                                *)
LEMMA ModOnce ==
  ASSUME NEW m \in Nat \ {0}, NEW a \in Nat, a < 2 * m
  PROVE  a % m = IF a < m THEN a ELSE a - m
<1>1. CASE a < m
  BY <1>1, SMT
<1>2. CASE a >= m
  BY <1>2, SMT
<1>3. QED
  BY <1>1, <1>2

(* Advancing in_ or out_ by at most Size slots.                            *)
LEMMA OffsetStep ==
  ASSUME NEW i \in 0 .. Size, NEW n \in 0 .. Size
  PROVE  (i + n) % (Size + 1)
           = IF i + n < Size + 1 THEN i + n ELSE i + n - (Size + 1)
<1> DEFINE m == Size + 1
<1> DEFINE a == i + n
<1>1. m \in Nat \ {0} /\ a \in Nat /\ a < 2 * m
  BY RingAssumption DEF RingAssumption
<1> HIDE DEF m, a
<1>2. a % m = IF a < m THEN a ELSE a - m
  BY <1>1, ModOnce
<1>3. QED
  BY <1>1, <1>2, RingAssumption DEF m, a, RingAssumption

(* used() and unused() are offsets into the ring, and used() is at most    *)
(* the distance from the read to the write offset.                         *)
LEMMA UsedBounds ==
  ASSUME NEW r \in Ring
  PROVE  /\ used(r) \in 0 .. Size
         /\ unused(r) \in 0 .. Size
         /\ Distance(r) \in Nat
         /\ used(r) <= Distance(r)
  BY RingAssumption DEF RingAssumption, Ring, Slots, used, unused, Distance

(* Advancing in_ over n unused bytes, by copy_in_must or has_writen, keeps *)
(* it in range and moves it n slots away from out_, or less when the write *)
(* fills every slot.                                                       *)
LEMMA AdvanceIn ==
  ASSUME NEW r \in Ring, NEW n \in Nat, n <= unused(r),
         NEW s \in Ring, s.out = r.out, s.in = (r.in + n) % (Size + 1)
  PROVE  Distance(s) <= Distance(r) + n /\ used(s) <= used(r) + n
<1>1. n <= Size
  BY UsedBounds, RingAssumption DEF RingAssumption
<1>2. r.in \in 0 .. Size /\ r.out \in 0 .. Size
  BY DEF Ring, Slots
<1>3. s.in = IF r.in + n < Size + 1 THEN r.in + n ELSE r.in + n - (Size + 1)
  BY <1>1, <1>2, OffsetStep
<1>4. QED
  BY <1>1, <1>2, <1>3, RingAssumption DEF Distance, RingAssumption, used, unused

(* Advancing out_ over n used bytes, by copy_out_must or has_read, brings  *)
(* it n slots closer to in_.                                               *)
LEMMA AdvanceOut ==
  ASSUME NEW r \in Ring, NEW n \in Nat, n <= used(r),
         NEW s \in Ring, s.in = r.in, s.out = (r.out + n) % (Size + 1)
  PROVE  Distance(s) = Distance(r) - n /\ used(s) >= used(r) - n
<1>1. n <= Size
  BY UsedBounds, RingAssumption DEF RingAssumption
<1>2. r.in \in 0 .. Size /\ r.out \in 0 .. Size
  BY DEF Ring, Slots
<1>3. s.out = IF r.out + n < Size + 1 THEN r.out + n ELSE r.out + n - (Size + 1)
  BY <1>1, <1>2, OffsetStep
<1>4. QED
  BY <1>1, <1>2, <1>3, RingAssumption DEF Distance, RingAssumption, used

(* An offset reduced modulo Size + 1 is a slot.                            *)
LEMMA ModInSlots ==
  ASSUME NEW a \in Nat
  PROVE  a % (Size + 1) \in Slots
  BY RingAssumption DEF RingAssumption, Slots

(* copy_in yields an array of bytes: both memcpy stay inside it.           *)
LEMMA CopyInType ==
  ASSUME NEW r \in Ring, NEW bytes \in Seq(Byte), Len(bytes) <= unused(r)
  PROVE  copy_in(r, bytes) \in [Slots -> Byte]
<1> DEFINE l == Least(Len(bytes), (Size + 1) - r.in)
<1>1. Len(bytes) \in Nat /\ r.in \in 0 .. Size /\ Len(bytes) <= Size
  BY UsedBounds, RingAssumption DEF Ring, Slots, RingAssumption
<1>2. l \in 0 .. Len(bytes)
  BY <1>1, RingAssumption DEF Least, RingAssumption
<1> SUFFICES ASSUME NEW s \in Slots
             PROVE  (IF s < Len(bytes) - l THEN bytes[l + s + 1]
                     ELSE IF s \in r.in .. r.in + l - 1 THEN bytes[s - r.in + 1]
                     ELSE r.data[s]) \in Byte
  BY DEF copy_in
<1> HIDE DEF l
<1>3. s \in Nat
  BY RingAssumption DEF Slots, RingAssumption
<1>4. CASE s < Len(bytes) - l
  <2>1. l + s + 1 \in 1 .. Len(bytes)
    BY <1>1, <1>2, <1>3, <1>4
  <2>2. QED
    BY <1>4, <2>1
<1>5. CASE ~(s < Len(bytes) - l) /\ s \in r.in .. r.in + l - 1
  <2>1. s - r.in + 1 \in 1 .. Len(bytes)
    BY <1>1, <1>2, <1>3, <1>5
  <2>2. QED
    BY <1>5, <2>1
<1>6. CASE ~(s < Len(bytes) - l) /\ s \notin r.in .. r.in + l - 1
  BY <1>6 DEF Ring
<1>7. QED
  BY <1>4, <1>5, <1>6

(* copy_out yields as many bytes as were asked for.                        *)
LEMMA CopyOutType ==
  ASSUME NEW r \in Ring, NEW n \in Nat, n <= used(r)
  PROVE  copy_out(r, n) \in Seq(Byte) /\ Len(copy_out(r, n)) = n
<1> DEFINE l == Least(n, (Size + 1) - r.out)
<1>1. r.out \in 0 .. Size /\ n <= Size
  BY UsedBounds, RingAssumption DEF Ring, Slots, RingAssumption
<1>2. l \in 0 .. n /\ l <= Size + 1 - r.out /\ (l < n => l = Size + 1 - r.out)
  BY <1>1, RingAssumption DEF Least, RingAssumption
<1> HIDE DEF l
<1>3. ASSUME NEW k \in 1 .. n
      PROVE  (IF k <= l THEN r.data[r.out + k - 1] ELSE r.data[k - l - 1]) \in Byte
  <2>1. CASE k <= l
    <3>1. r.out + k - 1 \in Slots
      BY <1>1, <1>2, <2>1, RingAssumption DEF Slots, RingAssumption
    <3>2. QED
      BY <2>1, <3>1 DEF Ring
  <2>2. CASE ~(k <= l)
    <3>1. k - l - 1 \in Slots
      BY <1>1, <1>2, <2>2, RingAssumption DEF Slots, RingAssumption
    <3>2. QED
      BY <2>2, <3>1 DEF Ring
  <2>3. QED
    BY <2>1, <2>2
<1>4. copy_out(r, n) = [k \in 1 .. n |-> IF k <= l THEN r.data[r.out + k - 1]
                                         ELSE r.data[k - l - 1]]
  BY DEF copy_out, l
<1>5. copy_out(r, n) \in [1 .. n -> Byte]
  BY <1>3, <1>4
<1>6. QED
  BY <1>5

-----------------------------------------------------------------------------
(* What each operation does to a well-formed ring.                         *)

LEMMA HasWritenRing ==
  ASSUME NEW r \in Ring, NEW n \in Nat
  PROVE  LET s == has_writen(r, n) IN
         /\ s \in Ring
         /\ n <= unused(r) => Distance(s) <= Distance(r) + n
         /\ n > unused(r) => s = r
<1>1. CASE n > unused(r)
  <2>1. ~(n <= unused(r))
    BY <1>1, UsedBounds, RingAssumption DEF RingAssumption
  <2>2. QED
    BY <1>1, <2>1 DEF has_writen
<1>2. CASE n <= unused(r)
  <2> DEFINE i == (r.in + n) % (Size + 1)
  <2> DEFINE s == [r EXCEPT !.in = i]
  <2>1. ~(n > unused(r))
    BY <1>2, UsedBounds, RingAssumption DEF RingAssumption
  <2>2. r.in + n \in Nat
    BY RingAssumption DEF Ring, Slots, RingAssumption
  <2>3. i \in Slots
    BY <2>2, ModInSlots
  <2>4. s \in Ring /\ s.in = i /\ s.out = r.out
    BY <2>3 DEF Ring
  <2>5. Distance(s) <= Distance(r) + n
    BY <1>2, <2>4, AdvanceIn
  <2>6. has_writen(r, n) = s
    BY <2>1 DEF has_writen
  <2>7. QED
    BY <2>1, <2>4, <2>5, <2>6
<1>3. QED
  BY <1>1, <1>2, UsedBounds, RingAssumption DEF RingAssumption

LEMMA HasReadRing ==
  ASSUME NEW r \in Ring, NEW n \in Nat
  PROVE  LET s == has_read(r, n) IN
         /\ s \in Ring
         /\ n <= used(r) => Distance(s) = Distance(r) - n /\ used(s) >= used(r) - n
         /\ n > used(r) => s = r
<1>1. CASE n > used(r)
  <2>1. ~(n <= used(r))
    BY <1>1, UsedBounds, RingAssumption DEF RingAssumption
  <2>2. QED
    BY <1>1, <2>1 DEF has_read
<1>2. CASE n <= used(r)
  <2> DEFINE i == (r.out + n) % (Size + 1)
  <2> DEFINE s == [r EXCEPT !.out = i]
  <2>1. ~(n > used(r))
    BY <1>2, UsedBounds, RingAssumption DEF RingAssumption
  <2>2. r.out + n \in Nat
    BY RingAssumption DEF Ring, Slots, RingAssumption
  <2>3. i \in Slots
    BY <2>2, ModInSlots
  <2>4. s \in Ring /\ s.out = i /\ s.in = r.in
    BY <2>3 DEF Ring
  <2>5. Distance(s) = Distance(r) - n /\ used(s) >= used(r) - n
    BY <1>2, <2>4, AdvanceOut
  <2>6. has_read(r, n) = s
    BY <2>1 DEF has_read
  <2>7. QED
    BY <2>1, <2>4, <2>5, <2>6
<1>3. QED
  BY <1>1, <1>2, UsedBounds, RingAssumption DEF RingAssumption

LEMMA CopyInMustRing ==
  ASSUME NEW r \in Ring, NEW bytes \in Seq(Byte)
  PROVE  LET c == copy_in_must(r, bytes) IN
         /\ c.ring \in Ring
         /\ Len(bytes) <= unused(r) =>
              /\ c.ret = Len(bytes)
              /\ Distance(c.ring) <= Distance(r) + Len(bytes)
              /\ used(c.ring) <= used(r) + Len(bytes)
         /\ Len(bytes) > unused(r) => c.ret = 0 /\ c.ring = r
<1> DEFINE n == Len(bytes)
<1>0. n \in Nat
  OBVIOUS
<1>1. CASE n > unused(r)
  <2>1. ~(n <= unused(r))
    BY <1>0, <1>1, UsedBounds, RingAssumption DEF RingAssumption
  <2>2. QED
    BY <1>1, <2>1 DEF copy_in_must
<1>2. CASE n <= unused(r)
  <2> DEFINE i == (r.in + n) % (Size + 1)
  <2> DEFINE s == [r EXCEPT !.data = copy_in(r, bytes), !.in = i]
  <2>1. ~(n > unused(r))
    BY <1>0, <1>2, UsedBounds, RingAssumption DEF RingAssumption
  <2>2. r.in + n \in Nat
    BY <1>0, RingAssumption DEF Ring, Slots, RingAssumption
  <2>3. i \in Slots
    BY <2>2, ModInSlots
  <2>4. copy_in(r, bytes) \in [Slots -> Byte]
    BY <1>2, CopyInType
  <2>5. s \in Ring /\ s.in = i /\ s.out = r.out
    BY <2>3, <2>4 DEF Ring
  <2>6. Distance(s) <= Distance(r) + n /\ used(s) <= used(r) + n
    BY <1>0, <1>2, <2>5, AdvanceIn
  <2>7. copy_in_must(r, bytes) = [ret |-> n, ring |-> s]
    BY <2>1 DEF copy_in_must
  <2>8. QED
    BY <2>1, <2>5, <2>6, <2>7
<1>3. QED
  BY <1>0, <1>1, <1>2, UsedBounds, RingAssumption DEF RingAssumption

LEMMA CopyOutMustRing ==
  ASSUME NEW r \in Ring, NEW n \in Nat
  PROVE  LET c == copy_out_must(r, n) IN
         /\ c.ring \in Ring
         /\ n <= used(r) =>
              /\ c.ret = n
              /\ c.buf \in Seq(Byte)
              /\ Len(c.buf) = n
              /\ Distance(c.ring) = Distance(r) - n
         /\ n > used(r) => c.ret = 0 /\ c.ring = r
<1>1. CASE n > used(r)
  <2>1. ~(n <= used(r))
    BY <1>1, UsedBounds, RingAssumption DEF RingAssumption
  <2>2. QED
    BY <1>1, <2>1 DEF copy_out_must
<1>2. CASE n <= used(r)
  <2> DEFINE s == has_read(r, n)
  <2>1. ~(n > used(r))
    BY <1>2, UsedBounds, RingAssumption DEF RingAssumption
  <2>2. copy_out(r, n) \in Seq(Byte) /\ Len(copy_out(r, n)) = n
    BY <1>2, CopyOutType
  <2>3. copy_out_must(r, n) = [ret |-> n, buf |-> copy_out(r, n), ring |-> s]
    BY <2>1 DEF copy_out_must, has_read
  <2>4. s \in Ring /\ Distance(s) = Distance(r) - n
    BY <1>2, HasReadRing
  <2>5. QED
    BY <2>1, <2>2, <2>3, <2>4
<1>3. QED
  BY <1>1, <1>2, UsedBounds, RingAssumption DEF RingAssumption

LEMMA FrameBytes ==
  ASSUME NEW m \in [id : Nat, len : Nat]
  PROVE  /\ Header(m) \in Seq(Byte) /\ Len(Header(m)) = HeaderSize
         /\ Body(m) \in Seq(Byte) /\ Len(Body(m)) = m.len
<1>1. \A k \in 1 .. HeaderSize : <<m, k>> \in Byte
  BY RingAssumption DEF Byte, RingAssumption
<1>2. \A k \in 1 .. m.len : <<m, HeaderSize + k>> \in Byte
  BY RingAssumption DEF Byte, RingAssumption
<1>3. Header(m) \in [1 .. HeaderSize -> Byte]
  BY <1>1 DEF Header
<1>4. Body(m) \in [1 .. m.len -> Byte]
  BY <1>2 DEF Body
<1>5. QED
  BY <1>3, <1>4, RingAssumption DEF RingAssumption

(* write_buffer stores a whole frame when unused() leaves room for it, and *)
(* changes nothing otherwise: its second copy_in_must never fails after    *)
(* the first.                                                              *)
LEMMA WriteBufferRing ==
  ASSUME NEW r \in Ring, NEW m \in [id : Nat, len : Nat]
  PROVE  LET w == write_buffer(r, m) IN
         \/ /\ w.ok = TRUE
            /\ w.ring \in Ring
            /\ Distance(w.ring) <= Distance(r) + HeaderSize + m.len
         \/ w.ok = FALSE /\ w.ring = r
<1> DEFINE totb == m.len + HeaderSize
<1> DEFINE h == copy_in_must(r, Header(m))
<1> DEFINE b == copy_in_must(h.ring, Body(m))
<1>1. m.len \in Nat /\ HeaderSize \in Nat /\ Size \in Nat
  BY RingAssumption DEF RingAssumption
<1>2. CASE unused(r) < totb
  BY <1>2 DEF write_buffer
<1>3. CASE ~(unused(r) < totb)
  <2>1. HeaderSize <= unused(r) /\ used(r) + HeaderSize + m.len <= Size
    BY <1>1, <1>3, UsedBounds DEF unused
  <2>2. /\ h.ring \in Ring
        /\ h.ret = HeaderSize
        /\ Distance(h.ring) <= Distance(r) + HeaderSize
        /\ used(h.ring) <= used(r) + HeaderSize
    BY <2>1, FrameBytes, CopyInMustRing
  <2> HIDE DEF h
  <2>3. m.len <= unused(h.ring)
    BY <1>1, <2>1, <2>2, UsedBounds DEF unused
  <2>4. /\ b.ring \in Ring
        /\ b.ret = m.len
        /\ Distance(b.ring) <= Distance(h.ring) + m.len
    BY <2>2, <2>3, FrameBytes, CopyInMustRing
  <2> HIDE DEF b
  <2>5. h.ret + b.ret = totb
    BY <1>1, <2>2, <2>4
  <2>6. write_buffer(r, m) = [ok |-> h.ret + b.ret = totb, ring |-> b.ring]
    BY <1>3 DEF write_buffer, h, b
  <2>7. Distance(b.ring) <= Distance(r) + HeaderSize + m.len
    BY <1>1, <2>2, <2>4, UsedBounds
  <2>8. write_buffer(r, m) = [ok |-> TRUE, ring |-> b.ring]
    BY <2>5, <2>6, Zenon
  <2>9. write_buffer(r, m).ok = TRUE /\ write_buffer(r, m).ring = b.ring
    BY <2>8
  <2>10. QED
    BY <2>4, <2>7, <2>9
<1>4. QED
  BY <1>2, <1>3

-----------------------------------------------------------------------------
(* What the ring holds.                                                    *)

(* The slot k bytes behind the read offset.                                *)
SlotAt(r, k) ==
  IF r.out + k < Size + 1 THEN r.out + k ELSE r.out + k - (Size + 1)

(* The bytes from the read offset up to the write offset.                  *)
contents(r) == [k \in 1 .. Distance(r) |-> r.data[SlotAt(r, k - 1)]]

LEMMA ContentsType ==
  ASSUME NEW r \in Ring
  PROVE  /\ contents(r) \in Seq(Byte)
         /\ Len(contents(r)) = Distance(r)
         /\ Distance(r) \in 0 .. Size
         /\ \A k \in 1 .. Distance(r) : contents(r)[k] = r.data[SlotAt(r, k - 1)]
<1>1. Distance(r) \in 0 .. Size
  BY RingAssumption DEF RingAssumption, Ring, Slots, Distance
<1>2. r.out \in 0 .. Size
  BY DEF Ring, Slots
<1>3. ASSUME NEW k \in 1 .. Distance(r)
      PROVE  r.data[SlotAt(r, k - 1)] \in Byte
  <2>1. SlotAt(r, k - 1) \in Slots
    BY <1>1, <1>2, RingAssumption DEF SlotAt, Slots, RingAssumption
  <2> QED
    BY <2>1 DEF Ring
<1>4. contents(r) \in [1 .. Distance(r) -> Byte]
  BY <1>3 DEF contents
<1> QED
  BY <1>1, <1>4 DEF contents

(* Rings with the same offsets and the same bytes between them.            *)
LEMMA ContentsEqual ==
  ASSUME NEW r \in Ring, NEW c \in Seq(Byte), Len(c) = Distance(r),
         \A k \in 1 .. Distance(r) : r.data[SlotAt(r, k - 1)] = c[k]
  PROVE  contents(r) = c
<1>1. contents(r) \in Seq(Byte) /\ Len(contents(r)) = Len(c)
  BY ContentsType
<1>2. \A k \in 1 .. Len(contents(r)) : contents(r)[k] = c[k]
  BY ContentsType
<1> QED
  BY <1>1, <1>2, SeqEqual

(* The slot of the k-th byte behind out_ when n bytes are copied to in_, l *)
(* of them before the end of the array.                                    *)
LEMMA SlotArithmetic ==
  ASSUME NEW z \in Nat, NEW i \in 0 .. z, NEW o \in 0 .. z, NEW n \in Nat,
         NEW l \in Nat, NEW d \in Nat, NEW k \in Nat, NEW x \in Int,
         l = IF n <= z + 1 - i THEN n ELSE z + 1 - i,
         d = IF i >= o THEN i - o ELSE i - o + z + 1,
         x = IF o + (k - 1) < z + 1 THEN o + (k - 1) ELSE o + (k - 1) - (z + 1),
         d + n <= z + 1, 1 <= k, k <= d + n
  PROVE  /\ k <= d => ~(x < n - l) /\ x \notin i .. i + l - 1
         /\ ~(k <= d) /\ x < n - l => l + x + 1 = k - d
         /\ ~(k <= d) /\ ~(x < n - l) => x \in i .. i + l - 1 /\ x - i + 1 = k - d
OBVIOUS

(* What copy_in leaves in each slot, counted from the read offset: behind  *)
(* what is there already come the new bytes.                               *)
LEMMA CopyInSlots ==
  ASSUME NEW r \in Ring, NEW bytes \in Seq(Byte),
         Distance(r) + Len(bytes) <= Size + 1, NEW k \in 1 .. Distance(r) + Len(bytes)
  PROVE  copy_in(r, bytes)[SlotAt(r, k - 1)]
           = IF k <= Distance(r) THEN r.data[SlotAt(r, k - 1)] ELSE bytes[k - Distance(r)]
<1>0. PICK i, o, n, d, l, x :
        /\ i = r.in /\ o = r.out /\ n = Len(bytes) /\ d = Distance(r)
        /\ l = Least(n, (Size + 1) - i) /\ x = SlotAt(r, k - 1)
  OBVIOUS
<1>1. n \in Nat /\ i \in 0 .. Size /\ o \in 0 .. Size /\ Size \in Nat
  BY <1>0, RingAssumption DEF Ring, Slots, RingAssumption
<1>2. d \in Nat /\ d = IF i >= o THEN i - o ELSE i - o + Size + 1
  BY <1>0, <1>1, SMTT(30) DEF Distance
<1>3. k \in Nat /\ 1 <= k /\ k <= d + n /\ d + n <= Size + 1
  BY <1>0, <1>1, <1>2
<1>4. l \in Nat /\ l = IF n <= Size + 1 - i THEN n ELSE Size + 1 - i
  BY <1>0, <1>1 DEF Least
<1>5. x = IF o + (k - 1) < Size + 1 THEN o + (k - 1) ELSE o + (k - 1) - (Size + 1)
  BY <1>0 DEF SlotAt
<1>6. x \in Int /\ x \in Slots
  BY <1>1, <1>2, <1>3, <1>5 DEF Slots
<1>7. copy_in(r, bytes)[x] = IF x < n - l THEN bytes[l + x + 1]
                             ELSE IF x \in i .. i + l - 1 THEN bytes[x - i + 1]
                             ELSE r.data[x]
  BY <1>0, <1>6 DEF copy_in
<1>8. /\ k <= d => ~(x < n - l) /\ x \notin i .. i + l - 1
      /\ ~(k <= d) /\ x < n - l => l + x + 1 = k - d
      /\ ~(k <= d) /\ ~(x < n - l) => x \in i .. i + l - 1 /\ x - i + 1 = k - d
  BY <1>1, <1>2, <1>3, <1>4, <1>5, <1>6, SlotArithmetic
<1>9. copy_in(r, bytes)[x] = IF k <= d THEN r.data[x] ELSE bytes[k - d]
  <2>1. CASE k <= d
    BY <1>7, <1>8, <2>1
  <2>2. CASE ~(k <= d) /\ x < n - l
    BY <1>7, <1>8, <2>2
  <2>3. CASE ~(k <= d) /\ ~(x < n - l)
    BY <1>7, <1>8, <2>3
  <2> QED
    BY <2>1, <2>2, <2>3
<1> QED
  BY <1>0, <1>9

(* copy_in_must with room enough puts the bytes behind the others, unless  *)
(* it fills the last slot: then in_ has caught up with out_ and the ring   *)
(* is empty (unused() is one too large in a ring that has wrapped).        *)
LEMMA CopyInContents ==
  ASSUME NEW r \in Ring, NEW bytes \in Seq(Byte), Len(bytes) <= unused(r)
  PROVE  LET s == copy_in_must(r, bytes).ring IN
         \/ /\ Distance(r) + Len(bytes) <= Size
            /\ contents(s) = contents(r) \o bytes
         \/ /\ Distance(r) + Len(bytes) = Size + 1
            /\ contents(s) = <<>>
<1>0. PICK n, d, s, i, o, e :
        /\ n = Len(bytes) /\ d = Distance(r) /\ s = copy_in_must(r, bytes).ring
        /\ i = r.in /\ o = r.out /\ e = Distance(s)
  OBVIOUS
<1>1. /\ n \in Nat /\ i \in 0 .. Size /\ o \in 0 .. Size /\ Size \in Nat
      /\ d = IF i >= o THEN i - o ELSE i - o + Size + 1
  BY <1>0, RingAssumption DEF Ring, Slots, RingAssumption, Distance
<1>2. d \in Nat /\ d + n <= Size + 1 /\ n \in 0 .. Size
  <2>1. PICK u : u = used(r)
    OBVIOUS
  <2>2. u = IF i - o < 0 THEN i - o + Size ELSE i - o
    BY <1>0, <2>1 DEF used
  <2>3. n <= Size - u
    BY <1>0, <2>1 DEF unused
  <2> QED
    BY <1>1, <2>2, <2>3
<1>3. s = [r EXCEPT !.data = copy_in(r, bytes), !.in = (i + n) % (Size + 1)]
  <2>1. unused(r) \in Int
    BY UsedBounds
  <2>2. ~(n > unused(r))
    BY <1>0, <1>1, <2>1
  <2> QED
    BY <1>0, <2>2 DEF copy_in_must
<1>4. s \in Ring
  BY <1>0, CopyInMustRing
<1>5. s.data = copy_in(r, bytes) /\ s.in = (i + n) % (Size + 1) /\ s.out = o
  BY <1>0, <1>3 DEF Ring
<1>6. s.in = IF i + n < Size + 1 THEN i + n ELSE i + n - (Size + 1)
  BY <1>1, <1>2, <1>5, OffsetStep
<1>7. e = IF s.in >= o THEN s.in - o ELSE s.in - o + Size + 1
  BY <1>0, <1>5 DEF Distance
<1>8. e = IF d + n = Size + 1 THEN 0 ELSE d + n
  BY <1>1, <1>2, <1>6, <1>7
<1>9. CASE d + n = Size + 1
  <2>1. contents(s) \in Seq(Byte) /\ Len(contents(s)) = 0
    BY <1>0, <1>4, <1>8, <1>9, ContentsType
  <2>2. contents(s) = <<>>
    BY <2>1
  <2> QED
    BY <1>0, <1>9, <2>2
<1>10. CASE d + n <= Size
  <2>1. PICK c, c2 : c = contents(r) /\ c2 = c \o bytes
    OBVIOUS
  <2>2. e = d + n
    BY <1>1, <1>2, <1>8, <1>10
  <2>3. c \in Seq(Byte) /\ Len(c) = d /\ \A k \in 1 .. d : c[k] = r.data[SlotAt(r, k - 1)]
    BY <1>0, <2>1, ContentsType
  <2>4. /\ c2 \in Seq(Byte)
        /\ Len(c2) = d + n
        /\ \A k \in 1 .. d + n : c2[k] = IF k <= d THEN c[k] ELSE bytes[k - d]
    BY <1>0, <2>1, <2>3, ConcatProperties
  <2>5. ASSUME NEW k \in 1 .. d + n
        PROVE  s.data[SlotAt(s, k - 1)] = c2[k]
    <3>1. SlotAt(s, k - 1) = SlotAt(r, k - 1)
      BY <1>0, <1>5 DEF SlotAt
    <3>2. s.data[SlotAt(s, k - 1)]
            = IF k <= d THEN r.data[SlotAt(r, k - 1)] ELSE bytes[k - d]
      BY <1>0, <1>2, <1>5, <3>1, CopyInSlots
    <3>3. k <= d => k \in 1 .. d
      BY <1>1, <1>2
    <3> QED
      BY <2>3, <2>4, <3>2, <3>3
  <2>6. contents(s) = c2
    BY <1>0, <1>4, <2>2, <2>4, <2>5, ContentsEqual
  <2> QED
    BY <1>0, <1>10, <2>1, <2>6
<1> QED
  BY <1>1, <1>2, <1>9, <1>10

(* copy_out hands over the first n bytes.                                  *)
LEMMA CopyOutContents ==
  ASSUME NEW r \in Ring, NEW n \in Nat, n <= used(r)
  PROVE  copy_out(r, n) = SubSeq(contents(r), 1, n)
<1> DEFINE l == Least(n, (Size + 1) - r.out)
<1>1. /\ r.out \in 0 .. Size /\ Size \in Nat
      /\ Distance(r) \in 0 .. Size /\ n <= Distance(r)
  BY UsedBounds, ContentsType, RingAssumption DEF Ring, Slots, RingAssumption
<1>2. l \in Nat /\ (n <= Size + 1 - r.out => l = n) /\ (~(n <= Size + 1 - r.out) => l = Size + 1 - r.out)
  BY <1>1 DEF Least
<1>3. copy_out(r, n) \in Seq(Byte) /\ Len(copy_out(r, n)) = n
  BY CopyOutType
<1>4. /\ SubSeq(contents(r), 1, n) \in Seq(Byte)
      /\ Len(SubSeq(contents(r), 1, n)) = n
      /\ \A k \in 1 .. n : SubSeq(contents(r), 1, n)[k] = contents(r)[k]
  BY <1>1, ContentsType
<1>5. ASSUME NEW k \in 1 .. n
      PROVE  copy_out(r, n)[k] = SubSeq(contents(r), 1, n)[k]
  <2>1. copy_out(r, n)[k] = IF k <= l THEN r.data[r.out + k - 1] ELSE r.data[k - l - 1]
    BY DEF copy_out
  <2> HIDE DEF l
  <2>2. SlotAt(r, k - 1) = IF k <= l THEN r.out + k - 1 ELSE k - l - 1
    BY <1>1, <1>2 DEF SlotAt
  <2>3. contents(r)[k] = r.data[SlotAt(r, k - 1)]
    BY <1>1, ContentsType
  <2> QED
    BY <1>4, <2>1, <2>2, <2>3
<1> QED
  BY <1>3, <1>4, <1>5, SeqEqual

(* has_read leaves the rest.                                               *)
LEMMA HasReadContents ==
  ASSUME NEW r \in Ring, NEW n \in Nat, n <= used(r)
  PROVE  contents(has_read(r, n)) = SubSeq(contents(r), n + 1, Distance(r))
<1> DEFINE s == has_read(r, n)
           d == Distance(r)
<1>1. /\ r.out \in 0 .. Size /\ Size \in Nat
      /\ d \in 0 .. Size /\ n <= d /\ n <= Size
  BY UsedBounds, ContentsType, RingAssumption DEF Ring, Slots, RingAssumption
<1>2. s \in Ring /\ Distance(s) = d - n
  BY HasReadRing
<1>3. s.data = r.data /\ s.out = (r.out + n) % (Size + 1)
  <2>1. ~(n > used(r))
    BY UsedBounds
  <2> QED
    BY <2>1 DEF has_read, Ring
<1>4. s.out = IF r.out + n < Size + 1 THEN r.out + n ELSE r.out + n - (Size + 1)
  BY <1>1, <1>3, OffsetStep
<1> HIDE DEF s
<1>5. /\ SubSeq(contents(r), n + 1, d) \in Seq(Byte)
      /\ Len(SubSeq(contents(r), n + 1, d)) = d - n
      /\ \A k \in 1 .. d - n : SubSeq(contents(r), n + 1, d)[k] = contents(r)[n + k]
  BY <1>1, ContentsType
<1>6. ASSUME NEW k \in 1 .. d - n
      PROVE  s.data[SlotAt(s, k - 1)] = SubSeq(contents(r), n + 1, d)[k]
  <2>1. SlotAt(s, k - 1) = SlotAt(r, n + k - 1)
    BY <1>1, <1>4 DEF SlotAt
  <2>2. n + k \in 1 .. d
    BY <1>1
  <2>3. contents(r)[n + k] = r.data[SlotAt(r, n + k - 1)]
    BY <2>2, ContentsType
  <2> QED
    BY <1>3, <1>5, <2>1, <2>3
<1>7. contents(s) = SubSeq(contents(r), n + 1, d)
  BY <1>2, <1>5, <1>6, ContentsEqual
<1> QED
  BY <1>7 DEF s

-----------------------------------------------------------------------------
(* Frames.                                                                 *)

(* The messages of the programs that use the ring; Negative is none.       *)
Message == [id : Nat \ {0}, len : Nat]

Frame(m) == Header(m) \o Body(m)

FrameLen(m) == HeaderSize + m.len

LEMMA FrameIs ==
  ASSUME NEW m \in [id : Nat, len : Nat]
  PROVE  /\ Frame(m) \in Seq(Byte)
         /\ FrameLen(m) \in Nat
         /\ Len(Frame(m)) = FrameLen(m)
         /\ \A k \in 1 .. FrameLen(m) : Frame(m)[k] = <<m, k>>
<1>1. /\ Header(m) \in Seq(Byte) /\ Len(Header(m)) = HeaderSize
      /\ Body(m) \in Seq(Byte) /\ Len(Body(m)) = m.len
  BY FrameBytes
<1>2. HeaderSize \in Nat /\ m.len \in Nat
  BY RingAssumption DEF RingAssumption
<1>3. /\ Frame(m) \in Seq(Byte)
      /\ Len(Frame(m)) = HeaderSize + m.len
      /\ \A k \in 1 .. HeaderSize + m.len :
           Frame(m)[k] = IF k <= HeaderSize THEN Header(m)[k] ELSE Body(m)[k - HeaderSize]
  <2>1. PICK h, b : h = Header(m) /\ b = Body(m)
    OBVIOUS
  <2>2. h \in Seq(Byte) /\ Len(h) = HeaderSize /\ b \in Seq(Byte) /\ Len(b) = m.len
    BY <1>1, <2>1
  <2>3. /\ h \o b \in Seq(Byte)
        /\ Len(h \o b) = HeaderSize + m.len
        /\ \A k \in 1 .. HeaderSize + m.len :
             (h \o b)[k] = IF k <= HeaderSize THEN h[k] ELSE b[k - HeaderSize]
    <3>1. /\ h \o b \in Seq(Byte)
          /\ Len(h \o b) = Len(h) + Len(b)
          /\ \A k \in 1 .. Len(h) + Len(b) :
               (h \o b)[k] = IF k <= Len(h) THEN h[k] ELSE b[k - Len(h)]
      BY <2>2, ConcatProperties
    <3> QED
      BY <2>2, <3>1, Zenon
  <2> QED
    BY <2>1, <2>3 DEF Frame
<1>4. ASSUME NEW k \in 1 .. HeaderSize + m.len
      PROVE  Frame(m)[k] = <<m, k>>
  <2>1. CASE k <= HeaderSize
    <3>1. k \in 1 .. HeaderSize
      BY <1>2, <2>1
    <3> QED
      BY <1>3, <2>1, <3>1 DEF Header
  <2>2. CASE ~(k <= HeaderSize)
    <3>1. k - HeaderSize \in 1 .. m.len /\ HeaderSize + (k - HeaderSize) = k
      BY <1>2, <2>2
    <3> QED
      BY <1>3, <2>2, <3>1 DEF Body
  <2> QED
    BY <2>1, <2>2
<1> QED
  BY <1>2, <1>3, <1>4 DEF FrameLen

(* The frame of q[i] starts behind byte st[i] of c.                        *)
Starts(c, q, st) ==
  /\ st \in [1 .. Len(q) + 1 -> Nat]
  /\ st[1] = 0
  /\ st[Len(q) + 1] = Len(c)
  /\ \A i, j \in 1 .. Len(q) + 1 : i <= j => st[i] <= st[j]
  /\ \A i \in 1 .. Len(q) : st[i + 1] = st[i] + FrameLen(q[i])
  /\ \A i \in 1 .. Len(q) : \A k \in 1 .. FrameLen(q[i]) : c[st[i] + k] = <<q[i], k>>

(* The bytes c are the frames of the messages q, one behind the other.     *)
Framed(c, q) == \E st : Starts(c, q, st)

LEMMA FramedEmpty == Framed(<<>>, <<>>)
<1> DEFINE st == [i \in 1 .. 1 |-> 0]
<1>1. Starts(<<>>, <<>>, st)
  BY DEF Starts
<1> QED
  BY <1>1 DEF Framed

LEMMA FramedNone ==
  ASSUME NEW S, NEW c \in Seq(S), Framed(c, <<>>)
  PROVE  c = <<>>
<1>1. PICK st : Starts(c, <<>>, st)
  BY DEF Framed
<1>2. Len(c) = 0
  BY <1>1 DEF Starts
<1> QED
  BY <1>2

(* A frame is put behind the others.                                       *)
LEMMA FramedAppend ==
  ASSUME NEW c \in Seq(Byte), NEW q \in Seq([id : Nat, len : Nat]), Framed(c, q),
         NEW m \in [id : Nat, len : Nat]
  PROVE  Framed(c \o Frame(m), Append(q, m))
<1>1. PICK st : Starts(c, q, st)
  BY DEF Framed
<1>2. PICK n, d, z, p, e :
        n = Len(q) /\ d = Len(c) /\ z = FrameLen(m) /\ p = Append(q, m) /\ e = c \o Frame(m)
  OBVIOUS
<1>3. n \in Nat /\ d \in Nat /\ z \in Nat
  BY <1>2, FrameIs
<1>4. Len(p) = n + 1 /\ (\A i \in 1 .. n : p[i] = q[i]) /\ p[n + 1] = m
  BY <1>2
<1>5. /\ e \in Seq(Byte) /\ Len(e) = d + z
      /\ \A k \in 1 .. d : e[k] = c[k]
      /\ \A k \in 1 .. z : e[d + k] = <<m, k>>
  <2>1. /\ Frame(m) \in Seq(Byte) /\ Len(Frame(m)) = z
        /\ \A k \in 1 .. z : Frame(m)[k] = <<m, k>>
    BY <1>2, FrameIs
  <2>2. /\ e \in Seq(Byte) /\ Len(e) = d + z
        /\ \A k \in 1 .. d + z : e[k] = IF k <= d THEN c[k] ELSE Frame(m)[k - d]
    BY <1>2, <2>1, ConcatProperties
  <2>3. ASSUME NEW k \in 1 .. z PROVE e[d + k] = <<m, k>>
    <3>1. d + k \in 1 .. d + z /\ ~(d + k <= d) /\ (d + k) - d = k
      BY <1>3
    <3> QED
      BY <2>1, <2>2, <3>1
  <2>4. ASSUME NEW k \in 1 .. d PROVE e[k] = c[k]
    <3>1. k \in 1 .. d + z /\ k <= d
      BY <1>3
    <3> QED
      BY <2>2, <3>1
  <2> QED
    BY <2>2, <2>3, <2>4
<1>6. /\ st \in [1 .. n + 1 -> Nat] /\ st[1] = 0 /\ st[n + 1] = d
      /\ \A i, j \in 1 .. n + 1 : i <= j => st[i] <= st[j]
      /\ \A i \in 1 .. n : st[i + 1] = st[i] + FrameLen(q[i])
      /\ \A i \in 1 .. n : \A k \in 1 .. FrameLen(q[i]) : c[st[i] + k] = <<q[i], k>>
  BY <1>1, <1>2 DEF Starts
<1>7. PICK ts : ts = [i \in 1 .. n + 2 |-> IF i = n + 2 THEN d + z ELSE st[i]]
  OBVIOUS
<1>8. /\ ts \in [1 .. n + 2 -> Nat] /\ ts[n + 2] = d + z
      /\ \A i \in 1 .. n + 1 : ts[i] = st[i]
  BY <1>3, <1>6, <1>7, SMTT(30)
<1>9. ASSUME NEW i \in 1 .. n + 2, NEW j \in 1 .. n + 2, i <= j PROVE ts[i] <= ts[j]
  <2>1. CASE j = n + 2 /\ i = n + 2
    BY <1>3, <1>8, <2>1
  <2>2. CASE j = n + 2 /\ i # n + 2
    <3>1. i \in 1 .. n + 1 /\ n + 1 \in 1 .. n + 1 /\ i <= n + 1
      BY <1>3, <2>2
    <3>2. st[i] <= d /\ st[i] \in Nat
      BY <1>6, <3>1
    <3> QED
      BY <1>3, <1>8, <2>2, <3>1, <3>2
  <2>3. CASE j # n + 2
    <3>1. i \in 1 .. n + 1 /\ j \in 1 .. n + 1
      BY <1>3, <1>9, <2>3
    <3> QED
      BY <1>6, <1>8, <1>9, <3>1
  <2> QED
    BY <2>1, <2>2, <2>3
<1>10. ASSUME NEW i \in 1 .. n + 1
       PROVE  /\ ts[i + 1] = ts[i] + FrameLen(p[i])
              /\ \A k \in 1 .. FrameLen(p[i]) : e[ts[i] + k] = <<p[i], k>>
  <2>1. CASE i = n + 1
    <3>1. p[i] = m /\ ts[i] = d /\ ts[i + 1] = d + z
      BY <1>3, <1>4, <1>6, <1>8, <2>1
    <3> QED
      BY <1>2, <1>5, <3>1
  <2>2. CASE i # n + 1
    <3>1. i \in 1 .. n /\ i + 1 \in 1 .. n + 1 /\ i \in 1 .. n + 1 /\ n + 1 \in 1 .. n + 1 /\ i + 1 <= n + 1
      BY <1>3, <2>2
    <3>2. p[i] = q[i] /\ ts[i] = st[i] /\ ts[i + 1] = st[i + 1]
      BY <1>4, <1>8, <3>1
    <3>5. q[i] \in [id : Nat, len : Nat]
      BY <1>2, <3>1, ElementOfSeq
    <3>3. FrameLen(q[i]) \in Nat /\ st[i] \in Nat /\ st[i] + FrameLen(q[i]) <= d
      BY <1>6, <3>1, <3>5, FrameIs
    <3>4. ASSUME NEW k \in 1 .. FrameLen(q[i]) PROVE e[st[i] + k] = <<q[i], k>>
      <4>1. st[i] + k \in 1 .. d
        BY <1>3, <3>3, SMTT(30)
      <4> QED
        BY <1>5, <1>6, <3>1, <4>1
    <3> QED
      BY <1>6, <3>1, <3>2, <3>4
  <2> QED
    BY <2>1, <2>2
<1>11. Starts(e, p, ts)
  <2>1. Len(p) + 1 = n + 2 /\ 1 \in 1 .. n + 1
    BY <1>3, <1>4
  <2>2. ts[1] = 0
    BY <1>6, <1>8, <2>1
  <2> QED
    BY <1>4, <1>5, <1>8, <1>9, <1>10, <2>1, <2>2 DEF Starts
<1> QED
  BY <1>2, <1>11 DEF Framed

(* The first frame is taken off.                                           *)
LEMMA FramedTail ==
  ASSUME NEW c \in Seq(Byte), NEW q \in Seq([id : Nat, len : Nat]), Framed(c, q), q # <<>>
  PROVE  /\ FrameLen(q[1]) <= Len(c)
         /\ \A k \in 1 .. FrameLen(q[1]) : c[k] = <<q[1], k>>
         /\ Framed(SubSeq(c, FrameLen(q[1]) + 1, Len(c)), Tail(q))
<1>1. PICK st : Starts(c, q, st)
  BY DEF Framed
<1>2. PICK n, d, z, p, e :
        /\ n = Len(q) /\ d = Len(c) /\ z = FrameLen(q[1]) /\ p = Tail(q)
        /\ e = SubSeq(c, z + 1, d)
  OBVIOUS
<1>3. n \in Nat /\ 1 <= n /\ d \in Nat /\ z \in Nat
  <2>1. n \in Nat /\ 1 <= n
    BY <1>2, EmptySeq
  <2>3. 1 \in 1 .. Len(q)
    BY <1>2, <2>1
  <2>2. q[1] \in [id : Nat, len : Nat]
    BY <2>3, ElementOfSeq
  <2> QED
    BY <1>2, <2>1, <2>2, FrameIs
<1>4. Len(p) = n - 1 /\ \A i \in 1 .. n - 1 : p[i] = q[i + 1]
  BY <1>2, HeadTailProperties
<1>5. /\ st \in [1 .. n + 1 -> Nat] /\ st[1] = 0 /\ st[n + 1] = d
      /\ \A i, j \in 1 .. n + 1 : i <= j => st[i] <= st[j]
      /\ \A i \in 1 .. n : st[i + 1] = st[i] + FrameLen(q[i])
      /\ \A i \in 1 .. n : \A k \in 1 .. FrameLen(q[i]) : c[st[i] + k] = <<q[i], k>>
  BY <1>1, <1>2 DEF Starts
<1>6. 1 \in 1 .. n /\ 2 \in 1 .. n + 1 /\ n + 1 \in 1 .. n + 1 /\ 2 <= n + 1
  BY <1>3
<1>7. st[2] = z /\ z <= d
  <2>1. st[1 + 1] = st[1] + FrameLen(q[1])
    BY <1>5, <1>6
  <2>2. st[2] = z
    BY <1>2, <1>3, <1>5, <2>1
  <2> QED
    BY <1>5, <1>6, <2>2
<1>8. ASSUME NEW k \in 1 .. z PROVE c[k] = <<q[1], k>>
  <2>1. c[st[1] + k] = <<q[1], k>>
    BY <1>2, <1>5, <1>6
  <2>2. st[1] + k = k
    BY <1>3, <1>5
  <2> QED
    BY <2>1, <2>2
<1>9. e \in Seq(Byte) /\ Len(e) = d - z /\ \A k \in 1 .. d - z : e[k] = c[z + k]
  <2>1. z \in 0 .. d
    BY <1>3, <1>7
  <2> QED
    <3>1. /\ SubSeq(c, z + 1, Len(c)) \in Seq(Byte)
          /\ Len(SubSeq(c, z + 1, Len(c))) = Len(c) - z
          /\ \A k \in 1 .. Len(c) - z : SubSeq(c, z + 1, Len(c))[k] = c[z + k]
      BY <1>2, <2>1, SuffixIs
    <3> QED
      BY <1>2, <3>1
<1>10. PICK ts : ts = [i \in 1 .. n |-> st[i + 1] - z]
  OBVIOUS
<1>11. ASSUME NEW i \in 1 .. n
       PROVE  st[i + 1] \in Nat /\ z <= st[i + 1] /\ st[i + 1] <= d /\ ts[i] = st[i + 1] - z
  <2>1. i + 1 \in 1 .. n + 1 /\ 2 <= i + 1 /\ i + 1 <= n + 1
    BY <1>3
  <2> QED
    BY <1>5, <1>6, <1>7, <1>10, <2>1
<1>12. ts \in [1 .. n -> Nat]
  <2>1. ASSUME NEW i \in 1 .. n PROVE st[i + 1] - z \in Nat
    <3>1. PICK a : a = st[i + 1]
      OBVIOUS
    <3>2. a \in Nat /\ z <= a
      BY <1>11, <3>1
    <3> QED
      BY <1>3, <3>1, <3>2
  <2> QED
    BY <1>10, <2>1
<1>13. ts[1] = 0 /\ ts[n] = d - z
  BY <1>3, <1>5, <1>6, <1>7, <1>11
<1>14. ASSUME NEW i \in 1 .. n, NEW j \in 1 .. n, i <= j PROVE ts[i] <= ts[j]
  <2>1. i + 1 \in 1 .. n + 1 /\ j + 1 \in 1 .. n + 1 /\ i + 1 <= j + 1
    BY <1>3, <1>14
  <2>2. st[i + 1] <= st[j + 1]
    BY <1>5, <2>1
  <2> QED
    BY <1>3, <1>11, <2>2, SMTT(30)
<1>15. ASSUME NEW i \in 1 .. n - 1
       PROVE  /\ ts[i + 1] = ts[i] + FrameLen(p[i])
              /\ \A k \in 1 .. FrameLen(p[i]) : e[ts[i] + k] = <<p[i], k>>
  <2>1. PICK j : j = i + 1
    OBVIOUS
  <2>2. j \in 1 .. n /\ i \in 1 .. n /\ p[i] = q[j] /\ j \in Nat /\ j + 1 = i + 2
    BY <1>3, <1>4, <2>1
  <2>3. q[j] \in [id : Nat, len : Nat]
    BY <1>2, <2>2, ElementOfSeq
  <2>4. PICK y : y = FrameLen(q[j])
    OBVIOUS
  <2>5. y \in Nat
    BY <2>3, <2>4, FrameIs
  <2>6. st[j + 1] = st[j] + y
    BY <1>5, <2>2, <2>4
  <2>7. /\ ts[i] = st[j] - z /\ ts[j] = st[j + 1] - z
        /\ st[j] \in Nat /\ z <= st[j] /\ st[j + 1] <= d
    BY <1>11, <2>1, <2>2
  <2>8. ts[i + 1] = ts[i] + y
    BY <1>3, <2>1, <2>5, <2>6, <2>7
  <2>9. ASSUME NEW k \in 1 .. y PROVE e[ts[i] + k] = <<q[j], k>>
    <3>0. PICK a, b : a = ts[i] /\ b = st[j]
      OBVIOUS
    <3>3. a = b - z /\ b \in Nat /\ z <= b /\ b + y <= d
      BY <2>6, <2>7, <3>0
    <3>4. a + k \in 1 .. d - z /\ z + (a + k) = b + k
      BY <1>3, <2>5, <3>3
    <3>1. ts[i] + k \in 1 .. d - z /\ z + (ts[i] + k) = st[j] + k
      BY <3>0, <3>4
    <3>2. e[ts[i] + k] = c[st[j] + k]
      BY <1>9, <3>1
    <3> QED
      BY <1>5, <2>2, <2>4, <3>2
  <2> QED
    BY <2>2, <2>4, <2>8, <2>9
<1>16. Starts(e, p, ts)
  <2>1. Len(p) + 1 = n
    BY <1>3, <1>4
  <2> QED
    BY <1>4, <1>9, <1>12, <1>13, <1>14, <1>15, <2>1 DEF Starts
<1> QED
  BY <1>2, <1>7, <1>8, <1>16 DEF Framed

-----------------------------------------------------------------------------
(* What write_buffer and read_buffer do to the contents.                   *)

(* write_buffer puts the frame behind the others, or the ring is empty     *)
(* afterwards because the frame has filled its last slot.                  *)
LEMMA WriteBufferContents ==
  ASSUME NEW r \in Ring, NEW m \in [id : Nat, len : Nat], write_buffer(r, m).ok
  PROVE  contents(write_buffer(r, m).ring) \in {contents(r) \o Frame(m), <<>>}
<1>1. PICK h, b, c, d, y, z :
        /\ h = copy_in_must(r, Header(m)) /\ b = copy_in_must(h.ring, Body(m))
        /\ c = contents(r) /\ d = Distance(r) /\ y = HeaderSize /\ z = m.len
  OBVIOUS
<1>2. y \in Nat /\ z \in Nat /\ Size \in Nat /\ d \in Nat
  BY <1>1, RingAssumption, UsedBounds DEF RingAssumption
<1>3. ~(unused(r) < z + y)
  BY <1>1 DEF write_buffer
<1>4. y <= unused(r) /\ used(r) + y + z <= Size /\ d <= used(r) + 1
  <2>1. used(r) \in Nat /\ unused(r) = Size - used(r)
    BY UsedBounds DEF unused
  <2>2. d <= used(r) + 1
    BY <1>1, RingAssumption DEF used, Distance, Ring, Slots, RingAssumption
  <2> QED
    BY <1>2, <1>3, <2>1, <2>2
<1>5. /\ Header(m) \in Seq(Byte) /\ Len(Header(m)) = y
      /\ Body(m) \in Seq(Byte) /\ Len(Body(m)) = z
  BY <1>1, FrameBytes
<1>6. h.ring \in Ring /\ used(h.ring) <= used(r) + y
  BY <1>1, <1>4, <1>5, CopyInMustRing
<1>7. z <= unused(h.ring)
  <2>1. /\ used(r) \in Nat /\ used(h.ring) \in Nat
        /\ unused(h.ring) = Size - used(h.ring)
    BY <1>6, UsedBounds DEF unused
  <2> QED
    BY <1>2, <1>4, <1>6, <2>1
<1>8. \/ contents(h.ring) = c \o Header(m)
      \/ d + y = Size + 1 /\ contents(h.ring) = <<>>
  BY <1>1, <1>4, <1>5, CopyInContents
<1>9. contents(b.ring) \in {contents(h.ring) \o Body(m), <<>>}
  BY <1>1, <1>5, <1>6, <1>7, CopyInContents
<1>10. write_buffer(r, m).ring = b.ring
  BY <1>1, <1>3 DEF write_buffer
<1>11. CASE contents(h.ring) = c \o Header(m)
  <2>1. c \in Seq(Byte)
    BY <1>1, ContentsType
  <2>2. (c \o Header(m)) \o Body(m) = c \o Frame(m)
    BY <1>5, <2>1, ConcatAssociative, SMTT(30) DEF Frame
  <2> QED
    BY <1>1, <1>9, <1>10, <1>11, <2>2
<1>12. CASE d + y = Size + 1 /\ contents(h.ring) = <<>>
  <2>1. used(r) \in Nat
    BY UsedBounds
  <2>2. z = 0
    BY <1>2, <1>4, <1>12, <2>1
  <2>3. Body(m) = <<>>
    BY <1>5, <2>2
  <2>4. contents(h.ring) \o Body(m) = <<>>
    BY <1>12, <2>3
  <2> QED
    BY <1>9, <1>10, <2>4
<1> QED
  BY <1>8, <1>11, <1>12

(* A header is that of one message.                                        *)
LEMMA HeaderOf ==
  ASSUME NEW m, NEW n, Header(m) = Header(n)
  PROVE  m = n
<1>1. 1 \in 1 .. HeaderSize
  BY RingAssumption DEF RingAssumption
<1>2. Header(m)[1] = <<m, 1>> /\ Header(n)[1] = <<n, 1>>
  BY <1>1 DEF Header
<1> QED
  BY <1>2

LEMMA DecodedIs ==
  ASSUME NEW m \in Message, NEW anyLen
  PROVE  decoded(Header(m), anyLen) = m.len /\ decoded(Header(Negative), anyLen) = -1
<1>1. m # Negative
  BY DEF Message, Negative
<1>2. Header(m) # Header(Negative)
  BY <1>1, HeaderOf
<1>3. 1 \in 1 .. HeaderSize
  BY RingAssumption DEF RingAssumption
<1>4. Header(m)[1] = <<m, 1>>
  BY <1>3 DEF Header
<1>5. Header(m)[1][1] = m
  BY <1>4
<1>6. decoded(Header(m), anyLen) = m.len
  BY <1>2, <1>5 DEF decoded
<1>7. decoded(Header(Negative), anyLen) = -1
  BY DEF decoded
<1> QED
  BY <1>6, <1>7

(* What read_buffer peeks at is the header of the first frame.             *)
LEMMA PeekIsHeader ==
  ASSUME NEW r \in Ring, NEW m \in [id : Nat, len : Nat], HeaderSize <= used(r),
         \A k \in 1 .. FrameLen(m) : contents(r)[k] = <<m, k>>
  PROVE  /\ peek_out_must(r, HeaderSize) = [ret |-> HeaderSize, buf |-> Header(m)]
<1>1. HeaderSize \in Nat /\ used(r) \in Nat /\ m.len \in Nat /\ used(r) <= Distance(r)
      /\ Distance(r) \in Nat
  BY RingAssumption, UsedBounds DEF RingAssumption
<1>2. PICK c : c = SubSeq(contents(r), 1, HeaderSize)
  OBVIOUS
<1>3. copy_out(r, HeaderSize) = c
  BY <1>1, <1>2, CopyOutContents
<1>4. /\ c \in Seq(Byte) /\ Len(c) = HeaderSize
      /\ \A k \in 1 .. HeaderSize : c[k] = contents(r)[k]
  BY <1>1, <1>2, ContentsType
<1>5. ASSUME NEW k \in 1 .. HeaderSize PROVE c[k] = Header(m)[k]
  <2>1. k \in 1 .. FrameLen(m)
    BY <1>1 DEF FrameLen
  <2> QED
    BY <1>4, <2>1 DEF Header
<1>6. c = Header(m)
  BY <1>4, <1>5, FrameBytes, SeqEqual
<1>7. ~(HeaderSize > used(r))
  BY <1>1
<1> QED
  BY <1>3, <1>6, <1>7 DEF peek_out_must

(* read_buffer on a ring that holds frames takes the first one whole, or   *)
(* changes nothing.                                                        *)
LEMMA ReadBufferFrame ==
  ASSUME NEW r \in Ring, NEW anyLen, NEW m \in Message,
         FrameLen(m) <= Distance(r),
         \A k \in 1 .. FrameLen(m) : contents(r)[k] = <<m, k>>
  PROVE  LET b == read_buffer(r, anyLen) IN
         \/ /\ b.ok = TRUE
            /\ b.ring \in Ring
            /\ b.buf = Frame(m)
            /\ contents(b.ring) = SubSeq(contents(r), FrameLen(m) + 1, Distance(r))
         \/ b.ok = FALSE /\ b.ring = r
<1>1. PICK y, z, u, d, s, c :
        /\ y = HeaderSize /\ z = m.len /\ u = used(r) /\ d = Distance(r)
        /\ s = has_read(r, y) /\ c = contents(r)
  OBVIOUS
<1>2. m \in [id : Nat, len : Nat]
  BY DEF Message
<1>3. y \in Nat /\ y # 0 /\ z \in Nat /\ Size \in Nat /\ u \in Nat /\ d \in Nat /\ u <= d
  BY <1>1, <1>2, RingAssumption, UsedBounds DEF RingAssumption
<1>4. c \in Seq(Byte) /\ Len(c) = d
  BY <1>1, ContentsType
<1>5. CASE y > u
  BY <1>1, <1>5 DEF read_buffer, peek_out_must
<1>6. CASE ~(y > u)
  <2>1. y <= u
    BY <1>3, <1>6
  <2>2. peek_out_must(r, y) = [ret |-> y, buf |-> Header(m)]
    BY <1>1, <1>2, <2>1, PeekIsHeader
  <2>3. decoded(Header(m), anyLen) = z
    BY <1>1, DecodedIs
  <2>4. CASE u < z + y
    BY <1>1, <1>3, <2>2, <2>3, <2>4 DEF read_buffer
  <2>5. CASE ~(u < z + y)
    <3>1. PICK e : e = contents(s)
      OBVIOUS
    <3>2. s \in Ring /\ Distance(s) = d - y /\ used(s) >= u - y /\ used(s) \in Nat
      <4>1. s \in Ring /\ Distance(s) = d - y /\ used(s) >= u - y
        BY <1>1, <1>3, <2>1, HasReadRing
      <4> QED
        BY <4>1, UsedBounds
    <3>3. e = SubSeq(c, y + 1, d)
      BY <1>1, <1>3, <2>1, <3>1, HasReadContents
    <3>4. z <= used(s)
      BY <1>3, <2>5, <3>2
    <3>5. PICK b : b = copy_out_must(s, z)
      OBVIOUS
    <3>6. b.ret = z /\ b.buf = copy_out(s, z) /\ b.ring = has_read(s, z)
      <4>1. ~(z > used(s))
        BY <1>3, <3>2, <3>4
      <4> QED
        BY <3>5, <4>1 DEF copy_out_must, has_read
    <3>7. b.buf = SubSeq(e, 1, z) /\ contents(b.ring) = SubSeq(e, z + 1, d - y)
      BY <1>3, <3>1, <3>2, <3>4, <3>6, CopyOutContents, HasReadContents
    <3>8. b.ring \in Ring
      BY <1>3, <3>2, <3>6, HasReadRing
    <3>9. y + z <= d
      BY <1>3, <2>5
    <3>10. SubSeq(e, 1, z) = Body(m)
      <4>1. \A k \in 1 .. d - y : e[k] = c[y + k]
        BY <1>3, <1>4, <3>3, <3>9
      <4>2. ASSUME NEW k \in 1 .. z PROVE SubSeq(e, 1, z)[k] = Body(m)[k]
        <5>1. k \in 1 .. d - y /\ y + k \in 1 .. FrameLen(m)
          BY <1>1, <1>3, <3>9 DEF FrameLen
        <5>2. e[k] = <<m, y + k>>
          BY <1>1, <4>1, <5>1
        <5>3. SubSeq(e, 1, z)[k] = e[k]
          BY <1>3, <3>1, <3>2, <3>9, ContentsType
        <5> QED
          BY <1>1, <5>2, <5>3 DEF Body
      <4>3. SubSeq(e, 1, z) \in Seq(Byte) /\ Len(SubSeq(e, 1, z)) = z
        BY <1>3, <3>1, <3>2, <3>9, ContentsType
      <4>4. Body(m) \in Seq(Byte) /\ Len(Body(m)) = z
        BY <1>1, <1>2, FrameBytes
      <4> QED
        BY <4>2, <4>3, <4>4, SeqEqual
    <3>11. SubSeq(e, z + 1, d - y) = SubSeq(c, FrameLen(m) + 1, d)
      <4>1. PICK f, g : f = SubSeq(e, z + 1, d - y) /\ g = SubSeq(c, y + z + 1, d)
        OBVIOUS
      <4>2. \A k \in 1 .. d - y : e[k] = c[y + k]
        BY <1>3, <1>4, <3>3, <3>9
      <4>3. e \in Seq(Byte) /\ Len(e) = d - y
        BY <3>1, <3>2, ContentsType
      <4>4. /\ f \in Seq(Byte) /\ Len(f) = d - y - z
            /\ \A k \in 1 .. d - y - z : f[k] = e[z + k]
        <5>1. z \in 0 .. d - y
          BY <1>3, <3>9
        <5> QED
          <6>1. /\ SubSeq(e, z + 1, Len(e)) \in Seq(Byte)
                /\ Len(SubSeq(e, z + 1, Len(e))) = Len(e) - z
                /\ \A k \in 1 .. Len(e) - z : SubSeq(e, z + 1, Len(e))[k] = e[z + k]
            BY <4>3, <5>1, SuffixIs
          <6> QED
            BY <4>1, <4>3, <6>1
      <4>5. /\ g \in Seq(Byte) /\ Len(g) = d - y - z
            /\ \A k \in 1 .. d - y - z : g[k] = c[y + z + k]
        <5>1. PICK yz : yz = y + z
          OBVIOUS
        <5>2. yz \in 0 .. Len(c) /\ Len(c) - yz = d - y - z
          BY <1>3, <1>4, <3>9, <5>1
        <5>3. /\ SubSeq(c, yz + 1, Len(c)) \in Seq(Byte)
              /\ Len(SubSeq(c, yz + 1, Len(c))) = Len(c) - yz
              /\ \A k \in 1 .. Len(c) - yz : SubSeq(c, yz + 1, Len(c))[k] = c[yz + k]
          BY <1>4, <5>2, SuffixIs
        <5>4. g = SubSeq(c, yz + 1, Len(c))
          BY <1>4, <4>1, <5>1
        <5> QED
          BY <5>1, <5>2, <5>3, <5>4, Zenon
      <4>6. ASSUME NEW k \in 1 .. d - y - z PROVE f[k] = g[k]
        <5>1. z + k \in 1 .. d - y /\ y + (z + k) = y + z + k
          BY <1>3, <3>9
        <5> QED
          BY <4>2, <4>4, <4>5, <5>1
      <4>7. f = g
        BY <4>4, <4>5, <4>6, SeqEqual
      <4> QED
        BY <1>1, <4>1, <4>7 DEF FrameLen
    <3>12. ~(z < 0) /\ ~(y > u) /\ y # 0 /\ ~(u < z + y) /\ y + z = z + y
      BY <1>3, <1>6, <2>5
    <3>13. read_buffer(r, anyLen) = [ok |-> y + b.ret = z + y, ring |-> b.ring, buf |-> Header(m) \o b.buf]
      <4>1. b = copy_out_must(has_read(r, y), IF z < 0 THEN Size + 1 ELSE z)
        BY <1>1, <3>5, <3>12
      <4> QED
        <5>1. PICK hb : hb = Header(m)
          OBVIOUS
        <5>2. /\ peek_out_must(r, HeaderSize).ret = HeaderSize
              /\ peek_out_must(r, HeaderSize).buf = hb
              /\ HeaderSize # 0
              /\ decoded(hb, anyLen) = z
              /\ ~(HeaderSize > used(r)) /\ ~(used(r) < z + HeaderSize)
              /\ b = copy_out_must(has_read(r, HeaderSize), IF z < 0 THEN Size + 1 ELSE z)
          BY <1>1, <2>2, <2>3, <3>12, <4>1, <5>1
        <5>3. read_buffer(r, anyLen) = [ok |-> HeaderSize + b.ret = z + HeaderSize,
                                        ring |-> b.ring, buf |-> hb \o b.buf]
          BY <5>2 DEF read_buffer
        <5> QED
          BY <1>1, <5>1, <5>3
    <3>14. read_buffer(r, anyLen) = [ok |-> TRUE, ring |-> b.ring, buf |-> Header(m) \o b.buf]
      BY <3>6, <3>12, <3>13, Zenon
    <3>15. /\ read_buffer(r, anyLen).ok = TRUE
           /\ read_buffer(r, anyLen).ring = b.ring
           /\ read_buffer(r, anyLen).buf = Header(m) \o b.buf
      BY <3>14
    <3>16. read_buffer(r, anyLen).buf = Frame(m)
      BY <3>7, <3>10, <3>15 DEF Frame
    <3> QED
      BY <1>1, <3>7, <3>8, <3>11, <3>15, <3>16
  <2> QED
    BY <2>4, <2>5
<1> QED
  BY <1>5, <1>6

(* There is nothing to read in an empty ring.                              *)
LEMMA ReadBufferNothing ==
  ASSUME NEW r \in Ring, NEW anyLen, Distance(r) = 0
  PROVE  read_buffer(r, anyLen).ok = FALSE /\ read_buffer(r, anyLen).ring = r
<1>1. HeaderSize > used(r)
  BY UsedBounds, RingAssumption DEF RingAssumption
<1> QED
  BY <1>1 DEF read_buffer, peek_out_must

(* From a header of negative length read_buffer gets no message; it may    *)
(* have consumed the header.                                               *)
LEMMA ReadBufferNegative ==
  ASSUME NEW r \in Ring, NEW anyLen, HeaderSize <= Distance(r),
         \A k \in 1 .. HeaderSize : contents(r)[k] = <<Negative, k>>
  PROVE  LET b == read_buffer(r, anyLen) IN
         /\ b.ok = FALSE
         /\ b.ring \in Ring
         /\ \/ b.ring = r
            \/ contents(b.ring) = SubSeq(contents(r), HeaderSize + 1, Distance(r))
<1>1. PICK y, u, d, s :
        y = HeaderSize /\ u = used(r) /\ d = Distance(r) /\ s = has_read(r, y)
  OBVIOUS
<1>2. y \in Nat /\ y # 0 /\ Size \in Nat /\ u \in Nat /\ d \in Nat /\ u <= d
  BY <1>1, RingAssumption, UsedBounds DEF RingAssumption
<1>3. CASE y > u
  BY <1>1, <1>3 DEF read_buffer, peek_out_must
<1>4. CASE ~(y > u)
  <2>1. y <= u
    BY <1>2, <1>4
  <2>2. PICK m : m = Negative
    OBVIOUS
  <2>3. m \in [id : Nat, len : Nat] /\ FrameLen(m) = y
    BY <1>1, <1>2, <2>2 DEF Negative, FrameLen
  <2>4. peek_out_must(r, y) = [ret |-> y, buf |-> Header(m)]
    <3>1. \A k \in 1 .. FrameLen(m) : contents(r)[k] = <<m, k>>
      BY <1>1, <2>2, <2>3
    <3> QED
      BY <1>1, <2>1, <2>3, <3>1, PeekIsHeader
  <2>5. s \in Ring /\ contents(s) = SubSeq(contents(r), y + 1, d)
    BY <1>1, <1>2, <2>1, HasReadRing, HasReadContents
  <2>6. PICK b : b = copy_out_must(s, Size + 1)
    OBVIOUS
  <2>7. b.ret = 0 /\ b.ring = s /\ b.buf = <<>>
    <3>1. Size + 1 > used(s)
      BY <1>2, <2>5, UsedBounds
    <3> QED
      BY <2>6, <3>1 DEF copy_out_must
  <2>8. PICK hb : hb = Header(m)
    OBVIOUS
  <2>9. decoded(hb, anyLen) = -1
    BY <2>2, <2>8 DEF decoded
  <2>10. /\ peek_out_must(r, HeaderSize).ret = HeaderSize
         /\ peek_out_must(r, HeaderSize).buf = hb
         /\ HeaderSize # 0
         /\ ~(HeaderSize > used(r)) /\ ~(used(r) < -1 + HeaderSize)
         /\ b = copy_out_must(has_read(r, HeaderSize), Size + 1)
    BY <1>1, <1>2, <1>4, <2>1, <2>4, <2>6, <2>8
  <2>11. read_buffer(r, anyLen) = [ok |-> HeaderSize + b.ret = -1 + HeaderSize,
                                   ring |-> b.ring, buf |-> hb \o b.buf]
    BY <2>9, <2>10 DEF read_buffer
  <2>12. (HeaderSize + b.ret = -1 + HeaderSize) = FALSE
    BY <1>1, <1>2, <2>7
  <2>13. read_buffer(r, anyLen) = [ok |-> FALSE, ring |-> b.ring, buf |-> hb \o b.buf]
    BY <2>11, <2>12, Zenon
  <2>14. read_buffer(r, anyLen).ok = FALSE /\ read_buffer(r, anyLen).ring = s
    BY <2>7, <2>13
  <2> QED
    BY <1>1, <2>5, <2>14
<1> QED
  BY <1>3, <1>4

-----------------------------------------------------------------------------
(* The messages that went through the ring.                                *)

(* The messages q are the last ones of acc.                                *)
Last(acc, q) ==
  /\ Len(q) <= Len(acc)
  /\ \A i \in 1 .. Len(q) : q[i] = acc[Len(acc) - Len(q) + i]

(* The frames rec are those of messages among the first n of acc, f says   *)
(* of which, in the same order.                                            *)
Copies(acc, rec, f, n) ==
  /\ f \in [1 .. Len(rec) -> 1 .. n]
  /\ \A i \in 1 .. Len(rec) : rec[i] = Frame(acc[f[i]])
  /\ \A i, j \in 1 .. Len(rec) : i < j => f[i] < f[j]

(* Of the messages acc, accepted in this order, the last ones, q, are in   *)
(* the ring; the frames rec that were read are those of earlier ones.      *)
Delivered(acc, rec, q) ==
  Last(acc, q) /\ \E f : Copies(acc, rec, f, Len(acc) - Len(q))

LEMMA DeliveredNone == Delivered(<<>>, <<>>, <<>>)
<1>1. PICK e, f : e = <<>> /\ f = [i \in 1 .. 0 |-> i]
  OBVIOUS
<1>2. Len(e) = 0
  BY <1>1
<1>3. Last(e, e)
  BY <1>2 DEF Last
<1>4. Copies(e, e, f, 0)
  BY <1>1, <1>2 DEF Copies
<1>5. Len(e) - Len(e) = 0
  BY <1>2
<1>6. Delivered(e, e, e)
  BY <1>3, <1>4, <1>5 DEF Delivered
<1> QED
  BY <1>1, <1>6

(* The ring loses what it holds.                                           *)
LEMMA DeliveredLose ==
  ASSUME NEW S, NEW acc \in Seq(S), NEW rec \in Seq(Seq(Byte)), NEW q \in Seq(S),
         Delivered(acc, rec, q)
  PROVE  Delivered(acc, rec, <<>>)
<1>1. PICK a, n, z, e : a = Len(acc) /\ n = Len(q) /\ z = Len(rec) /\ e = <<>>
  OBVIOUS
<1>2. a \in Nat /\ n \in Nat /\ z \in Nat /\ n <= a /\ Len(e) = 0
  BY <1>1 DEF Delivered, Last
<1>3. PICK f : Copies(acc, rec, f, a - n)
  BY <1>1 DEF Delivered
<1>4. Copies(acc, rec, f, a)
  <2>1. f \in [1 .. z -> 1 .. a - n]
    BY <1>1, <1>3 DEF Copies
  <2>2. f \in [1 .. z -> 1 .. a]
    BY <1>2, <2>1
  <2> QED
    BY <1>1, <1>3, <2>2 DEF Copies
<1>5. Last(acc, e) /\ Len(acc) - Len(e) = a
  BY <1>1, <1>2 DEF Last
<1> QED
  BY <1>1, <1>4, <1>5 DEF Delivered

(* A message is accepted and in the ring.                                  *)
LEMMA DeliveredAccept ==
  ASSUME NEW S, NEW acc \in Seq(S), NEW rec \in Seq(Seq(Byte)), NEW q \in Seq(S),
         Delivered(acc, rec, q), NEW m \in S
  PROVE  Delivered(Append(acc, m), rec, Append(q, m))
<1>1. PICK a, n, z, b, p :
        a = Len(acc) /\ n = Len(q) /\ z = Len(rec) /\ b = Append(acc, m) /\ p = Append(q, m)
  OBVIOUS
<1>2. a \in Nat /\ n \in Nat /\ z \in Nat /\ n <= a
  BY <1>1 DEF Delivered, Last
<1>3. Len(b) = a + 1 /\ (\A i \in 1 .. a : b[i] = acc[i]) /\ b[a + 1] = m
  BY <1>1
<1>4. Len(p) = n + 1 /\ (\A i \in 1 .. n : p[i] = q[i]) /\ p[n + 1] = m
  BY <1>1
<1>5. \A i \in 1 .. n : q[i] = acc[a - n + i]
  BY <1>1 DEF Delivered, Last
<1>6. PICK f : Copies(acc, rec, f, a - n)
  BY <1>1 DEF Delivered
<1>7. ASSUME NEW i \in 1 .. n + 1 PROVE p[i] = b[(a + 1) - (n + 1) + i]
  <2>1. CASE i = n + 1
    <3>1. (a + 1) - (n + 1) + i = a + 1
      BY <1>2, <2>1
    <3> QED
      BY <1>3, <1>4, <2>1, <3>1
  <2>2. CASE i # n + 1
    <3>1. i \in 1 .. n /\ a - n + i \in 1 .. a /\ (a + 1) - (n + 1) + i = a - n + i
      BY <1>2, <2>2
    <3> QED
      BY <1>3, <1>4, <1>5, <3>1
  <2> QED
    BY <2>1, <2>2
<1>8. Last(b, p) /\ Len(b) - Len(p) = a - n
  <2>1. n + 1 <= a + 1 /\ (a + 1) - (n + 1) = a - n
    BY <1>2
  <2> QED
    BY <1>3, <1>4, <1>7, <2>1 DEF Last
<1>9. Copies(b, rec, f, a - n)
  <2>1. /\ f \in [1 .. z -> 1 .. a - n]
        /\ \A i \in 1 .. z : rec[i] = Frame(acc[f[i]])
    BY <1>1, <1>6 DEF Copies
  <2>2. ASSUME NEW i \in 1 .. z PROVE rec[i] = Frame(b[f[i]])
    <3>1. f[i] \in 1 .. a
      BY <1>2, <2>1
    <3> QED
      BY <1>3, <2>1, <3>1
  <2> QED
    BY <1>1, <1>6, <2>2 DEF Copies
<1> QED
  BY <1>1, <1>8, <1>9 DEF Delivered

(* The first entry in the ring is dropped.                                 *)
LEMMA DeliveredSkip ==
  ASSUME NEW S, NEW acc \in Seq(S), NEW rec \in Seq(Seq(Byte)), NEW q \in Seq(S),
         Delivered(acc, rec, q), q # <<>>
  PROVE  Delivered(acc, rec, Tail(q))
<1>1. PICK a, n, z, p : a = Len(acc) /\ n = Len(q) /\ z = Len(rec) /\ p = Tail(q)
  OBVIOUS
<1>2. a \in Nat /\ n \in Nat /\ z \in Nat /\ n <= a /\ 1 <= n
  <2>1. n \in Nat /\ 1 <= n
    BY <1>1, EmptySeq
  <2> QED
    BY <1>1, <2>1 DEF Delivered, Last
<1>3. Len(p) = n - 1 /\ \A i \in 1 .. n - 1 : p[i] = q[i + 1]
  BY <1>1, HeadTailProperties
<1>4. \A i \in 1 .. n : q[i] = acc[a - n + i]
  BY <1>1 DEF Delivered, Last
<1>5. PICK f, b : Copies(acc, rec, f, a - n) /\ b = a - n + 1
  BY <1>1 DEF Delivered
<1>6. /\ f \in [1 .. z -> 1 .. a - n]
      /\ \A i \in 1 .. z : rec[i] = Frame(acc[f[i]])
      /\ \A i, j \in 1 .. z : i < j => f[i] < f[j]
  BY <1>1, <1>5 DEF Copies
<1>7. Copies(acc, rec, f, b)
  <2>1. 1 .. a - n \subseteq 1 .. b
    BY <1>2, <1>5
  <2>2. f \in [1 .. z -> 1 .. b]
    BY <1>6, <2>1
  <2> QED
    BY <1>1, <1>6, <2>2 DEF Copies
<1>8. ASSUME NEW i \in 1 .. n - 1 PROVE p[i] = acc[a - (n - 1) + i]
  <2>1. i + 1 \in 1 .. n /\ a - (n - 1) + i = a - n + (i + 1)
    BY <1>2
  <2> QED
    BY <1>3, <1>4, <2>1
<1>9. Last(acc, p) /\ Len(acc) - Len(p) = b
  <2>1. n - 1 <= a /\ a - (n - 1) = b
    BY <1>2, <1>5
  <2> QED
    BY <1>1, <1>3, <1>8, <2>1 DEF Last
<1>10. Delivered(acc, rec, p)
  BY <1>7, <1>9 DEF Delivered
<1> QED
  BY <1>1, <1>10

(* The first message in the ring is read.                                  *)
LEMMA DeliveredRead ==
  ASSUME NEW S, NEW acc \in Seq(S), NEW rec \in Seq(Seq(Byte)), NEW q \in Seq(S),
         Delivered(acc, rec, q), q # <<>>, Frame(q[1]) \in Seq(Byte)
  PROVE  Delivered(acc, Append(rec, Frame(q[1])), Tail(q))
<1>1. PICK a, n, z, w, p :
        /\ a = Len(acc) /\ n = Len(q) /\ z = Len(rec)
        /\ w = Append(rec, Frame(q[1])) /\ p = Tail(q)
  OBVIOUS
<1>2. a \in Nat /\ n \in Nat /\ z \in Nat /\ n <= a /\ 1 <= n
  <2>1. n \in Nat /\ 1 <= n
    BY <1>1, EmptySeq
  <2> QED
    BY <1>1, <2>1 DEF Delivered, Last
<1>3. Len(w) = z + 1 /\ (\A i \in 1 .. z : w[i] = rec[i]) /\ w[z + 1] = Frame(q[1])
  BY <1>1
<1>4. Len(p) = n - 1 /\ \A i \in 1 .. n - 1 : p[i] = q[i + 1]
  BY <1>1, HeadTailProperties
<1>5. \A i \in 1 .. n : q[i] = acc[a - n + i]
  BY <1>1 DEF Delivered, Last
<1>6. PICK f : Copies(acc, rec, f, a - n)
  BY <1>1 DEF Delivered
<1>7. /\ f \in [1 .. z -> 1 .. a - n]
      /\ \A i \in 1 .. z : rec[i] = Frame(acc[f[i]])
      /\ \A i, j \in 1 .. z : i < j => f[i] < f[j]
  BY <1>1, <1>6 DEF Copies
<1>8. PICK g, b : b = a - n + 1 /\ g = [i \in 1 .. z + 1 |-> IF i = z + 1 THEN b ELSE f[i]]
  OBVIOUS
<1>9. b \in Nat /\ a - n = b - 1
  BY <1>2, <1>8
<1>10. g[z + 1] = b /\ \A i \in 1 .. z : g[i] = f[i] /\ f[i] \in 1 .. b - 1
  BY <1>2, <1>7, <1>8, <1>9
<1>11. g \in [1 .. z + 1 -> 1 .. b]
  <2>1. ASSUME NEW i \in 1 .. z + 1
        PROVE  (IF i = z + 1 THEN b ELSE f[i]) \in 1 .. b
    <3>1. CASE i = z + 1
      BY <1>2, <1>8, <1>9, <3>1
    <3>2. CASE i # z + 1
      <4>1. i \in 1 .. z
        BY <1>2, <3>2
      <4>2. PICK x : x = f[i]
        OBVIOUS
      <4>3. x \in 1 .. b - 1
        BY <1>10, <4>1, <4>2
      <4>4. x \in 1 .. b
        BY <1>9, <4>3
      <4> QED
        BY <3>2, <4>2, <4>4
    <3> QED
      BY <3>1, <3>2
  <2> QED
    BY <1>8, <2>1
<1>12. ASSUME NEW i \in 1 .. z + 1 PROVE w[i] = Frame(acc[g[i]])
  <2>1. CASE i = z + 1
    <3>1. 1 \in 1 .. n
      BY <1>2
    <3>2. q[1] = acc[b]
      BY <1>5, <1>8, <3>1
    <3> QED
      BY <1>3, <1>10, <2>1, <3>2
  <2>2. CASE i # z + 1
    <3>1. i \in 1 .. z
      BY <1>2, <2>2
    <3> QED
      BY <1>3, <1>7, <1>10, <3>1
  <2> QED
    BY <2>1, <2>2
<1>13. ASSUME NEW i \in 1 .. z + 1, NEW j \in 1 .. z + 1, i < j PROVE g[i] < g[j]
  <2>1. i \in 1 .. z
    BY <1>2, <1>13
  <2>2. CASE j = z + 1
    BY <1>9, <1>10, <2>1, <2>2
  <2>3. CASE j # z + 1
    <3>1. j \in 1 .. z
      BY <1>2, <2>3
    <3> QED
      BY <1>7, <1>10, <1>13, <2>1, <3>1
  <2> QED
    BY <2>2, <2>3
<1>14. Copies(acc, w, g, b)
  BY <1>3, <1>11, <1>12, <1>13 DEF Copies
<1>15. ASSUME NEW i \in 1 .. n - 1 PROVE p[i] = acc[a - (n - 1) + i]
  <2>1. i + 1 \in 1 .. n /\ a - (n - 1) + i = a - n + (i + 1)
    BY <1>2
  <2> QED
    BY <1>4, <1>5, <2>1
<1>16. Last(acc, p) /\ Len(acc) - Len(p) = b
  <2>1. n - 1 <= a /\ a - (n - 1) = b
    BY <1>2, <1>8
  <2> QED
    BY <1>1, <1>4, <1>15, <2>1 DEF Last
<1>17. Delivered(acc, w, p)
  BY <1>14, <1>16 DEF Delivered
<1> QED
  BY <1>1, <1>17

-----------------------------------------------------------------------------
(* The ring as a queue of messages, which may lose what it holds.          *)

(* What a ring may hold: messages and, in Receiver, headers of a negative  *)
(* length without a body.                                                  *)
Entry == Message \cup {Negative}

(* The ring holds the frames of the last entries, q.                       *)
Held(r, acc, rec, q) ==
  /\ q \in Seq(Entry)
  /\ Framed(contents(r), q)
  /\ Delivered(acc, rec, q)

LEMMA EntryIs ==
  /\ Entry \subseteq [id : Nat, len : Nat]
  /\ Message \subseteq Entry
  /\ Negative \in Entry
  BY DEF Entry, Message, Negative

(* A ring that is empty.                                                   *)
LEMMA HeldNothing ==
  ASSUME NEW r, contents(r) = <<>>, NEW acc, NEW rec, Delivered(acc, rec, <<>>)
  PROVE  Held(r, acc, rec, <<>>)
<1>1. PICK e : e = <<>>
  OBVIOUS
<1>2. e \in Seq(Entry)
  BY <1>1, EmptySeq
<1>3. Framed(contents(r), e) /\ Delivered(acc, rec, e)
  BY <1>1, FramedEmpty
<1>4. Held(r, acc, rec, e)
  BY <1>2, <1>3 DEF Held
<1> QED
  BY <1>1, <1>4

(* The bytes of an entry go behind what the ring holds, or the ring is     *)
(* full to the last slot and reads as empty.                               *)
LEMMA HeldMore ==
  ASSUME NEW r \in Ring, NEW acc \in Seq(Entry), NEW rec \in Seq(Seq(Byte)),
         NEW q, Held(r, acc, rec, q), NEW m \in Entry,
         NEW s, contents(s) \in {contents(r) \o Frame(m), <<>>}
  PROVE  \E p : Len(p) <= Len(q) + 1 /\ Held(s, Append(acc, m), rec, p)
<1>1. PICK c, a, p, e : /\ c = contents(r) /\ a = Append(acc, m) /\ p = Append(q, m)
                        /\ e = <<>>
  OBVIOUS
<1>2. q \in Seq(Entry) /\ Framed(c, q) /\ Delivered(acc, rec, q)
  BY <1>1 DEF Held
<1>3. /\ a \in Seq(Entry) /\ p \in Seq(Entry) /\ Len(p) = Len(q) + 1 /\ Len(q) \in Nat
      /\ Len(e) = 0
  BY <1>1, <1>2, AppendProperties
<1>4. Delivered(a, rec, p)
  BY <1>1, <1>2, DeliveredAccept
<1>5. CASE contents(s) = c \o Frame(m)
  <2>1. q \in Seq([id : Nat, len : Nat]) /\ m \in [id : Nat, len : Nat]
    BY <1>2, EntryIs, SeqMonotonic
  <2>2. c \in Seq(Byte)
    BY <1>1, ContentsType
  <2>3. Framed(contents(s), p)
    BY <1>1, <1>2, <1>5, <2>1, <2>2, FramedAppend
  <2>4. Held(s, a, rec, p)
    BY <1>3, <1>4, <2>3 DEF Held
  <2>5. Len(p) <= Len(q) + 1
    BY <1>3
  <2> QED
    BY <1>1, <2>4, <2>5, Zenon
<1>6. CASE contents(s) = <<>>
  <2>1. Delivered(a, rec, <<>>)
    BY <1>3, <1>4, DeliveredLose
  <2>2. Held(s, a, rec, e)
    BY <1>1, <1>6, <2>1, HeldNothing
  <2>3. Len(e) <= Len(q) + 1
    BY <1>3
  <2> QED
    BY <1>1, <2>2, <2>3, Zenon
<1> QED
  BY <1>1, <1>5, <1>6

(* write_buffer refuses the message and changes nothing, or accepts it.    *)
LEMMA WriteKeeps ==
  ASSUME NEW r \in Ring, NEW acc \in Seq(Entry), NEW rec \in Seq(Seq(Byte)),
         NEW q, Held(r, acc, rec, q), NEW m \in Message
  PROVE  LET w == write_buffer(r, m) IN
         \/ /\ w.ok = TRUE
            /\ w.ring \in Ring
            /\ Distance(w.ring) <= Distance(r) + HeaderSize + m.len
            /\ \E p : Len(p) <= Len(q) + 1 /\ Held(w.ring, Append(acc, m), rec, p)
         \/ w.ok = FALSE /\ w.ring = r
<1>1. PICK w, s : w = write_buffer(r, m) /\ s = w.ring
  OBVIOUS
<1>2. m \in [id : Nat, len : Nat] /\ m \in Entry
  BY EntryIs
<1>3. \/ /\ w.ok = TRUE
         /\ s \in Ring
         /\ Distance(s) <= Distance(r) + HeaderSize + m.len
      \/ w.ok = FALSE /\ s = r
  BY <1>1, <1>2, WriteBufferRing
<1>4. CASE w.ok = FALSE /\ s = r
  BY <1>1, <1>4
<1>5. CASE /\ w.ok = TRUE
           /\ s \in Ring
           /\ Distance(s) <= Distance(r) + HeaderSize + m.len
  <2>1. contents(s) \in {contents(r) \o Frame(m), <<>>}
    BY <1>1, <1>2, <1>5, WriteBufferContents
  <2>2. \E p : Len(p) <= Len(q) + 1 /\ Held(s, Append(acc, m), rec, p)
    BY <1>2, <2>1, HeldMore
  <2> QED
    BY <1>1, <1>5, <2>2
<1> QED
  BY <1>3, <1>4, <1>5

(* What read_buffer does with a ring r that holds q.                       *)
ReadResult(b, r, acc, rec, q) ==
  \/ /\ b.ok = TRUE
     /\ b.ring \in Ring
     /\ b.buf \in Seq(Byte)
     /\ Len(b.buf) <= Distance(r)
     /\ Distance(b.ring) = Distance(r) - Len(b.buf)
     /\ q # <<>>
     /\ Held(b.ring, acc, Append(rec, b.buf), Tail(q))
  \/ /\ b.ok = FALSE
     /\ b.ring = r
  \/ /\ b.ok = FALSE
     /\ b.ring \in Ring
     /\ q # <<>> /\ q[1] = Negative
     /\ Held(b.ring, acc, rec, Tail(q))

(* read_buffer takes the first message, or none and changes nothing; a     *)
(* header of negative length that is in front it takes as well.            *)
LEMMA ReadKeeps ==
  ASSUME NEW r \in Ring, NEW acc \in Seq(Entry), NEW rec \in Seq(Seq(Byte)),
         NEW q, Held(r, acc, rec, q), NEW anyLen
  PROVE  ReadResult(read_buffer(r, anyLen), r, acc, rec, q)
<1>1. PICK b, s, c, d :
        /\ b = read_buffer(r, anyLen) /\ s = b.ring
        /\ c = contents(r) /\ d = Distance(r)
  OBVIOUS
<1>2. q \in Seq(Entry) /\ Framed(c, q) /\ Delivered(acc, rec, q)
  BY <1>1 DEF Held
<1>3. q \in Seq([id : Nat, len : Nat])
  BY <1>2, EntryIs, SeqMonotonic
<1>4. c \in Seq(Byte) /\ Len(c) = d /\ d \in Nat
  BY <1>1, ContentsType
<1>5. ASSUME q # <<>>
      PROVE  /\ q[1] \in Entry /\ Tail(q) \in Seq(Entry)
             /\ FrameLen(q[1]) <= d
             /\ \A k \in 1 .. FrameLen(q[1]) : c[k] = <<q[1], k>>
             /\ Framed(SubSeq(c, FrameLen(q[1]) + 1, d), Tail(q))
  <2>1. 1 \in 1 .. Len(q)
    BY <1>2, <1>5, EmptySeq
  <2>2. q[1] \in Entry /\ Tail(q) \in Seq(Entry)
    BY <1>2, <1>5, <2>1, ElementOfSeq, HeadTailProperties
  <2>3. /\ FrameLen(q[1]) <= Len(c)
        /\ \A k \in 1 .. FrameLen(q[1]) : c[k] = <<q[1], k>>
        /\ Framed(SubSeq(c, FrameLen(q[1]) + 1, Len(c)), Tail(q))
    BY <1>2, <1>3, <1>4, <1>5, FramedTail
  <2> QED
    BY <1>4, <2>2, <2>3
<1>6. CASE q # <<>> /\ q[1] \in Message
  <2>1. PICK m : m = q[1]
    OBVIOUS
  <2>2. m \in Message /\ m \in [id : Nat, len : Nat]
    BY <1>6, <2>1, EntryIs
  <2>3. /\ FrameLen(m) <= d
        /\ \A k \in 1 .. FrameLen(m) : c[k] = <<m, k>>
        /\ Framed(SubSeq(c, FrameLen(m) + 1, d), Tail(q))
    BY <1>5, <1>6, <2>1
  <2>4. \/ /\ b.ok = TRUE
           /\ s \in Ring
           /\ b.buf = Frame(m)
           /\ contents(s) = SubSeq(c, FrameLen(m) + 1, d)
        \/ b.ok = FALSE /\ s = r
    BY <1>1, <2>2, <2>3, ReadBufferFrame
  <2>5. CASE b.ok = FALSE /\ s = r
    BY <1>1, <2>5 DEF ReadResult
  <2>6. CASE /\ b.ok = TRUE
             /\ s \in Ring
             /\ b.buf = Frame(m)
             /\ contents(s) = SubSeq(c, FrameLen(m) + 1, d)
    <3>1. b.buf \in Seq(Byte) /\ Len(b.buf) = FrameLen(m) /\ FrameLen(m) \in Nat
      BY <2>2, <2>6, FrameIs
    <3>2. FrameLen(m) \in 0 .. Len(c)
      BY <1>4, <2>3, <3>1
    <3>3. Len(SubSeq(c, FrameLen(m) + 1, Len(c))) = Len(c) - FrameLen(m)
      BY <1>4, <3>2, SuffixIs
    <3>4. Distance(s) = d - Len(b.buf)
      BY <1>4, <2>6, <3>1, <3>3, ContentsType
    <3>5. Delivered(acc, Append(rec, b.buf), Tail(q))
      BY <1>2, <1>6, <2>1, <2>6, <3>1, DeliveredRead
    <3>6. Held(s, acc, Append(rec, b.buf), Tail(q))
      BY <1>5, <1>6, <2>3, <2>6, <3>5 DEF Held
    <3> QED
      BY <1>1, <1>6, <2>3, <2>6, <3>1, <3>4, <3>6 DEF ReadResult
  <2> QED
    BY <2>4, <2>5, <2>6
<1>7. CASE q # <<>> /\ q[1] = Negative
  <2>1. FrameLen(Negative) = HeaderSize
    BY RingAssumption DEF FrameLen, Negative, RingAssumption
  <2>2. /\ HeaderSize <= d
        /\ \A k \in 1 .. HeaderSize : c[k] = <<Negative, k>>
        /\ Framed(SubSeq(c, HeaderSize + 1, d), Tail(q))
    BY <1>5, <1>7, <2>1
  <2>3. b.ok = FALSE /\ s \in Ring /\ (s = r \/ contents(s) = SubSeq(c, HeaderSize + 1, d))
    BY <1>1, <2>2, ReadBufferNegative
  <2>4. CASE s = r
    BY <1>1, <2>3, <2>4 DEF ReadResult
  <2>5. CASE contents(s) = SubSeq(c, HeaderSize + 1, d)
    <3>1. Delivered(acc, rec, Tail(q))
      BY <1>2, <1>7, DeliveredSkip
    <3>2. Held(s, acc, rec, Tail(q))
      BY <1>5, <1>7, <2>2, <2>5, <3>1 DEF Held
    <3> QED
      BY <1>1, <1>7, <2>3, <3>2 DEF ReadResult
  <2> QED
    BY <2>3, <2>4, <2>5
<1>8. CASE q = <<>>
  <2>1. c = <<>>
    BY <1>2, <1>4, <1>8, FramedNone
  <2>2. d = 0
    BY <1>4, <2>1
  <2> QED
    BY <1>1, <2>2, ReadBufferNothing DEF ReadResult
<1> QED
  BY <1>5, <1>6, <1>7, <1>8 DEF Entry
=============================================================================
