---------------------------- MODULE StreamBuffer -----------------------------
(***************************************************************************)
(* The byte ring of stream_buffer.h and stream_buffer.cpp: Size + 1 slots, *)
(* a write offset and a read offset, and messages framed by their length.  *)
(* The operations are functions of a ring, a record [in, out, data]; the   *)
(* machines that own a ring (StreamBufferUser, Receiver) apply them.       *)
(*                                                                         *)
(* A message is a record [id, len].  A byte is the pair <<message, k>>:    *)
(* the k-th byte of the frame of that message, header first.               *)
(***************************************************************************)
EXTENDS Integers, Sequences

CONSTANTS
  Size,         \* size_, the argument of alloc()
  HeaderSize    \* sizeof(int), the length in front of every message

ASSUME RingAssumption ==
  /\ Size \in Nat \ {0}
  /\ HeaderSize \in Nat \ {0}

Slots == 0 .. Size

Byte == [id : Nat, len : Nat] \X Nat
Ring == [in : Slots, out : Slots, data : [Slots -> Byte]]

(* What malloc returned: no byte of any frame.                             *)
NoByte == <<[id |-> 0, len |-> 0], 0>>

(* alloc: malloc(size + 1)                                                 *)
EmptyRing == [in |-> 0, out |-> 0, data |-> [s \in Slots |-> NoByte]]

(* in_ - out_ when not wrapped; the wrapped case adds size_, although the  *)
(* ring has size_ + 1 slots.                                               *)
used(r) ==
  LET n == r.in - r.out IN IF n < 0 THEN n + Size ELSE n

unused(r) == Size - used(r)

Least(a, b) == IF a > b THEN b ELSE a

(* Two memcpy: up to the end of the array, then from its start.            *)
copy_in(r, bytes) ==
  LET l == Least(Len(bytes), (Size + 1) - r.in) IN
  [s \in Slots |-> IF s < Len(bytes) - l THEN bytes[l + s + 1]
                   ELSE IF s \in r.in .. r.in + l - 1 THEN bytes[s - r.in + 1]
                   ELSE r.data[s]]

(* Mutant: the array is taken to end one slot early.                       *)
copy_out_ShortEnd(r, len) ==
  LET l == Least(len, Size - r.out) IN
  [k \in 1 .. len |-> IF k <= l THEN r.data[r.out + k - 1] ELSE r.data[k - l - 1]]

copy_out(r, len) ==
  LET l == Least(len, (Size + 1) - r.out) IN
  [k \in 1 .. len |-> IF k <= l THEN r.data[r.out + k - 1] ELSE r.data[k - l - 1]]

(* Both report the number of bytes moved: all of them or 0.                *)
copy_in_must(r, bytes) ==
  IF Len(bytes) > unused(r)
    THEN [ret |-> 0, ring |-> r]
    ELSE [ret |-> Len(bytes),
          ring |-> [r EXCEPT !.data = copy_in(r, bytes),
                             !.in = (r.in + Len(bytes)) % (Size + 1)]]

copy_out_must(r, len) ==
  IF len > used(r)
    THEN [ret |-> 0, ring |-> r, buf |-> <<>>]
    ELSE [ret |-> len, buf |-> copy_out(r, len),
          ring |-> [r EXCEPT !.out = (r.out + len) % (Size + 1)]]

peek_out_must(r, len) ==
  IF len > used(r) THEN [ret |-> 0, buf |-> <<>>]
                   ELSE [ret |-> len, buf |-> copy_out(r, len)]

has_writen(r, len) ==
  IF len > unused(r) THEN r ELSE [r EXCEPT !.in = (r.in + len) % (Size + 1)]

(* Mutant: the read offset stays where it is.                              *)
has_read_Stays(r, len) == r

has_read(r, len) ==
  IF len > used(r) THEN r ELSE [r EXCEPT !.out = (r.out + len) % (Size + 1)]

clear(r) == [r EXCEPT !.in = 0, !.out = 0]

-----------------------------------------------------------------------------
(* Messages.                                                               *)

Header(m) == [k \in 1 .. HeaderSize |-> <<m, k>>]
Body(m)   == [k \in 1 .. m.len |-> <<m, HeaderSize + k>>]

(* Mutant: the room for header and body together is not checked first.     *)
write_buffer_NoCheck(r, m) ==
  LET h == copy_in_must(r, Header(m))
      b == copy_in_must(h.ring, Body(m))
  IN [ok |-> h.ret + b.ret = m.len + HeaderSize, ring |-> b.ring]

write_buffer(r, m) ==
  LET totb == m.len + HeaderSize
      h == copy_in_must(r, Header(m))
      b == copy_in_must(h.ring, Body(m))
  IN IF unused(r) < totb
       THEN [ok |-> FALSE, ring |-> r]
       ELSE [ok |-> h.ret + b.ret = totb, ring |-> b.ring]

(* The frame of no message: a header whose length is negative, but not     *)
(* below -sizeof(int), which write_buffer leaves without a body (Receiver  *)
(* may give it one).                                                       *)
Negative == [id |-> 0, len |-> 0]

(* The length found in HeaderSize bytes: the one of the frame they are the *)
(* header of; bytes that are no frame's header decode to any length.       *)
decoded(bytes, anyLen) ==
  CASE bytes = Header(Negative)                                -> -1
    [] bytes # Header(Negative) /\ bytes = Header(bytes[1][1]) -> bytes[1][1].len
    [] OTHER                                                   -> anyLen

(* Mutant: the body is peeked at as well, nothing is consumed.             *)
read_buffer_Peeks(r, anyLen) ==
  LET h == peek_out_must(r, HeaderSize)
      totb == decoded(h.buf, anyLen) + HeaderSize
      b == peek_out_must(r, totb)
  IN IF h.ret = 0 THEN [ok |-> FALSE, ring |-> r, buf |-> <<>>]
                  ELSE [ok |-> b.ret = totb, ring |-> r, buf |-> b.buf]

(* The header is peeked at, then skipped, then the body is copied out.     *)
(* buf is the header and the body the caller is handed.  To copy_out_must  *)
(* a negative length is a huge one (uint64_t).                             *)
read_buffer(r, anyLen) ==
  LET h == peek_out_must(r, HeaderSize)
      len == decoded(h.buf, anyLen)
      totb == len + HeaderSize
      skipped == has_read(r, HeaderSize)
      b == copy_out_must(skipped, IF len < 0 THEN Size + 1 ELSE len)
      outb == (IF HeaderSize > used(r) THEN 0 ELSE HeaderSize) + b.ret
      fails == [ok |-> FALSE, ring |-> r, buf |-> <<>>]
  IN IF h.ret = 0 THEN fails
     ELSE IF used(r) < totb THEN fails
     ELSE [ok |-> outb = totb, ring |-> b.ring, buf |-> h.buf \o b.buf]
=============================================================================
