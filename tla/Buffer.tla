------------------------------- MODULE Buffer --------------------------------
(***************************************************************************)
(* Buffer (buffer.h, buffer.cpp), the byte buffer of every connection, as  *)
(* operators on a record: size and bytes are buffer_, reader and writer    *)
(* the two indexes; head_space is 0.  Below them, a user of one buffer:    *)
(* bytes are numbered in the order they are put in, and unread is what     *)
(* should be in the buffer.                                                *)
(***************************************************************************)
EXTENDS Naturals, Sequences

CONSTANTS
  InitSpace,    \* init_space
  ExtraSpace,   \* sizeof(extra_buf)
  MaxPut        \* bound: bytes put in, in total

ASSUME BufferAssumption == InitSpace \in Nat /\ ExtraSpace \in Nat /\ MaxPut \in Nat

(* The constructor.                                                        *)
NewBuffer(n) == [size |-> n, bytes |-> [i \in 0 .. n - 1 |-> 0], reader |-> 0, writer |-> 0]

readable_bytes(b)  == b.writer - b.reader
writeable_bytes(b) == b.size - b.writer

(* The bytes from peek() on, as to_string_piece() gives them.              *)
to_string_piece(b) == [i \in 1 .. readable_bytes(b) |-> b.bytes[b.reader + i - 1]]

retrieve_all(b) == [b EXCEPT !.reader = 0, !.writer = 0]

retrieve(b, len) ==
  IF len < readable_bytes(b) THEN [b EXCEPT !.reader = @ + len] ELSE retrieve_all(b)

unwrite(b, len) == [b EXCEPT !.writer = @ - len]

(* buffer_.resize(n), to a larger size.                                    *)
resize(b, n) ==
  [b EXCEPT !.size = n,
            !.bytes = [i \in 0 .. n - 1 |-> IF i < b.size THEN b.bytes[i] ELSE 0]]

(* The unread bytes are moved to the front.                                *)
move_to_front(b) ==
  [b EXCEPT !.bytes = [i \in 0 .. b.size - 1 |->
                         IF i < readable_bytes(b) THEN b.bytes[b.reader + i] ELSE b.bytes[i]],
            !.reader = 0,
            !.writer = readable_bytes(b)]

(* The vector grows, unless what was read leaves enough room in front.     *)
make_space(b, len) ==
  IF writeable_bytes(b) + b.reader < len THEN resize(b, b.writer + len) ELSE move_to_front(b)

ensure_writeable_bytes(b, len) == IF writeable_bytes(b) < len THEN make_space(b, len) ELSE b

(* The copy to begin_write(), by std::copy or readv, and has_written().    *)
has_written(b, s) ==
  [b EXCEPT !.bytes = [i \in 0 .. b.size - 1 |->
                         IF b.writer <= i /\ i < b.writer + Len(s)
                           THEN s[i - b.writer + 1] ELSE b.bytes[i]],
            !.writer = @ + Len(s)]

append(b, s) == has_written(ensure_writeable_bytes(b, Len(s)), s)

(* A new buffer is filled with the unread bytes and swapped in.            *)
shrink(b, reserve) ==
  append(ensure_writeable_bytes(NewBuffer(InitSpace), readable_bytes(b) + reserve),
         to_string_piece(b))

(* How much readv may return: extra_buf is only offered to a buffer with   *)
(* less room than it has.                                                  *)
ReadLimit(b) ==
  writeable_bytes(b) + (IF writeable_bytes(b) < ExtraSpace THEN ExtraSpace ELSE 0)

(* Mutant: the writer index is left where it was before the rest is added. *)
read_fd_KeepsWriter(b, s) ==
  LET n == writeable_bytes(b) IN
  IF Len(s) <= n THEN has_written(b, s)
  ELSE append([has_written(b, SubSeq(s, 1, n)) EXCEPT !.writer = b.writer],
              SubSeq(s, n + 1, Len(s)))

(* read_fd, for the bytes that readv delivers.                             *)
read_fd(b, s) ==
  LET n == writeable_bytes(b) IN
  IF Len(s) <= n THEN has_written(b, s)
  ELSE append(has_written(b, SubSeq(s, 1, n)), SubSeq(s, n + 1, Len(s)))

-----------------------------------------------------------------------------
VARIABLES
  buffer,   \* the Buffer
  unread,   \* bytes put in and neither retrieved nor unwritten
  put       \* how many bytes have been put in

bufferVars == <<buffer, unread, put>>

BufferTypeOK ==
  /\ {buffer.size, buffer.reader, buffer.writer} \subseteq Nat
  /\ buffer.bytes \in [0 .. buffer.size - 1 -> 0 .. MaxPut]
  /\ unread \in Seq(1 .. MaxPut)
  /\ put \in 0 .. MaxPut

BufferInit ==
  /\ buffer = NewBuffer(InitSpace)
  /\ unread = <<>>
  /\ put = 0

(* The next n bytes.                                                       *)
Fresh(n) == [i \in 1 .. n |-> put + i]

Put(n) ==
  /\ put + n <= MaxPut
  /\ put' = put + n
  /\ unread' = unread \o Fresh(n)

(* TcpConnection::send appends what it could not write.                    *)
AppendBytes(n) == Put(n) /\ buffer' = append(buffer, Fresh(n))

(* TcpConnection::handleRead                                               *)
ReadFd(n) ==
  /\ n <= ReadLimit(buffer)
  /\ Put(n)
  /\ buffer' = read_fd(buffer, Fresh(n))

(* TcpConnection::handleWrite, and message callbacks.                      *)
Retrieve(n) ==
  /\ buffer' = retrieve(buffer, n)
  /\ unread' = SubSeq(unread, n + 1, Len(unread))
  /\ UNCHANGED put

Unwrite(n) ==
  /\ n <= readable_bytes(buffer)
  /\ buffer' = unwrite(buffer, n)
  /\ unread' = SubSeq(unread, 1, Len(unread) - n)
  /\ UNCHANGED put

Shrink(n) == buffer' = shrink(buffer, n) /\ UNCHANGED <<unread, put>>

BufferNext ==
  \E n \in 0 .. MaxPut :
    AppendBytes(n) \/ ReadFd(n) \/ Retrieve(n) \/ Unwrite(n) \/ Shrink(n)

BufferSpec == BufferInit /\ [][BufferNext]_bufferVars

-----------------------------------------------------------------------------
(* The buffer is a queue of bytes: whatever is appended, read from a       *)
(* socket past the end of the vector, retrieved, moved to the front or     *)
(* copied on the way, its readable bytes are those put in and not taken    *)
(* out, in order, and the assertions of has_written and unwrite hold.      *)
BufferIsQueue ==
  /\ buffer.reader <= buffer.writer
  /\ buffer.writer <= buffer.size
  /\ to_string_piece(buffer) = unread
=============================================================================
