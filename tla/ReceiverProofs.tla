--------------------------- MODULE ReceiverProofs ----------------------------
(***************************************************************************)
(* Proofs about Receiver, for any number of threads and messages and every *)
(* size of the ring, of the header, of the messages and of the reads.      *)
(***************************************************************************)
EXTENDS Receiver, RingProofs, NaturalsInduction, WellFoundedInduction

-----------------------------------------------------------------------------
(* What the peer sends.                                                    *)

LEMMA Induction ==
  ASSUME NEW T, 0 \in T, \A n \in Nat : n \in T => n + 1 \in T
  PROVE  \A n \in Nat : n \in T
<1> SUFFICES ASSUME NEW x \in Nat, x \notin T PROVE FALSE
  OBVIOUS
<1> DEFINE U == {n \in Nat : n \notin T}
           R == OpToRel(<, Nat)
<1>1. U \subseteq Nat /\ U # {}
  OBVIOUS
<1>2. \E u \in U : \A v \in U : <<v, u>> \notin R
  <2>1. IsWellFoundedOn(R, Nat)
    BY NatLessThanWellFounded
  <2> HIDE DEF U, R
  <2> QED
    BY <1>1, <2>1, WFMin
<1>3. PICK u \in U : \A v \in U : <<v, u>> \notin R
  BY <1>2
<1>4. u \in Nat /\ u \notin T /\ u # 0
  BY <1>3
<1>5. u - 1 \in Nat /\ (u - 1) + 1 = u /\ u - 1 < u
  BY <1>4
<1>6. u - 1 \notin T
  BY <1>4, <1>5
<1>7. u - 1 \in U /\ <<u - 1, u>> \in R
  BY <1>4, <1>5, <1>6 DEF OpToRel
<1> QED
  BY <1>3, <1>7

(* The i-th message the peer sends.                                        *)
Sent(lens, i) == [id |-> i, len |-> lens[i]]

(* The equation of the function F in Frames, up to n.                      *)
Sending(lens, n, f) ==
  f = [i \in 0 .. n |-> IF i = 0 THEN <<>>
                        ELSE f[i - 1] \o Header(Sent(lens, i)) \o Body(Sent(lens, i))]

LEMMA SendingExists ==
  ASSUME NEW lens
  PROVE  \A n \in Nat : \E f : Sending(lens, n, f)
<1> DEFINE T == {n \in Nat : \E f : Sending(lens, n, f)}
<1>1. 0 \in T
  <2>1. PICK f : f = [i \in 0 .. 0 |-> <<>>]
    OBVIOUS
  <2>2. Sending(lens, 0, f)
    BY <2>1 DEF Sending
  <2> QED
    BY <2>2
<1>2. ASSUME NEW n \in Nat, n \in T PROVE n + 1 \in T
  <2>1. PICK f : Sending(lens, n, f)
    BY <1>2
  <2>2. PICK x : x = f[n] \o Header(Sent(lens, n + 1)) \o Body(Sent(lens, n + 1))
    OBVIOUS
  <2>3. PICK g : g = [i \in 0 .. n + 1 |-> IF i = n + 1 THEN x ELSE f[i]]
    OBVIOUS
  <2>4. g[n + 1] = x /\ \A i \in 0 .. n : g[i] = f[i]
    BY <2>3
  <2>5. \A i \in 0 .. n :
          f[i] = IF i = 0 THEN <<>>
                 ELSE f[i - 1] \o Header(Sent(lens, i)) \o Body(Sent(lens, i))
    BY <2>1 DEF Sending
  <2>6. ASSUME NEW i \in 0 .. n + 1
        PROVE  (IF i = n + 1 THEN x ELSE f[i])
                 = IF i = 0 THEN <<>>
                   ELSE g[i - 1] \o Header(Sent(lens, i)) \o Body(Sent(lens, i))
    <3>1. CASE i = n + 1
      <4>1. i # 0 /\ i - 1 = n /\ n \in 0 .. n
        BY <3>1
      <4> QED
        BY <2>2, <2>4, <3>1, <4>1
    <3>2. CASE i # n + 1
      <4>1. i \in 0 .. n /\ (i # 0 => i - 1 \in 0 .. n)
        BY <3>2
      <4> QED
        BY <2>4, <2>5, <3>2, <4>1
    <3> QED
      BY <3>1, <3>2
  <2>7. Sending(lens, n + 1, g)
    BY <2>3, <2>6 DEF Sending
  <2> QED
    BY <2>7
<1> HIDE DEF T
<1>3. \A n \in Nat : n \in T
  BY <1>1, <1>2, Induction
<1> QED
  BY <1>3 DEF T

(* The frame of a message of the peer consists of bytes of the peer.       *)
LEMMA PeerBytes ==
  ASSUME NEW m \in Msgs
  PROVE  Header(m) \in Seq(Msgs \X Nat) /\ Body(m) \in Seq(Msgs \X Nat)
<1>1. m.len \in Nat /\ HeaderSize \in Nat
  BY ReceiverAssumption, RingAssumption DEF ReceiverAssumption, RingAssumption, Msgs
<1>2. Header(m) \in [1 .. HeaderSize -> Msgs \X Nat]
  BY <1>1 DEF Header
<1>3. Body(m) \in [1 .. m.len -> Msgs \X Nat]
  BY <1>1 DEF Body
<1> QED
  BY <1>1, <1>2, <1>3

LEMMA FramesAre ==
  ASSUME NEW lens \in [1 .. MaxMsgs -> Lens]
  PROVE  \E p \in Seq(Msgs) :
           /\ Len(p) = MaxMsgs
           /\ \A i \in 1 .. MaxMsgs : p[i].id = i
           /\ Frames(lens) \in Seq(Byte) /\ Frames(lens) \in Seq(Msgs \X Nat)
           /\ Framed(Frames(lens), p)
<1>1. MaxMsgs \in Nat /\ Lens \subseteq Nat
  BY ReceiverAssumption DEF ReceiverAssumption
<1>2. PICK F : F = CHOOSE f : Sending(lens, MaxMsgs, f)
  OBVIOUS
<1>3. Frames(lens) = F[MaxMsgs]
  BY <1>2, Zenon DEF Frames, Sending, Sent
<1>4. \A i \in 0 .. MaxMsgs :
        F[i] = IF i = 0 THEN <<>>
               ELSE F[i - 1] \o Header(Sent(lens, i)) \o Body(Sent(lens, i))
  <2>1. Sending(lens, MaxMsgs, F)
    BY <1>1, <1>2, SendingExists
  <2> QED
    BY <2>1 DEF Sending
<1>5. ASSUME NEW i \in 1 .. MaxMsgs
      PROVE  /\ Sent(lens, i) \in Msgs /\ Sent(lens, i).id = i
             /\ Sent(lens, i) \in [id : Nat, len : Nat]
  <2>1. PICK l : l = lens[i]
    OBVIOUS
  <2>2. l \in Lens /\ l \in Nat /\ i \in Nat
    BY <1>1, <2>1
  <2> QED
    BY <2>1, <2>2 DEF Sent, Msgs
<1> DEFINE q(n) == [i \in 1 .. n |-> Sent(lens, i)]
           T == {n \in Nat : n <= MaxMsgs => /\ F[n] \in Seq(Byte) /\ F[n] \in Seq(Msgs \X Nat)
                                             /\ q(n) \in Seq([id : Nat, len : Nat])
                                             /\ Framed(F[n], q(n))}
<1>6. 0 \in T
  <2>1. F[0] = <<>>
    BY <1>1, <1>4
  <2>2. q(0) = <<>>
    OBVIOUS
  <2>3. <<>> \in Seq(Byte) /\ <<>> \in Seq(Msgs \X Nat) /\ <<>> \in Seq([id : Nat, len : Nat])
    BY EmptySeq
  <2> QED
    BY <2>1, <2>2, <2>3, FramedEmpty
<1>7. ASSUME NEW n \in Nat, n \in T PROVE n + 1 \in T
  <2> SUFFICES ASSUME n + 1 <= MaxMsgs
               PROVE  /\ F[n + 1] \in Seq(Byte) /\ F[n + 1] \in Seq(Msgs \X Nat)
                      /\ q(n + 1) \in Seq([id : Nat, len : Nat])
                      /\ Framed(F[n + 1], q(n + 1))
    OBVIOUS
  <2>1. n + 1 \in 1 .. MaxMsgs /\ n <= MaxMsgs /\ n + 1 \in 0 .. MaxMsgs /\ n + 1 # 0
        /\ (n + 1) - 1 = n
    BY <1>1
  <2>2. PICK m, c, p : m = Sent(lens, n + 1) /\ c = F[n] /\ p = q(n)
    OBVIOUS
  <2>3. m \in [id : Nat, len : Nat] /\ m \in Msgs
    BY <1>5, <2>1, <2>2
  <2>4. c \in Seq(Byte) /\ c \in Seq(Msgs \X Nat) /\ p \in Seq([id : Nat, len : Nat]) /\ Framed(c, p)
    BY <1>7, <2>1, <2>2
  <2>5. F[n + 1] = c \o Header(m) \o Body(m)
    BY <1>4, <2>1, <2>2
  <2>6. c \o Header(m) \o Body(m) = c \o Frame(m)
    <3>1. Header(m) \in Seq(Byte) /\ Body(m) \in Seq(Byte)
      BY <2>3, FrameBytes
    <3> QED
      BY <2>4, <3>1, ConcatAssociative, SMTT(30) DEF Frame
  <2>7. c \o Frame(m) \in Seq(Byte)
    BY <2>3, <2>4, FrameIs, ConcatProperties
  <2>8. Append(p, m) \in Seq([id : Nat, len : Nat]) /\ Framed(c \o Frame(m), Append(p, m))
    BY <2>3, <2>4, AppendProperties, FramedAppend
  <2>9. q(n + 1) = Append(p, m)
    <3>1. PICK a, b : a = q(n + 1) /\ b = Append(p, m)
      OBVIOUS
    <3>2. a \in Seq(Msgs) /\ b \in Seq(Msgs) /\ Len(a) = n + 1 /\ Len(b) = n + 1
      <4>1. \A i \in 1 .. n + 1 : i \in 1 .. MaxMsgs
        BY <1>1, <2>1
      <4>2. a \in [1 .. n + 1 -> Msgs] /\ p \in [1 .. n -> Msgs] /\ m \in Msgs
        BY <1>5, <2>1, <2>2, <3>1, <4>1
      <4>3. p \in Seq(Msgs) /\ Len(p) = n
        BY <4>2
      <4>4. a \in Seq(Msgs) /\ Len(a) = n + 1
        BY <4>2
      <4>5. b \in Seq(Msgs) /\ Len(b) = n + 1
        BY <3>1, <4>2, <4>3, AppendProperties
      <4> QED
        BY <4>4, <4>5
    <3>3. ASSUME NEW k \in 1 .. n + 1 PROVE a[k] = b[k]
      <4>1. a[k] = Sent(lens, k)
        BY <3>1
      <4>2. b[k] = Sent(lens, k)
        BY <2>2, <2>4, <3>1, AppendProperties
      <4> QED
        BY <4>1, <4>2
    <3> QED
      BY <3>1, <3>2, <3>3, SeqEqual
  <2>10. F[n + 1] \in Seq(Msgs \X Nat)
    <3>1. c \o Header(m) \in Seq(Msgs \X Nat) /\ Body(m) \in Seq(Msgs \X Nat)
      BY <2>3, <2>4, PeerBytes, ConcatProperties
    <3> QED
      BY <2>5, <3>1, ConcatProperties
  <2> QED
    BY <2>5, <2>6, <2>7, <2>8, <2>9, <2>10
<1>8. \A n \in Nat : n \in T
  <2> HIDE DEF T
  <2> QED
    BY <1>6, <1>7, Induction
<1>9. MaxMsgs \in T /\ MaxMsgs <= MaxMsgs
  BY <1>1, <1>8
<1>10. F[MaxMsgs] \in Seq(Byte) /\ F[MaxMsgs] \in Seq(Msgs \X Nat) /\ Framed(F[MaxMsgs], q(MaxMsgs))
  BY <1>9
<1>11. q(MaxMsgs) \in Seq(Msgs) /\ Len(q(MaxMsgs)) = MaxMsgs
       /\ \A i \in 1 .. MaxMsgs : q(MaxMsgs)[i].id = i
  BY <1>1, <1>5
<1> HIDE DEF q
<1> QED
  BY <1>3, <1>10, <1>11

-----------------------------------------------------------------------------
(* The invariant.                                                          *)

(* The bytes that onMessage has not taken: the readable ones, n bytes from *)
(* the reader index rd on, and what TCP has still to deliver.              *)
Input(arr, rd, n, str) ==
  [k \in 1 .. n + Len(str) |-> IF k <= n THEN arr[rd + k] ELSE str[k - n]]

(* They are the frames of the last messages, p, when k have been counted.  *)
Pending(c, p, k) ==
  /\ p \in Seq(Msgs)
  /\ Framed(c, p)
  /\ \A i \in 1 .. Len(p) : p[i].id = MaxMsgs - Len(p) + i
  /\ k = MaxMsgs - Len(p)

(* msg_count_ is at least the number of frames in the ring: it may be      *)
(* larger when write_buffer failed or when the ring lost what it held, but *)
(* never smaller.                                                          *)
QueueInv ==
  \E q : Held(ring, accepted, received, q) /\ Len(q) <= msgCount

(* As long as no header is cut the loop thread is between two messages.    *)
InputInv ==
  ~scene.cuts =>
    \E p : Pending(Input(array, reader, readable, stream), p, msgCount + Len(received))

(* When no read ends inside a header, neither do the readable bytes.       *)
CutInv ==
  ~scene.cuts => (readable > 0 => array[reader + readable][2] >= HeaderSize)

(* The accepted frames are then those of messages that have been counted.  *)
Counted(acc, k) ==
  /\ \A i \in 1 .. Len(acc) : acc[i] \in Msgs /\ acc[i].id <= k
  /\ \A i, j \in 1 .. Len(acc) : i < j => acc[i].id < acc[j].id

OrderInv == ~scene.cuts => Counted(accepted, msgCount + Len(received))

Inv == TypeOK /\ QueueInv /\ InputInv /\ CutInv /\ OrderInv

(* What c is when it is Input(arr, rd, n, str).                            *)
IsInput(c, arr, rd, n, str) ==
  /\ c \in Seq(Byte)
  /\ Len(c) = n + Len(str)
  /\ \A k \in 1 .. n : c[k] = arr[rd + k]
  /\ \A k \in n + 1 .. n + Len(str) : c[k] = str[k - n]

LEMMA InputType ==
  ASSUME NEW arr \in Seq(Byte), NEW rd \in Nat, NEW n \in Nat, rd + n <= Len(arr),
         NEW str \in Seq(Byte)
  PROVE  IsInput(Input(arr, rd, n, str), arr, rd, n, str)
<1>1. PICK c, l : c = Input(arr, rd, n, str) /\ l = Len(str)
  OBVIOUS
<1>2. l \in Nat /\ Len(arr) \in Nat
  BY <1>1
<1>3. ASSUME NEW k \in 1 .. n + l
      PROVE  (IF k <= n THEN arr[rd + k] ELSE str[k - n]) \in Byte
  <2>1. CASE k <= n
    <3>1. rd + k \in 1 .. Len(arr)
      BY <1>2, <2>1
    <3> QED
      BY <2>1, <3>1, ElementOfSeq
  <2>2. CASE ~(k <= n)
    <3>1. k - n \in 1 .. Len(str)
      BY <1>1, <1>2, <2>2
    <3> QED
      BY <2>2, <3>1, ElementOfSeq
  <2> QED
    BY <2>1, <2>2
<1>4. c = [k \in 1 .. n + l |-> IF k <= n THEN arr[rd + k] ELSE str[k - n]]
  BY <1>1 DEF Input
<1>5. c \in [1 .. n + l -> Byte] /\ n + l \in Nat
  <2>1. n + l \in Nat
    BY <1>2
  <2>2. c \in [1 .. n + l -> Byte]
    BY <1>3, <1>4
  <2> QED
    BY <2>1, <2>2
<1>6. c \in Seq(Byte) /\ Len(c) = n + l
  BY <1>5
<1>7. ASSUME NEW k \in 1 .. n PROVE c[k] = arr[rd + k]
  BY <1>2, <1>4
<1>8. ASSUME NEW k \in n + 1 .. n + l PROVE c[k] = str[k - n]
  BY <1>2, <1>4
<1> QED
  BY <1>1, <1>6, <1>7, <1>8 DEF IsInput

(* The bytes of brr up to w + j: those of arr up to w and j of str.        *)
Moved(arr, str, w, j, brr) ==
  \A k \in 1 .. w + j : brr[k] = IF k <= w THEN arr[k] ELSE str[k - w]

(* What is left of the l bytes of str without the first j.                 *)
Left(str, j, l, rest) == \A k \in 1 .. l - j : rest[k] = str[j + k]

(* j of the l bytes of str go behind the n readable ones, up to w.         *)
Transfer(arr, rd, n, str, l, j, w, o, brr, rest) ==
  /\ arr \in Seq(Byte) /\ rd \in Nat /\ n \in Nat /\ str \in Seq(Byte)
  /\ l \in Nat /\ j \in Nat /\ w \in Nat /\ o \in Nat
  /\ brr \in Seq(Byte) /\ rest \in Seq(Byte)
  /\ rd + n <= Len(arr) /\ Len(str) = l /\ 1 <= j /\ j <= l
  /\ w = rd + n /\ o = n + j /\ rd + o <= Len(brr) /\ Len(rest) = l - j
  /\ Moved(arr, str, w, j, brr) /\ Left(str, j, l, rest)

(* Bytes that are in the buffer and no longer in the connection.           *)
LEMMA InputSame ==
  ASSUME NEW arr, NEW rd, NEW n, NEW str, NEW l, NEW j, NEW w, NEW o, NEW brr, NEW rest,
         Transfer(arr, rd, n, str, l, j, w, o, brr, rest)
  PROVE  Input(brr, rd, o, rest) = Input(arr, rd, n, str)
<1> SUFFICES ASSUME arr \in Seq(Byte), rd \in Nat, n \in Nat, str \in Seq(Byte),
                    l \in Nat, j \in Nat, w \in Nat, o \in Nat,
                    brr \in Seq(Byte), rest \in Seq(Byte)
             PROVE  Input(brr, rd, o, rest) = Input(arr, rd, n, str)
  BY DEF Transfer
<1>a. SUFFICES ASSUME rd + n <= Len(arr), Len(str) = l, 1 <= j, j <= l,
                      w = rd + n, o = n + j, rd + o <= Len(brr), Len(rest) = l - j,
                      Moved(arr, str, w, j, brr), Left(str, j, l, rest)
               PROVE  Input(brr, rd, o, rest) = Input(arr, rd, n, str)
  BY DEF Transfer
<1>b. rd + n <= Len(arr) /\ rd + o <= Len(brr)
  BY <1>a
<1>c. 1 <= j /\ j <= l /\ w = rd + n /\ o = n + j
  BY <1>a
<1>d. Len(str) = l /\ Len(rest) = l - j
  BY <1>a
<1>e. \A k \in 1 .. w + j : brr[k] = IF k <= w THEN arr[k] ELSE str[k - w]
  BY <1>a DEF Moved
<1>f. \A k \in 1 .. l - j : rest[k] = str[j + k]
  BY <1>a DEF Left
<1>1. PICK c, e : c = Input(arr, rd, n, str) /\ e = Input(brr, rd, o, rest)
  OBVIOUS
<1>2. /\ c \in Seq(Byte) /\ Len(c) = n + l
      /\ \A k \in 1 .. n : c[k] = arr[rd + k]
      /\ \A k \in n + 1 .. n + l : c[k] = str[k - n]
  <2>1. IsInput(Input(arr, rd, n, str), arr, rd, n, str)
    <3>1. rd + n <= Len(arr)
      BY <1>b
    <3> QED
      BY <3>1, InputType
  <2> QED
    BY <1>1, <1>d, <2>1 DEF IsInput
<1>3. /\ e \in Seq(Byte) /\ Len(e) = o + (l - j)
      /\ \A k \in 1 .. o : e[k] = brr[rd + k]
      /\ \A k \in o + 1 .. o + (l - j) : e[k] = rest[k - o]
  <2>1. IsInput(Input(brr, rd, o, rest), brr, rd, o, rest)
    BY <1>b, InputType
  <2> QED
    BY <1>1, <1>d, <2>1 DEF IsInput
<1>4. o + (l - j) = n + l
  BY <1>c
<1>5. ASSUME NEW k \in 1 .. n + l PROVE e[k] = c[k]
  <2>1. CASE k <= n
    <3>1. k \in 1 .. n /\ k \in 1 .. o /\ rd + k \in 1 .. w + j /\ rd + k <= w
      BY <1>c, <2>1
    <3>2. c[k] = arr[rd + k] /\ e[k] = brr[rd + k]
      BY <1>2, <1>3, <3>1
    <3> QED
      BY <1>e, <3>1, <3>2
  <2>2. CASE n < k /\ k <= o
    <3>1. /\ k \in n + 1 .. n + l /\ k \in 1 .. o /\ rd + k \in 1 .. w + j /\ ~(rd + k <= w)
          /\ (rd + k) - w = k - n
      BY <1>c, <2>2
    <3>2. c[k] = str[k - n] /\ e[k] = brr[rd + k]
      BY <1>2, <1>3, <3>1
    <3>3. brr[rd + k] = str[(rd + k) - w]
      BY <1>e, <3>1
    <3> QED
      BY <3>1, <3>2, <3>3
  <2>3. CASE o < k
    <3>1. /\ k \in n + 1 .. n + l /\ k \in o + 1 .. o + (l - j)
          /\ k - o \in 1 .. l - j /\ j + (k - o) = k - n
      BY <1>c, <2>3
    <3>2. c[k] = str[k - n] /\ e[k] = rest[k - o]
      BY <1>2, <1>3, <3>1
    <3> QED
      BY <1>f, <3>1, <3>2
  <2> QED
    BY <1>c, <2>1, <2>2, <2>3
<1>6. Len(e) = Len(c) /\ Len(e) = n + l
  BY <1>2, <1>3, <1>4
<1>7. e = c
  BY <1>2, <1>3, <1>5, <1>6, SeqEqual
<1> QED
  BY <1>1, <1>7

(* read_fd appends the first j bytes of str, rest is left.                 *)
Appended(arr, rd, n, str, j, brr, rest) ==
  /\ arr \in Seq(Byte) /\ rd \in Nat /\ n \in Nat /\ rd + n <= Len(arr)
  /\ str \in Seq(Byte) /\ j \in 1 .. Len(str)
  /\ brr = SubSeq(arr, 1, rd + n) \o SubSeq(str, 1, j)
              \o SubSeq(arr, rd + n + j + 1, Len(arr))
  /\ rest = SubSeq(str, j + 1, Len(str))

(* read_fd moves bytes from the connection to the buffer.                  *)
LEMMA InputRead ==
  ASSUME NEW arr, NEW rd, NEW n, NEW str, NEW j, NEW brr, NEW rest,
         Appended(arr, rd, n, str, j, brr, rest)
  PROVE  /\ brr \in Seq(Byte) /\ rest \in Seq(Byte)
         /\ rd + (n + j) <= Len(brr)
         /\ brr[rd + (n + j)] = str[j]
         /\ Input(brr, rd, n + j, rest) = Input(arr, rd, n, str)
<1> SUFFICES ASSUME arr \in Seq(Byte), rd \in Nat, n \in Nat, rd + n <= Len(arr),
                    str \in Seq(Byte), j \in 1 .. Len(str)
             PROVE  /\ brr \in Seq(Byte) /\ rest \in Seq(Byte)
                    /\ rd + (n + j) <= Len(brr)
                    /\ brr[rd + (n + j)] = str[j]
                    /\ Input(brr, rd, n + j, rest) = Input(arr, rd, n, str)
  BY DEF Appended
<1>a. SUFFICES ASSUME brr = SubSeq(arr, 1, rd + n) \o SubSeq(str, 1, j)
                              \o SubSeq(arr, rd + n + j + 1, Len(arr)),
                      rest = SubSeq(str, j + 1, Len(str))
               PROVE  /\ brr \in Seq(Byte) /\ rest \in Seq(Byte)
                      /\ rd + (n + j) <= Len(brr)
                      /\ brr[rd + (n + j)] = str[j]
                      /\ Input(brr, rd, n + j, rest) = Input(arr, rd, n, str)
  BY DEF Appended
<1>1. PICK w, l, a, b, z, u, d :
        /\ w = rd + n /\ l = Len(str) /\ u = Len(arr)
        /\ a = SubSeq(arr, 1, w) /\ b = SubSeq(str, 1, j) /\ z = SubSeq(arr, w + j + 1, u)
        /\ d = a \o b
  OBVIOUS
<1>2. w \in Nat /\ w <= u /\ n <= w /\ l \in Nat /\ u \in Nat /\ j \in Nat /\ 1 <= j /\ j <= l
  BY <1>1
<1>3. a \in Seq(Byte) /\ Len(a) = w /\ \A k \in 1 .. w : a[k] = arr[k]
  BY <1>1, <1>2, SMTT(30)
<1>4. b \in Seq(Byte) /\ Len(b) = j /\ \A k \in 1 .. j : b[k] = str[k]
  <2>1. \A k \in 1 .. j : str[k] \in Byte
    BY <1>1, <1>2, ElementOfSeq
  <2> QED
    BY <1>1, <1>2, <2>1, SubSeqProperties
<1>5. z \in Seq(Byte) /\ Len(z) \in Nat
  <2>1. PICK v : v = w + j + 1
    OBVIOUS
  <2>2. v \in Nat /\ 1 <= v
    BY <1>2, <2>1
  <2>3. z = SubSeq(arr, v, u)
    BY <1>1, <2>1
  <2>4. \A k \in v .. u : k \in 1 .. Len(arr)
    BY <1>1, <1>2, <2>2
  <2>5. \A k \in v .. u : arr[k] \in Byte
    BY <2>4, ElementOfSeq
  <2>6. v \in Int /\ u \in Int
    BY <1>2, <2>2
  <2>7. SubSeq(arr, v, u) \in Seq(Byte)
    BY <2>5, <2>6, SubSeqProperties
  <2> QED
    BY <2>3, <2>7
<1>6. /\ rest \in Seq(Byte) /\ Len(rest) = l - j
      /\ \A k \in 1 .. l - j : rest[k] = str[j + k]
  <2>1. j \in 0 .. Len(str)
    BY <1>1, <1>2
  <2> QED
    BY <1>a, <1>1, <2>1, SuffixIs
<1>7. /\ d \in Seq(Byte) /\ Len(d) = w + j
      /\ \A k \in 1 .. w + j : d[k] = IF k <= w THEN a[k] ELSE b[k - w]
  <2>1. /\ a \o b \in Seq(Byte) /\ Len(a \o b) = Len(a) + Len(b)
        /\ \A k \in 1 .. Len(a) + Len(b) :
             (a \o b)[k] = IF k <= Len(a) THEN a[k] ELSE b[k - Len(a)]
    BY <1>3, <1>4, ConcatProperties
  <2> QED
    BY <1>1, <1>3, <1>4, <2>1, ZenonT(30)
<1>8. brr = d \o z
  BY <1>a, <1>1
<1>9. /\ brr \in Seq(Byte) /\ Len(brr) = (w + j) + Len(z)
      /\ \A k \in 1 .. (w + j) + Len(z) : brr[k] = IF k <= w + j THEN d[k] ELSE z[k - (w + j)]
  <2>1. /\ d \o z \in Seq(Byte) /\ Len(d \o z) = Len(d) + Len(z)
        /\ \A k \in 1 .. Len(d) + Len(z) :
             (d \o z)[k] = IF k <= Len(d) THEN d[k] ELSE z[k - Len(d)]
    BY <1>5, <1>7, ConcatProperties
  <2> QED
    BY <1>7, <1>8, <2>1, Zenon
<1>10. ASSUME NEW k \in 1 .. w + j
       PROVE  brr[k] = IF k <= w THEN arr[k] ELSE str[k - w]
  <2>1. k \in 1 .. (w + j) + Len(z) /\ k <= w + j
    BY <1>2, <1>5
  <2>2. brr[k] = IF k <= w THEN a[k] ELSE b[k - w]
    BY <1>7, <1>9, <2>1
  <2>3. CASE k <= w
    <3>1. k \in 1 .. w
      BY <1>2, <2>3
    <3> QED
      BY <1>3, <2>2, <2>3, <3>1
  <2>4. CASE ~(k <= w)
    <3>1. k - w \in 1 .. j
      BY <1>2, <2>4
    <3> QED
      BY <1>4, <2>2, <2>4, <3>1
  <2> QED
    BY <2>3, <2>4
<1>11. rd + (n + j) = w + j /\ w + j <= Len(brr)
  <2>1. PICK y : y = Len(z)
    OBVIOUS
  <2>2. y \in Nat /\ Len(brr) = (w + j) + y
    BY <1>5, <1>9, <2>1
  <2>3. w = rd + n /\ w \in Nat /\ j \in Nat
    BY <1>1, <1>2
  <2>4. w + j <= (w + j) + y /\ rd + (n + j) = w + j
    BY <2>2, <2>3
  <2> QED
    BY <2>2, <2>4
<1>12. brr[w + j] = str[j]
  <2>1. w + j \in 1 .. w + j /\ ~(w + j <= w) /\ (w + j) - w = j
    BY <1>2
  <2> QED
    BY <1>10, <2>1
<1>13. PICK o : o = n + j
  OBVIOUS
<1>14. o \in Nat /\ rd + o = w + j
  BY <1>2, <1>11, <1>13
<1>15. rd + o <= Len(brr)
  BY <1>11, <1>14, Zenon
<1>16. Input(brr, rd, o, rest) = Input(arr, rd, n, str)
  <2>1. w \in Nat /\ w = rd + n /\ l \in Nat /\ Len(str) = l /\ j \in Nat /\ 1 <= j /\ j <= l
    BY <1>1, <1>2
  <2>2. Moved(arr, str, w, j, brr)
    BY <1>10 DEF Moved
  <2>3. Left(str, j, l, rest)
    BY <1>6 DEF Left
  <2>4. brr \in Seq(Byte) /\ rest \in Seq(Byte) /\ Len(rest) = l - j
    BY <1>6, <1>9
  <2>5. o \in Nat /\ o = n + j /\ rd + n <= Len(arr) /\ rd + o <= Len(brr)
    BY <1>13, <1>14, <1>15
  <2>7. w \in Nat /\ l \in Nat /\ j \in Nat /\ o \in Nat
    BY <2>1, <2>5
  <2>6. Transfer(arr, rd, n, str, l, j, w, o, brr, rest)
    BY <2>1, <2>2, <2>3, <2>4, <2>5, <2>7, Zenon DEF Transfer
  <2> QED
    BY <2>6, InputSame
<1> QED
  BY <1>6, <1>9, <1>11, <1>12, <1>13, <1>16

(* retrieve(j) sets the indices to rd2 and rd2 + n2.                       *)
Retrieved(arr, rd, n, str, j, rd2, n2) ==
  /\ arr \in Seq(Byte) /\ rd \in Nat /\ n \in Nat /\ rd + n <= Len(arr)
  /\ str \in Seq(Byte) /\ j \in 0 .. n
  /\ \/ j < n /\ rd2 = rd + j /\ n2 = n - j
     \/ j = n /\ rd2 = 0 /\ n2 = 0

(* retrieve takes the first j readable bytes.                              *)
LEMMA InputRetrieve ==
  ASSUME NEW arr, NEW rd, NEW n, NEW str, NEW j, NEW rd2, NEW n2,
         Retrieved(arr, rd, n, str, j, rd2, n2)
  PROVE  /\ rd2 \in Nat /\ n2 \in Nat /\ rd2 + n2 <= Len(arr)
         /\ Input(arr, rd2, n2, str)
              = SubSeq(Input(arr, rd, n, str), j + 1, Len(Input(arr, rd, n, str)))
<1> SUFFICES ASSUME arr \in Seq(Byte), rd \in Nat, n \in Nat, rd + n <= Len(arr),
                    str \in Seq(Byte), j \in 0 .. n,
                    \/ j < n /\ rd2 = rd + j /\ n2 = n - j
                    \/ j = n /\ rd2 = 0 /\ n2 = 0
             PROVE  /\ rd2 \in Nat /\ n2 \in Nat /\ rd2 + n2 <= Len(arr)
                    /\ Input(arr, rd2, n2, str)
                         = SubSeq(Input(arr, rd, n, str), j + 1,
                                  Len(Input(arr, rd, n, str)))
  BY DEF Retrieved
<1>1. PICK c, e, l, x :
        /\ c = Input(arr, rd, n, str) /\ e = Input(arr, rd2, n2, str) /\ l = Len(str)
        /\ x = SubSeq(c, j + 1, Len(c))
  OBVIOUS
<1>2. /\ l \in Nat /\ j \in Nat /\ j <= n /\ Len(arr) \in Nat /\ n2 = n - j
      /\ rd2 \in Nat /\ n2 \in Nat /\ rd2 + n2 <= Len(arr) /\ (n2 # 0 => rd2 = rd + j)
  BY <1>1
<1>3. /\ c \in Seq(Byte) /\ Len(c) = n + l
      /\ \A k \in 1 .. n : c[k] = arr[rd + k]
      /\ \A k \in n + 1 .. n + l : c[k] = str[k - n]
  <2>1. IsInput(Input(arr, rd, n, str), arr, rd, n, str)
    BY InputType
  <2> QED
    BY <1>1, <2>1 DEF IsInput
<1>4. /\ e \in Seq(Byte) /\ Len(e) = n2 + l
      /\ \A k \in 1 .. n2 : e[k] = arr[rd2 + k]
      /\ \A k \in n2 + 1 .. n2 + l : e[k] = str[k - n2]
  <2>2. rd2 \in Nat /\ n2 \in Nat /\ rd2 + n2 <= Len(arr)
    BY <1>2
  <2>1. IsInput(Input(arr, rd2, n2, str), arr, rd2, n2, str)
    BY <2>2, InputType
  <2> QED
    BY <1>1, <2>1 DEF IsInput
<1>5. /\ x \in Seq(Byte) /\ Len(x) = Len(c) - j
      /\ \A k \in 1 .. Len(c) - j : x[k] = c[j + k]
  <2>1. j \in 0 .. Len(c)
    BY <1>2, <1>3
  <2> QED
    BY <1>1, <1>3, <2>1, SuffixIs, SMTT(30)
<1>6. Len(x) = n2 + l /\ Len(c) - j = n2 + l
  BY <1>2, <1>3, <1>5
<1>7. ASSUME NEW k \in 1 .. n2 + l PROVE e[k] = x[k]
  <2>1. x[k] = c[j + k]
    BY <1>5, <1>6
  <2>2. CASE k <= n2
    <3>1. k \in 1 .. n2 /\ j + k \in 1 .. n /\ n2 # 0 /\ rd + (j + k) = (rd + j) + k
      BY <1>2, <2>2
    <3> QED
      BY <1>2, <1>3, <1>4, <2>1, <3>1
  <2>3. CASE ~(k <= n2)
    <3>1. k \in n2 + 1 .. n2 + l /\ j + k \in n + 1 .. n + l /\ (j + k) - n = k - n2
      BY <1>2, <2>3
    <3> QED
      BY <1>3, <1>4, <2>1, <3>1
  <2> QED
    BY <2>2, <2>3
<1>8. e = x
  BY <1>4, <1>5, <1>6, <1>7, SeqEqual
<1> QED
  BY <1>1, <1>2, <1>8

-----------------------------------------------------------------------------
(* Messages that are pending or in the ring.                               *)

LEMMA MessageTypes ==
  /\ Msgs \subseteq Message
  /\ Message \subseteq [id : Nat, len : Nat]
  /\ Seq(Msgs) \subseteq Seq(Message)
  /\ Seq(Msgs) \subseteq Seq([id : Nat, len : Nat])
  /\ Msgs \X Nat \subseteq Byte
  /\ Msgs \subseteq Entries
  /\ Entries \subseteq Entry
<1>1. /\ 1 .. MaxMsgs \subseteq Nat \ {0} /\ Lens \subseteq Nat /\ MaxMsgs \in Nat
      /\ AnyLens \subseteq Int
  BY ReceiverAssumption DEF ReceiverAssumption
<1>2. Msgs \subseteq Message
  BY <1>1 DEF Msgs, Message
<1>3. Message \subseteq [id : Nat, len : Nat]
  BY DEF Message
<1>4. Seq(Msgs) \subseteq Seq(Message)
  BY <1>2, SeqMonotonic
<1>5. Seq(Message) \subseteq Seq([id : Nat, len : Nat])
  BY <1>3, SeqMonotonic
<1>6. Msgs \X Nat \subseteq Byte
  BY <1>2, <1>3 DEF Byte
<1>7. ASSUME NEW l \in AnyLens \cap Nat PROVE Garbage(l) \in Message
  <2>1. l \in Nat /\ MaxMsgs + 1 \in Nat \ {0}
    BY <1>1
  <2> QED
    BY <2>1 DEF Garbage, Message
<1>8. Entries \subseteq Entry
  BY <1>2, <1>7 DEF Entries, Entry
<1>9. Msgs \subseteq Entries
  BY DEF Entries
<1> QED
  BY <1>2, <1>3, <1>4, <1>5, <1>6, <1>8, <1>9

(* The first of the bytes that onMessage has not taken begin the frame of  *)
(* the next message.                                                       *)
LEMMA PendingFirst ==
  ASSUME NEW c \in Seq(Byte), NEW p, NEW k \in Nat, Pending(c, p, k), Len(c) > 0
  PROVE  /\ p # <<>> /\ Len(p) >= 1 /\ k + 1 <= MaxMsgs
         /\ p[1] \in Msgs /\ p[1] \in Message /\ p[1].id = k + 1
         /\ FrameLen(p[1]) \in Nat /\ FrameLen(p[1]) >= HeaderSize
         /\ FrameLen(p[1]) <= Len(c)
         /\ \A i \in 1 .. FrameLen(p[1]) : c[i] = <<p[1], i>>
         /\ Pending(SubSeq(c, FrameLen(p[1]) + 1, Len(c)), Tail(p), k + 1)
<1>1. /\ p \in Seq(Msgs) /\ p \in Seq([id : Nat, len : Nat]) /\ Framed(c, p)
      /\ k = MaxMsgs - Len(p)
  BY MessageTypes DEF Pending
<1>2. p # <<>>
  BY <1>1, FramedNone
<1>3. PICK n : n = Len(p)
  OBVIOUS
<1>4. n \in Nat /\ n >= 1 /\ MaxMsgs \in Nat /\ k = MaxMsgs - n
  <2>1. n \in Nat /\ n # 0
    BY <1>1, <1>2, <1>3
  <2> QED
    BY <1>1, <1>3, <2>1, ReceiverAssumption DEF ReceiverAssumption
<1>5. PICK m : m = p[1]
  OBVIOUS
<1>6. 1 \in 1 .. Len(p)
  BY <1>3, <1>4
<1>7. m \in Msgs /\ m \in Message /\ m \in [id : Nat, len : Nat]
  BY <1>1, <1>5, <1>6, ElementOfSeq, MessageTypes
<1>8. m.id = k + 1
  <2>1. p[1].id = MaxMsgs - Len(p) + 1
    BY <1>6 DEF Pending
  <2> QED
    BY <1>3, <1>4, <1>5, <2>1
<1>9. FrameLen(m) \in Nat /\ FrameLen(m) >= HeaderSize
  <2>1. m.len \in Nat /\ HeaderSize \in Nat
    BY <1>7, RingAssumption DEF RingAssumption
  <2> QED
    BY <2>1 DEF FrameLen
<1>10. /\ FrameLen(m) <= Len(c)
       /\ \A i \in 1 .. FrameLen(m) : c[i] = <<m, i>>
       /\ Framed(SubSeq(c, FrameLen(m) + 1, Len(c)), Tail(p))
  <2>1. /\ FrameLen(p[1]) <= Len(c)
        /\ \A i \in 1 .. FrameLen(p[1]) : c[i] = <<p[1], i>>
        /\ Framed(SubSeq(c, FrameLen(p[1]) + 1, Len(c)), Tail(p))
    BY <1>1, <1>2, FramedTail
  <2> QED
    BY <1>5, <2>1, Zenon
<1>11. Pending(SubSeq(c, FrameLen(m) + 1, Len(c)), Tail(p), k + 1)
  <2>1. PICK q : q = Tail(p)
    OBVIOUS
  <2>2. q \in Seq(Msgs) /\ Len(q) = n - 1 /\ \A i \in 1 .. n - 1 : q[i] = p[i + 1]
    BY <1>1, <1>2, <1>3, <2>1
  <2>3. ASSUME NEW i \in 1 .. n - 1 PROVE q[i].id = MaxMsgs - (n - 1) + i
    <3>1. i + 1 \in 1 .. Len(p) /\ i \in Nat
      BY <1>3, <1>4
    <3>2. p[i + 1].id = MaxMsgs - Len(p) + (i + 1)
      BY <3>1 DEF Pending
    <3>3. q[i].id = MaxMsgs - n + (i + 1)
      BY <1>3, <2>2, <3>2
    <3> QED
      BY <1>4, <3>1, <3>3
  <2>4. k + 1 = MaxMsgs - (n - 1)
    BY <1>4
  <2> QED
    BY <1>10, <2>1, <2>2, <2>3, <2>4 DEF Pending
<1> QED
  BY <1>2, <1>3, <1>4, <1>5, <1>7, <1>8, <1>9, <1>10, <1>11, SMTT(30)

(* write_buffer with a negative length: nothing, or a header without body  *)
(* behind the other frames, which may fill every slot.                     *)
LEMMA NegativeKeeps ==
  ASSUME NEW r \in Ring, NEW acc \in Seq(Entry), NEW rec \in Seq(Seq(Byte)),
         NEW q, Held(r, acc, rec, q)
  PROVE  LET h == copy_in_must(r, Header(Negative)) IN
         \/ h.ret = 0 /\ h.ring = r
         \/ /\ h.ret # 0 /\ h.ring \in Ring
            /\ \E p : Len(p) <= Len(q) + 1 /\ Held(h.ring, Append(acc, Negative), rec, p)
<1>1. PICK c, s, h : /\ c = copy_in_must(r, Header(Negative)) /\ s = c.ring
                     /\ h = Header(Negative)
  OBVIOUS
<1>2. Negative \in [id : Nat, len : Nat] /\ Negative.len = 0
  BY DEF Negative
<1>3. h \in Seq(Byte) /\ Len(h) = HeaderSize /\ HeaderSize \in Nat /\ HeaderSize # 0
  BY <1>1, <1>2, FrameBytes, RingAssumption DEF RingAssumption
<1>4. h = Frame(Negative)
  <2>1. Body(Negative) = <<>>
    <3>1. Body(Negative) \in Seq(Byte) /\ Len(Body(Negative)) = 0
      BY <1>2, FrameBytes
    <3> QED
      BY <3>1
  <2>2. h \o <<>> = h
    BY <1>3, ConcatEmptySeq
  <2> QED
    BY <1>1, <2>1, <2>2 DEF Frame
<1>5. /\ s \in Ring
      /\ Len(h) <= unused(r) => c.ret = Len(h)
      /\ Len(h) > unused(r) => c.ret = 0 /\ s = r
  BY <1>1, <1>3, CopyInMustRing
<1>6. CASE Len(h) <= unused(r)
  <2>1. \/ contents(s) = contents(r) \o h
        \/ contents(s) = <<>>
    BY <1>1, <1>3, <1>6, CopyInContents
  <2>2. contents(s) \in {contents(r) \o Frame(Negative), <<>>}
    BY <1>4, <2>1
  <2>3. \E p : Len(p) <= Len(q) + 1 /\ Held(s, Append(acc, Negative), rec, p)
    BY <2>2, EntryIs, HeldMore
  <2>4. c.ret # 0
    BY <1>3, <1>5, <1>6
  <2> QED
    BY <1>1, <1>5, <2>3, <2>4, Zenon
<1>7. CASE ~(Len(h) <= unused(r))
  <2>1. Len(h) > unused(r)
    BY <1>3, <1>7, UsedBounds
  <2> QED
    BY <1>1, <1>5, <2>1
<1> QED
  BY <1>6, <1>7

-----------------------------------------------------------------------------
(* The steps, one lemma per action.                                        *)

LEMMA Types ==
  ASSUME Inv
  PROVE  /\ ring \in Ring /\ accepted \in Seq(Entry) /\ received \in Seq(Seq(Byte))
         /\ Len(received) \in Nat /\ msgCount \in Nat
         /\ array \in Seq(Byte) /\ stream \in Seq(Byte) /\ Len(array) \in Nat
         /\ reader \in Nat /\ readable \in Nat /\ reader + readable <= Len(array)
         /\ MaxMsgs \in Nat /\ MaxCount \in Nat /\ CountMod \in Nat /\ CountMod > MaxCount
         /\ HeaderSize \in Nat /\ HeaderSize >= 1
<1>1. /\ MaxMsgs \in Nat /\ MaxCount \in Nat /\ CountMod \in Nat /\ CountMod > MaxCount
      /\ HeaderSize \in Nat /\ HeaderSize >= 1
  BY ReceiverAssumption, RingAssumption DEF ReceiverAssumption, RingAssumption
<1>2. ring \in Ring /\ accepted \in Seq(Entry) /\ received \in Seq(Seq(Byte))
  BY MessageTypes, SeqMonotonic DEF Inv, TypeOK
<1>3. Len(received) \in Nat
  BY <1>2
<1>4. msgCount \in Nat
  BY <1>1 DEF Inv, TypeOK
<1>5. array \in Seq(Byte) /\ stream \in Seq(Byte)
  BY MessageTypes, SeqMonotonic DEF Inv, TypeOK
<1>6. Len(array) \in Nat
  BY <1>5
<1>7. reader \in Nat /\ readable \in Nat /\ reader + readable <= Len(array)
  BY <1>6 DEF Inv, TypeOK
<1> QED
  BY <1>1, <1>2, <1>3, <1>4, <1>5, <1>6, <1>7

(* Neither the ring nor the counter is changed: the queue is what it was,  *)
(* and so are the messages that have been counted.                         *)
LEMMA QueueSame ==
  ASSUME QueueInv, OrderInv, UNCHANGED <<scene, ring, accepted, received, msgCount>>
  PROVE  QueueInv' /\ OrderInv'
<1>1. PICK q : Held(ring, accepted, received, q) /\ Len(q) <= msgCount
  BY DEF QueueInv
<1>2. Held(ring', accepted', received', q) /\ Len(q) <= msgCount'
  BY <1>1, Zenon
<1>3. OrderInv'
  BY DEF OrderInv, Counted
<1> QED
  BY <1>2, <1>3 DEF QueueInv

(* The parts that handleRead puts together are bytes of the peer.          *)
LEMMA PartsIn ==
  ASSUME NEW S, NEW a \in Seq(S), NEW s \in Seq(S), NEW w \in 0 .. Len(a),
         NEW j \in 1 .. Len(s)
  PROVE  /\ SubSeq(a, 1, w) \o SubSeq(s, 1, j) \o SubSeq(a, w + j + 1, Len(a)) \in Seq(S)
         /\ SubSeq(s, j + 1, Len(s)) \in Seq(S)
<1>1. Len(a) \in Nat /\ Len(s) \in Nat
  OBVIOUS
<1>2. SubSeq(a, 1, w) \in Seq(S)
  <2>1. \A k \in 1 .. w : k \in 1 .. Len(a)
    BY <1>1
  <2>2. \A k \in 1 .. w : a[k] \in S
    BY <2>1, ElementOfSeq
  <2>3. 1 \in Int /\ w \in Int
    BY <1>1
  <2> QED
    BY <2>2, <2>3, SubSeqProperties
<1>3. SubSeq(s, 1, j) \in Seq(S)
  <2>1. \A k \in 1 .. j : k \in 1 .. Len(s)
    BY <1>1
  <2>2. \A k \in 1 .. j : s[k] \in S
    BY <2>1, ElementOfSeq
  <2>3. 1 \in Int /\ j \in Int
    BY <1>1
  <2> QED
    BY <2>2, <2>3, SubSeqProperties
<1>4. SubSeq(a, w + j + 1, Len(a)) \in Seq(S)
  <2>1. PICK v, u : v = w + j + 1 /\ u = Len(a)
    OBVIOUS
  <2>2. v \in Int /\ u \in Int /\ \A k \in v .. u : k \in 1 .. u
    BY <1>1, <2>1
  <2>3. \A k \in v .. u : a[k] \in S
    BY <2>1, <2>2, ElementOfSeq
  <2>4. SubSeq(a, v, u) \in Seq(S)
    BY <2>2, <2>3, SubSeqProperties
  <2> QED
    BY <2>1, <2>4
<1>5. SubSeq(a, 1, w) \o SubSeq(s, 1, j) \in Seq(S)
  BY <1>2, <1>3, ConcatProperties
<1>6. j \in 0 .. Len(s)
  BY <1>1
<1> QED
  BY <1>4, <1>5, <1>6, ConcatProperties, SuffixIs

(* handleRead moves bytes; the loop thread still has the same messages     *)
(* before it.                                                              *)
LEMMA ReadStep ==
  ASSUME Inv, NEW j \in 1 .. MaxPerRead, handleRead(j)
  PROVE  Inv'
<1>1. /\ j \in 1 .. Len(stream) /\ lpc = "idle" /\ lpc' = "loop"
      /\ array' = SubSeq(array, 1, reader + readable) \o SubSeq(stream, 1, j)
                     \o SubSeq(array, reader + readable + j + 1, Len(array))
      /\ stream' = SubSeq(stream, j + 1, Len(stream))
      /\ readable' = readable + j
      /\ UNCHANGED <<scene, ring, msgCount, reader, rpc, accepted, received>>
  BY Types DEF handleRead
<1>2. /\ array' \in Seq(Byte)
      /\ reader + (readable + j) <= Len(array')
      /\ array'[reader + (readable + j)] = stream[j]
      /\ Input(array', reader, readable + j, stream') = Input(array, reader, readable, stream)
  <2>1. /\ array \in Seq(Byte) /\ stream \in Seq(Byte) /\ reader \in Nat
        /\ readable \in Nat /\ reader + readable <= Len(array) /\ j \in 1 .. Len(stream)
    BY <1>1, Types
  <2>2. PICK brr, rest : brr = array' /\ rest = stream'
    OBVIOUS
  <2>3. /\ brr = SubSeq(array, 1, reader + readable) \o SubSeq(stream, 1, j)
                     \o SubSeq(array, reader + readable + j + 1, Len(array))
        /\ rest = SubSeq(stream, j + 1, Len(stream))
    BY <1>1, <2>2, Zenon
  <2>4. /\ brr \in Seq(Byte)
        /\ reader + (readable + j) <= Len(brr)
        /\ brr[reader + (readable + j)] = stream[j]
        /\ Input(brr, reader, readable + j, rest) = Input(array, reader, readable, stream)
    <3>1. Appended(array, reader, readable, stream, j, brr, rest)
      BY <2>1, <2>3, Zenon DEF Appended
    <3> QED
      BY <3>1, InputRead
  <2> QED
    BY <2>2, <2>4, Zenon
<1>3. reader' \in 0 .. Len(array') /\ readable' \in 0 .. Len(array') - reader'
  <2>1. PICK u, x : u = Len(array') /\ x = readable'
    OBVIOUS
  <2>2. reader' = reader /\ x = readable + j /\ reader + x <= u
    BY <1>1, <1>2, <2>1, Zenon
  <2>4. u \in Nat
    BY <1>2, <2>1
  <2>5. reader \in Nat /\ readable \in Nat /\ j \in Nat
    BY Types
  <2>3. reader \in 0 .. u /\ x \in 0 .. u - reader
    BY <2>2, <2>4, <2>5
  <2> QED
    BY <2>1, <2>2, <2>3
<1>4. array' \in Seq(Msgs \X Nat) /\ stream' \in Seq(Msgs \X Nat)
  <2>1. PICK w : w = reader + readable
    OBVIOUS
  <2>2. w \in 0 .. Len(array)
    BY <2>1, Types
  <2>3. array \in Seq(Msgs \X Nat) /\ stream \in Seq(Msgs \X Nat)
    BY DEF Inv, TypeOK
  <2>4. /\ SubSeq(array, 1, w) \o SubSeq(stream, 1, j) \o SubSeq(array, w + j + 1, Len(array))
             \in Seq(Msgs \X Nat)
        /\ SubSeq(stream, j + 1, Len(stream)) \in Seq(Msgs \X Nat)
    BY <1>1, <2>2, <2>3, PartsIn
  <2> QED
    BY <1>1, <2>1, <2>4, Zenon
<1>5. TypeOK'
  BY <1>1, <1>3, <1>4 DEF Inv, TypeOK
<1>6. QueueInv' /\ OrderInv'
  BY <1>1, QueueSame DEF Inv
<1>7. ASSUME ~scene.cuts PROVE InputInv' /\ CutInv'
  <2>1. PICK p : Pending(Input(array, reader, readable, stream), p, msgCount + Len(received))
    BY <1>7 DEF Inv, InputInv
  <2>2. Pending(Input(array', reader', readable', stream'), p, msgCount' + Len(received'))
    BY <1>1, <1>2, <2>1, Zenon
  <2>3. stream[j][2] >= HeaderSize
    BY <1>7 DEF handleRead
  <2>4. array'[reader' + readable'][2] >= HeaderSize
    BY <1>1, <1>2, <2>3
  <2> QED
    BY <2>2, <2>4 DEF InputInv, CutInv
<1>8. InputInv' /\ CutInv'
  BY <1>1, <1>7 DEF InputInv, CutInv
<1> QED
  BY <1>5, <1>6, <1>8 DEF Inv

(* The loop ends and waits for more bytes.                                 *)
LEMMA BreakStep ==
  ASSUME Inv, onMessageBreak
  PROVE  Inv'
<1>1. /\ lpc = "loop" /\ lpc' = "idle"
      /\ UNCHANGED <<scene, ring, msgCount, stream, array, reader, readable>>
      /\ UNCHANGED <<rpc, accepted, received>>
  BY DEF onMessageBreak, inputVars
<1>2. TypeOK'
  BY <1>1 DEF Inv, TypeOK
<1>3. QueueInv' /\ OrderInv'
  BY <1>1, QueueSame DEF Inv
<1>4. InputInv' /\ CutInv'
  BY <1>1 DEF Inv, InputInv, CutInv
<1> QED
  BY <1>2, <1>3, <1>4 DEF Inv

(* One more message is counted: msg_count_ does not overflow, and notify   *)
(* at most moves a thread from waiting to signalled.                       *)
LEMMA CountStep ==
  ASSUME Inv, CountMessage, msgCount < MaxCount
  PROVE  /\ msgCount' = msgCount + 1
         /\ msgCount' \in 0 .. CountMod - 1
         /\ rpc' \in [Receivers -> {"idle", "waiting", "signalled"}]
<1>1. msgCount + 1 \in Nat /\ CountMod \in Nat \ {0} /\ msgCount + 1 < CountMod
  BY Types
<1>2. msgCount' = (msgCount + 1) % CountMod
  BY DEF CountMessage
<1>3. (msgCount + 1) % CountMod = msgCount + 1
  <2>1. ASSUME NEW a \in Nat, NEW m \in Nat \ {0}, a < m PROVE a % m = a
    BY <2>1, ModOnce
  <2> QED
    BY <1>1, <2>1
<1>4. rpc' \in [Receivers -> {"idle", "waiting", "signalled"}]
  BY DEF Inv, TypeOK, CountMessage, notify
<1> QED
  BY <1>1, <1>2, <1>3, <1>4, SMTT(30)

(* retrieve leaves the indices inside the array.                           *)
LEMMA RetrieveTypes ==
  ASSUME Inv, NEW n \in Nat, retrieve(n)
  PROVE  reader' \in 0 .. Len(array) /\ readable' \in 0 .. Len(array) - reader'
<1>1. reader \in Nat /\ readable \in Nat /\ Len(array) \in Nat /\ reader + readable <= Len(array)
  BY Types
<1>2. CASE n < readable
  BY <1>1, <1>2 DEF retrieve
<1>3. CASE ~(n < readable)
  BY <1>1, <1>3 DEF retrieve
<1> QED
  BY <1>2, <1>3

(* The first readable byte is one of a message of the peer.                *)
LEMMA FirstIs ==
  ASSUME Inv, readable > 0
  PROVE  First \in Msgs
<1>1. reader + 1 \in 1 .. Len(array)
  BY Types
<1>2. array[reader + 1] \in Msgs \X Nat
  BY <1>1, ElementOfSeq DEF Inv, TypeOK
<1> QED
  BY <1>2 DEF First

(* What onMessage gives to write_buffer is a message as long as it says.   *)
LEMMA GivenIs ==
  ASSUME Inv, readable > 0, NEW len \in Lengths, len >= 0
  PROVE  /\ len \in Nat
         /\ Given(len) \in Message /\ Given(len) \in Entries /\ Given(len).len = len
<1>1. First \in Msgs /\ First.len \in Nat
  BY FirstIs, MessageTypes DEF Message
<1>2. CASE AtHeader
  BY <1>1, <1>2, MessageTypes DEF Given, Lengths
<1>3. CASE ~AtHeader
  <2>1. len \in AnyLens /\ AnyLens \subseteq Int
    BY <1>3, ReceiverAssumption DEF Lengths, ReceiverAssumption
  <2>2. len \in AnyLens \cap Nat
    BY <2>1
  <2>3. Garbage(len) \in Entries /\ Garbage(len) # Negative /\ Garbage(len).len = len
    BY <2>2, ReceiverAssumption DEF Entries, Garbage, Negative, ReceiverAssumption
  <2>4. Garbage(len) \in Message
    BY <2>3, MessageTypes DEF Entry
  <2> QED
    BY <1>3, <2>2, <2>3, <2>4 DEF Given
<1> QED
  BY <1>2, <1>3

(* When no header is cut, what the loop thread has before it begins with a *)
(* whole header: the one of the next message.                              *)
LEMMA InStep ==
  ASSUME Inv, ~scene.cuts, readable > 0
  PROVE  /\ readable >= HeaderSize
         /\ AtHeader
         /\ First.id = msgCount + Len(received) + 1
         /\ \E p, c : /\ c = Input(array, reader, readable, stream)
                      /\ Pending(SubSeq(c, FrameLen(First) + 1, Len(c)), p,
                                 msgCount + Len(received) + 1)
<1>1. PICK p : Pending(Input(array, reader, readable, stream), p, msgCount + Len(received))
  BY DEF Inv, InputInv
<1>2. PICK c, k : /\ c = Input(array, reader, readable, stream)
                  /\ k = msgCount + Len(received)
  OBVIOUS
<1>3. IsInput(c, array, reader, readable, stream)
  <2>1. /\ array \in Seq(Byte) /\ stream \in Seq(Byte) /\ reader \in Nat
        /\ readable \in Nat /\ reader + readable <= Len(array)
    BY Types
  <2> QED
    BY <1>2, <2>1, InputType
<1>4. /\ Len(stream) \in Nat /\ readable \in Nat /\ reader \in Nat /\ k \in Nat
      /\ HeaderSize \in Nat /\ HeaderSize >= 1 /\ Len(array) \in Nat
      /\ reader + readable <= Len(array) /\ array \in Seq(Byte)
  BY <1>2, Types
<1>5. /\ c \in Seq(Byte) /\ Len(c) > 0
      /\ \A i \in 1 .. readable : c[i] = array[reader + i]
  BY <1>3, <1>4 DEF IsInput
<1>6. PICK m : m = p[1]
  OBVIOUS
<1>7. /\ m \in Message /\ m.id = k + 1
      /\ FrameLen(m) \in Nat /\ FrameLen(m) >= HeaderSize
      /\ \A i \in 1 .. FrameLen(m) : c[i] = <<m, i>>
      /\ Pending(SubSeq(c, FrameLen(m) + 1, Len(c)), Tail(p), k + 1)
  BY <1>1, <1>2, <1>4, <1>5, <1>6, PendingFirst, SMTT(30)
<1>8. ASSUME NEW i \in 1 .. readable, i <= FrameLen(m)
      PROVE  array[reader + i] = <<m, i>>
  <2>1. i \in 1 .. FrameLen(m)
    BY <1>4, <1>7, <1>8
  <2> QED
    BY <1>5, <1>7, <2>1
<1>9. readable >= HeaderSize
  <2> SUFFICES ASSUME readable < HeaderSize PROVE FALSE
    BY <1>4
  <2>1. readable \in 1 .. readable /\ readable <= FrameLen(m)
    BY <1>4, <1>7
  <2>2. array[reader + readable] = <<m, readable>>
    BY <1>8, <2>1
  <2>3. array[reader + readable][2] >= HeaderSize
    BY DEF Inv, CutInv
  <2> QED
    BY <1>4, <2>2, <2>3
<1>10. First = m
  <2>1. 1 \in 1 .. readable /\ 1 <= FrameLen(m)
    BY <1>4, <1>7, <1>9
  <2>2. array[reader + 1] = <<m, 1>>
    BY <1>8, <2>1
  <2> QED
    BY <2>2 DEF First
<1>11. SubSeq(array, reader + 1, reader + HeaderSize) = Header(m)
  <2>1. PICK a, b, s, t : /\ a = reader + 1 /\ b = reader + HeaderSize
                          /\ s = SubSeq(array, a, b) /\ t = Header(m)
    OBVIOUS
  <2>2. a \in Int /\ b \in Int /\ a <= b /\ b - a + 1 = HeaderSize
        /\ \A k2 \in a .. b : k2 \in 1 .. Len(array)
    BY <1>4, <1>9, <2>1
  <2>3. \A k2 \in a .. b : array[k2] \in Byte
    BY <1>4, <2>2, ElementOfSeq
  <2>4. /\ s \in Seq(Byte) /\ Len(s) = (IF a <= b THEN b - a + 1 ELSE 0)
        /\ \A i \in 1 .. b - a + 1 : s[i] = array[a + i - 1]
    BY <2>1, <2>2, <2>3, SubSeqProperties, SMTT(30)
  <2>5. t \in Seq(Byte) /\ Len(t) = HeaderSize
    BY <1>7, <2>1, MessageTypes, FrameBytes
  <2>6. Len(s) = HeaderSize
    BY <2>2, <2>4
  <2>7. ASSUME NEW i \in 1 .. HeaderSize PROVE s[i] = t[i]
    <3>1. i \in 1 .. b - a + 1 /\ a + i - 1 = reader + i /\ i \in 1 .. readable
          /\ i <= FrameLen(m)
      BY <1>4, <1>7, <1>9, <2>1, <2>2
    <3>2. s[i] = <<m, i>>
      BY <1>8, <2>4, <3>1
    <3>3. t[i] = <<m, i>>
      BY <2>1 DEF Header
    <3> QED
      BY <3>2, <3>3
  <2>8. s = t
    BY <2>4, <2>5, <2>6, <2>7, SeqEqual
  <2> QED
    BY <2>1, <2>8
<1>12. AtHeader
  <2>1. reader + HeaderSize <= Len(array)
    BY <1>4, <1>9
  <2> QED
    BY <1>10, <1>11, <2>1 DEF AtHeader
<1>13. First.id = msgCount + Len(received) + 1
  BY <1>2, <1>7, <1>10
<1>14. \E x, d : /\ d = Input(array, reader, readable, stream)
                 /\ Pending(SubSeq(d, FrameLen(First) + 1, Len(d)), x,
                            msgCount + Len(received) + 1)
  BY <1>2, <1>7, <1>10, Zenon
<1> QED
  BY <1>9, <1>12, <1>13, <1>14

(* One more message behind those that are there.                           *)
LEMMA CountedMore ==
  ASSUME NEW acc, acc \in Seq(Entry), NEW k \in Nat, Counted(acc, k),
         NEW m \in Msgs, m.id = k + 1
  PROVE  Counted(acc, k + 1) /\ Counted(Append(acc, m), k + 1)
<1>1. PICK n, b : n = Len(acc) /\ b = Append(acc, m)
  OBVIOUS
<1>2. n \in Nat /\ Len(b) = n + 1 /\ b[n + 1] = m /\ \A i \in 1 .. n : b[i] = acc[i]
  BY <1>1
<1>3. /\ \A i \in 1 .. n : acc[i] \in Msgs /\ acc[i].id <= k
      /\ \A i, j \in 1 .. n : i < j => acc[i].id < acc[j].id
  BY <1>1 DEF Counted
<1>4. ASSUME NEW i \in 1 .. n PROVE acc[i].id \in Nat /\ acc[i].id <= k + 1 /\ acc[i].id < k + 1
  <2>1. acc[i] \in Message /\ acc[i].id <= k
    BY <1>3, MessageTypes
  <2>2. acc[i].id \in Nat
    BY <2>1 DEF Message
  <2> QED
    BY <2>1, <2>2
<1>5. Counted(acc, k + 1)
  BY <1>1, <1>3, <1>4 DEF Counted
<1>6. ASSUME NEW i \in 1 .. n + 1 PROVE b[i] \in Msgs /\ b[i].id <= k + 1
  <2>1. CASE i = n + 1
    BY <1>2, <2>1
  <2>2. CASE i # n + 1
    <3>1. i \in 1 .. n
      BY <1>2, <2>2
    <3> QED
      BY <1>2, <1>3, <1>4, <3>1
  <2> QED
    BY <2>1, <2>2
<1>7. ASSUME NEW i \in 1 .. n + 1, NEW j \in 1 .. n + 1, i < j PROVE b[i].id < b[j].id
  <2>1. i \in 1 .. n /\ b[i] = acc[i]
    BY <1>2, <1>7
  <2>2. CASE j = n + 1
    BY <1>2, <1>4, <2>1, <2>2
  <2>3. CASE j # n + 1
    <3>1. j \in 1 .. n
      BY <1>2, <2>3
    <3> QED
      BY <1>2, <1>3, <1>7, <2>1, <3>1
  <2> QED
    BY <2>2, <2>3
<1>8. Counted(b, k + 1)
  BY <1>2, <1>6, <1>7 DEF Counted
<1> QED
  BY <1>1, <1>5, <1>8

(* A complete message goes from the input buffer to the ring.              *)
LEMMA CompleteStep ==
  ASSUME Inv, NEW len \in Lengths, onMessageComplete(len)
  PROVE  Inv'
<1>1. /\ readable > 0 /\ msgCount < MaxCount /\ len >= 0 /\ readable - HeaderSize >= len
      /\ retrieve(HeaderSize + len) /\ CountMessage
      /\ UNCHANGED <<scene, stream, array, lpc, received>>
  BY DEF onMessageComplete
<1>2. PICK m, n, w : m = Given(len) /\ n = HeaderSize + len /\ w = write_buffer(ring, m)
  OBVIOUS
<1>3. len \in Nat /\ m \in Message /\ m \in Entries /\ m.len = len
  BY <1>1, <1>2, GivenIs
<1>4. ring' = w.ring /\ accepted' = IF w.ok THEN Append(accepted, m) ELSE accepted
  BY <1>2 DEF onMessageComplete
<1>5. /\ readable \in Nat /\ reader \in Nat /\ HeaderSize \in Nat /\ Len(received) \in Nat
      /\ msgCount \in Nat /\ n \in 0 .. readable /\ n \in Nat
  BY <1>1, <1>2, <1>3, Types, SMTT(30)
<1>6. /\ msgCount' = msgCount + 1
      /\ msgCount' \in 0 .. CountMod - 1
      /\ rpc' \in [Receivers -> {"idle", "waiting", "signalled"}]
  BY <1>1, CountStep
<1>7. reader' \in 0 .. Len(array) /\ readable' \in 0 .. Len(array) - reader'
  BY <1>1, <1>2, <1>5, RetrieveTypes
<1>8. PICK q : Held(ring, accepted, received, q) /\ Len(q) <= msgCount
  BY DEF Inv, QueueInv
<1>9. \/ /\ w.ok = TRUE
         /\ w.ring \in Ring
         /\ \E z : Len(z) <= Len(q) + 1 /\ Held(w.ring, Append(accepted, m), received, z)
      \/ w.ok = FALSE /\ w.ring = ring
  <2>1. ring \in Ring /\ accepted \in Seq(Entry) /\ received \in Seq(Seq(Byte))
    BY Types
  <2> QED
    BY <1>2, <1>3, <1>8, <2>1, WriteKeeps, ZenonT(30)
<1>10. /\ ring' \in Ring /\ accepted' \in Seq(Entries)
       /\ accepted' \in {accepted, Append(accepted, m)}
       /\ \E z : Held(ring', accepted', received, z) /\ Len(z) <= msgCount'
  <2>1. Len(q) \in Nat
    BY <1>8 DEF Held
  <2>2. ring \in Ring /\ accepted \in Seq(Entries)
    BY DEF Inv, TypeOK
  <2>3. CASE w.ok = FALSE /\ w.ring = ring
    <3>1. ring' = ring /\ accepted' = accepted
      BY <1>4, <2>3
    <3>2. Len(q) <= msgCount'
      BY <1>5, <1>6, <1>8, <2>1
    <3>3. Held(ring', accepted', received, q) /\ Len(q) <= msgCount'
      BY <1>8, <3>1, <3>2, Zenon
    <3> QED
      BY <2>2, <3>1, <3>3
  <2>4. CASE /\ w.ok = TRUE
             /\ w.ring \in Ring
             /\ \E z : Len(z) <= Len(q) + 1 /\ Held(w.ring, Append(accepted, m), received, z)
    <3>1. ring' = w.ring /\ accepted' = Append(accepted, m)
      BY <1>4, <2>4
    <3>2. PICK z : Len(z) <= Len(q) + 1 /\ Held(w.ring, Append(accepted, m), received, z)
      BY <2>4
    <3>3. Len(z) <= msgCount'
      <4>1. Len(z) \in Nat
        BY <3>2 DEF Held
      <4> QED
        BY <1>5, <1>6, <1>8, <2>1, <3>2, <4>1
    <3>4. accepted' \in Seq(Entries)
      BY <1>3, <2>2, <3>1, AppendProperties
    <3>5. Held(ring', accepted', received, z) /\ Len(z) <= msgCount'
      BY <3>1, <3>2, <3>3, Zenon
    <3> QED
      BY <2>4, <3>1, <3>4, <3>5
  <2> QED
    BY <1>9, <2>3, <2>4
<1>11. QueueInv'
  <2>1. PICK z : Held(ring', accepted', received, z) /\ Len(z) <= msgCount'
    BY <1>10
  <2>2. Held(ring', accepted', received', z)
    BY <1>1, <2>1, Zenon
  <2> QED
    BY <2>1, <2>2 DEF QueueInv
<1>12. TypeOK'
  BY <1>1, <1>6, <1>7, <1>10 DEF Inv, TypeOK
<1>13. ASSUME ~scene.cuts PROVE InputInv' /\ CutInv' /\ OrderInv'
  <2>1. PICK k : k = msgCount + Len(received)
    OBVIOUS
  <2>2. k \in Nat /\ msgCount' + Len(received') = k + 1
    <3>1. received' = received
      BY <1>1
    <3> QED
      BY <1>5, <1>6, <2>1, <3>1
  <2>3. AtHeader /\ First.id = k + 1
    BY <1>1, <1>13, <2>1, InStep
  <2>4. First = m /\ m \in Msgs /\ m.id = k + 1 /\ FrameLen(First) = n
    <3>1. First = m /\ m \in Msgs
      BY <1>1, <1>2, <2>3, FirstIs DEF Given
    <3> QED
      BY <1>2, <1>3, <2>3, <3>1 DEF FrameLen
  <2>5. PICK p, c : /\ c = Input(array, reader, readable, stream)
                    /\ Pending(SubSeq(c, n + 1, Len(c)), p, k + 1)
    <3>1. \E p, c : /\ c = Input(array, reader, readable, stream)
                    /\ Pending(SubSeq(c, FrameLen(First) + 1, Len(c)), p,
                               msgCount + Len(received) + 1)
      BY <1>1, <1>13, InStep
    <3> QED
      BY <2>1, <2>4, <3>1, Zenon
  <2>6. \/ n < readable /\ reader' = reader + n /\ readable' = readable - n
        \/ n = readable /\ reader' = 0 /\ readable' = 0
    BY <1>1, <1>2, <1>5 DEF retrieve
  <2>7. Input(array, reader', readable', stream) = SubSeq(c, n + 1, Len(c))
    <3>1. /\ array \in Seq(Byte) /\ stream \in Seq(Byte) /\ reader \in Nat
          /\ readable \in Nat /\ reader + readable <= Len(array)
      BY Types
    <3>2. PICK rd, x : rd = reader' /\ x = readable'
      OBVIOUS
    <3>3. \/ n < readable /\ rd = reader + n /\ x = readable - n
          \/ n = readable /\ rd = 0 /\ x = 0
      BY <2>6, <3>2
    <3>4. Retrieved(array, reader, readable, stream, n, rd, x)
      BY <1>5, <3>1, <3>3 DEF Retrieved
    <3>5. Input(array, rd, x, stream)
            = SubSeq(Input(array, reader, readable, stream), n + 1,
                     Len(Input(array, reader, readable, stream)))
      BY <3>4, InputRetrieve
    <3> QED
      BY <2>5, <3>2, <3>5, Zenon
  <2>8. Pending(Input(array', reader', readable', stream'), p, msgCount' + Len(received'))
    BY <1>1, <2>2, <2>5, <2>7, Zenon
  <2>9. ASSUME readable' > 0 PROVE array'[reader' + readable'][2] >= HeaderSize
    <3>1. reader' + readable' = reader + readable
      BY <1>5, <2>6, <2>9
    <3>2. array[reader + readable][2] >= HeaderSize
      BY <1>1, <1>13 DEF Inv, CutInv
    <3> QED
      BY <1>1, <3>1, <3>2
  <2>10. Counted(accepted', msgCount' + Len(received'))
    <3>1. Counted(accepted, k)
      BY <1>13, <2>1 DEF Inv, OrderInv
    <3>2. accepted \in Seq(Entry)
      BY Types
    <3>3. Counted(accepted, k + 1) /\ Counted(Append(accepted, m), k + 1)
      BY <2>2, <2>4, <3>1, <3>2, CountedMore
    <3>4. accepted' = accepted \/ accepted' = Append(accepted, m)
      BY <1>10
    <3> QED
      BY <2>2, <3>3, <3>4, Zenon
  <2> QED
    BY <2>8, <2>9, <2>10 DEF InputInv, CutInv, OrderInv
<1>14. InputInv' /\ CutInv' /\ OrderInv'
  BY <1>1, <1>13 DEF InputInv, CutInv, OrderInv
<1> QED
  BY <1>11, <1>12, <1>14 DEF Inv

(* A negative length is only met when a header has been cut.  The ring     *)
(* then holds, behind its frames, a header that read_buffer refuses: the   *)
(* counter, one ahead, accounts for it.                                    *)
LEMMA NegativeStep ==
  ASSUME Inv, NEW len \in Lengths, onMessageNegative(len)
  PROVE  Inv'
<1>1. /\ readable > 0 /\ msgCount < MaxCount /\ len < 0 /\ CountMessage
      /\ UNCHANGED <<scene, stream, array, lpc, received>>
      /\ IF len < -HeaderSize
           THEN UNCHANGED <<ring, accepted>> /\ retrieve(readable)
           ELSE /\ \E h \in {copy_in_must(ring, Header(Negative))} :
                     /\ ring' = h.ring
                     /\ accepted' = IF h.ret = 0 THEN accepted ELSE Append(accepted, Negative)
                /\ retrieve(HeaderSize + len)
  BY DEF onMessageNegative
<1>2. First \in Msgs /\ First.len \in Nat
  BY <1>1, FirstIs, MessageTypes DEF Message
<1>3. ~AtHeader
  BY <1>1, <1>2 DEF Lengths
<1>4. scene.cuts /\ scene' = scene
  BY <1>1, <1>3, InStep
<1>5. InputInv' /\ CutInv' /\ OrderInv'
  BY <1>4 DEF InputInv, CutInv, OrderInv
<1>6. /\ msgCount' = msgCount + 1
      /\ msgCount' \in 0 .. CountMod - 1
      /\ rpc' \in [Receivers -> {"idle", "waiting", "signalled"}]
  BY <1>1, CountStep
<1>7. len \in Int /\ HeaderSize \in Nat /\ readable \in Nat /\ msgCount \in Nat
  <2>1. len \in Int
    BY <1>3, ReceiverAssumption DEF Lengths, ReceiverAssumption
  <2> QED
    BY <2>1, Types
<1>8. reader' \in 0 .. Len(array) /\ readable' \in 0 .. Len(array) - reader'
  <2>1. CASE len < -HeaderSize
    BY <1>1, <1>7, <2>1, RetrieveTypes
  <2>2. CASE ~(len < -HeaderSize)
    <3>1. HeaderSize + len \in Nat
      BY <1>7, <2>2
    <3> QED
      BY <1>1, <2>2, <3>1, RetrieveTypes
  <2> QED
    BY <2>1, <2>2
<1>9. PICK q : Held(ring, accepted, received, q) /\ Len(q) <= msgCount
  BY DEF Inv, QueueInv
<1>10. Len(q) \in Nat
  BY <1>9 DEF Held
<1>11. ring \in Ring /\ accepted \in Seq(Entries) /\ Negative \in Entries
  BY DEF Inv, TypeOK, Entries
<1>12. PICK h : h = copy_in_must(ring, Header(Negative))
  OBVIOUS
<1>13. \/ h.ret = 0 /\ h.ring = ring
       \/ /\ h.ret # 0 /\ h.ring \in Ring
          /\ \E p : Len(p) <= Len(q) + 1 /\ Held(h.ring, Append(accepted, Negative), received, p)
  <2>1. accepted \in Seq(Entry) /\ received \in Seq(Seq(Byte))
    BY Types
  <2> QED
    BY <1>9, <1>11, <1>12, <2>1, NegativeKeeps, ZenonT(30)
<1>14. \/ ring' = ring /\ accepted' = accepted
       \/ ring' = h.ring /\ accepted' = IF h.ret = 0 THEN accepted ELSE Append(accepted, Negative)
  BY <1>1, <1>12
<1>15. /\ ring' \in Ring /\ accepted' \in Seq(Entries)
       /\ \E z : Held(ring', accepted', received, z) /\ Len(z) <= msgCount'
  <2>1. CASE ring' = ring /\ accepted' = accepted
    <3>1. Len(q) <= msgCount'
      BY <1>6, <1>7, <1>9, <1>10
    <3>2. Held(ring', accepted', received, q) /\ Len(q) <= msgCount'
      BY <1>9, <2>1, <3>1, Zenon
    <3> QED
      BY <1>11, <2>1, <3>2
  <2>2. CASE /\ h.ret # 0 /\ h.ring \in Ring
             /\ \E p : Len(p) <= Len(q) + 1
                         /\ Held(h.ring, Append(accepted, Negative), received, p)
             /\ ring' = h.ring /\ accepted' = Append(accepted, Negative)
    <3>1. PICK p : Len(p) <= Len(q) + 1 /\ Held(h.ring, Append(accepted, Negative), received, p)
      BY <2>2
    <3>2. Len(p) <= msgCount'
      <4>1. Len(p) \in Nat
        BY <3>1 DEF Held
      <4> QED
        BY <1>6, <1>7, <1>9, <1>10, <3>1, <4>1
    <3>3. Held(ring', accepted', received, p) /\ Len(p) <= msgCount'
      BY <2>2, <3>1, <3>2, Zenon
    <3>4. accepted' \in Seq(Entries)
      BY <1>11, <2>2, AppendProperties
    <3> QED
      BY <2>2, <3>3, <3>4
  <2> QED
    BY <1>13, <1>14, <2>1, <2>2
<1>16. QueueInv'
  <2>1. PICK z : Held(ring', accepted', received, z) /\ Len(z) <= msgCount'
    BY <1>15
  <2>2. Held(ring', accepted', received', z)
    BY <1>1, <2>1, Zenon
  <2> QED
    BY <2>1, <2>2 DEF QueueInv
<1>17. TypeOK'
  BY <1>1, <1>6, <1>8, <1>15 DEF Inv, TypeOK
<1> QED
  BY <1>5, <1>16, <1>17 DEF Inv

(* A receiver takes a message, or nothing: only a message is counted down. *)
LEMMA TakeStep ==
  ASSUME Inv, NEW r \in Receivers, NEW len \in Lens, take(r, len)
  PROVE  Inv'
<1>1. PICK b : b = read_buffer(ring, len)
  OBVIOUS
<1>2. /\ ring' = b.ring
      /\ received' = IF b.ok THEN Append(received, b.buf) ELSE received
      /\ msgCount' = IF b.ok THEN (msgCount - 1) % CountMod ELSE msgCount
      /\ rpc' = [rpc EXCEPT ![r] = "idle"]
      /\ UNCHANGED <<scene, lpc, accepted>>
      /\ UNCHANGED <<stream, array, reader, readable>>
  BY <1>1 DEF take, inputVars
<1>3. PICK q : Held(ring, accepted, received, q) /\ Len(q) <= msgCount
  BY DEF Inv, QueueInv
<1>4. /\ q \in Seq(Entry) /\ Len(q) \in Nat
      /\ msgCount \in Nat /\ CountMod \in Nat /\ Len(received) \in Nat
  <2>1. q \in Seq(Entry)
    BY <1>3 DEF Held
  <2>2. Len(q) \in Nat
    BY <2>1
  <2> QED
    BY <2>1, <2>2, Types
<1>5. \/ /\ b.ok = TRUE
         /\ b.ring \in Ring
         /\ b.buf \in Seq(Byte)
         /\ q # <<>>
         /\ Held(b.ring, accepted, Append(received, b.buf), Tail(q))
      \/ b.ok = FALSE /\ b.ring = ring
      \/ /\ b.ok = FALSE
         /\ b.ring \in Ring
         /\ q # <<>>
         /\ Held(b.ring, accepted, received, Tail(q))
  <2>1. ring \in Ring /\ accepted \in Seq(Entry) /\ received \in Seq(Seq(Byte))
    BY Types
  <2>2. ReadResult(b, ring, accepted, received, q)
    BY <1>1, <1>3, <2>1, ReadKeeps
  <2> QED
    BY <2>2 DEF ReadResult
<1>6. rpc' \in [Receivers -> {"idle", "waiting", "signalled"}]
  BY <1>2 DEF Inv, TypeOK
<1>7. ring \in Ring /\ received \in Seq(Seq(Byte)) /\ msgCount \in 0 .. CountMod - 1
  BY DEF Inv, TypeOK
<1>8. SUFFICES /\ ring' \in Ring /\ received' \in Seq(Seq(Byte))
               /\ msgCount' \in 0 .. CountMod - 1
               /\ msgCount' + Len(received') = msgCount + Len(received)
               /\ QueueInv'
  <2>1. ASSUME msgCount' + Len(received') = msgCount + Len(received)
        PROVE  InputInv' /\ CutInv' /\ OrderInv'
    <3>1. CutInv'
      BY <1>2 DEF Inv, CutInv
    <3>2. ASSUME ~scene'.cuts
          PROVE  /\ Counted(accepted', msgCount' + Len(received'))
                 /\ \E p : Pending(Input(array', reader', readable', stream'), p,
                                   msgCount' + Len(received'))
      <4>1. ~scene.cuts
        BY <1>2, <3>2
      <4>2. PICK p : Pending(Input(array, reader, readable, stream), p,
                             msgCount + Len(received))
        BY <4>1 DEF Inv, InputInv
      <4>3. Pending(Input(array', reader', readable', stream'), p, msgCount' + Len(received'))
        BY <1>2, <2>1, <4>2, Zenon
      <4>4. Counted(accepted, msgCount + Len(received))
        BY <4>1 DEF Inv, OrderInv
      <4>5. Counted(accepted', msgCount' + Len(received'))
        BY <1>2, <2>1, <4>4, Zenon
      <4> QED
        BY <4>3, <4>5
    <3> QED
      BY <3>1, <3>2 DEF InputInv, OrderInv
  <2>2. ASSUME ring' \in Ring, received' \in Seq(Seq(Byte)), msgCount' \in 0 .. CountMod - 1
        PROVE  TypeOK'
    BY <1>2, <1>6, <2>2 DEF Inv, TypeOK
  <2> QED
    BY <2>1, <2>2 DEF Inv
<1>9. q # <<>> => Len(q) >= 1 /\ Len(Tail(q)) = Len(q) - 1
  BY <1>4
<1>10. CASE /\ b.ok = TRUE
            /\ b.ring \in Ring
            /\ b.buf \in Seq(Byte)
            /\ q # <<>>
            /\ Held(b.ring, accepted, Append(received, b.buf), Tail(q))
  <2>1. ring' = b.ring /\ received' = Append(received, b.buf)
        /\ msgCount' = (msgCount - 1) % CountMod
    BY <1>2, <1>10
  <2>2. Len(q) >= 1 /\ Len(Tail(q)) = Len(q) - 1
    BY <1>9, <1>10
  <2>3. msgCount - 1 \in Nat /\ CountMod \in Nat \ {0} /\ msgCount - 1 < CountMod
    BY <1>3, <1>4, <1>7, <2>2
  <2>4. msgCount' = msgCount - 1
    <3>1. ASSUME NEW a \in Nat, NEW m \in Nat \ {0}, a < m PROVE a % m = a
      BY <3>1, ModOnce
    <3> QED
      BY <2>1, <2>3, <3>1
  <2>5. received' \in Seq(Seq(Byte)) /\ Len(received') = Len(received) + 1
    BY <1>7, <1>10, <2>1, AppendProperties
  <2>6. /\ msgCount' \in 0 .. CountMod - 1
        /\ msgCount' + Len(received') = msgCount + Len(received)
    <3>1. PICK z, y : z = Len(received) /\ y = Len(received')
      OBVIOUS
    <3>2. z \in Nat /\ y = z + 1
      BY <1>4, <2>5, <3>1
    <3>3. msgCount' + y = msgCount + z
      BY <1>4, <2>4, <3>2
    <3>4. msgCount' \in 0 .. CountMod - 1
      BY <1>4, <2>3, <2>4
    <3> QED
      BY <3>1, <3>3, <3>4
  <2>7. Held(ring', accepted', received', Tail(q))
    BY <1>2, <1>10, <2>1, Zenon
  <2>8. Len(Tail(q)) <= msgCount'
    BY <1>3, <1>4, <2>2, <2>4
  <2>9. QueueInv'
    BY <2>7, <2>8 DEF QueueInv
  <2> QED
    BY <1>10, <2>1, <2>5, <2>6, <2>9
<1>11. CASE b.ok = FALSE /\ b.ring = ring
  <2>1. ring' = ring /\ received' = received /\ msgCount' = msgCount
    BY <1>2, <1>11
  <2>2. Held(ring', accepted', received', q) /\ Len(q) <= msgCount'
    BY <1>2, <1>3, <2>1, Zenon
  <2>3. QueueInv'
    BY <2>2 DEF QueueInv
  <2> QED
    BY <1>7, <2>1, <2>3
<1>12. CASE /\ b.ok = FALSE
            /\ b.ring \in Ring
            /\ q # <<>>
            /\ Held(b.ring, accepted, received, Tail(q))
  <2>1. ring' = b.ring /\ received' = received /\ msgCount' = msgCount
    BY <1>2, <1>12
  <2>2. Held(ring', accepted', received', Tail(q))
    BY <1>2, <1>12, <2>1, Zenon
  <2>3. Len(Tail(q)) <= msgCount'
    BY <1>3, <1>4, <1>9, <1>12, <2>1
  <2>4. QueueInv'
    BY <2>2, <2>3 DEF QueueInv
  <2> QED
    BY <1>7, <1>12, <2>1, <2>4
<1> QED
  BY <1>5, <1>10, <1>11, <1>12

(* A step that only moves receivers between idle, waiting and signalled.   *)
LEMMA WaitStep ==
  ASSUME Inv, rpc' \in [Receivers -> {"idle", "waiting", "signalled"}],
         UNCHANGED <<scene, ring, msgCount, inputVars, lpc, accepted, received>>
  PROVE  Inv'
<1>1. /\ UNCHANGED <<scene, ring, msgCount, lpc, accepted, received>>
      /\ UNCHANGED <<stream, array, reader, readable>>
  BY DEF inputVars
<1>2. TypeOK'
  BY <1>1 DEF Inv, TypeOK
<1>3. QueueInv' /\ OrderInv'
  BY <1>1, QueueSame DEF Inv
<1>4. InputInv' /\ CutInv'
  BY <1>1 DEF Inv, InputInv, CutInv
<1> QED
  BY <1>2, <1>3, <1>4 DEF Inv

(* Nothing has arrived: all of the messages are still to be delivered.     *)
LEMMA InitInv == Init => Inv
<1> SUFFICES ASSUME Init PROVE Inv
  OBVIOUS
<1>1. PICK lens \in [1 .. MaxMsgs -> Lens] : stream = Frames(lens)
  BY DEF Init
<1>2. PICK p \in Seq(Msgs) : /\ Len(p) = MaxMsgs
                             /\ \A i \in 1 .. MaxMsgs : p[i].id = i
                             /\ stream \in Seq(Byte) /\ stream \in Seq(Msgs \X Nat)
                             /\ Framed(stream, p)
  BY <1>1, FramesAre
<1>3. MaxMsgs \in Nat /\ CountMod \in Nat /\ CountMod > 0 /\ Size \in Nat
  BY ReceiverAssumption, RingAssumption DEF ReceiverAssumption, RingAssumption
<1>4. /\ ring = EmptyRing /\ msgCount = 0 /\ array = <<>> /\ reader = 0 /\ readable = 0
      /\ lpc = "idle" /\ accepted = <<>> /\ received = <<>> /\ Len(<<>>) = 0
      /\ scene \in Scenes /\ rpc = [r \in Receivers |-> "idle"]
  BY DEF Init
<1>5. ring \in Ring /\ Distance(ring) = 0
  <2>1. 0 \in Slots /\ NoByte \in Byte
    BY <1>3 DEF Slots, NoByte, Byte
  <2>2. EmptyRing \in Ring
    BY <2>1 DEF EmptyRing, Ring
  <2>3. Distance(ring) = 0
    BY <1>4 DEF EmptyRing, Distance
  <2> QED
    BY <1>4, <2>2, <2>3
<1>6. TypeOK
  <2>1. /\ <<>> \in Seq(Msgs \X Nat) /\ <<>> \in Seq(Entries) /\ <<>> \in Seq(Seq(Byte))
    BY EmptySeq
  <2>2. 0 \in 0 .. CountMod - 1 /\ 0 \in 0 .. 0 /\ 0 - 0 = 0
    BY <1>3
  <2>3. reader \in 0 .. Len(array) /\ readable \in 0 .. Len(array) - reader
    BY <1>4
  <2> QED
    BY <1>2, <1>4, <1>5, <2>1, <2>2, <2>3 DEF TypeOK
<1>7. QueueInv
  <2>1. contents(ring) = <<>>
    <3>1. contents(ring) \in Seq(Byte) /\ Len(contents(ring)) = 0
      BY <1>5, ContentsType
    <3> QED
      BY <3>1
  <2>2. Held(ring, accepted, received, <<>>)
    BY <1>4, <2>1, DeliveredNone, HeldNothing
  <2>3. Len(<<>>) <= msgCount
    BY <1>4
  <2> QED
    BY <2>2, <2>3 DEF QueueInv
<1>8. InputInv
  <2>1. PICK c : c = Input(array, reader, readable, stream)
    OBVIOUS
  <2>2. IsInput(Input(<<>>, 0, 0, stream), <<>>, 0, 0, stream)
    <3>1. <<>> \in Seq(Byte) /\ 0 + 0 <= Len(<<>>) /\ 0 \in Nat
      BY EmptySeq
    <3> QED
      BY <1>2, <3>1, InputType
  <2>3. IsInput(c, <<>>, 0, 0, stream)
    BY <1>4, <2>1, <2>2, Zenon
  <2>4. c \in Seq(Byte) /\ Len(c) = Len(stream) /\ \A k \in 1 .. Len(stream) : c[k] = stream[k]
    <3>1. Len(stream) \in Nat
      BY <1>2
    <3>2. /\ c \in Seq(Byte) /\ Len(c) = 0 + Len(stream)
          /\ \A k \in 0 + 1 .. 0 + Len(stream) : c[k] = stream[k - 0]
      BY <2>3 DEF IsInput
    <3> QED
      BY <3>1, <3>2
  <2>5. c = stream
    BY <1>2, <2>4, SeqEqual
  <2>6. Pending(stream, p, 0)
    <3>1. \A i \in 1 .. Len(p) : p[i].id = MaxMsgs - Len(p) + i
      BY <1>2, <1>3
    <3>2. 0 = MaxMsgs - Len(p)
      BY <1>2, <1>3
    <3> QED
      BY <1>2, <3>1, <3>2 DEF Pending
  <2>7. msgCount + Len(received) = 0
    BY <1>4
  <2>8. Pending(Input(array, reader, readable, stream), p, msgCount + Len(received))
    BY <2>1, <2>5, <2>6, <2>7, Zenon
  <2> QED
    BY <2>8 DEF InputInv
<1>9. OrderInv
  BY <1>4 DEF OrderInv, Counted
<1>10. CutInv
  BY <1>4 DEF CutInv
<1> QED
  BY <1>6, <1>7, <1>8, <1>9, <1>10 DEF Inv

LEMMA Invariant == Spec => []Inv
<1>1. Inv /\ [Next]_vars => Inv'
  <2> SUFFICES ASSUME Inv, [Next]_vars PROVE Inv'
    OBVIOUS
  <2>1. CASE Deliver
    BY <2>1, ReadStep DEF Deliver
  <2>2. CASE OnMessage
    BY <2>2, CompleteStep, BreakStep, NegativeStep DEF OnMessage
  <2>3. ASSUME NEW r \in Receivers, NEW len \in Lens, receive(r, len) PROVE Inv'
    <3>1. CASE msgCount = 0
      <4>1. /\ rpc' = [rpc EXCEPT ![r] = "waiting"]
            /\ UNCHANGED <<scene, ring, msgCount, inputVars, lpc, accepted, received>>
        BY <2>3, <3>1 DEF receive
      <4>2. rpc' \in [Receivers -> {"idle", "waiting", "signalled"}]
        BY <4>1 DEF Inv, TypeOK
      <4> QED
        BY <4>1, <4>2, WaitStep
    <3>2. CASE msgCount # 0
      BY <2>3, <3>2, TakeStep DEF receive
    <3> QED
      BY <3>1, <3>2
  <2>4. ASSUME NEW r \in Receivers, NEW len \in Lens, WaitReturns(r, len) PROVE Inv'
    BY <2>4, TakeStep DEF WaitReturns
  <2>5. ASSUME NEW r \in Receivers, SpuriousWakeup(r) PROVE Inv'
    <3>1. /\ rpc' = [rpc EXCEPT ![r] = "signalled"]
          /\ UNCHANGED <<scene, ring, msgCount, inputVars, lpc, accepted, received>>
      BY <2>5 DEF SpuriousWakeup
    <3>2. rpc' \in [Receivers -> {"idle", "waiting", "signalled"}]
      BY <3>1 DEF Inv, TypeOK
    <3> QED
      BY <3>1, <3>2, WaitStep
  <2>6. CASE UNCHANGED vars
    <3>1. /\ rpc' = rpc
          /\ UNCHANGED <<scene, ring, msgCount, inputVars, lpc, accepted, received>>
      BY <2>6 DEF vars
    <3>2. rpc' \in [Receivers -> {"idle", "waiting", "signalled"}]
      BY <3>1 DEF Inv, TypeOK
    <3> QED
      BY <3>1, <3>2, WaitStep
  <2> QED
    BY <2>1, <2>2, <2>3, <2>4, <2>5, <2>6 DEF Next
<1> QED
  BY <1>1, InitInv, PTL DEF Spec

-----------------------------------------------------------------------------
(* The theorems.                                                           *)

(* Types: msg_count_ never wraps below 0 or past its width, the indices of *)
(* the input buffer stay inside the array, in_ and out_ inside the ring.   *)
THEOREM TypesCorrect == Spec => []TypeOK
<1>1. Inv => TypeOK
  BY DEF Inv
<1> QED
  BY <1>1, Invariant, PTL

(* No receiver goes to sleep over a message: when msg_count_ is 0 the ring *)
(* is empty, also after failed writes, failed reads and headers of a       *)
(* negative length.                                                        *)
THEOREM NeverSleepsOnMessage == Spec => []NoSleepOnMessage
<1>1. Inv => NoSleepOnMessage
  <2> SUFFICES ASSUME Inv, msgCount = 0 PROVE used(ring) = 0
    BY DEF NoSleepOnMessage
  <2>1. PICK q : Held(ring, accepted, received, q) /\ Len(q) <= msgCount
    BY DEF Inv, QueueInv
  <2>2. q \in Seq(Entry) /\ Framed(contents(ring), q)
    BY <2>1 DEF Held
  <2>3. Len(q) \in Nat
    BY <2>2
  <2>4. Len(q) = 0
    BY <2>1, <2>3
  <2>5. q = <<>>
    BY <2>2, <2>4
  <2>6. ring \in Ring
    BY Types
  <2>7. contents(ring) = <<>>
    BY <2>2, <2>5, <2>6, ContentsType, FramedNone
  <2>8. Distance(ring) = 0
    BY <2>6, <2>7, ContentsType
  <2> QED
    BY <2>6, <2>8, UsedBounds
<1> QED
  BY <1>1, Invariant, PTL

(* Receivers are handed the frames that onMessage has put into the ring,   *)
(* whole, each at most once and in their order, for any number of          *)
(* receivers; when no read ends inside a length header these are messages  *)
(* of the peer, in the order in which it has sent them.                    *)
THEOREM ReceivedWholeInOrder == Spec => []WholeMessagesInOrder
<1>1. Inv => WholeMessagesInOrder
  <2> SUFFICES ASSUME Inv PROVE WholeMessagesInOrder
    OBVIOUS
  <2>1. PICK q \in Seq(Entry) : Delivered(accepted, received, q)
    BY DEF Inv, QueueInv, Held
  <2>2. PICK f : Copies(accepted, received, f, Len(accepted) - Len(q))
    BY <2>1 DEF Delivered
  <2>3. /\ DOMAIN received = 1 .. Len(received) /\ DOMAIN accepted = 1 .. Len(accepted)
        /\ Len(accepted) \in Nat /\ Len(q) \in Nat
    BY DEF Inv, TypeOK
  <2>4. f \in [DOMAIN received -> DOMAIN accepted]
    BY <2>2, <2>3 DEF Copies
  <2>5. \E g \in [DOMAIN received -> DOMAIN accepted] :
          /\ \A i \in DOMAIN received :
               received[i] = Header(accepted[g[i]]) \o Body(accepted[g[i]])
          /\ \A i, j \in DOMAIN received : i < j => g[i] < g[j]
    BY <2>2, <2>3, <2>4 DEF Copies, Frame
  <2>6. ~scene.cuts =>
          /\ \A i \in DOMAIN accepted : accepted[i] \in Msgs
          /\ \A i, j \in DOMAIN accepted : i < j => accepted[i].id < accepted[j].id
    BY <2>3 DEF Inv, OrderInv, Counted
  <2> QED
    BY <2>5, <2>6 DEF WholeMessagesInOrder
<1> QED
  BY <1>1, Invariant, PTL

(* When no read ends inside a length header, onMessage has only counted    *)
(* messages that had arrived as a whole.                                   *)
THEOREM CountsComplete == Spec => []CompleteUnlessCut
<1>1. Inv => CompleteUnlessCut
  <2> SUFFICES ASSUME Inv, ~scene.cuts PROVE OnlyCompleteCounted
    BY DEF CompleteUnlessCut
  <2>1. PICK k : k = msgCount + Len(received)
    OBVIOUS
  <2>2. PICK p : Pending(Input(array, reader, readable, stream), p, k)
    BY <2>1 DEF Inv, InputInv
  <2>3. k \in Nat /\ k <= MaxMsgs /\ MaxMsgs \in Nat /\ HeaderSize >= 1 /\ HeaderSize \in Nat
        /\ readable \in Nat
    <3>1. k = MaxMsgs - Len(p) /\ p \in Seq(Msgs)
      BY <2>2 DEF Pending
    <3>2. Len(p) \in Nat
      BY <3>1
    <3> QED
      BY <2>1, <3>1, <3>2, Types, SMTT(30)
  <2>4. CASE readable > 0
    <3>1. First.id = k + 1
      BY <2>1, <2>4, InStep
    <3> QED
      BY <2>1, <2>3, <2>4, <3>1 DEF OnlyCompleteCounted
  <2>5. CASE ~(readable > 0) /\ stream # <<>>
    <3>1. PICK c : c = Input(array, reader, readable, stream)
      OBVIOUS
    <3>2. IsInput(c, array, reader, readable, stream)
      <4>1. /\ array \in Seq(Byte) /\ stream \in Seq(Byte) /\ reader \in Nat
            /\ readable \in Nat /\ reader + readable <= Len(array)
        BY Types
      <4> QED
        BY <3>1, <4>1, InputType
    <3>3. readable = 0 /\ Len(stream) \in Nat /\ Len(stream) > 0
      BY <2>3, <2>5, Types
    <3>4. c \in Seq(Byte) /\ Len(c) > 0 /\ c[1] = stream[1]
      <4>1. /\ c \in Seq(Byte) /\ Len(c) = readable + Len(stream)
            /\ \A i \in readable + 1 .. readable + Len(stream) : c[i] = stream[i - readable]
        BY <3>2 DEF IsInput
      <4>2. 1 \in readable + 1 .. readable + Len(stream) /\ 1 - readable = 1
        BY <3>3
      <4> QED
        BY <3>3, <4>1, <4>2
    <3>5. /\ p[1].id = k + 1 /\ FrameLen(p[1]) \in Nat /\ FrameLen(p[1]) >= HeaderSize
          /\ \A i \in 1 .. FrameLen(p[1]) : c[i] = <<p[1], i>>
      BY <2>2, <2>3, <3>1, <3>4, PendingFirst
    <3>6. 1 \in 1 .. FrameLen(p[1])
      BY <2>3, <3>5
    <3>7. Head(stream)[1].id = k + 1
      BY <3>4, <3>5, <3>6
    <3> QED
      BY <2>1, <2>3, <2>5, <3>7 DEF OnlyCompleteCounted
  <2>6. CASE ~(readable > 0) /\ stream = <<>>
    BY <2>1, <2>3, <2>6 DEF OnlyCompleteCounted
  <2> QED
    BY <2>4, <2>5, <2>6
<1> QED
  BY <1>1, Invariant, PTL
=============================================================================
