---------------------------- MODULE ServicesProofs ---------------------------
(***************************************************************************)
(* Proofs about TimerWheel, Buffer, ThreadPool, EPollerThread and TimerSet,*)
(* for every size and resolution and any number of threads, tasks, loops   *)
(* and timers, and from them about Services.                               *)
(***************************************************************************)
EXTENDS Services, FiniteSetTheorems, TLAPS

-----------------------------------------------------------------------------
(* TimerWheel: how long the wheel holds a node, for every number of        *)
(* buckets, every resolution of the clock and whatever times addNode is    *)
(* given.                                                                  *)

(* The latest bucket that holds n is b, and how many buckets have been     *)
(* pushed since n was put there bounds how much time has passed.           *)
Latest(n, b) ==
  /\ n \in node_circle_buf[b]
  /\ \A c \in 1 .. Buckets : c > b => n \notin node_circle_buf[c]
  /\ (Buckets - b) * PerMilli <= time - stamp[n]
  /\ time - stamp[n] <= (Buckets - b) * (2 * PerMilli - 1)

WheelInv ==
  /\ WheelTypeOK
  /\ \A n \in Nodes :
       /\ node[n] = "held" => \E b \in 1 .. Buckets : Latest(n, b)
       /\ InBuckets(node_circle_buf, n) => node[n] = "held"
       /\ node[n] = "fired" => held[n] >= Buckets * PerMilli

-----------------------------------------------------------------------------
(* What the division of timeDifferenceMicro loses.                         *)
LEMMA DivBounds ==
  ASSUME NEW p \in Nat \ {0}, NEW d \in Nat
  PROVE  /\ d \div p \in Nat
         /\ (d \div p) * p <= d
         /\ d <= (d \div p) * p + p - 1
OBVIOUS

(* The bounds after k more buckets.                                        *)
LEMMA SpreadGrows ==
  ASSUME NEW p \in Nat \ {0}, NEW x \in Nat, NEW k \in Nat \ {0}, NEW d \in Nat, NEW e \in Nat,
         x * p <= e, e <= x * (2 * p - 1), k * p <= d, d <= k * p + p - 1
  PROVE  /\ (x + k) * p <= e + d
         /\ e + d <= (x + k) * (2 * p - 1)
OBVIOUS

(* Products grow with their factors.                                       *)
LEMMA ProductGrows ==
  ASSUME NEW x \in Nat, NEW y \in Nat, NEW p \in Nat, x <= y
  PROVE  x * p <= y * p /\ x * p \in Nat
OBVIOUS

(* Moving a bucket forward by addNode's k buckets moves the two bounds     *)
(* with it, whether or not time_ moves.                                    *)
LEMMA BoundsMove ==
  ASSUME WheelInv, NEW m \in Nodes, NEW b \in 1 .. Buckets, Latest(m, b),
         NEW k \in Nat, NEW d \in Nat,
         k = 0 => d = 0,
         k > 0 => k * PerMilli <= d /\ d <= k * PerMilli + PerMilli - 1
  PROVE  /\ time - stamp[m] \in Nat
         /\ (Buckets - b + k) * PerMilli <= time - stamp[m] + d
         /\ time - stamp[m] + d <= (Buckets - b + k) * (2 * PerMilli - 1)
<1> DEFINE x == Buckets - b
           e == time - stamp[m]
<1>1. x \in Nat /\ PerMilli \in Nat \ {0}
  BY WheelAssumption
<1>2. e \in Int /\ x * PerMilli <= e /\ e <= x * (2 * PerMilli - 1)
  BY DEF Latest, WheelInv, WheelTypeOK
<1>3. x * PerMilli \in Nat
  BY <1>1, ProductGrows
<1>4. e \in Nat
  BY <1>2, <1>3
<1>5. CASE k = 0
  BY <1>1, <1>2, <1>4, <1>5
<1>6. CASE k > 0
  <2>1. (x + k) * PerMilli <= e + d /\ e + d <= (x + k) * (2 * PerMilli - 1)
    <3> HIDE DEF x, e
    <3> QED
      BY <1>1, <1>2, <1>4, <1>6, SpreadGrows
  <2> QED
    BY <1>4, <2>1
<1> QED
  BY <1>5, <1>6

-----------------------------------------------------------------------------
LEMMA WheelInvInit == WheelInit => WheelInv
BY WheelAssumption DEF WheelInit, WheelInv, WheelTypeOK, InBuckets

(* addNode: a late node is refused; otherwise every held node moves to an  *)
(* earlier bucket or fires, and the new one goes into the last bucket.     *)
LEMMA AddKeeps ==
  ASSUME WheelInv, NEW n \in Nodes, NEW t \in 0 .. MaxTime, addNode(t, n)
  PROVE  WheelInv'
<1> DEFINE k == timeDifferenceMicro(t, time)
           buf == PushBuckets(k)
           gone == {m \in Nodes : node[m] = "held" /\ ~InBuckets(buf, m)}
<1> USE WheelAssumption
<1>1. time \in 0 .. MaxTime /\ node[n] = "none"
  BY DEF WheelInv, WheelTypeOK, addNode
<1>2. k \in Int /\ (k > 0 => /\ t - time \in Nat
                             /\ k * PerMilli <= t - time
                             /\ t - time <= k * PerMilli + PerMilli - 1)
  <2>1. CASE t >= time
    <3>1. t - time \in Nat /\ k = (t - time) \div PerMilli
      BY <1>1, <2>1 DEF timeDifferenceMicro
    <3>2. /\ (t - time) \div PerMilli \in Nat
          /\ ((t - time) \div PerMilli) * PerMilli <= t - time
          /\ t - time <= ((t - time) \div PerMilli) * PerMilli + PerMilli - 1
      <4> DEFINE e == t - time
      <4> HIDE DEF e
      <4>1. e \in Nat
        BY <3>1 DEF e
      <4>2. /\ e \div PerMilli \in Nat
            /\ (e \div PerMilli) * PerMilli <= e
            /\ e <= (e \div PerMilli) * PerMilli + PerMilli - 1
        BY <4>1, DivBounds
      <4> QED
        BY <4>2 DEF e
    <3> HIDE DEF k
    <3> QED
      BY <3>1, <3>2
  <2>2. CASE t < time
    <3>1. time - t \in Nat /\ k = -((time - t) \div PerMilli)
      BY <1>1, <2>2 DEF timeDifferenceMicro
    <3>2. (time - t) \div PerMilli \in Nat
      BY <3>1, DivBounds
    <3> QED
      BY <3>1, <3>2
  <2> QED
    BY <1>1, <2>1, <2>2
<1>3. CASE k < 0
  <2>1. /\ node' = [node EXCEPT ![n] = "refused"]
        /\ UNCHANGED <<node_circle_buf, time, stamp, held>>
    BY <1>3 DEF addNode
  <2>2. ~InBuckets(node_circle_buf, n)
    BY <1>1 DEF WheelInv
  <2> QED
    BY <2>1, <2>2 DEF WheelInv, WheelTypeOK, InBuckets, Latest
<1>4. CASE k >= 0
  <2>1. /\ time' = IF k > 0 THEN t ELSE time
        /\ node_circle_buf' = [buf EXCEPT ![Buckets] = @ \cup {n}]
        /\ node' = [m \in Nodes |-> IF m = n THEN "held"
                                    ELSE IF m \in gone THEN "fired" ELSE node[m]]
        /\ held' = [m \in Nodes |-> IF m \in gone THEN time' - stamp[m] ELSE held[m]]
        /\ stamp' = [stamp EXCEPT ![n] = time']
    BY <1>2, <1>4 DEF addNode
  <2> DEFINE d == time' - time
  <2>2. /\ k \in Nat /\ d \in Nat /\ time' \in 0 .. MaxTime
        /\ k = 0 => d = 0
        /\ k > 0 => k * PerMilli <= d /\ d <= k * PerMilli + PerMilli - 1
    BY <1>1, <1>2, <1>4, <2>1
  <2> HIDE DEF k, gone
  <2>3. /\ node_circle_buf \in [1 .. Buckets -> SUBSET Nodes]
        /\ node_circle_buf' \in [1 .. Buckets -> SUBSET Nodes]
        /\ \A c \in 1 .. Buckets, m \in Nodes :
             m # n => (m \in node_circle_buf'[c]
                         <=> c + k <= Buckets /\ m \in node_circle_buf[c + k])
        /\ n \in node_circle_buf'[Buckets]
    BY <2>1, <2>2 DEF WheelInv, WheelTypeOK, PushBuckets
  <2>4. \A m \in Nodes : m # n =>
          (InBuckets(buf, m) <=> InBuckets(node_circle_buf', m))
    BY <2>1, <2>2, <2>3 DEF InBuckets, PushBuckets
  (* A held node whose latest bucket is still there.                       *)
  <2>5. ASSUME NEW m \in Nodes, node[m] = "held",
               NEW b \in 1 .. Buckets, Latest(m, b), b > k
        PROVE  m \notin gone /\ m # n /\ \E c \in 1 .. Buckets : Latest(m, c)'
    <3>1. m # n /\ b - k \in 1 .. Buckets
      BY <1>1, <2>2, <2>5
    <3>2. m \in node_circle_buf'[b - k]
      BY <2>2, <2>3, <2>5, <3>1 DEF Latest
    <3>3. m \notin gone
      BY <2>4, <3>1, <3>2 DEF gone, InBuckets
    <3>4. \A c \in 1 .. Buckets : c > b - k => m \notin node_circle_buf'[c]
      <4> SUFFICES ASSUME NEW c \in 1 .. Buckets, c > b - k, m \in node_circle_buf'[c]
                   PROVE  FALSE
        OBVIOUS
      <4>1. c + k \in 1 .. Buckets /\ c + k > b /\ m \in node_circle_buf[c + k]
        BY <2>2, <2>3, <3>1
      <4> QED
        BY <2>5, <4>1 DEF Latest
    <3>5. /\ (Buckets - b + k) * PerMilli <= time - stamp[m] + d
          /\ time - stamp[m] + d <= (Buckets - b + k) * (2 * PerMilli - 1)
      BY <2>2, <2>5, BoundsMove
    <3>6. stamp'[m] = stamp[m] /\ stamp[m] \in Int /\ Buckets - (b - k) = Buckets - b + k
      BY <2>1, <2>2, <3>1 DEF WheelInv, WheelTypeOK
    <3>7. time - stamp[m] + d = time' - stamp'[m]
      BY <1>1, <2>2, <3>6
    <3>8. PICK c \in 1 .. Buckets : c = b - k
      BY <3>1
    <3>9. Buckets - c = Buckets - b + k
      BY <3>6, <3>8
    <3>10. Latest(m, c)'
      BY <3>2, <3>4, <3>5, <3>7, <3>8, <3>9 DEF Latest
    <3> QED
      BY <3>1, <3>3, <3>10
  (* A held node whose latest bucket is pushed out.                        *)
  <2>6. ASSUME NEW m \in Nodes, node[m] = "held",
               NEW b \in 1 .. Buckets, Latest(m, b), b <= k
        PROVE  /\ m \in gone /\ m # n /\ ~InBuckets(node_circle_buf', m)
               /\ time' - stamp[m] \in 0 .. MaxTime
               /\ time' - stamp[m] >= Buckets * PerMilli
    <3>1. m # n
      BY <1>1, <2>6
    <3>2. ~InBuckets(node_circle_buf', m)
      <4> SUFFICES ASSUME NEW c \in 1 .. Buckets, m \in node_circle_buf'[c]
                   PROVE  FALSE
        BY DEF InBuckets
      <4>1. c + k \in 1 .. Buckets /\ c + k > b /\ m \in node_circle_buf[c + k]
        BY <2>2, <2>3, <2>6, <3>1
      <4> QED
        BY <2>6, <4>1 DEF Latest
    <3>3. /\ time - stamp[m] \in Nat
          /\ (Buckets - b + k) * PerMilli <= time - stamp[m] + d
      BY <2>2, <2>6, BoundsMove
    <3>4. Buckets * PerMilli <= (Buckets - b + k) * PerMilli
      <4>1. Buckets \in Nat /\ Buckets - b + k \in Nat /\ Buckets <= Buckets - b + k
        BY <2>2, <2>6
      <4> QED
        BY <4>1, ProductGrows
    <3>5. stamp[m] \in 0 .. MaxTime
      BY DEF WheelInv, WheelTypeOK
    <3>6. /\ time - stamp[m] + d = time' - stamp[m]
          /\ time' - stamp[m] \in 0 .. MaxTime
      BY <1>1, <2>2, <3>3, <3>5
    <3>7. /\ Buckets * PerMilli \in Int /\ (Buckets - b + k) * PerMilli \in Int
      BY <2>2
    <3>8. m \in gone
      BY <2>4, <2>6, <3>1, <3>2 DEF gone
    <3> QED
      BY <3>1, <3>2, <3>3, <3>4, <3>6, <3>7, <3>8
  <2>7. \A m \in Nodes : node[m] = "held" => \E b \in 1 .. Buckets : Latest(m, b)
    BY DEF WheelInv
  <2>8. \A m \in gone : /\ m \in Nodes /\ m # n /\ ~InBuckets(node_circle_buf', m)
                        /\ time' - stamp[m] \in 0 .. MaxTime
                        /\ time' - stamp[m] >= Buckets * PerMilli
    <3> SUFFICES ASSUME NEW m \in gone
                 PROVE  /\ m \in Nodes /\ m # n /\ ~InBuckets(node_circle_buf', m)
                        /\ time' - stamp[m] \in 0 .. MaxTime
                        /\ time' - stamp[m] >= Buckets * PerMilli
      OBVIOUS
    <3>1. m \in Nodes /\ node[m] = "held"
      BY DEF gone
    <3>2. PICK b \in 1 .. Buckets : Latest(m, b)
      BY <2>7, <3>1
    <3> QED
      BY <2>2, <2>5, <2>6, <3>1, <3>2
  <2>9. WheelTypeOK'
    BY <2>1, <2>2, <2>3, <2>8 DEF WheelInv, WheelTypeOK
  <2>10. ASSUME NEW m \in Nodes, node'[m] = "held"
         PROVE  \E b \in 1 .. Buckets : Latest(m, b)'
    <3>1. CASE m = n
      <4>1. stamp'[n] = time' /\ time' - time' = 0 /\ Buckets - Buckets = 0
        BY <2>1, <2>2 DEF WheelInv, WheelTypeOK
      <4>2. n \in node_circle_buf'[Buckets] /\ Buckets \in Nat \ {0}
        BY <2>3
      <4>3. Latest(n, Buckets)'
        BY <4>1, <4>2 DEF Latest
      <4> QED
        BY <3>1, <4>3
    <3>2. CASE m # n
      <4>1. m \notin gone /\ node[m] = "held"
        BY <2>1, <2>10, <3>2
      <4>2. PICK b \in 1 .. Buckets : Latest(m, b)
        BY <2>7, <4>1
      <4> QED
        BY <2>2, <2>5, <2>6, <4>1, <4>2
    <3> QED
      BY <3>1, <3>2
  <2>11. ASSUME NEW m \in Nodes, InBuckets(node_circle_buf', m)
         PROVE  node'[m] = "held"
    <3>1. CASE m = n
      BY <2>1, <3>1
    <3>2. CASE m # n
      <4>1. InBuckets(node_circle_buf, m)
        BY <2>2, <2>3, <2>11, <3>2 DEF InBuckets
      <4> QED
        BY <2>1, <2>8, <2>11, <3>2, <4>1 DEF WheelInv
    <3> QED
      BY <3>1, <3>2
  <2>12. ASSUME NEW m \in Nodes, node'[m] = "fired"
         PROVE  held'[m] >= Buckets * PerMilli
    BY <2>1, <2>8, <2>12 DEF WheelInv
  <2> QED
    BY <2>9, <2>10, <2>11, <2>12 DEF WheelInv
<1> QED
  BY <1>2, <1>3, <1>4

(* refreshNode: the node's latest bucket is the last one again.            *)
LEMMA RefreshKeeps ==
  ASSUME WheelInv, NEW n \in Nodes, refreshNode(n)
  PROVE  WheelInv'
<1> USE WheelAssumption
<1>1. /\ node[n] = "held" /\ UNCHANGED <<time, node, held>>
      /\ node_circle_buf' = [node_circle_buf EXCEPT ![Buckets] = @ \cup {n}]
      /\ stamp' = [stamp EXCEPT ![n] = time]
  BY DEF refreshNode
<1>2. WheelTypeOK'
  BY <1>1 DEF WheelInv, WheelTypeOK
<1>3. \A c \in 1 .. Buckets, m \in Nodes :
        m # n => (m \in node_circle_buf'[c] <=> m \in node_circle_buf[c])
  BY <1>1 DEF WheelInv, WheelTypeOK
<1>4. n \in node_circle_buf'[Buckets] /\ stamp'[n] = time' /\ time' \in Int
  BY <1>1 DEF WheelInv, WheelTypeOK
<1>5. Latest(n, Buckets)'
  <2>0. Buckets \in Int /\ \A x \in Int : x - x = 0
    OBVIOUS
  <2>1. Buckets - Buckets = 0 /\ time' - time' = 0
    BY <1>4, <2>0
  <2> QED
    BY <1>4, <2>1 DEF Latest
<1>6. ASSUME NEW m \in Nodes, m # n, NEW b \in 1 .. Buckets, Latest(m, b)
      PROVE  Latest(m, b)'
  <2>1. stamp'[m] = stamp[m]
    BY <1>1, <1>6 DEF WheelInv, WheelTypeOK
  <2> QED
    BY <1>1, <1>3, <1>6, <2>1 DEF Latest
<1>7. ASSUME NEW m \in Nodes, node'[m] = "held"
      PROVE  \E b \in 1 .. Buckets : Latest(m, b)'
  <2>1. CASE m = n
    BY <1>5, <2>1
  <2>2. CASE m # n
    BY <1>1, <1>6, <1>7, <2>2 DEF WheelInv
  <2> QED
    BY <2>1, <2>2
<1>8. \A m \in Nodes : InBuckets(node_circle_buf', m) => node'[m] = "held"
  BY <1>1, <1>3 DEF WheelInv, InBuckets
<1>9. \A m \in Nodes : node'[m] = "fired" => held'[m] >= Buckets * PerMilli
  BY <1>1 DEF WheelInv
<1> QED
  BY <1>2, <1>7, <1>8, <1>9 DEF WheelInv

LEMMA WheelInvStep == WheelInv /\ [WheelNext]_wheelVars => WheelInv'
<1> SUFFICES ASSUME WheelInv, [WheelNext]_wheelVars
             PROVE  WheelInv'
  OBVIOUS
<1>1. CASE \E n \in Nodes, t \in 0 .. MaxTime : addNode(t, n)
  BY <1>1, AddKeeps
<1>2. CASE \E n \in Nodes : refreshNode(n)
  BY <1>2, RefreshKeeps
<1>3. CASE DestroyWheel
  BY <1>3 DEF DestroyWheel, WheelInv, WheelTypeOK, InBuckets
<1>4. CASE UNCHANGED wheelVars
  BY <1>4 DEF wheelVars, WheelInv, WheelTypeOK, InBuckets, Latest
<1> QED
  BY <1>1, <1>2, <1>3, <1>4 DEF WheelNext

-----------------------------------------------------------------------------
(* The wheel fires a node when its last reference goes, not before a       *)
(* millisecond per bucket has passed and, as long as it is held, within    *)
(* less than twice that: for every size of the wheel and every sequence of *)
(* addNode and refreshNode.                                                *)
THEOREM FiresInWindow == WheelSpec => []WheelWindow
<1>1. WheelInv => WheelWindow
  <2> SUFFICES ASSUME WheelInv, NEW n \in Nodes
               PROVE  /\ node[n] = "held" <=> InBuckets(node_circle_buf, n)
                      /\ node[n] = "fired" => held[n] >= Buckets * PerMilli
                      /\ node[n] = "held" =>
                           time - stamp[n] <= (Buckets - 1) * (2 * PerMilli - 1)
    BY DEF WheelWindow
  <2>1. node[n] = "held" <=> InBuckets(node_circle_buf, n)
    BY DEF WheelInv, InBuckets, Latest
  <2>2. node[n] = "held" => time - stamp[n] <= (Buckets - 1) * (2 * PerMilli - 1)
    <3> SUFFICES ASSUME node[n] = "held"
                 PROVE  time - stamp[n] <= (Buckets - 1) * (2 * PerMilli - 1)
      OBVIOUS
    <3>1. PICK b \in 1 .. Buckets : Latest(n, b)
      BY DEF WheelInv
    <3>2. /\ Buckets - b \in Nat /\ Buckets - 1 \in Nat /\ 2 * PerMilli - 1 \in Nat
          /\ Buckets - b <= Buckets - 1
      BY WheelAssumption
    <3>3. (Buckets - b) * (2 * PerMilli - 1) <= (Buckets - 1) * (2 * PerMilli - 1)
      BY <3>2, ProductGrows
    <3>4. /\ (Buckets - b) * (2 * PerMilli - 1) \in Int
          /\ (Buckets - 1) * (2 * PerMilli - 1) \in Int
          /\ time - stamp[n] \in Int
      BY <3>2 DEF WheelInv, WheelTypeOK
    <3> QED
      BY <3>1, <3>3, <3>4 DEF Latest
  <2> QED
    BY <2>1, <2>2 DEF WheelInv
<1> QED
  BY <1>1, WheelInvInit, WheelInvStep, PTL DEF WheelSpec

-----------------------------------------------------------------------------
(* Buffer is a queue of bytes, whatever the sizes of the vector and of     *)
(* extra_buf are.  Each operation is a lemma on the record: it keeps a     *)
(* buffer well formed, and says what becomes of its readable bytes.        *)

Byte == 0 .. MaxPut

(* A well-formed buffer.                                                   *)
Buffers ==
  [size : Nat, bytes : UNION {[0 .. n - 1 -> Byte] : n \in Nat}, reader : Nat, writer : Nat]

WellFormed(b) ==
  /\ b \in Buffers
  /\ b.bytes \in [0 .. b.size - 1 -> Byte]
  /\ b.reader <= b.writer
  /\ b.writer <= b.size

(* Two sequences with the same elements are the same.                      *)
LEMMA SeqEqual ==
  ASSUME NEW s \in Seq(Byte), NEW t \in Seq(Byte), Len(s) = Len(t),
         \A i \in 1 .. Len(s) : s[i] = t[i]
  PROVE  s = t
OBVIOUS

(* A buffer put together from its fields is well formed.                   *)
LEMMA FieldsWellFormed ==
  ASSUME NEW n \in Nat, NEW f \in [0 .. n - 1 -> Byte], NEW r \in Nat, NEW w \in Nat,
         r <= w, w <= n
  PROVE  WellFormed([size |-> n, bytes |-> f, reader |-> r, writer |-> w])
<1> f \in UNION {[0 .. i - 1 -> Byte] : i \in Nat}
  OBVIOUS
<1> QED
  BY DEF WellFormed, Buffers

(* What the constructor makes is well formed and holds nothing.            *)
LEMMA NewIsEmpty ==
  ASSUME NEW n \in Nat
  PROVE  /\ WellFormed(NewBuffer(n))
         /\ NewBuffer(n).size = n /\ NewBuffer(n).writer = 0
         /\ to_string_piece(NewBuffer(n)) = <<>>
<1>1. WellFormed(NewBuffer(n))
  <2> [i \in 0 .. n - 1 |-> 0] \in [0 .. n - 1 -> Byte]
    BY BufferAssumption DEF Byte
  <2> QED
    BY FieldsWellFormed DEF NewBuffer
<1>2. to_string_piece(NewBuffer(n)) = <<>>
  BY DEF NewBuffer, to_string_piece, readable_bytes
<1> QED
  BY <1>1, <1>2 DEF NewBuffer

(* The readable bytes are a sequence.                                      *)
LEMMA ReadableIsSeq ==
  ASSUME NEW b, WellFormed(b)
  PROVE  /\ readable_bytes(b) \in Nat
         /\ writeable_bytes(b) \in Nat
         /\ to_string_piece(b) \in Seq(Byte)
         /\ Len(to_string_piece(b)) = readable_bytes(b)
         /\ \A i \in 1 .. readable_bytes(b) : to_string_piece(b)[i] = b.bytes[b.reader + i - 1]
<1>1. readable_bytes(b) \in Nat /\ writeable_bytes(b) \in Nat
  BY DEF WellFormed, Buffers, readable_bytes, writeable_bytes
<1>2. \A i \in 1 .. readable_bytes(b) : b.bytes[b.reader + i - 1] \in Byte
  <2> TAKE i \in 1 .. readable_bytes(b)
  <2>1. b.reader + i - 1 \in 0 .. b.size - 1
    BY DEF WellFormed, Buffers, readable_bytes
  <2> QED
    BY <2>1 DEF WellFormed
<1> QED
  BY <1>1, <1>2 DEF to_string_piece

(* Bytes that fit are added behind the readable ones.                      *)
LEMMA WrittenBytesFollow ==
  ASSUME NEW b, WellFormed(b), NEW s \in Seq(Byte), Len(s) <= writeable_bytes(b)
  PROVE  /\ WellFormed(has_written(b, s))
         /\ has_written(b, s).size = b.size
         /\ has_written(b, s).writer = b.writer + Len(s)
         /\ to_string_piece(has_written(b, s)) = to_string_piece(b) \o s
<1> DEFINE c == has_written(b, s)
           f == [i \in 0 .. b.size - 1 |->
                   IF b.writer <= i /\ i < b.writer + Len(s)
                     THEN s[i - b.writer + 1] ELSE b.bytes[i]]
<1>1. c = [size |-> b.size, bytes |-> f, reader |-> b.reader, writer |-> b.writer + Len(s)]
  <2>1. c = [b EXCEPT !.bytes = f, !.writer = b.writer + Len(s)]
    BY DEF has_written
  <2> HIDE DEF f, c
  <2> QED
    BY <2>1 DEF WellFormed, Buffers
<1>2. f \in [0 .. b.size - 1 -> Byte]
  BY DEF WellFormed, Buffers
<1>3. /\ b.size \in Nat /\ b.reader \in Nat /\ b.writer \in Nat /\ b.writer + Len(s) \in Nat
      /\ b.reader <= b.writer /\ b.writer + Len(s) <= b.size /\ b.reader <= b.writer + Len(s)
  BY DEF WellFormed, Buffers, writeable_bytes
<1> HIDE DEF c, f
<1>4. WellFormed(c)
  <2> DEFINE w == b.writer + Len(s)
  <2>1. w \in Nat /\ b.reader <= w /\ w <= b.size
    BY <1>3
  <2>2. c = [size |-> b.size, bytes |-> f, reader |-> b.reader, writer |-> w]
    BY <1>1
  <2> HIDE DEF w
  <2> QED
    BY <1>2, <1>3, <2>1, <2>2, FieldsWellFormed
<1>5. /\ readable_bytes(c) = readable_bytes(b) + Len(s)
      /\ readable_bytes(b) = b.writer - b.reader
  BY <1>1, <1>3 DEF readable_bytes
<1>6. ASSUME NEW i \in 1 .. readable_bytes(c)
      PROVE  to_string_piece(c)[i] = (to_string_piece(b) \o s)[i]
  <2>1. to_string_piece(c)[i] = f[b.reader + i - 1]
    BY <1>1, <1>4, ReadableIsSeq
  <2>2. b.reader + i - 1 \in 0 .. b.size - 1
    BY <1>3, <1>5, SMTT(30)
  <2>3. CASE i <= readable_bytes(b)
    <3>1. b.reader + i - 1 < b.writer /\ i \in 1 .. readable_bytes(b)
      BY <1>3, <1>5, <2>3
    <3>2. f[b.reader + i - 1] = b.bytes[b.reader + i - 1]
      BY <1>3, <2>2, <3>1 DEF f
    <3>3. to_string_piece(b)[i] = b.bytes[b.reader + i - 1]
      BY <3>1, ReadableIsSeq
    <3>4. (to_string_piece(b) \o s)[i] = to_string_piece(b)[i]
      BY <3>1, ReadableIsSeq
    <3> QED
      BY <2>1, <3>2, <3>3, <3>4
  <2>4. CASE ~(i <= readable_bytes(b))
    <3> DEFINE j == b.reader + i - 1
    <3>1. j - b.writer + 1 = i - readable_bytes(b)
      BY <1>3, <1>5
    <3>2. b.writer <= j /\ j < b.writer + Len(s) /\ j \in 0 .. b.size - 1
      BY <1>3, <1>5, <2>2, <2>4
    <3>3. f[j] = s[i - readable_bytes(b)]
      <4> HIDE DEF j
      <4>1. f[j] = s[j - b.writer + 1]
        BY <3>2 DEF f
      <4> QED
        BY <3>1, <4>1
    <3>4. (to_string_piece(b) \o s)[i] = s[i - readable_bytes(b)]
      <4>1. to_string_piece(b) \in Seq(Byte) /\ Len(to_string_piece(b)) = readable_bytes(b)
        BY ReadableIsSeq
      <4>2. readable_bytes(b) \in Nat /\ i \in readable_bytes(b) + 1 .. readable_bytes(b) + Len(s)
        BY <1>3, <1>5, <2>4
      <4> QED
        BY <4>1, <4>2
    <3> QED
      BY <2>1, <3>3, <3>4
  <2> QED
    BY <2>3, <2>4
<1>7. to_string_piece(c) = to_string_piece(b) \o s
  <2>1. to_string_piece(c) \in Seq(Byte) /\ Len(to_string_piece(c)) = readable_bytes(c)
    BY <1>4, ReadableIsSeq
  <2>2. /\ to_string_piece(b) \o s \in Seq(Byte)
        /\ Len(to_string_piece(b) \o s) = readable_bytes(c)
    BY <1>5, ReadableIsSeq
  <2> QED
    BY <1>6, <2>1, <2>2, SeqEqual
<1> QED
  BY <1>1, <1>4, <1>7 DEF c

(* A larger vector holds the same bytes.                                   *)
LEMMA ResizeKeeps ==
  ASSUME NEW b, WellFormed(b), NEW n \in Nat, b.size <= n
  PROVE  /\ WellFormed(resize(b, n))
         /\ resize(b, n).size = n /\ resize(b, n).writer = b.writer
         /\ to_string_piece(resize(b, n)) = to_string_piece(b)
<1> DEFINE c == resize(b, n)
           f == [i \in 0 .. n - 1 |-> IF i < b.size THEN b.bytes[i] ELSE 0]
<1>1. c = [size |-> n, bytes |-> f, reader |-> b.reader, writer |-> b.writer]
  <2>1. c = [b EXCEPT !.size = n, !.bytes = f]
    BY DEF resize
  <2> HIDE DEF c, f
  <2> QED
    BY <2>1 DEF WellFormed, Buffers
<1>2. f \in [0 .. n - 1 -> Byte]
  BY BufferAssumption DEF WellFormed, Buffers, Byte
<1> HIDE DEF c, f
<1>3. WellFormed(c)
  BY <1>1, <1>2, FieldsWellFormed DEF WellFormed, Buffers
<1>4. readable_bytes(c) = readable_bytes(b)
  BY <1>1 DEF readable_bytes
<1>5. ASSUME NEW i \in 1 .. readable_bytes(b)
      PROVE  to_string_piece(c)[i] = to_string_piece(b)[i]
  <2>1. b.reader + i - 1 \in 0 .. b.size - 1 /\ b.reader + i - 1 \in 0 .. n - 1
    BY DEF WellFormed, Buffers, readable_bytes
  <2>2. f[b.reader + i - 1] = b.bytes[b.reader + i - 1]
    BY <2>1 DEF f, WellFormed, Buffers
  <2>3. to_string_piece(c)[i] = f[b.reader + i - 1]
    BY <1>1, <1>3, <1>4, ReadableIsSeq
  <2> QED
    BY <2>2, <2>3, ReadableIsSeq
<1>6. to_string_piece(c) = to_string_piece(b)
  BY <1>3, <1>4, <1>5, ReadableIsSeq, SeqEqual
<1> QED
  BY <1>1, <1>3, <1>6 DEF c

(* Moving the unread bytes, possibly over themselves, keeps them.          *)
LEMMA MoveKeeps ==
  ASSUME NEW b, WellFormed(b)
  PROVE  /\ WellFormed(move_to_front(b))
         /\ move_to_front(b).size = b.size /\ move_to_front(b).writer = readable_bytes(b)
         /\ to_string_piece(move_to_front(b)) = to_string_piece(b)
<1> DEFINE c == move_to_front(b)
           f == [i \in 0 .. b.size - 1 |->
                   IF i < readable_bytes(b) THEN b.bytes[b.reader + i] ELSE b.bytes[i]]
<1>1. c = [size |-> b.size, bytes |-> f, reader |-> 0, writer |-> readable_bytes(b)]
  <2>1. c = [b EXCEPT !.bytes = f, !.reader = 0, !.writer = readable_bytes(b)]
    BY DEF move_to_front
  <2> HIDE DEF c, f
  <2> QED
    BY <2>1 DEF WellFormed, Buffers
<1>2. f \in [0 .. b.size - 1 -> Byte]
  BY DEF WellFormed, Buffers, readable_bytes
<1> HIDE DEF c, f
<1>3. WellFormed(c)
  BY <1>1, <1>2, FieldsWellFormed, ReadableIsSeq DEF WellFormed, Buffers, readable_bytes
<1>4. readable_bytes(c) = readable_bytes(b)
  BY <1>1, ReadableIsSeq DEF readable_bytes
<1>5. ASSUME NEW i \in 1 .. readable_bytes(b)
      PROVE  to_string_piece(c)[i] = to_string_piece(b)[i]
  <2>1. i - 1 \in 0 .. b.size - 1 /\ i - 1 < readable_bytes(b)
    BY DEF WellFormed, Buffers, readable_bytes
  <2>2. f[i - 1] = b.bytes[b.reader + (i - 1)]
    BY <2>1 DEF f
  <2>3. b.reader + (i - 1) = b.reader + i - 1 /\ 0 + i - 1 = i - 1
    BY DEF WellFormed, Buffers
  <2>4. to_string_piece(c)[i] = f[0 + i - 1]
    BY <1>1, <1>3, <1>4, ReadableIsSeq
  <2> QED
    BY <2>2, <2>3, <2>4, ReadableIsSeq
<1>6. to_string_piece(c) = to_string_piece(b)
  BY <1>3, <1>4, <1>5, ReadableIsSeq, SeqEqual
<1> QED
  BY <1>1, <1>3, <1>6 DEF c

(* make_space makes enough room and keeps the readable bytes.              *)
LEMMA SpaceIsMade ==
  ASSUME NEW b, WellFormed(b), NEW len \in Nat, writeable_bytes(b) < len
  PROVE  /\ WellFormed(make_space(b, len))
         /\ len <= writeable_bytes(make_space(b, len))
         /\ to_string_piece(make_space(b, len)) = to_string_piece(b)
<1>0. /\ b.size \in Nat /\ b.writer \in Nat /\ b.reader \in Nat
      /\ b.writer + len \in Nat /\ b.size <= b.writer + len
  BY DEF WellFormed, Buffers, writeable_bytes
<1>1. CASE writeable_bytes(b) + b.reader < len
  <2>1. make_space(b, len) = resize(b, b.writer + len)
    BY <1>1 DEF make_space
  <2> QED
    BY <1>0, <2>1, ResizeKeeps DEF writeable_bytes
<1>2. CASE ~(writeable_bytes(b) + b.reader < len)
  <2>1. make_space(b, len) = move_to_front(b)
    BY <1>2 DEF make_space
  <2> QED
    BY <1>0, <1>2, <2>1, MoveKeeps DEF writeable_bytes, readable_bytes
<1> QED
  BY <1>1, <1>2

(* ensure_writeable_bytes does what its name says and nothing else.        *)
LEMMA EnsuredIsWriteable ==
  ASSUME NEW b, WellFormed(b), NEW len \in Nat
  PROVE  /\ WellFormed(ensure_writeable_bytes(b, len))
         /\ len <= writeable_bytes(ensure_writeable_bytes(b, len))
         /\ to_string_piece(ensure_writeable_bytes(b, len)) = to_string_piece(b)
<1>1. CASE writeable_bytes(b) < len
  BY <1>1, SpaceIsMade DEF ensure_writeable_bytes
<1>2. CASE ~(writeable_bytes(b) < len)
  BY <1>2, ReadableIsSeq DEF ensure_writeable_bytes
<1> QED
  BY <1>1, <1>2

(* append adds the bytes, whatever room there is.                          *)
LEMMA AppendAdds ==
  ASSUME NEW b, WellFormed(b), NEW s \in Seq(Byte)
  PROVE  /\ WellFormed(append(b, s))
         /\ to_string_piece(append(b, s)) = to_string_piece(b) \o s
<1> DEFINE c == ensure_writeable_bytes(b, Len(s))
<1>1. /\ WellFormed(c) /\ Len(s) <= writeable_bytes(c)
      /\ to_string_piece(c) = to_string_piece(b)
  BY EnsuredIsWriteable
<1> HIDE DEF c
<1> QED
  BY <1>1, WrittenBytesFollow DEF append, c

(* read_fd adds what was read, also what went to extra_buf.                *)
LEMMA ReadAdds ==
  ASSUME NEW b, WellFormed(b), NEW s \in Seq(Byte)
  PROVE  /\ WellFormed(read_fd(b, s))
         /\ to_string_piece(read_fd(b, s)) = to_string_piece(b) \o s
<1> DEFINE n == writeable_bytes(b)
<1>0. n \in Nat
  BY ReadableIsSeq
<1>1. CASE Len(s) <= n
  BY <1>1, WrittenBytesFollow DEF read_fd
<1>2. CASE ~(Len(s) <= n)
  <2> DEFINE s1 == SubSeq(s, 1, n)
             s2 == SubSeq(s, n + 1, Len(s))
             c  == has_written(b, s1)
  <2> HIDE DEF n
  <2>1. s1 \in Seq(Byte) /\ Len(s1) = n /\ s2 \in Seq(Byte)
    BY <1>0, <1>2
  <2>2. s1 \o s2 = s
    <3>1. Len(s2) = Len(s) - n
      BY <1>0, <1>2
    <3>2. \A i \in 1 .. n : s1[i] = s[i]
      BY <1>0, <1>2
    <3>3. \A i \in 1 .. Len(s) - n : s2[i] = s[n + i]
      BY <1>0, <1>2
    <3> HIDE DEF s1, s2
    <3>4. s1 \o s2 \in Seq(Byte) /\ Len(s1 \o s2) = Len(s)
      BY <1>0, <2>1, <3>1
    <3>5. ASSUME NEW i \in 1 .. Len(s) PROVE (s1 \o s2)[i] = s[i]
      <4>1. CASE i <= n
        BY <1>0, <2>1, <3>2, <4>1
      <4>2. CASE ~(i <= n)
        <5>1. i - n \in 1 .. Len(s) - n /\ n + (i - n) = i
          BY <1>0, <4>2
        <5>2. s2[i - n] = s[i]
          BY <3>3, <5>1
        <5>3. (s1 \o s2)[i] = s2[i - n]
          BY <1>0, <2>1, <3>1, <4>2
        <5> QED
          BY <5>2, <5>3
      <4> QED
        BY <4>1, <4>2
    <3> QED
      BY <3>4, <3>5, SeqEqual
  <2> HIDE DEF s1, s2
  <2>3. WellFormed(c) /\ to_string_piece(c) = to_string_piece(b) \o s1
    BY <1>0, <2>1, WrittenBytesFollow, SMTT(30) DEF n
  <2> HIDE DEF c
  <2>4. /\ WellFormed(append(c, s2))
        /\ to_string_piece(append(c, s2)) = to_string_piece(c) \o s2
    BY <2>1, <2>3, AppendAdds
  <2>5. read_fd(b, s) = append(c, s2)
    BY <1>2 DEF read_fd, c, s1, s2, n
  <2>6. (to_string_piece(b) \o s1) \o s2 = to_string_piece(b) \o (s1 \o s2)
    BY <2>1, ReadableIsSeq, SMTT(30)
  <2> QED
    BY <2>2, <2>3, <2>4, <2>5, <2>6
<1> QED
  BY <1>1, <1>2

(* shrink copies the readable bytes.                                       *)
LEMMA ShrinkKeeps ==
  ASSUME NEW b, WellFormed(b), NEW reserve \in Nat
  PROVE  /\ WellFormed(shrink(b, reserve))
         /\ to_string_piece(shrink(b, reserve)) = to_string_piece(b)
<1> DEFINE c == ensure_writeable_bytes(NewBuffer(InitSpace), readable_bytes(b) + reserve)
<1>1. readable_bytes(b) + reserve \in Nat /\ to_string_piece(b) \in Seq(Byte)
  BY ReadableIsSeq
<1>2. WellFormed(c) /\ to_string_piece(c) = <<>>
  BY <1>1, NewIsEmpty, EnsuredIsWriteable, BufferAssumption
<1> HIDE DEF c
<1>3. /\ WellFormed(append(c, to_string_piece(b)))
      /\ to_string_piece(append(c, to_string_piece(b))) = <<>> \o to_string_piece(b)
  BY <1>1, <1>2, AppendAdds
<1>4. <<>> \o to_string_piece(b) = to_string_piece(b)
  BY <1>1
<1> QED
  BY <1>3, <1>4 DEF shrink, c

(* retrieve takes bytes off the front, all of them if there are not more.  *)
LEMMA RetrieveTakes ==
  ASSUME NEW b, WellFormed(b), NEW n \in Nat
  PROVE  /\ WellFormed(retrieve(b, n))
         /\ to_string_piece(retrieve(b, n))
              = SubSeq(to_string_piece(b), n + 1, Len(to_string_piece(b)))
<1> DEFINE c == retrieve(b, n)
<1>1. CASE n < readable_bytes(b)
  <2>1. c = [size |-> b.size, bytes |-> b.bytes, reader |-> b.reader + n, writer |-> b.writer]
    BY <1>1 DEF retrieve, WellFormed, Buffers
  <2>2. WellFormed(c)
    BY <1>1, <2>1, FieldsWellFormed DEF WellFormed, Buffers, readable_bytes
  <2>3. readable_bytes(c) = readable_bytes(b) - n
    BY <2>1 DEF readable_bytes, WellFormed, Buffers
  <2>4. \A i \in 1 .. readable_bytes(c) : to_string_piece(c)[i] = to_string_piece(b)[n + i]
    <3> TAKE i \in 1 .. readable_bytes(c)
    <3> HIDE DEF c
    <3>1. n + i \in 1 .. readable_bytes(b)
      BY <1>1, <2>3, ReadableIsSeq
    <3>3. b.reader + n + i - 1 = b.reader + (n + i) - 1
      BY DEF WellFormed, Buffers
    <3>2. to_string_piece(c)[i] = b.bytes[b.reader + n + i - 1]
      BY <2>1, <2>2, ReadableIsSeq
    <3> QED
      BY <3>1, <3>2, <3>3, ReadableIsSeq
  <2>5. to_string_piece(c) = SubSeq(to_string_piece(b), n + 1, Len(to_string_piece(b)))
    <3> DEFINE t == SubSeq(to_string_piece(b), n + 1, Len(to_string_piece(b)))
    <3> HIDE DEF c
    <3>1. t \in Seq(Byte) /\ Len(t) = readable_bytes(c)
      BY <1>1, <2>3, ReadableIsSeq
    <3>2. \A i \in 1 .. readable_bytes(c) : t[i] = to_string_piece(b)[n + i]
      BY <1>1, <2>3, ReadableIsSeq
    <3> HIDE DEF t
    <3>3. to_string_piece(c) = t
      BY <2>2, <2>4, <3>1, <3>2, ReadableIsSeq, SeqEqual
    <3> QED
      BY <3>3 DEF t
  <2> QED
    BY <2>2, <2>5
<1>2. CASE ~(n < readable_bytes(b))
  <2>1. c = [size |-> b.size, bytes |-> b.bytes, reader |-> 0, writer |-> 0]
    BY <1>2 DEF retrieve, retrieve_all, WellFormed, Buffers
  <2>2. WellFormed(c) /\ readable_bytes(c) = 0
    BY <2>1, FieldsWellFormed DEF WellFormed, Buffers, readable_bytes
  <2> QED
    BY <1>2, <2>2, ReadableIsSeq
<1> QED
  BY <1>1, <1>2

(* unwrite takes bytes off the end.                                        *)
LEMMA UnwriteTakes ==
  ASSUME NEW b, WellFormed(b), NEW n \in Nat, n <= readable_bytes(b)
  PROVE  /\ WellFormed(unwrite(b, n))
         /\ to_string_piece(unwrite(b, n))
              = SubSeq(to_string_piece(b), 1, Len(to_string_piece(b)) - n)
<1> DEFINE c == unwrite(b, n)
<1>1. c = [size |-> b.size, bytes |-> b.bytes, reader |-> b.reader, writer |-> b.writer - n]
  BY DEF unwrite, WellFormed, Buffers
<1>2. WellFormed(c)
  BY <1>1, FieldsWellFormed DEF WellFormed, Buffers, readable_bytes
<1>3. readable_bytes(c) = readable_bytes(b) - n
  BY <1>1 DEF readable_bytes, WellFormed, Buffers
<1>4. \A i \in 1 .. readable_bytes(c) : to_string_piece(c)[i] = to_string_piece(b)[i]
  BY <1>1, <1>2, <1>3, ReadableIsSeq, SMTT(30)
<1>5. to_string_piece(c) = SubSeq(to_string_piece(b), 1, Len(to_string_piece(b)) - n)
  BY <1>2, <1>3, <1>4, ReadableIsSeq
<1> QED
  BY <1>2, <1>5

-----------------------------------------------------------------------------
(* The inductive invariant: the record is well formed, and what can be     *)
(* read is what was put in and not taken out.                              *)
BufferInv ==
  /\ WellFormed(buffer)
  /\ to_string_piece(buffer) = unread
  /\ put \in 0 .. MaxPut

(* The bytes that are put in are bytes.                                    *)
LEMMA FreshAreBytes ==
  ASSUME put \in 0 .. MaxPut, NEW n \in Nat, put + n <= MaxPut
  PROVE  Fresh(n) \in Seq(Byte) /\ Len(Fresh(n)) = n
BY BufferAssumption DEF Fresh, Byte

(* A buffer starts empty.                                                  *)
LEMMA BufferInvInit == BufferInit => BufferInv
BY NewIsEmpty, BufferAssumption DEF BufferInit, BufferInv

(* Every operation keeps the invariant.                                    *)
LEMMA BufferInvStep == BufferInv /\ [BufferNext]_bufferVars => BufferInv'
<1> SUFFICES ASSUME BufferInv, [BufferNext]_bufferVars PROVE BufferInv'
  OBVIOUS
<1> USE DEF BufferInv
<1>0. 0 .. MaxPut \subseteq Nat
  BY BufferAssumption
<1>1. ASSUME NEW n \in 0 .. MaxPut, AppendBytes(n) PROVE BufferInv'
  <2>1. put + n <= MaxPut /\ put' \in 0 .. MaxPut /\ Fresh(n) \in Seq(Byte)
    BY <1>0, <1>1, FreshAreBytes DEF AppendBytes, Put
  <2> QED
    BY <1>1, <2>1, AppendAdds DEF AppendBytes, Put
<1>2. ASSUME NEW n \in 0 .. MaxPut, ReadFd(n) PROVE BufferInv'
  <2>1. put + n <= MaxPut /\ put' \in 0 .. MaxPut /\ Fresh(n) \in Seq(Byte)
    BY <1>0, <1>2, FreshAreBytes DEF ReadFd, Put
  <2> QED
    BY <1>2, <2>1, ReadAdds DEF ReadFd, Put
<1>3. ASSUME NEW n \in 0 .. MaxPut, Retrieve(n) PROVE BufferInv'
  BY <1>0, <1>3, RetrieveTakes DEF Retrieve
<1>4. ASSUME NEW n \in 0 .. MaxPut, Unwrite(n) PROVE BufferInv'
  BY <1>0, <1>4, UnwriteTakes DEF Unwrite
<1>5. ASSUME NEW n \in 0 .. MaxPut, Shrink(n) PROVE BufferInv'
  BY <1>0, <1>5, ShrinkKeeps DEF Shrink
<1>6. CASE UNCHANGED bufferVars
  BY <1>6 DEF bufferVars
<1> QED
  BY <1>1, <1>2, <1>3, <1>4, <1>5, <1>6 DEF BufferNext

(* Whatever a connection does with its Buffer, and whatever init_space and *)
(* the size of extra_buf are, its readable bytes are those put in and not  *)
(* taken out, in order, and the indexes stay inside the vector.            *)
THEOREM BytesInOrder == BufferSpec => []BufferIsQueue
<1>1. BufferInv => BufferIsQueue
  BY DEF BufferInv, WellFormed, BufferIsQueue
<1> QED
  BY <1>1, BufferInvInit, BufferInvStep, PTL DEF BufferSpec

-----------------------------------------------------------------------------
(* ThreadPool.                                                             *)

(* The workers that will look at queue_, or at running_, before they sleep.*)
Awake(pc) == {w \in Workers : pc[w] \in {"check", "take", "signalled", "task"}}

(* Where the owner is and how many threads there are: each was created in  *)
(* its turn, and the ones joined are over.                                 *)
OwnerInv ==
  /\ opc = "new" => created = 0
  /\ opc = "starting" => created < numThreads
  /\ opc \in {"stopped", "destroyed"} => joined = created
  /\ \A w \in Workers : w > created => wpc[w] = "none"
  /\ \A w \in Workers : w <= joined => wpc[w] = "finished"

(* Nobody sleeps in a pool that is stopped.                                *)
SleepInv == waiting(wpc) # {} => running

(* A worker that calls a task has one.                                     *)
BusyInv == \A w \in Workers : wpc[w] = "task" => task[w] \in Tasks

(* TasksHaveWorkers, in terms of Awake.                                    *)
Enough == waiting(wpc) # {} => Len(queue) <= Cardinality(Awake(wpc))

PoolInv == PoolTypeOK /\ OwnerInv /\ SleepInv /\ BusyInv /\ Enough

(* Workers are finitely many, so those awake can be counted.               *)
LEMMA AwakeFinite ==
  ASSUME NEW pc
  PROVE  IsFiniteSet(Awake(pc)) /\ Cardinality(Awake(pc)) \in Nat
<1>1. IsFiniteSet(Workers)
  BY FS_Interval, PoolAssumption DEF Workers
<1>2. Awake(pc) \in SUBSET Workers
  BY DEF Awake
<1> QED
  BY <1>1, <1>2, FS_Subset, FS_CardinalityType

(* As long as nobody falls asleep, at least as many are awake.             *)
LEMMA AwakeGrows ==
  ASSUME NEW pc, NEW qc, Awake(pc) \subseteq Awake(qc)
  PROVE  Cardinality(Awake(pc)) <= Cardinality(Awake(qc))
BY AwakeFinite, FS_Subset

(* A sleeper that is signalled is one more.                                *)
LEMMA AwakeOneMore ==
  ASSUME NEW pc, NEW w \in Workers, DOMAIN pc = Workers, pc[w] = "waiting"
  PROVE  Cardinality(Awake([pc EXCEPT ![w] = "signalled"])) = Cardinality(Awake(pc)) + 1
<1>1. Awake([pc EXCEPT ![w] = "signalled"]) = Awake(pc) \cup {w} /\ w \notin Awake(pc)
  BY DEF Awake
<1> QED
  BY <1>1, AwakeFinite, FS_AddElement

LEMMA EnoughIsTasksHaveWorkers == Enough <=> TasksHaveWorkers
BY DEF Enough, TasksHaveWorkers, Awake

(* notify() changes at most one thread, from waiting to signalled.         *)
LEMMA NotifyOne ==
  ASSUME NEW pc, NEW qc \in notify(pc)
  PROVE  \/ qc = pc /\ waiting(pc) = {}
         \/ \E t \in waiting(pc) : qc = [pc EXCEPT ![t] = "signalled"]
BY DEF notify

-----------------------------------------------------------------------------
LEMMA EmptySeq == \A S : <<>> \in Seq(S)
OBVIOUS

LEMMA PoolInvInit == PoolInit => PoolInv
<1> SUFFICES ASSUME PoolInit PROVE PoolInv
  OBVIOUS
<1>1. PoolTypeOK
  <2>1. /\ maxQueueSize \in QueueSizes \cup {0} /\ numThreads \in 0 .. MaxThreads
        /\ created \in 0 .. numThreads /\ joined \in 0 .. created /\ accepted \in 0 .. MaxTasks
    BY PoolAssumption DEF PoolInit
  <2> QED
    BY <2>1, EmptySeq DEF PoolInit, PoolTypeOK
<1>2. waiting(wpc) = {}
  BY DEF PoolInit, waiting
<1>3. OwnerInv
  BY DEF PoolInit, OwnerInv, Workers
<1> QED
  BY <1>1, <1>2, <1>3 DEF PoolInv, SleepInv, Enough, BusyInv, PoolInit, Workers

(* A step that lengthens no queue and puts nobody to sleep.                *)
LEMMA EnoughKept ==
  ASSUME Enough, Len(queue) \in Nat, Len(queue') \in Nat, Len(queue') <= Len(queue),
         waiting(wpc') \subseteq waiting(wpc), Awake(wpc) \subseteq Awake(wpc')
  PROVE  Enough'
<1>1. Cardinality(Awake(wpc)) <= Cardinality(Awake(wpc'))
  BY AwakeGrows
<1>2. waiting(wpc') # {} => Len(queue) <= Cardinality(Awake(wpc))
  BY DEF Enough
<1>3. Cardinality(Awake(wpc)) \in Nat /\ Cardinality(Awake(wpc')) \in Nat
  BY AwakeFinite
<1> QED
  BY <1>1, <1>2, <1>3 DEF Enough

LEMMA StartKeeps ==
  ASSUME PoolInv, NEW n \in 0 .. MaxThreads, NEW size \in QueueSizes, start(n, size)
  PROVE  PoolInv'
<1> USE DEF PoolInv, start
<1>1. PoolTypeOK'
  BY PoolAssumption DEF PoolTypeOK, OwnerInv
<1>2. OwnerInv'
  BY PoolAssumption DEF PoolTypeOK, OwnerInv, Workers
<1>3. SleepInv'
  BY DEF SleepInv
<1>4. Enough'
  BY DEF Enough
<1> QED
  BY <1>1, <1>2, <1>3, <1>4 DEF BusyInv

LEMMA StartThreadKeeps ==
  ASSUME PoolInv, StartThread
  PROVE  PoolInv'
<1> USE DEF PoolInv, StartThread
<1>0. created' \in Workers /\ created' \in 1 .. numThreads /\ wpc[created'] = "none"
      /\ DOMAIN wpc = Workers
  BY PoolAssumption DEF PoolTypeOK, OwnerInv, Workers
<1>1. PoolTypeOK'
  BY <1>0, PoolAssumption DEF PoolTypeOK, Workers
<1>2. OwnerInv'
  BY <1>0, PoolAssumption DEF PoolTypeOK, OwnerInv, Workers
<1>3. waiting(wpc') \subseteq waiting(wpc) /\ Awake(wpc) \subseteq Awake(wpc')
  BY <1>0 DEF waiting, Awake
<1>4. Enough'
  <2>1. Enough /\ Len(queue) \in Nat
    BY DEF PoolTypeOK
  <2>2. Len(queue') \in Nat /\ Len(queue') <= Len(queue)
    BY <2>1
  <2> HIDE DEF PoolInv
  <2> QED
    BY <1>3, <2>1, <2>2, EnoughKept
<1> QED
  BY <1>1, <1>2, <1>3, <1>4 DEF SleepInv, BusyInv, PoolTypeOK

LEMMA StopKeeps ==
  ASSUME PoolInv, stop
  PROVE  PoolInv'
<1> USE DEF PoolInv, stop
<1>1. PoolTypeOK'
  BY DEF PoolTypeOK, notifyAll
<1>2. OwnerInv'
  BY DEF PoolTypeOK, OwnerInv, notifyAll
<1>3. waiting(wpc') = {}
  BY DEF waiting, notifyAll
<1>4. BusyInv'
  BY DEF BusyInv, PoolTypeOK, notifyAll
<1>5. SleepInv' /\ Enough'
  BY <1>3 DEF SleepInv, Enough
<1> QED
  BY <1>1, <1>2, <1>4, <1>5

LEMMA JoinKeeps ==
  ASSUME PoolInv, join
  PROVE  PoolInv'
<1> USE DEF PoolInv, join
<1>1. PoolTypeOK'
  BY PoolAssumption DEF PoolTypeOK
<1>2. OwnerInv'
  BY PoolAssumption DEF PoolTypeOK, OwnerInv, Workers
<1> QED
  BY <1>1, <1>2 DEF SleepInv, Enough, BusyInv

LEMMA DestroyKeeps ==
  ASSUME PoolInv, Destroy
  PROVE  PoolInv'
<1> USE DEF PoolInv, Destroy
<1>1. PoolTypeOK'
  BY DEF PoolTypeOK
<1>2. OwnerInv'
  BY PoolAssumption DEF PoolTypeOK, OwnerInv
<1> QED
  BY <1>1, <1>2 DEF SleepInv, Enough, BusyInv

LEMMA RunKeeps ==
  ASSUME PoolInv, NEW p \in Producers, run(p)
  PROVE  PoolInv'
<1> USE DEF PoolInv
<1>0. /\ UNCHANGED <<opc, numThreads, created, joined, maxQueueSize, running, task>>
      /\ accepted < MaxTasks
  BY DEF run, ownerVars
<1>1. CASE created > 0 /\ isFull
  <2>1. ppc' = [ppc EXCEPT ![p] = "waiting"] /\ UNCHANGED <<queue, wpc, accepted, ran>>
    BY <1>1 DEF run
  <2>2. PoolTypeOK'
    BY <1>0, <2>1 DEF PoolTypeOK
  <2> QED
    BY <1>0, <2>1, <2>2 DEF OwnerInv, SleepInv, BusyInv, Enough
<1>2. CASE ~(created > 0 /\ isFull) /\ created = 0
  <2>1. /\ ppc' = [ppc EXCEPT ![p] = "idle"] /\ accepted' = accepted + 1
        /\ ran' = ran \cup {accepted'} /\ UNCHANGED <<queue, wpc>>
    BY <1>2 DEF run
  <2>2. PoolTypeOK'
    BY <1>0, <2>1, PoolAssumption DEF PoolTypeOK, Tasks
  <2> QED
    BY <1>0, <2>1, <2>2 DEF OwnerInv, SleepInv, BusyInv, Enough
<1>3. CASE ~(created > 0 /\ isFull) /\ created # 0
  <2>1. /\ ppc' = [ppc EXCEPT ![p] = "idle"] /\ accepted' = accepted + 1
        /\ queue' = Append(queue, accepted') /\ wpc' \in notify(wpc) /\ UNCHANGED ran
    BY <1>3 DEF run, notEmpty_notify
  <2>2. accepted' \in Tasks /\ accepted' \in 0 .. MaxTasks /\ queue' \in Seq(Tasks)
        /\ Len(queue') = Len(queue) + 1 /\ Len(queue) \in Nat
    BY <1>0, <2>1, PoolAssumption DEF PoolTypeOK, Tasks
  <2>3. CASE wpc' = wpc /\ waiting(wpc) = {}
    <3>1. PoolTypeOK'
      BY <1>0, <2>1, <2>2, <2>3 DEF PoolTypeOK
    <3> QED
      BY <1>0, <2>1, <2>3, <3>1 DEF OwnerInv, SleepInv, BusyInv, Enough
  <2>4. CASE \E t \in waiting(wpc) : wpc' = [wpc EXCEPT ![t] = "signalled"]
    <3>1. PICK t \in waiting(wpc) : wpc' = [wpc EXCEPT ![t] = "signalled"]
      BY <2>4
    <3>2. t \in Workers /\ wpc[t] = "waiting" /\ DOMAIN wpc = Workers
      BY <3>1 DEF waiting, PoolTypeOK
    <3>3. PoolTypeOK'
      BY <1>0, <2>1, <2>2, <3>1, <3>2 DEF PoolTypeOK
    <3>4. OwnerInv'
      BY <1>0, <3>1, <3>2 DEF OwnerInv, PoolTypeOK
    <3>5. waiting(wpc) # {} /\ running'
      BY <1>0, <3>1 DEF SleepInv
    <3>6. Len(queue) <= Cardinality(Awake(wpc)) /\ Cardinality(Awake(wpc)) \in Nat
      BY <3>5, AwakeFinite DEF Enough
    <3>7. Len(queue') <= Cardinality(Awake(wpc'))
      <4>1. Cardinality(Awake(wpc')) = Cardinality(Awake(wpc)) + 1
        BY <3>1, <3>2, AwakeOneMore
      <4> QED
        BY <2>2, <3>6, <4>1
    <3> QED
      BY <3>3, <3>4, <3>5, <1>0, <3>1, <3>2, <3>7 DEF SleepInv, Enough, BusyInv
  <2> QED
    BY <2>1, <2>3, <2>4, NotifyOne
<1> QED
  BY <1>1, <1>2, <1>3

LEMMA WorkerKeeps ==
  ASSUME PoolInv, NEW w \in Workers, WorkerStep(w)
  PROVE  PoolInv'
<1> USE DEF PoolInv
<1>0. /\ UNCHANGED <<opc, numThreads, created, joined, maxQueueSize, running, accepted>>
      /\ DOMAIN wpc = Workers /\ created \in Nat /\ joined \in Nat
      /\ queue \in Seq(Tasks) /\ Len(queue) \in Nat
  BY DEF WorkerStep, CheckRunning, take, CallTask, ownerVars, PoolTypeOK
<1>1. CASE CheckRunning(w)
  <2> USE <1>1 DEF CheckRunning
  <2>1. PoolTypeOK'
    BY <1>0 DEF PoolTypeOK
  <2>2. OwnerInv'
    BY <1>0 DEF OwnerInv, PoolTypeOK, Workers
  <2>3. waiting(wpc') = waiting(wpc)
    BY <1>0 DEF waiting
  <2>4. Enough'
    <3>1. CASE running
      <4>1. Awake(wpc) \subseteq Awake(wpc')
        BY <1>0, <3>1 DEF Awake
      <4> QED
        <5>1. Enough /\ Len(queue) \in Nat
          BY DEF PoolTypeOK
        <5>2. Len(queue') \in Nat /\ Len(queue') <= Len(queue)
          BY <5>1, <1>0
        <5> HIDE DEF PoolInv
        <5> QED
          BY <1>0, <2>3, <4>1, <5>1, <5>2, EnoughKept
    <3>2. CASE ~running
      BY <2>3, <3>2 DEF SleepInv, Enough, BusyInv
    <3> QED
      BY <3>1, <3>2
  <2> QED
    BY <1>0, <2>1, <2>2, <2>3, <2>4 DEF SleepInv, BusyInv, PoolTypeOK
<1>2. CASE take(w) /\ queue = <<>>
  <2>1. /\ wpc' = [wpc EXCEPT ![w] = IF running THEN "waiting" ELSE "check"]
        /\ wpc[w] \in {"take", "signalled"} /\ UNCHANGED <<queue, task, ppc, ran>>
    BY <1>2 DEF take
  <2>2. PoolTypeOK'
    BY <1>0, <2>1 DEF PoolTypeOK
  <2>3. OwnerInv'
    BY <1>0, <2>1 DEF OwnerInv, PoolTypeOK, Workers
  <2>4. SleepInv'
    BY <1>0, <2>1 DEF SleepInv, waiting
  <2>5. Len(queue') = 0
    BY <1>2, <2>1
  <2>6. Enough'
    BY <2>5, AwakeFinite DEF Enough
  <2>7. BusyInv'
    BY <1>0, <2>1 DEF BusyInv
  <2> QED
    BY <2>2, <2>3, <2>4, <2>6, <2>7
<1>3. CASE take(w) /\ queue # <<>>
  <2>1. /\ wpc' = [wpc EXCEPT ![w] = "task"]
        /\ task' = [task EXCEPT ![w] = Head(queue)]
        /\ queue' = Tail(queue) /\ ppc' \in notFull_notify
        /\ wpc[w] \in {"take", "signalled"} /\ UNCHANGED ran
    BY <1>3 DEF take
  <2>2. ppc' \in [Producers -> {"idle", "waiting", "signalled"}]
    BY <2>1, NotifyOne DEF notFull_notify, waiting, PoolTypeOK
  <2>3. Head(queue) \in Tasks /\ queue' \in Seq(Tasks) /\ Len(queue') = Len(queue) - 1
    BY <1>0, <1>3, <2>1
  <2>4. PoolTypeOK'
    BY <1>0, <2>1, <2>2, <2>3 DEF PoolTypeOK
  <2>5. OwnerInv'
    BY <1>0, <2>1 DEF OwnerInv, PoolTypeOK, Workers
  <2>6. waiting(wpc') = waiting(wpc) /\ Awake(wpc) \subseteq Awake(wpc')
    BY <1>0, <2>1 DEF waiting, Awake
  <2>7. Enough'
    <3>1. Enough /\ Len(queue) \in Nat
      BY DEF PoolTypeOK
    <3>2. Len(queue') \in Nat /\ Len(queue') <= Len(queue)
      BY <3>1, <1>0, <2>3
    <3> HIDE DEF PoolInv
    <3> QED
      BY <1>0, <2>3, <2>6, <3>1, <3>2, EnoughKept
  <2>8. BusyInv'
    BY <1>0, <2>1, <2>3 DEF BusyInv, PoolTypeOK
  <2> QED
    BY <1>0, <2>4, <2>5, <2>6, <2>7, <2>8 DEF SleepInv
<1>4. CASE CallTask(w)
  <2> USE <1>4 DEF CallTask
  <2>1. PoolTypeOK'
    <3>1. task[w] \in Tasks
      BY DEF BusyInv
    <3> QED
      BY <1>0, <3>1 DEF PoolTypeOK
  <2>2. OwnerInv'
    BY <1>0 DEF OwnerInv, PoolTypeOK, Workers
  <2>3. waiting(wpc') = waiting(wpc) /\ Awake(wpc) \subseteq Awake(wpc')
    BY <1>0 DEF waiting, Awake
  <2>4. Enough'
    <3>1. Enough /\ Len(queue) \in Nat
      BY DEF PoolTypeOK
    <3>2. Len(queue') \in Nat /\ Len(queue') <= Len(queue)
      BY <3>1, <1>0
    <3> HIDE DEF PoolInv
    <3> QED
      BY <1>0, <2>3, <3>1, <3>2, EnoughKept
  <2> QED
    BY <1>0, <2>1, <2>2, <2>3, <2>4 DEF SleepInv, BusyInv, PoolTypeOK
<1> QED
  BY <1>1, <1>2, <1>3, <1>4 DEF WorkerStep

LEMMA WakeupKeeps ==
  ASSUME PoolInv, SpuriousWakeup
  PROVE  PoolInv'
<1> USE DEF PoolInv
<1>0. /\ UNCHANGED <<opc, numThreads, created, joined, maxQueueSize, running, queue, task,
                     accepted, ran>>
      /\ DOMAIN wpc = Workers /\ Len(queue) \in Nat
  BY DEF SpuriousWakeup, ownerVars, PoolTypeOK
<1>1. CASE \E w \in waiting(wpc) : wpc' = [wpc EXCEPT ![w] = "signalled"] /\ UNCHANGED ppc
  <2>1. PICK w \in waiting(wpc) : wpc' = [wpc EXCEPT ![w] = "signalled"] /\ UNCHANGED ppc
    BY <1>1
  <2>2. w \in Workers /\ wpc[w] = "waiting"
    BY <1>0, <2>1 DEF waiting
  <2>3. PoolTypeOK'
    BY <1>0, <2>1, <2>2 DEF PoolTypeOK
  <2>4. OwnerInv'
    BY <1>0, <2>1, <2>2 DEF OwnerInv, PoolTypeOK
  <2>5. waiting(wpc') \subseteq waiting(wpc) /\ Awake(wpc) \subseteq Awake(wpc')
    BY <1>0, <2>1, <2>2 DEF waiting, Awake
  <2>6. Enough'
    <3>1. Enough /\ Len(queue) \in Nat
      BY DEF PoolTypeOK
    <3>2. Len(queue') \in Nat /\ Len(queue') <= Len(queue)
      BY <3>1, <1>0
    <3> HIDE DEF PoolInv
    <3> QED
      BY <1>0, <2>5, <3>1, <3>2, EnoughKept
  <2>7. BusyInv'
    BY <1>0, <2>1, <2>2 DEF BusyInv
  <2> QED
    BY <1>0, <2>3, <2>4, <2>5, <2>6, <2>7 DEF SleepInv
<1>2. CASE \E p \in waiting(ppc) : ppc' = [ppc EXCEPT ![p] = "signalled"] /\ UNCHANGED wpc
  <2>1. PoolTypeOK'
    BY <1>0, <1>2 DEF PoolTypeOK, waiting
  <2> QED
    BY <1>0, <1>2, <2>1 DEF OwnerInv, SleepInv, BusyInv, Enough
<1> QED
  BY <1>1, <1>2 DEF SpuriousWakeup

LEMMA PoolInvStep == PoolInv /\ [PoolNext]_poolVars => PoolInv'
<1> SUFFICES ASSUME PoolInv, [PoolNext]_poolVars PROVE PoolInv'
  OBVIOUS
<1>1. CASE \E n \in 0 .. MaxThreads, size \in QueueSizes : start(n, size)
  BY <1>1, StartKeeps
<1>2. CASE OwnerStep
  BY <1>2, StartThreadKeeps, JoinKeeps DEF OwnerStep
<1>3. CASE stop
  BY <1>3, StopKeeps
<1>4. CASE Destroy
  BY <1>4, DestroyKeeps
<1>5. CASE \E p \in Producers : run(p)
  BY <1>5, RunKeeps
<1>6. CASE \E w \in Workers : WorkerStep(w)
  BY <1>6, WorkerKeeps
<1>7. CASE SpuriousWakeup
  BY <1>7, WakeupKeeps
<1>8. CASE UNCHANGED poolVars
  BY <1>8 DEF poolVars, ownerVars, PoolInv, PoolTypeOK, OwnerInv, SleepInv, BusyInv,
              Enough
<1> QED
  BY <1>1, <1>2, <1>3, <1>4, <1>5, <1>6, <1>7, <1>8 DEF PoolNext

(* Once ~ThreadPool has returned, every thread of the pool has been joined.*)
LEMMA PoolInvOutlived == PoolInv => NoWorkerAfterDestroy
BY PoolAssumption DEF PoolInv, PoolTypeOK, OwnerInv, NoWorkerAfterDestroy, Workers

-----------------------------------------------------------------------------
(* EPollerThread.                                                          *)

(* How far the base thread is: it starts the threads in their order and    *)
(* hands out the loops of those that have published theirs.                *)
BaseInv ==
  /\ bpc = "new" => cur = 1
  /\ bpc \in {"start", "check"} => cur <= numLoops + 1
  /\ bpc \in {"wait", "quit", "join"} => cur <= numLoops
  /\ bpc \in {"new", "start"} => \A i \in Loops : i >= cur => tpc[i] = "none"
  /\ bpc = "wait" => \A i \in Loops : i > cur => tpc[i] = "none"
  /\ bpc \in {"new", "start", "wait"} => \A k \in DOMAIN epolls : epolls[k] < cur
  /\ bpc = "quit" => tpc[cur] \notin {"none", "begin"}
  /\ \A k \in DOMAIN epolls : tpc[epolls[k]] \notin {"none", "begin"}

(* The threads whose loop ~EPollerThread has called quit() on.             *)
ToldToQuit(i) ==
  /\ bpc \in {"check", "quit", "join", "destroyed"}
  /\ i < cur \/ (i = cur /\ bpc = "join")

(* A loop exists, and epoller_ points to it, from its construction to the  *)
(* end of threadFunc, which is only reached after a quit().                *)
ThreadInv ==
  \A i \in Loops :
    /\ alive[i] <=> tpc[i] \in {"enable", "poll", "epoll_wait", "clear"}
    /\ epoller[i] <=> alive[i]
    /\ tpc[i] \in {"clear", "finished"} => quit[i]
    /\ quit[i] => userQuit[i] \/ ToldToQuit(i)

LoopsInv == LoopsTypeOK /\ BaseInv /\ ThreadInv /\ \A i \in dead : userQuit[i]

LEMMA LoopsInvInit == LoopsInit => LoopsInv
<1> SUFFICES ASSUME LoopsInit PROVE LoopsInv
  OBVIOUS
<1>1. LoopsTypeOK
  <2>1. numLoops \in 0 .. MaxLoops /\ cur \in 1 .. MaxLoops + 1 /\ epolls \in Seq(Loops)
    BY LoopsAssumption, EmptySeq DEF LoopsInit
  <2> QED
    BY <2>1 DEF LoopsInit, LoopsTypeOK
<1>2. BaseInv
  BY DEF LoopsInit, BaseInv
<1>3. ThreadInv
  BY DEF LoopsInit, ThreadInv
<1> QED
  BY <1>1, <1>2, <1>3 DEF LoopsInv, LoopsInit

LEMMA StartPoolKeeps ==
  ASSUME LoopsInv, NEW n \in 0 .. MaxLoops, startPool(n)
  PROVE  LoopsInv'
<1> USE DEF LoopsInv, startPool
<1>1. LoopsTypeOK'
  BY DEF LoopsTypeOK
<1>2. BaseInv'
  BY LoopsAssumption DEF BaseInv, LoopsTypeOK
<1>3. ThreadInv'
  BY DEF ThreadInv, ToldToQuit
<1> QED
  BY <1>1, <1>2, <1>3

LEMMA BeginThreadKeeps ==
  ASSUME LoopsInv, startThread
  PROVE  LoopsInv'
<1> USE DEF LoopsInv
<1>0. /\ bpc = "start" /\ cur <= numLoops + 1
      /\ UNCHANGED <<numLoops, epolls, epoller, alive, quit, wake, userQuit, dead>>
      /\ cur \in Nat /\ numLoops \in 0 .. MaxLoops /\ MaxLoops \in Nat
      /\ \A k \in DOMAIN epolls : epolls[k] < cur /\ epolls[k] \in Loops
  BY LoopsAssumption DEF startThread, BaseInv, LoopsTypeOK
<1>1. CASE cur <= numLoops
  <2>1. tpc' = [tpc EXCEPT ![cur] = "begin"] /\ bpc' = "wait" /\ cur' = cur
    BY <1>1 DEF startThread
  <2>2. cur \in Loops /\ tpc[cur] = "none"
    BY <1>0, <1>1 DEF Loops, BaseInv, LoopsTypeOK
  <2>3. LoopsTypeOK'
    BY <1>0, <2>1, <2>2 DEF LoopsTypeOK
  <2>4. BaseInv'
    BY <1>0, <1>1, <2>1, <2>2 DEF BaseInv, LoopsTypeOK, Loops
  <2>5. ThreadInv'
    BY <1>0, <2>1, <2>2 DEF ThreadInv, ToldToQuit, LoopsTypeOK
  <2> QED
    BY <1>0, <2>3, <2>4, <2>5
<1>2. CASE ~(cur <= numLoops)
  <2>1. tpc' = tpc /\ bpc' = "started" /\ cur' = 1
    BY <1>2 DEF startThread
  <2>2. LoopsTypeOK'
    BY <1>0, <2>1 DEF LoopsTypeOK
  <2>3. BaseInv'
    BY <1>0, <2>1 DEF BaseInv
  <2>4. ThreadInv'
    BY <1>0, <2>1 DEF ThreadInv, ToldToQuit
  <2> QED
    BY <1>0, <2>2, <2>3, <2>4
<1> QED
  BY <1>1, <1>2

LEMMA StartEpollKeeps ==
  ASSUME LoopsInv, startEpoll
  PROVE  LoopsInv'
<1> USE DEF LoopsInv
<1>0. /\ bpc = "wait" /\ epoller[cur] /\ bpc' = "start" /\ cur' = cur + 1
      /\ epolls' = Append(epolls, cur)
      /\ UNCHANGED <<numLoops, epoller, alive, quit, wake, tpc, userQuit, dead>>
      /\ cur <= numLoops
      /\ cur \in Nat /\ cur >= 1 /\ numLoops \in 0 .. MaxLoops /\ MaxLoops \in Nat
      /\ epolls \in Seq(Loops)
      /\ \A k \in DOMAIN epolls : epolls[k] < cur /\ epolls[k] \in Loops
  BY LoopsAssumption DEF startEpoll, BaseInv, LoopsTypeOK
<1>1. cur \in Loops /\ tpc[cur] \notin {"none", "begin"}
  <2>1. cur \in Loops
    BY <1>0 DEF Loops
  <2> QED
    BY <1>0, <2>1 DEF ThreadInv
<1>2. /\ epolls' \in Seq(Loops)
      /\ \A k \in DOMAIN epolls' :
           (k \in DOMAIN epolls /\ epolls'[k] = epolls[k]) \/ epolls'[k] = cur
  BY <1>0, <1>1
<1>3. LoopsTypeOK'
  BY <1>0, <1>2 DEF LoopsTypeOK
<1>4. BaseInv'
  <2>1. \A k \in DOMAIN epolls' : epolls'[k] < cur' /\ tpc'[epolls'[k]] \notin {"none", "begin"}
    BY <1>0, <1>1, <1>2 DEF BaseInv, Loops
  <2>2. \A i \in Loops : i >= cur' => tpc'[i] = "none"
    BY <1>0 DEF BaseInv, Loops
  <2> QED
    BY <1>0, <2>1, <2>2 DEF BaseInv
<1>5. ThreadInv'
  BY <1>0 DEF ThreadInv, ToldToQuit
<1> QED
  BY <1>0, <1>3, <1>4, <1>5

LEMMA DestroyThreadKeeps ==
  ASSUME LoopsInv, DestroyThread
  PROVE  LoopsInv'
<1> USE DEF LoopsInv
<1>0. /\ bpc \in {"started", "check"}
      /\ UNCHANGED <<numLoops, epolls, epoller, alive, quit, wake, tpc, userQuit, dead>>
      /\ cur \in 1 .. MaxLoops + 1 /\ numLoops \in 0 .. MaxLoops /\ MaxLoops \in Nat
  BY LoopsAssumption DEF DestroyThread, LoopsTypeOK
<1>1. CASE cur > numLoops
  <2>1. bpc' = "destroyed" /\ cur' = cur
    BY <1>0, <1>1 DEF DestroyThread
  <2> QED
    BY <1>0, <2>1 DEF LoopsTypeOK, BaseInv, ThreadInv, ToldToQuit
<1>2. CASE cur <= numLoops /\ epoller[cur]
  <2>1. bpc' = "quit" /\ cur' = cur /\ cur \in Loops
    BY <1>0, <1>2 DEF DestroyThread, Loops
  <2>2. tpc[cur] \notin {"none", "begin"}
    BY <1>2, <2>1 DEF ThreadInv
  <2>3. LoopsTypeOK' /\ BaseInv'
    BY <1>0, <1>2, <2>1, <2>2 DEF LoopsTypeOK, BaseInv
  <2>4. ThreadInv'
    BY <1>0, <2>1 DEF ThreadInv, ToldToQuit
  <2> QED
    BY <1>0, <2>3, <2>4
<1>3. CASE cur <= numLoops /\ ~epoller[cur]
  <2>1. bpc' = "check" /\ cur' = cur + 1 /\ cur' \in 1 .. MaxLoops + 1
    BY <1>0, <1>3 DEF DestroyThread
  <2>2. LoopsTypeOK' /\ BaseInv'
    BY <1>0, <1>3, <2>1 DEF LoopsTypeOK, BaseInv
  <2>3. ThreadInv'
    BY <1>0, <2>1 DEF ThreadInv, ToldToQuit, Loops
  <2> QED
    BY <1>0, <2>2, <2>3
<1> QED
  BY <1>0, <1>1, <1>2, <1>3

LEMMA QuitLoopKeeps ==
  ASSUME LoopsInv, QuitLoop
  PROVE  LoopsInv'
<1> USE DEF LoopsInv
<1>0. /\ bpc = "quit" /\ bpc' = "join"
      /\ UNCHANGED <<numLoops, cur, epolls, epoller, alive, tpc, userQuit>>
      /\ cur <= numLoops /\ cur \in 1 .. MaxLoops + 1 /\ numLoops \in 0 .. MaxLoops
      /\ MaxLoops \in Nat /\ tpc[cur] \notin {"none", "begin"}
  BY LoopsAssumption DEF QuitLoop, LoopsTypeOK, BaseInv
<1>1. cur \in Loops
  BY <1>0 DEF Loops
<1>2. BaseInv'
  BY <1>0 DEF BaseInv
<1>3. CASE alive[cur] /\ epoller[cur]
  <2>1. /\ quit' = [quit EXCEPT ![cur] = TRUE] /\ wake' = [wake EXCEPT ![cur] = TRUE]
        /\ dead' = dead
    BY <1>3 DEF QuitLoop
  <2>2. LoopsTypeOK'
    BY <1>0, <1>1, <2>1 DEF LoopsTypeOK
  <2>3. ThreadInv'
    BY <1>0, <1>1, <2>1 DEF ThreadInv, ToldToQuit, LoopsTypeOK
  <2> QED
    BY <1>0, <1>2, <2>1, <2>2, <2>3
<1>4. CASE ~(alive[cur] /\ epoller[cur])
  <2>1. dead' = dead \cup {cur} /\ UNCHANGED <<quit, wake>>
    BY <1>4 DEF QuitLoop
  <2>2. tpc[cur] = "finished"
    BY <1>0, <1>1, <1>4 DEF ThreadInv, LoopsTypeOK
  <2>3. userQuit[cur]
    BY <1>0, <1>1, <2>2 DEF ThreadInv, ToldToQuit
  <2>4. LoopsTypeOK'
    BY <1>0, <1>1, <2>1 DEF LoopsTypeOK
  <2>5. ThreadInv'
    BY <1>0, <2>1 DEF ThreadInv, ToldToQuit
  <2> QED
    BY <1>0, <1>2, <2>1, <2>3, <2>4, <2>5
<1> QED
  BY <1>3, <1>4

LEMMA JoinThreadKeeps ==
  ASSUME LoopsInv, JoinThread
  PROVE  LoopsInv'
<1> USE DEF LoopsInv
<1>0. /\ bpc = "join" /\ bpc' = "check" /\ cur' = cur + 1
      /\ UNCHANGED <<numLoops, epolls, epoller, alive, quit, wake, tpc, userQuit, dead>>
      /\ cur <= numLoops /\ cur \in 1 .. MaxLoops + 1 /\ numLoops \in 0 .. MaxLoops
      /\ MaxLoops \in Nat
  BY LoopsAssumption DEF JoinThread, LoopsTypeOK, BaseInv
<1>1. LoopsTypeOK' /\ BaseInv'
  BY <1>0 DEF LoopsTypeOK, BaseInv
<1>2. ThreadInv'
  BY <1>0 DEF ThreadInv, ToldToQuit, Loops
<1> QED
  BY <1>0, <1>1, <1>2

LEMMA LoopThreadKeeps ==
  ASSUME LoopsInv, NEW i \in Loops, LoopThreadStep(i) \/ UserQuit(i)
  PROVE  LoopsInv'
<1> USE DEF LoopsInv
<1>0. UNCHANGED <<bpc, numLoops, cur, epolls, dead>>
  BY DEF LoopThreadStep, Publish, EnableWakeup, CheckLoopQuit, WaitReturns, ClearEpoller, UserQuit
<1>1. LoopsTypeOK'
  BY <1>0 DEF LoopsTypeOK, LoopThreadStep, Publish, EnableWakeup, CheckLoopQuit, WaitReturns,
              ClearEpoller, UserQuit, Goto
<1>2. /\ tpc[i] = "none" => tpc'[i] = "none"
      /\ tpc[i] \notin {"none", "begin"} => tpc'[i] \notin {"none", "begin"}
      /\ \A j \in Loops \ {i} : tpc'[j] = tpc[j]
  BY DEF LoopsTypeOK, LoopThreadStep, Publish, EnableWakeup, CheckLoopQuit, WaitReturns,
         ClearEpoller, UserQuit, Goto
<1>3. BaseInv'
  <2>1. \A j \in Loops : /\ tpc[j] = "none" => tpc'[j] = "none"
                         /\ tpc[j] \notin {"none", "begin"} => tpc'[j] \notin {"none", "begin"}
    BY <1>2
  <2>2. \A k \in DOMAIN epolls : epolls[k] \in Loops
    BY DEF LoopsTypeOK
  <2>3. bpc = "quit" => cur \in Loops
    BY LoopsAssumption DEF BaseInv, LoopsTypeOK, Loops
  <2> QED
    BY <1>0, <2>1, <2>2, <2>3 DEF BaseInv
<1>4. ThreadInv'
  <2>1. CASE Publish(i)
    BY <1>0, <2>1 DEF Publish, Goto, ThreadInv, ToldToQuit, LoopsTypeOK
  <2>2. CASE EnableWakeup(i)
    BY <1>0, <2>2 DEF EnableWakeup, Goto, ThreadInv, ToldToQuit, LoopsTypeOK
  <2>3. CASE CheckLoopQuit(i)
    BY <1>0, <2>3 DEF CheckLoopQuit, Goto, ThreadInv, ToldToQuit, LoopsTypeOK
  <2>4. CASE WaitReturns(i)
    BY <1>0, <2>4 DEF WaitReturns, Goto, ThreadInv, ToldToQuit, LoopsTypeOK
  <2>5. CASE ClearEpoller(i)
    BY <1>0, <2>5 DEF ClearEpoller, Goto, ThreadInv, ToldToQuit, LoopsTypeOK
  <2>6. CASE UserQuit(i)
    BY <1>0, <2>6 DEF UserQuit, ThreadInv, ToldToQuit, LoopsTypeOK
  <2> QED
    BY <2>1, <2>2, <2>3, <2>4, <2>5, <2>6 DEF LoopThreadStep
<1>5. \A j \in Loops : userQuit[j] => userQuit'[j]
  BY DEF LoopsTypeOK, LoopThreadStep, Publish, EnableWakeup, CheckLoopQuit, WaitReturns,
         ClearEpoller, UserQuit
<1> QED
  BY <1>0, <1>1, <1>3, <1>4, <1>5 DEF LoopsTypeOK

LEMMA LoopsInvStep == LoopsInv /\ [LoopsNext]_loopsVars => LoopsInv'
<1> SUFFICES ASSUME LoopsInv, [LoopsNext]_loopsVars PROVE LoopsInv'
  OBVIOUS
<1>1. CASE \E n \in 0 .. MaxLoops : startPool(n)
  BY <1>1, StartPoolKeeps
<1>2. CASE startThread \/ startEpoll
  BY <1>2, BeginThreadKeeps, StartEpollKeeps
<1>3. CASE QuitLoop \/ JoinThread
  BY <1>3, QuitLoopKeeps, JoinThreadKeeps
<1>4. CASE DestroyThread
  BY <1>4, DestroyThreadKeeps
<1>5. CASE \E i \in Loops : LoopThreadStep(i) \/ UserQuit(i)
  BY <1>5, LoopThreadKeeps
<1>6. CASE UNCHANGED loopsVars
  BY <1>6 DEF loopsVars, LoopsInv, LoopsTypeOK, BaseInv, ThreadInv, ToldToQuit
<1> QED
  BY <1>1, <1>2, <1>3, <1>4, <1>5, <1>6 DEF LoopsNext, BaseThreadStep

(* A loop in epolls_ has been published; before the destructors it can     *)
(* only have ended because user code told it to.                           *)
LEMMA LoopsInvAlive == LoopsInv => LoopsUsedAreAlive
<1> SUFFICES ASSUME LoopsInv PROVE LoopsUsedAreAlive
  OBVIOUS
<1>1. ASSUME bpc \in {"start", "wait", "started"}, NEW k \in DOMAIN epolls
      PROVE  alive[epolls[k]] \/ userQuit[epolls[k]]
  <2>1. epolls[k] \in Loops /\ tpc[epolls[k]] \notin {"none", "begin"}
    BY DEF LoopsInv, LoopsTypeOK, BaseInv
  <2> QED
    BY <1>1, <2>1 DEF LoopsInv, LoopsTypeOK, ThreadInv, ToldToQuit
<1> QED
  BY <1>1 DEF LoopsUsedAreAlive, LoopsInv

-----------------------------------------------------------------------------
(* TimerSet.                                                               *)

(* The functor f waits for the loop.                                       *)
Queued(f) == \E i \in DOMAIN calls : calls[i] = f

(* The functors of a timer that wait: one add and one cancel at most, the  *)
(* add before the cancel, and a cancel only of a timer that still repeats. *)
CallsInv ==
  /\ \A i, j \in DOMAIN calls : calls[i] = calls[j] => i = j
  /\ \A i, j \in DOMAIN calls :
       calls[i][1] = "add" /\ calls[j][1] = "cancel" /\ calls[i][2] = calls[j][2] => i < j
  /\ \A t \in Timers :
       Queued(<<"cancel", t>>) => heap[t] = "live" /\ interval[t] > 0 /\ caller[t] = "cancelled"

(* A timer is in one place while it is allocated, and in none otherwise.   *)
OnePlace(t) ==
  /\ heap[t] = "live" => Queued(<<"add", t>>) \/ t \in container \/ t \in batch
  /\ Queued(<<"add", t>>) => heap[t] = "live" /\ t \notin container /\ t \notin batch
  /\ t \in container => heap[t] = "live" /\ t \notin batch
  /\ t \in batch => heap[t] = "live"

(* What the user has of a timer: a repeating one is only freed once it is  *)
(* cancelled, or with the set.                                             *)
UserInv(t) ==
  /\ heap[t] = "none" => caller[t] = "none"
  /\ heap[t] = "freed" /\ interval[t] > 0 =>
       caller[t] = "cancelled" \/ (spc = "destroyed" /\ caller[t] # "adding")
  /\ caller[t] = "late" => interval[t] = 0

(* Who owns the timers; only careful users keep this.                      *)
OwnersInv ==
  /\ CallsInv
  /\ touched = {}
  /\ \A t \in Timers : OnePlace(t) /\ UserInv(t)

(* Where the loop thread is, and how far back times can be.                *)
RoundInv ==
  /\ spc # "run" => batch = {} /\ torun = {}
  /\ spc = "destroyed" => container = {} /\ calls = <<>>
  /\ -rewound <= age
  /\ \A t \in Timers : -(MaxRewind + MaxRound) <= due[t]

(* A timer that was not allocated yet is nowhere.                          *)
KnownInv ==
  \A t \in Timers :
    heap[t] = "none" =>
      /\ t \notin container /\ t \notin batch /\ caller[t] = "none"
      /\ \A i \in DOMAIN calls : calls[i][2] # t

(* The clocks and the timerfd; every user keeps this.                      *)
ClockInv == SetTypeOK /\ RoundInv /\ KnownInv /\ ArmedForFirst

SetInv == ClockInv /\ (Careful => OwnersInv)

(* The functors handed to the loop.                                        *)
Functor == {"add", "cancel"} \X Timers

(* A set of integers that is bounded from below has a least element.       *)
LEMMA LeastExists ==
  ASSUME NEW T, T \subseteq Int, T # {}, NEW b \in Nat, \A x \in T : -b <= x
  PROVE  \E x \in T : \A y \in T : x <= y
<1> DEFINE U == {x + b : x \in T}
           R == OpToRel(<, Nat)
<1>1. U \subseteq Nat /\ U # {}
  <2>1. \A x \in T : x + b \in Nat
    OBVIOUS
  <2>2. PICK x \in T : TRUE
    OBVIOUS
  <2>3. x + b \in U
    OBVIOUS
  <2> QED
    BY <2>1, <2>3
<1>2. \E u \in U : \A v \in U : <<v, u>> \notin R
  <2>1. IsWellFoundedOn(R, Nat)
    BY NatLessThanWellFounded
  <2> HIDE DEF U, R
  <2> QED
    BY <1>1, <2>1, WFMin
<1>3. PICK u \in U : \A v \in U : <<v, u>> \notin R
  BY <1>2
<1>4. \A v \in U : ~(v < u)
  BY <1>1, <1>3 DEF OpToRel
<1>5. PICK x \in T : u = x + b
  BY <1>3
<1>6. \A y \in T : y + b \in U
  OBVIOUS
<1>7. \A y \in T : x <= y
  <2> SUFFICES ASSUME NEW y \in T PROVE x <= y
    OBVIOUS
  <2>1. ~(y + b < u)
    BY <1>4, <1>6
  <2>2. x \in Int /\ y \in Int
    OBVIOUS
  <2> QED
    BY <1>5, <2>1, <2>2
<1> QED
  BY <1>7

(* The queue after a functor was handed over ...                           *)
LEMMA QueuedAppend ==
  ASSUME calls \in Seq(Functor), NEW f \in Functor, calls' = Append(calls, f), NEW g
  PROVE  Queued(g)' <=> Queued(g) \/ g = f
BY DEF Queued

(* ... and after the loop has taken one, of which there was no second.     *)
LEMMA QueuedTail ==
  ASSUME calls \in Seq(Functor), calls # <<>>, CallsInv, calls' = Tail(calls), NEW g
  PROVE  Queued(g)' <=> Queued(g) /\ g # Head(calls)
<1>1. /\ Len(calls) \in Nat /\ Len(calls) >= 1 /\ Len(calls') = Len(calls) - 1
      /\ DOMAIN calls = 1 .. Len(calls) /\ DOMAIN calls' = 1 .. Len(calls')
      /\ \A i \in DOMAIN calls' : calls'[i] = calls[i + 1] /\ i + 1 \in DOMAIN calls
      /\ Head(calls) = calls[1]
  OBVIOUS
<1>2. ASSUME Queued(g)' PROVE Queued(g) /\ g # Head(calls)
  <2>1. PICK i \in DOMAIN calls' : calls'[i] = g
    BY <1>2 DEF Queued
  <2>2. i + 1 \in DOMAIN calls /\ calls[i + 1] = g /\ i + 1 # 1 /\ 1 \in DOMAIN calls
    BY <1>1, <2>1
  <2> QED
    BY <1>1, <2>2 DEF Queued, CallsInv
<1>3. ASSUME Queued(g), g # Head(calls) PROVE Queued(g)'
  <2>1. PICK i \in DOMAIN calls : calls[i] = g
    BY <1>3 DEF Queued
  <2>2. i \in Nat /\ i > 1 /\ i <= Len(calls)
    BY <1>1, <1>3, <2>1
  <2>3. i - 1 \in DOMAIN calls' /\ calls'[i - 1] = g
    BY <1>1, <2>1, <2>2
  <2> QED
    BY <2>3 DEF Queued
<1> QED
  BY <1>2, <1>3

LEMMA QueuedSame ==
  ASSUME calls' = calls, NEW g
  PROVE  Queued(g)' <=> Queued(g)
BY DEF Queued

(* A step that takes no functor and changes no timer that has a cancel()   *)
(* waiting.                                                                *)
LEMMA CallsSame ==
  ASSUME CallsInv, calls' = calls,
         \A t \in Timers :
           Queued(<<"cancel", t>>) =>
             heap'[t] = heap[t] /\ interval'[t] = interval[t] /\ caller'[t] = caller[t]
  PROVE  CallsInv'
<1>1. \A t \in Timers : Queued(<<"cancel", t>>)' =>
        heap'[t] = "live" /\ interval'[t] > 0 /\ caller'[t] = "cancelled"
  BY QueuedSame DEF CallsInv
<1> QED
  BY <1>1 DEF CallsInv

-----------------------------------------------------------------------------
LEMMA SetInvInit == SetInit => SetInv
<1> SUFFICES ASSUME SetInit PROVE SetInv
  OBVIOUS
<1>1. SetTypeOK
  <2>1. /\ age \in -MaxRewind .. MaxRound /\ rewound \in 0 .. MaxRewind /\ left \in Nat
        /\ calls \in Seq({"add", "cancel"} \X Timers) /\ ahead \in 0 .. MaxForward
    BY TimerAssumption, EmptySeq DEF SetInit
  <2>2. /\ heap \in [Timers -> {"none", "live", "freed"}] /\ due \in [Timers -> Int]
        /\ interval \in [Timers -> Intervals \cup {0}]
        /\ caller \in [Timers -> {"none", "adding", "id", "late", "cancelled"}]
    BY DEF SetInit
  <2>3. /\ container \in SUBSET Timers /\ batch \in SUBSET Timers /\ torun \in SUBSET batch
        /\ touched \in SUBSET Timers /\ readable \in BOOLEAN
        /\ spc \in {"idle", "run", "destroyed"}
    BY DEF SetInit
  <2> QED
    BY <2>1, <2>2, <2>3 DEF SetTypeOK
<1>2. DOMAIN calls = {}
  BY DEF SetInit
<1>3. \A g : ~Queued(g)
  BY <1>2 DEF Queued
<1>4. CallsInv
  BY <1>2, <1>3 DEF CallsInv
<1>5. RoundInv
  BY TimerAssumption DEF SetInit, RoundInv
<1>6. ArmedForFirst /\ KnownInv
  BY <1>2 DEF SetInit, ArmedForFirst, KnownInv
<1>7. \A t \in Timers : OnePlace(t) /\ UserInv(t)
  BY <1>3 DEF SetInit, OnePlace, UserInv
<1>8. OwnersInv
  BY <1>4, <1>7 DEF OwnersInv, SetInit
<1> QED
  BY <1>1, <1>5, <1>6, <1>8 DEF SetInv, ClockInv

-----------------------------------------------------------------------------
(* The clocks and the timerfd.                                             *)

LEMMA TickClock ==
  ASSUME ClockInv, Tick
  PROVE  ClockInv'
<1>0. /\ UNCHANGED <<heap, interval, container, spc, batch, torun, calls, caller, touched, rewound,
                     ahead>>
      /\ MaxRewind \in Nat /\ MaxRound \in Nat /\ left \in Nat /\ due \in [Timers -> Int]
      /\ age \in -MaxRewind .. MaxRound /\ rewound \in 0 .. MaxRewind
      /\ ahead \in Nat /\ container \subseteq Timers
  BY TimerAssumption DEF Tick, ClockInv, SetTypeOK
<1>1. due' \in [Timers -> Int]
  BY <1>0 DEF Tick, Sooner
<1>2. SetTypeOK'
  <2>1. left' \in Nat /\ readable' \in BOOLEAN /\ age' \in -MaxRewind .. MaxRound
    BY <1>0 DEF Tick, ClockInv, SetTypeOK
  <2> QED
    BY <1>0, <1>1, <2>1 DEF ClockInv, SetTypeOK
<1>4. RoundInv'
  <2>1. \A t \in Timers : -(MaxRewind + MaxRound) <= due'[t]
    BY <1>0 DEF Tick, Sooner, ClockInv, RoundInv
  <2>2. -rewound' <= age'
    BY <1>0 DEF Tick, ClockInv, RoundInv
  <2> QED
    BY <1>0, <2>1, <2>2 DEF ClockInv, RoundInv
<1>5. ArmedForFirst'
  <2> SUFFICES ASSUME spc = "idle", ~readable', NEW t \in container
               PROVE  left' > 0 /\ left' <= (IF due'[t] < 1 THEN 1 ELSE due'[t]) + ahead
    BY <1>0 DEF ArmedForFirst
  <2>1. ~readable /\ left # 1
    BY DEF Tick
  <2>2. left > 0 /\ left <= (IF due[t] < 1 THEN 1 ELSE due[t]) + ahead
    BY <2>1 DEF ClockInv, ArmedForFirst
  <2>3. left' = left - 1 /\ due[t] \in Int /\ due'[t] \in Int
    BY <1>0, <1>1, <2>1, <2>2 DEF Tick
  <2>4. due'[t] >= due[t] - 1
    BY <1>0, <2>3 DEF Tick, Sooner
  <2> QED
    BY <1>0, <2>1, <2>2, <2>3, <2>4
<1>6. KnownInv'
  BY <1>0 DEF ClockInv, KnownInv
<1> QED
  BY <1>2, <1>4, <1>5, <1>6 DEF ClockInv

LEMMA RewindClock ==
  ASSUME ClockInv, Rewind
  PROVE  ClockInv'
<1>0. /\ UNCHANGED <<heap, interval, container, left, readable, spc, batch, torun, calls, caller,
                     touched, ahead>>
      /\ MaxRewind \in Nat /\ MaxRound \in Nat /\ left \in Nat /\ due \in [Timers -> Int]
      /\ age \in -MaxRewind .. MaxRound /\ rewound \in 0 .. MaxRewind /\ rewound < MaxRewind
      /\ rewound' = rewound + 1 /\ -rewound <= age /\ ahead \in Nat
      /\ container \subseteq Timers
  BY TimerAssumption DEF Rewind, ClockInv, SetTypeOK, RoundInv
<1>1. due' \in [Timers -> Int] /\ \A t \in Timers : due'[t] >= due[t]
  BY <1>0 DEF Rewind
<1>2. age' \in -MaxRewind .. MaxRound /\ -rewound' <= age'
  BY <1>0 DEF Rewind
<1>3. SetTypeOK'
  BY <1>0, <1>1, <1>2 DEF ClockInv, SetTypeOK
<1>5. RoundInv'
  BY <1>0, <1>1, <1>2 DEF ClockInv, RoundInv
<1>6. ArmedForFirst'
  <2> SUFFICES ASSUME spc = "idle", ~readable, NEW t \in container
               PROVE  left > 0 /\ left <= (IF due'[t] < 1 THEN 1 ELSE due'[t]) + ahead
    BY <1>0 DEF ArmedForFirst
  <2>1. left > 0 /\ left <= (IF due[t] < 1 THEN 1 ELSE due[t]) + ahead
    BY DEF ClockInv, ArmedForFirst
  <2>2. due[t] \in Int /\ due'[t] \in Int /\ due'[t] >= due[t]
    BY <1>0, <1>1
  <2> QED
    BY <1>0, <2>1, <2>2
<1>7. KnownInv'
  BY <1>0 DEF ClockInv, KnownInv
<1> QED
  BY <1>3, <1>5, <1>6, <1>7 DEF ClockInv

LEMMA ForwardClock ==
  ASSUME ClockInv, Forward
  PROVE  ClockInv'
<1>0. /\ UNCHANGED <<heap, interval, container, left, readable, spc, batch, torun, calls, caller,
                     touched, rewound>>
      /\ MaxRewind \in Nat /\ MaxRound \in Nat /\ MaxForward \in Nat /\ left \in Nat
      /\ due \in [Timers -> Int] /\ age \in -MaxRewind .. MaxRound
      /\ rewound \in 0 .. MaxRewind /\ -rewound <= age /\ container \subseteq Timers
      /\ ahead \in 0 .. MaxForward /\ ahead < MaxForward /\ ahead' = ahead + 1
  BY TimerAssumption DEF Forward, ClockInv, SetTypeOK, RoundInv
<1>1. due' \in [Timers -> Int] /\ \A t \in Timers : due'[t] >= due[t] - 1
  BY <1>0 DEF Forward, Sooner
<1>2. age' \in -MaxRewind .. MaxRound /\ -rewound' <= age'
  BY <1>0 DEF Forward
<1>3. ahead' \in 0 .. MaxForward
  BY <1>0
<1>4. SetTypeOK'
  BY <1>0, <1>1, <1>2, <1>3 DEF ClockInv, SetTypeOK
<1>5. RoundInv'
  <2>1. \A t \in Timers : -(MaxRewind + MaxRound) <= due'[t]
    BY <1>0 DEF Forward, Sooner, ClockInv, RoundInv
  <2> QED
    BY <1>0, <1>2, <2>1 DEF ClockInv, RoundInv
<1>6. ArmedForFirst'
  <2> SUFFICES ASSUME spc = "idle", ~readable, NEW t \in container
               PROVE  left > 0 /\ left <= (IF due'[t] < 1 THEN 1 ELSE due'[t]) + ahead'
    BY <1>0 DEF ArmedForFirst
  <2>1. left > 0 /\ left <= (IF due[t] < 1 THEN 1 ELSE due[t]) + ahead
    BY DEF ClockInv, ArmedForFirst
  <2>2. due[t] \in Int /\ due'[t] \in Int /\ due'[t] >= due[t] - 1
    BY <1>0, <1>1
  <2> QED
    BY <1>0, <2>1, <2>2
<1>7. KnownInv'
  BY <1>0 DEF ClockInv, KnownInv
<1> QED
  BY <1>4, <1>5, <1>6, <1>7 DEF ClockInv

LEMMA AddTimerClock ==
  ASSUME ClockInv, NEW t \in Timers, NEW when \in 0 .. MaxWhen, NEW n \in Intervals,
         addTimer(t, when, n)
  PROVE  ClockInv'
<1>0. /\ UNCHANGED <<container, left, readable, spc, batch, torun, age, touched, rewound, ahead>>
      /\ spc # "destroyed" /\ heap[t] = "none" /\ heap' = [heap EXCEPT ![t] = "live"]
      /\ due' = [due EXCEPT ![t] = when] /\ interval' = [interval EXCEPT ![t] = n]
      /\ calls' = Append(calls, <<"add", t>>) /\ caller' = [caller EXCEPT ![t] = "adding"]
  BY DEF addTimer, NewTimer
<1>1. /\ calls \in Seq(Functor) /\ <<"add", t>> \in Functor
      /\ when \in Int /\ when >= 0 /\ n \in Intervals \cup {0}
      /\ MaxRewind \in Nat /\ MaxRound \in Nat
  BY TimerAssumption DEF ClockInv, SetTypeOK, Functor
<1>2. t \notin container /\ t \notin batch
  BY <1>0 DEF ClockInv, KnownInv
<1>3. SetTypeOK'
  <2>1. calls' \in Seq({"add", "cancel"} \X Timers)
    BY <1>0, <1>1 DEF Functor
  <2> QED
    BY <1>0, <1>1, <2>1 DEF ClockInv, SetTypeOK
<1>4. RoundInv'
  <2>1. \A u \in Timers : -(MaxRewind + MaxRound) <= due'[u]
    BY <1>0, <1>1 DEF ClockInv, SetTypeOK, RoundInv
  <2> QED
    BY <1>0, <2>1 DEF ClockInv, RoundInv
<1>5. ArmedForFirst'
  BY <1>0, <1>2 DEF ClockInv, SetTypeOK, ArmedForFirst
<1>6. KnownInv'
  <2> SUFFICES ASSUME NEW u \in Timers, heap'[u] = "none"
               PROVE  /\ u \notin container /\ u \notin batch /\ caller'[u] = "none"
                      /\ \A i \in DOMAIN calls' : calls'[i][2] # u
    BY <1>0 DEF KnownInv
  <2>1. u # t /\ heap[u] = "none"
    BY <1>0 DEF ClockInv, SetTypeOK
  <2>2. /\ Len(calls) \in Nat /\ DOMAIN calls = 1 .. Len(calls)
        /\ DOMAIN calls' = 1 .. Len(calls) + 1 /\ calls'[Len(calls) + 1] = <<"add", t>>
        /\ \A i \in 1 .. Len(calls) : calls'[i] = calls[i]
    BY <1>0, <1>1
  <2>3. \A i \in DOMAIN calls' : calls'[i][2] # u
    BY <2>1, <2>2 DEF ClockInv, KnownInv
  <2> QED
    BY <1>0, <2>1, <2>3 DEF ClockInv, KnownInv, SetTypeOK
<1> QED
  BY <1>3, <1>4, <1>5, <1>6 DEF ClockInv

LEMMA IntervalIsNat ==
  ASSUME SetTypeOK, NEW t \in Timers
  PROVE  interval[t] \in Nat
<1>1. interval[t] \in Intervals \cup {0}
  BY DEF SetTypeOK
<1>2. \A x \in Intervals : x \in Nat
  BY TimerAssumption
<1> QED
  BY <1>1, <1>2

LEMMA AddReturnClock ==
  ASSUME ClockInv, NEW t \in Timers, addTimerReturn(t)
  PROVE  ClockInv'
<1>0. /\ UNCHANGED <<heap, due, interval, container, left, readable, spc, batch, torun, age,
                     calls, touched, rewound, ahead>>
      /\ caller[t] = "adding" /\ \E w \in {"late", "id"} : caller' = [caller EXCEPT ![t] = w]
  BY DEF addTimerReturn
<1>1. SetTypeOK'
  BY <1>0 DEF ClockInv, SetTypeOK
<1>2. KnownInv'
  BY <1>0 DEF ClockInv, KnownInv, SetTypeOK
<1> QED
  BY <1>0, <1>1, <1>2 DEF ClockInv, RoundInv, ArmedForFirst

(* Whoever may cancel a timer has had it allocated.                        *)
LEMMA MayCancelKnown ==
  ASSUME ClockInv, NEW t \in Timers, MayCancel(t)
  PROVE  heap[t] # "none"
BY DEF ClockInv, KnownInv, MayCancel

LEMMA CancelClock ==
  ASSUME ClockInv, NEW t \in Timers, cancel(t)
  PROVE  ClockInv'
<1>0. /\ UNCHANGED <<heap, due, interval, container, left, readable, spc, batch, torun, age,
                     touched, rewound, ahead>>
      /\ spc # "destroyed" /\ MayCancel(t)
      /\ calls' = Append(calls, <<"cancel", t>>) /\ caller' = [caller EXCEPT ![t] = "cancelled"]
  BY DEF cancel, MayCancel
<1>1. calls \in Seq(Functor) /\ <<"cancel", t>> \in Functor
  BY DEF ClockInv, SetTypeOK, Functor
<1>2. SetTypeOK'
  <2>1. calls' \in Seq({"add", "cancel"} \X Timers)
    BY <1>0, <1>1 DEF Functor
  <2> QED
    BY <1>0, <2>1 DEF ClockInv, SetTypeOK
<1>3. RoundInv' /\ ArmedForFirst'
  BY <1>0 DEF ClockInv, RoundInv, ArmedForFirst
<1>4. KnownInv'
  <2> SUFFICES ASSUME NEW u \in Timers, heap[u] = "none"
               PROVE  /\ u \notin container /\ u \notin batch /\ caller'[u] = "none"
                      /\ \A i \in DOMAIN calls' : calls'[i][2] # u
    BY <1>0 DEF KnownInv
  <2>1. u # t
    BY <1>0, MayCancelKnown
  <2>2. /\ Len(calls) \in Nat /\ DOMAIN calls = 1 .. Len(calls)
        /\ DOMAIN calls' = 1 .. Len(calls) + 1 /\ calls'[Len(calls) + 1] = <<"cancel", t>>
        /\ \A i \in 1 .. Len(calls) : calls'[i] = calls[i]
    BY <1>0, <1>1
  <2>3. \A i \in DOMAIN calls' : calls'[i][2] # u
    BY <2>1, <2>2 DEF ClockInv, KnownInv
  <2> QED
    BY <1>0, <2>1, <2>3 DEF ClockInv, KnownInv, SetTypeOK
<1> QED
  BY <1>2, <1>3, <1>4 DEF ClockInv

(* Inserting a timer leaves the timerfd alone or sets it ahead.            *)
LEMMA TimerfdType ==
  ASSUME SetTypeOK, NEW t \in Timers, NEW d \in Int, addTimerInLoop(t, d)
  PROVE  left' \in Nat /\ readable' \in BOOLEAN /\ ahead' \in 0 .. MaxForward
<1>1. CASE earliestChanged(d)
  <2>1. left' = (IF d < 1 THEN 1 ELSE d) /\ readable' = FALSE /\ ahead' = 0
    BY <1>1 DEF addTimerInLoop, resetTimerfd
  <2>2. left' \in Nat /\ ahead' \in 0 .. MaxForward
    BY <2>1, TimerAssumption
  <2> QED
    BY <2>1, <2>2
<1>2. CASE ~earliestChanged(d)
  BY <1>2 DEF addTimerInLoop, SetTypeOK
<1> QED
  BY <1>1, <1>2

(* The functor the loop takes, and the queue that is left.                 *)
LEMMA RunCallHead ==
  ASSUME SetTypeOK, RunCall
  PROVE  \E kind \in {"add", "cancel"}, t \in Timers :
           /\ Head(calls) = <<kind, t>>
           /\ Len(calls) \in Nat /\ Len(calls) >= 1 /\ DOMAIN calls = 1 .. Len(calls)
           /\ calls[1] = <<kind, t>> /\ DOMAIN calls' = 1 .. Len(calls) - 1
           /\ \A i \in DOMAIN calls' : calls'[i] = calls[i + 1] /\ i + 1 \in DOMAIN calls
           /\ calls' \in Seq(Functor)
<1>1. calls \in Seq(Functor) /\ calls # <<>> /\ calls' = Tail(calls)
  BY DEF RunCall, SetTypeOK, Functor
<1>2. Head(calls) \in Functor
  BY <1>1
<1>3. PICK kind \in {"add", "cancel"}, t \in Timers : Head(calls) = <<kind, t>>
  BY <1>2 DEF Functor
<1>4. /\ Len(calls) \in Nat /\ Len(calls) >= 1 /\ DOMAIN calls = 1 .. Len(calls)
      /\ calls[1] = <<kind, t>> /\ DOMAIN calls' = 1 .. Len(calls) - 1
      /\ \A i \in DOMAIN calls' : calls'[i] = calls[i + 1] /\ i + 1 \in DOMAIN calls
      /\ calls' \in Seq(Functor)
  BY <1>1, <1>3
<1> QED
  BY <1>3, <1>4

LEMMA RunCallClock ==
  ASSUME ClockInv, RunCall
  PROVE  ClockInv'
<1>0. /\ UNCHANGED <<due, interval, spc, batch, torun, age, caller, rewound>>
      /\ spc = "idle" /\ batch = {} /\ torun = {} /\ touched' = touched \cup Use(Head(calls)[2])
  BY DEF RunCall, ClockInv, RoundInv
<1>1. PICK kind \in {"add", "cancel"}, t \in Timers :
           /\ Head(calls) = <<kind, t>>
           /\ Len(calls) \in Nat /\ Len(calls) >= 1 /\ DOMAIN calls = 1 .. Len(calls)
           /\ calls[1] = <<kind, t>> /\ DOMAIN calls' = 1 .. Len(calls) - 1
           /\ \A i \in DOMAIN calls' : calls'[i] = calls[i + 1] /\ i + 1 \in DOMAIN calls
           /\ calls' \in Seq(Functor)
  BY RunCallHead DEF ClockInv
<1>2. heap[t] # "none"
  BY <1>1 DEF ClockInv, KnownInv
<1>3. touched' \in SUBSET Timers
  BY <1>0, <1>1 DEF Use, ClockInv, SetTypeOK
<1>4. ASSUME \A u \in Timers : heap'[u] = "none" => heap[u] = "none" /\ u # t,
             container' \subseteq container \cup {t}
      PROVE  KnownInv'
  BY <1>0, <1>1, <1>4 DEF ClockInv, KnownInv
<1>6. CASE kind = "add"
  <2>1. addTimerInLoop(t, due[t]) /\ heap' = heap
    BY <1>1, <1>6 DEF RunCall
  <2>3. /\ container' = container \cup {t} /\ due[t] \in Int /\ left \in Nat
        /\ ahead \in Nat
    BY <2>1, TimerAssumption DEF addTimerInLoop, ClockInv, SetTypeOK
  <2>4. SetTypeOK'
    <3>1. left' \in Nat /\ readable' \in BOOLEAN /\ ahead' \in 0 .. MaxForward
      BY <2>1, <2>3, TimerfdType DEF ClockInv
    <3> QED
      BY <1>0, <1>1, <1>3, <2>1, <2>3, <3>1 DEF ClockInv, SetTypeOK, Functor
  <2>6. RoundInv'
    BY <1>0, <2>1 DEF ClockInv, RoundInv
  <2>7. ArmedForFirst'
    <3>0. \A u \in container : due[u] \in Int
      BY DEF ClockInv, SetTypeOK
    <3>1. CASE earliestChanged(due[t])
      <4>1. /\ left' = (IF due[t] < 1 THEN 1 ELSE due[t]) /\ ahead' = 0
            /\ \A u \in container : due[t] < due[u]
        BY <2>1, <3>1 DEF addTimerInLoop, resetTimerfd, earliestChanged
      <4> QED
        BY <1>0, <2>3, <3>0, <4>1 DEF ArmedForFirst
    <3>2. CASE ~earliestChanged(due[t])
      <4>1. PICK u \in container : ~(due[t] < due[u])
        BY <3>2 DEF earliestChanged
      <4>2. left' = left /\ readable' = readable /\ ahead' = ahead
        BY <2>1, <3>2 DEF addTimerInLoop
      <4>3. ~readable => left > 0 /\ left <= (IF due[u] < 1 THEN 1 ELSE due[u]) + ahead
        BY <1>0, <4>1 DEF ClockInv, ArmedForFirst
      <4>4. ~readable => left > 0 /\ left <= (IF due[t] < 1 THEN 1 ELSE due[t]) + ahead
        BY <2>3, <3>0, <4>1, <4>3
      <4> QED
        BY <1>0, <2>3, <4>2, <4>4 DEF ClockInv, ArmedForFirst
    <3> QED
      BY <3>1, <3>2
  <2>8. KnownInv'
    BY <1>2, <1>4, <2>1, <2>3
  <2> QED
    BY <2>4, <2>6, <2>7, <2>8 DEF ClockInv
<1>7. CASE kind = "cancel"
  <2>1. cancelInLoop(t) /\ left' = left /\ readable' = readable /\ ahead' = ahead
    BY <1>1, <1>7 DEF RunCall
  <2>2. container' = container \ {t} /\ heap' = [heap EXCEPT ![t] = "freed"]
    BY <2>1 DEF cancelInLoop
  <2>3. SetTypeOK'
    BY <1>0, <1>1, <1>3, <2>1, <2>2 DEF ClockInv, SetTypeOK, Functor
  <2>4. RoundInv'
    BY <1>0, <2>2 DEF ClockInv, RoundInv
  <2>5. ArmedForFirst'
    BY <1>0, <2>1, <2>2 DEF ClockInv, ArmedForFirst
  <2>6. KnownInv'
    <3>1. \A u \in Timers : heap'[u] = "none" => heap[u] = "none" /\ u # t
      BY <2>2 DEF ClockInv, SetTypeOK
    <3> QED
      BY <1>4, <2>2, <3>1
  <2> QED
    BY <2>3, <2>4, <2>5, <2>6 DEF ClockInv
<1> QED
  BY <1>6, <1>7

LEMMA HandleReadClock ==
  ASSUME ClockInv, handleRead
  PROVE  ClockInv'
<1>0. /\ UNCHANGED <<heap, due, interval, left, calls, caller, touched, rewound, ahead>>
      /\ spc = "idle" /\ spc' = "run" /\ age' = 0 /\ readable' = FALSE
      /\ batch' \in SUBSET container /\ torun' = batch' /\ container' = container \ batch'
      /\ batch = {} /\ container \subseteq Timers
  BY DEF handleRead, getExpired, ClockInv, SetTypeOK, RoundInv
<1>1. SetTypeOK'
  <2>1. age' \in -MaxRewind .. MaxRound
    BY <1>0, TimerAssumption
  <2>2. /\ container' \in SUBSET Timers /\ batch' \in SUBSET Timers
        /\ torun' \in SUBSET batch' /\ readable' \in BOOLEAN
    BY <1>0
  <2> QED
    BY <1>0, <2>1, <2>2 DEF ClockInv, SetTypeOK
<1>2. RoundInv'
  BY <1>0, TimerAssumption DEF ClockInv, SetTypeOK, RoundInv
<1>3. ArmedForFirst'
  BY <1>0 DEF ArmedForFirst
<1>4. KnownInv'
  BY <1>0 DEF ClockInv, KnownInv
<1> QED
  BY <1>1, <1>2, <1>3, <1>4 DEF ClockInv

LEMMA RunTimerClock ==
  ASSUME ClockInv, RunTimer
  PROVE  ClockInv'
<1>0. /\ UNCHANGED <<spc, batch, age, calls, rewound>> /\ spc = "run"
      /\ torun' \subseteq torun /\ torun \subseteq batch /\ batch \subseteq Timers
  BY DEF RunTimer, ClockInv, SetTypeOK
<1>1. touched' \in SUBSET Timers
  BY <1>0 DEF RunTimer, Use, ClockInv, SetTypeOK
<1>2. CASE UNCHANGED <<heap, due, interval, container, left, readable, caller, ahead>>
  <2>1. SetTypeOK'
    BY <1>0, <1>1, <1>2 DEF ClockInv, SetTypeOK
  <2>2. RoundInv' /\ ArmedForFirst' /\ KnownInv'
    BY <1>0, <1>2 DEF ClockInv, RoundInv, ArmedForFirst, KnownInv
  <2> QED
    BY <2>1, <2>2 DEF ClockInv
<1>3. ASSUME NEW u \in Timers, NEW when \in 0 .. MaxWhen, NEW n \in Intervals,
             NewTimer(u, when, n), addTimerInLoop(u, when),
             caller' = [caller EXCEPT ![u] = "id"]
      PROVE  ClockInv'
  <2>0. /\ heap[u] = "none" /\ heap' = [heap EXCEPT ![u] = "live"]
        /\ due' = [due EXCEPT ![u] = when] /\ interval' = [interval EXCEPT ![u] = n]
        /\ container' = container \cup {u} /\ when \in Int /\ when >= 0
        /\ MaxRewind \in Nat /\ MaxRound \in Nat
    BY <1>3, TimerAssumption DEF NewTimer, addTimerInLoop
  <2>2. SetTypeOK'
    <3>1. left' \in Nat /\ readable' \in BOOLEAN /\ ahead' \in 0 .. MaxForward
      BY <1>3, <2>0, TimerfdType DEF ClockInv
    <3> QED
      BY <1>0, <1>1, <1>3, <2>0, <3>1 DEF ClockInv, SetTypeOK
  <2>4. RoundInv'
    <3>1. \A v \in Timers : -(MaxRewind + MaxRound) <= due'[v]
      BY <2>0 DEF ClockInv, SetTypeOK, RoundInv
    <3> QED
      BY <1>0, <3>1 DEF ClockInv, RoundInv
  <2>5. ArmedForFirst'
    BY <1>0 DEF ArmedForFirst
  <2>6. KnownInv'
    BY <1>0, <1>3, <2>0 DEF ClockInv, SetTypeOK, KnownInv
  <2> QED
    BY <2>2, <2>4, <2>5, <2>6 DEF ClockInv
<1>4. ASSUME NEW u \in Timers, MayCancel(u), cancelInLoop(u),
             caller' = [caller EXCEPT ![u] = "cancelled"],
             UNCHANGED <<due, interval, left, readable, ahead>>
      PROVE  ClockInv'
  <2>1. heap[u] # "none" /\ container' = container \ {u} /\ heap' = [heap EXCEPT ![u] = "freed"]
    BY <1>4, MayCancelKnown DEF cancelInLoop
  <2>2. SetTypeOK'
    BY <1>0, <1>1, <1>4, <2>1 DEF ClockInv, SetTypeOK
  <2>3. RoundInv' /\ ArmedForFirst'
    BY <1>0, <1>4 DEF ClockInv, RoundInv, ArmedForFirst
  <2>4. KnownInv'
    BY <1>0, <1>4, <2>1 DEF ClockInv, SetTypeOK, KnownInv
  <2> QED
    BY <2>2, <2>3, <2>4 DEF ClockInv
<1> QED
  BY <1>2, <1>3, <1>4 DEF RunTimer

LEMMA ResetClock ==
  ASSUME ClockInv, reset
  PROVE  ClockInv'
<1>0. /\ UNCHANGED <<interval, torun, age, calls, caller, rewound>>
      /\ spc = "run" /\ spc' = "idle" /\ torun = {} /\ batch' = {}
      /\ due' = [t \in Timers |-> IF t \in batch /\ interval[t] > 0 THEN restart(t) ELSE due[t]]
      /\ container' = container \cup {t \in batch : interval[t] > 0}
      /\ heap' = [t \in Timers |-> IF t \in batch /\ interval[t] = 0 THEN "freed" ELSE heap[t]]
      /\ touched' = touched \cup UNION {Use(t) : t \in batch}
  BY DEF reset
<1>1. touched' \in SUBSET Timers
  BY <1>0 DEF Use, ClockInv, SetTypeOK
<1>2. /\ \A t \in Timers : due[t] \in Int /\ interval[t] \in Nat
      /\ age \in -MaxRewind .. MaxRound /\ MaxRewind \in Nat /\ MaxRound \in Nat
      /\ MaxRewind + MaxRound \in Nat
      /\ \A t \in Timers : -(MaxRewind + MaxRound) <= due[t]
  BY TimerAssumption, IntervalIsNat DEF ClockInv, SetTypeOK, RoundInv
<1>3. due' \in [Timers -> Int] /\ \A t \in Timers : -(MaxRewind + MaxRound) <= due'[t]
  <2>1. \A t \in Timers : restart(t) \in Int /\ -(MaxRewind + MaxRound) <= restart(t)
    BY <1>2 DEF restart
  <2> QED
    BY <1>0, <1>2, <2>1
<1>4. container' \subseteq Timers
  BY <1>0 DEF ClockInv, SetTypeOK
<1>5. /\ left' \in Nat /\ readable' \in BOOLEAN /\ ahead' \in 0 .. MaxForward
      /\ \A t \in container' : left' > 0 /\ left' <= (IF due'[t] < 1 THEN 1 ELSE due'[t]) + ahead'
  <2>1. CASE container' = {}
    BY <2>1 DEF reset, ClockInv, SetTypeOK
  <2>2. CASE container' # {}
    <3>1. PICK S : S = {due'[t] : t \in container'}
      OBVIOUS
    <3>2. /\ S \subseteq Int /\ S # {} /\ \A d \in S : -(MaxRewind + MaxRound) <= d
          /\ \A t \in container' : due'[t] \in S
      BY <1>3, <1>4, <2>2, <3>1
    <3>3. \E d \in S : \A e \in S : d <= e
      BY <1>2, <3>2, LeastExists
    <3>4. PICK m : m = CHOOSE d \in S : \A t \in container' : d <= due'[t]
      OBVIOUS
    <3>5. \E d \in S : \A t \in container' : d <= due'[t]
      BY <3>2, <3>3
    <3>6. m \in S /\ \A t \in container' : m <= due'[t]
      BY <3>4, <3>5
    <3>7. left' = (IF m < 1 THEN 1 ELSE m) /\ readable' = FALSE /\ ahead' = 0
      BY <2>2, <3>1, <3>4 DEF reset, resetTimerfd
    <3>8. m \in Int /\ left' \in Nat /\ left' > 0 /\ ahead' \in 0 .. MaxForward
      BY <3>2, <3>6, <3>7, TimerAssumption
    <3>9. ASSUME NEW t \in container'
          PROVE  left' <= (IF due'[t] < 1 THEN 1 ELSE due'[t]) + ahead'
      <4>1. m <= due'[t] /\ due'[t] \in Int
        BY <1>3, <1>4, <3>6
      <4> QED
        BY <3>7, <3>8, <4>1
    <3> QED
      BY <3>7, <3>8, <3>9
  <2> QED
    BY <2>1, <2>2
<1>6. SetTypeOK'
  <2>1. heap' \in [Timers -> {"none", "live", "freed"}]
    BY <1>0 DEF ClockInv, SetTypeOK
  <2> QED
    BY <1>0, <1>1, <1>3, <1>4, <1>5, <2>1 DEF ClockInv, SetTypeOK
<1>7. RoundInv'
  BY <1>0, <1>3 DEF ClockInv, RoundInv
<1>8. ArmedForFirst'
  BY <1>5 DEF ArmedForFirst
<1>9. KnownInv'
  BY <1>0 DEF ClockInv, KnownInv
<1> QED
  BY <1>6, <1>7, <1>8, <1>9 DEF ClockInv

LEMMA DestroySetClock ==
  ASSUME ClockInv, DestroySet
  PROVE  ClockInv'
<1>0. /\ UNCHANGED <<due, interval, batch, torun, age, calls, caller, rewound, ahead>>
      /\ spc = "idle" /\ calls = <<>> /\ spc' = "destroyed" /\ container' = {}
      /\ heap' = [t \in Timers |-> IF t \in container THEN "freed" ELSE heap[t]]
      /\ touched' = touched \cup UNION {Use(t) : t \in container}
      /\ left' = 0 /\ readable' = FALSE /\ batch = {} /\ torun = {}
  BY DEF DestroySet, ClockInv, RoundInv
<1>1. touched' \in SUBSET Timers /\ heap' \in [Timers -> {"none", "live", "freed"}]
  BY <1>0 DEF Use, ClockInv, SetTypeOK
<1>2. SetTypeOK'
  BY <1>0, <1>1 DEF ClockInv, SetTypeOK
<1>3. RoundInv' /\ ArmedForFirst' /\ KnownInv'
  BY <1>0 DEF ClockInv, RoundInv, ArmedForFirst, KnownInv
<1> QED
  BY <1>2, <1>3 DEF ClockInv

LEMMA ClockInvStep == ClockInv /\ [SetNext]_setVars => ClockInv'
<1> SUFFICES ASSUME ClockInv, [SetNext]_setVars PROVE ClockInv'
  OBVIOUS
<1>1. CASE Tick \/ Rewind \/ Forward
  BY <1>1, TickClock, RewindClock, ForwardClock
<1>2. ASSUME NEW t \in Timers,
             \E when \in 0 .. MaxWhen, n \in Intervals : addTimer(t, when, n)
      PROVE  ClockInv'
  BY <1>2, AddTimerClock
<1>3. ASSUME NEW t \in Timers, addTimerReturn(t) \/ cancel(t)
      PROVE  ClockInv'
  BY <1>3, AddReturnClock, CancelClock
<1>4. CASE SetStep
  BY <1>4, RunCallClock, HandleReadClock, RunTimerClock, ResetClock DEF SetStep
<1>5. CASE DestroySet
  BY <1>5, DestroySetClock
<1>6. CASE UNCHANGED setVars
  BY <1>6 DEF setVars, ClockInv, SetTypeOK, RoundInv, ArmedForFirst, KnownInv
<1> QED
  BY <1>1, <1>2, <1>3, <1>4, <1>5, <1>6 DEF SetNext

-----------------------------------------------------------------------------
(* The owners of the timers, as long as users are careful.                 *)

(* A step that hands over no timer.                                        *)
LEMMA OwnersSame ==
  ASSUME OwnersInv, UNCHANGED <<heap, interval, container, spc, batch, calls, caller, touched>>
  PROVE  OwnersInv'
<1>1. CallsInv'
  BY CallsSame DEF OwnersInv
<1>2. \A t \in Timers : (OnePlace(t) /\ UserInv(t))'
  BY QueuedSame DEF OwnersInv, OnePlace, UserInv
<1> QED
  BY <1>1, <1>2 DEF OwnersInv

LEMMA AddTimerOwners ==
  ASSUME ClockInv, OwnersInv, NEW t \in Timers, NEW when \in 0 .. MaxWhen, NEW n \in Intervals,
         addTimer(t, when, n)
  PROVE  OwnersInv'
<1>0. /\ UNCHANGED <<container, spc, batch, touched>>
      /\ spc # "destroyed" /\ heap[t] = "none" /\ heap' = [heap EXCEPT ![t] = "live"]
      /\ interval' = [interval EXCEPT ![t] = n]
      /\ calls' = Append(calls, <<"add", t>>) /\ caller' = [caller EXCEPT ![t] = "adding"]
  BY DEF addTimer, NewTimer
<1>1. calls \in Seq(Functor) /\ <<"add", t>> \in Functor
  BY DEF ClockInv, SetTypeOK, Functor
<1>2. /\ ~Queued(<<"add", t>>) /\ ~Queued(<<"cancel", t>>)
      /\ t \notin container /\ t \notin batch
  BY <1>0 DEF OwnersInv, OnePlace, UserInv, CallsInv
<1>4. \A g : Queued(g)' <=> Queued(g) \/ g = <<"add", t>>
  BY <1>0, <1>1, QueuedAppend
<1>5. CallsInv'
  <2>1. /\ Len(calls) \in Nat /\ DOMAIN calls = 1 .. Len(calls)
        /\ DOMAIN calls' = 1 .. Len(calls) + 1 /\ calls'[Len(calls) + 1] = <<"add", t>>
        /\ \A i \in 1 .. Len(calls) : calls'[i] = calls[i]
    BY <1>0, <1>1
  <2>2. \A i \in DOMAIN calls : calls[i] # <<"add", t>> /\ calls[i] # <<"cancel", t>>
    BY <1>2 DEF Queued
  <2>3. ASSUME NEW i \in DOMAIN calls', NEW j \in DOMAIN calls', calls'[i] = calls'[j]
        PROVE  i = j
    BY <2>1, <2>2, <2>3 DEF OwnersInv, CallsInv
  <2>4. ASSUME NEW i \in DOMAIN calls', NEW j \in DOMAIN calls',
               calls'[i][1] = "add", calls'[j][1] = "cancel", calls'[i][2] = calls'[j][2]
        PROVE  i < j
    <3>1. j \in DOMAIN calls /\ calls[j] \in Functor /\ calls'[j] = calls[j]
      BY <1>1, <2>1, <2>4
    <3>2. calls[j] = <<calls[j][1], calls[j][2]>>
      BY <3>1 DEF Functor
    <3>3. i \in DOMAIN calls
      BY <2>1, <2>2, <2>4, <3>1, <3>2
    <3> QED
      BY <2>1, <2>4, <3>1, <3>3 DEF OwnersInv, CallsInv
  <2>5. \A u \in Timers : Queued(<<"cancel", u>>)' =>
          heap'[u] = "live" /\ interval'[u] > 0 /\ caller'[u] = "cancelled"
    BY <1>0, <1>2, <1>4 DEF ClockInv, SetTypeOK, OwnersInv, CallsInv
  <2> QED
    BY <2>3, <2>4, <2>5 DEF CallsInv
<1>6. \A u \in Timers : OnePlace(u)'
  BY <1>0, <1>2, <1>4 DEF ClockInv, SetTypeOK, OwnersInv, OnePlace
<1>7. \A u \in Timers : UserInv(u)'
  BY <1>0, <1>2 DEF ClockInv, SetTypeOK, OwnersInv, UserInv
<1> QED
  BY <1>0, <1>5, <1>6, <1>7 DEF OwnersInv

LEMMA AddReturnOwners ==
  ASSUME ClockInv, OwnersInv, NEW t \in Timers, addTimerReturn(t)
  PROVE  OwnersInv'
<1>0. /\ UNCHANGED <<heap, interval, container, spc, batch, calls, touched>>
      /\ caller[t] = "adding"
      /\ caller' = [caller EXCEPT ![t] = IF heap[t] = "freed" THEN "late" ELSE "id"]
  BY DEF addTimerReturn
<1>2. ~Queued(<<"cancel", t>>)
  BY <1>0 DEF OwnersInv, CallsInv
<1>3. CallsInv'
  BY <1>0, <1>2, CallsSame DEF ClockInv, SetTypeOK, OwnersInv
<1>4. heap[t] = "freed" => interval[t] = 0
  <2>1. interval[t] \in Nat
    BY IntervalIsNat DEF ClockInv
  <2>2. heap[t] = "freed" => ~(interval[t] > 0)
    BY <1>0 DEF OwnersInv, UserInv
  <2> QED
    BY <2>1, <2>2
<1>5. \A u \in Timers : OnePlace(u)'
  BY <1>0, QueuedSame DEF OwnersInv, OnePlace
<1>6. ASSUME NEW u \in Timers PROVE UserInv(u)'
  <2>1. UserInv(u) /\ caller[u] = "adding" => heap[u] # "none"
    BY DEF OwnersInv, UserInv
  <2>2. CASE u = t
    <3>1. caller'[t] = IF heap[t] = "freed" THEN "late" ELSE "id"
      BY <1>0 DEF ClockInv, SetTypeOK
    <3>2. caller'[t] = "late" => heap[t] = "freed"
      BY <3>1
    <3>3. heap[t] # "none" /\ (heap[t] = "freed" => ~(interval[t] > 0))
      BY <1>0, <1>4 DEF OwnersInv, UserInv
    <3> QED
      BY <1>0, <1>4, <2>2, <3>2, <3>3 DEF UserInv
  <2>3. CASE u # t
    BY <1>0, <2>3 DEF ClockInv, SetTypeOK, OwnersInv, UserInv
  <2> QED
    BY <2>2, <2>3
<1> QED
  BY <1>0, <1>3, <1>5, <1>6 DEF OwnersInv

(* The timers that may be cancelled are alive and have no cancel waiting.  *)
LEMMA CancelledIsLive ==
  ASSUME ClockInv, OwnersInv, Careful, NEW t \in Timers, MayCancel(t)
  PROVE  heap[t] = "live" /\ ~Queued(<<"cancel", t>>) /\ interval[t] > 0
BY DEF ClockInv, SetTypeOK, OwnersInv, MayCancel, UserInv, CallsInv

LEMMA CancelOwners ==
  ASSUME ClockInv, OwnersInv, Careful, NEW t \in Timers, cancel(t)
  PROVE  OwnersInv'
<1>0. /\ UNCHANGED <<heap, interval, container, spc, batch, touched>> /\ MayCancel(t)
      /\ calls' = Append(calls, <<"cancel", t>>) /\ caller' = [caller EXCEPT ![t] = "cancelled"]
  BY DEF cancel
<1>1. calls \in Seq(Functor) /\ <<"cancel", t>> \in Functor
  BY DEF ClockInv, SetTypeOK, Functor
<1>2. heap[t] = "live" /\ ~Queued(<<"cancel", t>>) /\ interval[t] > 0
  BY <1>0, CancelledIsLive
<1>4. \A g : Queued(g)' <=> Queued(g) \/ g = <<"cancel", t>>
  BY <1>0, <1>1, QueuedAppend
<1>5. CallsInv'
  <2>1. /\ Len(calls) \in Nat /\ DOMAIN calls = 1 .. Len(calls)
        /\ DOMAIN calls' = 1 .. Len(calls) + 1 /\ calls'[Len(calls) + 1] = <<"cancel", t>>
        /\ \A i \in 1 .. Len(calls) : calls'[i] = calls[i]
    BY <1>0, <1>1
  <2>2. \A i \in DOMAIN calls : calls[i] # <<"cancel", t>>
    BY <1>2 DEF Queued
  <2>3. ASSUME NEW i \in DOMAIN calls', NEW j \in DOMAIN calls', calls'[i] = calls'[j]
        PROVE  i = j
    BY <2>1, <2>2, <2>3 DEF OwnersInv, CallsInv
  <2>4. ASSUME NEW i \in DOMAIN calls', NEW j \in DOMAIN calls',
               calls'[i][1] = "add", calls'[j][1] = "cancel", calls'[i][2] = calls'[j][2]
        PROVE  i < j
    <3>1. i \in 1 .. Len(calls)
      BY <2>1, <2>4
    <3> QED
      BY <2>1, <2>4, <3>1 DEF OwnersInv, CallsInv
  <2>5. \A u \in Timers : Queued(<<"cancel", u>>)' =>
          heap'[u] = "live" /\ interval'[u] > 0 /\ caller'[u] = "cancelled"
    BY <1>0, <1>2, <1>4 DEF ClockInv, SetTypeOK, OwnersInv, CallsInv
  <2> QED
    BY <2>3, <2>4, <2>5 DEF CallsInv
<1>7. \A u \in Timers : OnePlace(u)'
  BY <1>0, <1>4 DEF OwnersInv, OnePlace
<1>8. \A u \in Timers : UserInv(u)'
  BY <1>0, <1>2 DEF ClockInv, SetTypeOK, OwnersInv, UserInv
<1> QED
  BY <1>0, <1>5, <1>7, <1>8 DEF OwnersInv

LEMMA RunCallOwners ==
  ASSUME ClockInv, OwnersInv, RunCall
  PROVE  OwnersInv'
<1>0. /\ UNCHANGED <<interval, spc, batch, caller>> /\ calls \in Seq(Functor)
      /\ spc = "idle" /\ batch = {} /\ calls # <<>> /\ calls' = Tail(calls)
      /\ touched' = touched \cup Use(Head(calls)[2])
  BY DEF RunCall, ClockInv, SetTypeOK, RoundInv, Functor
<1>1. PICK kind \in {"add", "cancel"}, t \in Timers :
           /\ Head(calls) = <<kind, t>>
           /\ Len(calls) \in Nat /\ Len(calls) >= 1 /\ DOMAIN calls = 1 .. Len(calls)
           /\ calls[1] = <<kind, t>> /\ DOMAIN calls' = 1 .. Len(calls) - 1
           /\ \A i \in DOMAIN calls' : calls'[i] = calls[i + 1] /\ i + 1 \in DOMAIN calls
           /\ calls' \in Seq(Functor)
  BY RunCallHead DEF ClockInv
<1>3. Queued(<<kind, t>>) /\ Head(calls)[2] = t
  BY <1>1 DEF Queued
<1>4. \A g : Queued(g)' <=> Queued(g) /\ g # <<kind, t>>
  BY <1>0, <1>1, QueuedTail DEF OwnersInv
<1>5. ASSUME \A u \in Timers : Queued(<<"cancel", u>>)' => heap'[u] = heap[u]
      PROVE  CallsInv'
  <2>1. ASSUME NEW i \in DOMAIN calls', NEW j \in DOMAIN calls', calls'[i] = calls'[j]
        PROVE  i = j
    <3>1. i + 1 = j + 1
      BY <1>1, <2>1 DEF OwnersInv, CallsInv
    <3> QED
      BY <1>1, <3>1
  <2>2. ASSUME NEW i \in DOMAIN calls', NEW j \in DOMAIN calls',
               calls'[i][1] = "add", calls'[j][1] = "cancel", calls'[i][2] = calls'[j][2]
        PROVE  i < j
    <3>1. i + 1 < j + 1
      BY <1>1, <2>2 DEF OwnersInv, CallsInv
    <3> QED
      BY <1>1, <3>1
  <2>3. \A u \in Timers : Queued(<<"cancel", u>>)' =>
          heap'[u] = "live" /\ interval'[u] > 0 /\ caller'[u] = "cancelled"
    BY <1>0, <1>4, <1>5 DEF OwnersInv, CallsInv
  <2> QED
    BY <2>1, <2>2, <2>3 DEF CallsInv
<1>6. CASE kind = "add"
  <2>1. container' = container \cup {t} /\ heap' = heap
    BY <1>1, <1>6 DEF RunCall, addTimerInLoop
  <2>2. heap[t] = "live" /\ t \notin container /\ t \notin batch
    BY <1>3, <1>6 DEF OwnersInv, OnePlace
  <2>3. touched' = {}
    BY <1>0, <1>3, <2>2 DEF OwnersInv, Use
  <2>4. CallsInv'
    BY <1>5, <2>1
  <2>5. \A u \in Timers : OnePlace(u)'
    BY <1>0, <1>4, <1>6, <2>1, <2>2 DEF OwnersInv, OnePlace
  <2>6. \A u \in Timers : UserInv(u)'
    BY <1>0, <2>1 DEF OwnersInv, UserInv
  <2> QED
    BY <2>3, <2>4, <2>5, <2>6 DEF OwnersInv
<1>7. CASE kind = "cancel"
  <2>1. cancelInLoop(t)
    BY <1>1, <1>7 DEF RunCall
  <2>2. heap[t] = "live" /\ interval[t] > 0 /\ caller[t] = "cancelled"
    BY <1>3, <1>7 DEF OwnersInv, CallsInv
  <2>3. ~Queued(<<"add", t>>)
    <3> SUFFICES ASSUME NEW i \in DOMAIN calls, calls[i] = <<"add", t>> PROVE FALSE
      BY DEF Queued
    <3>1. i < 1
      BY <1>1, <1>7 DEF OwnersInv, CallsInv
    <3> QED
      BY <1>1, <3>1
  <2>4. container' = container \ {t} /\ heap' = [heap EXCEPT ![t] = "freed"]
    BY <2>1 DEF cancelInLoop
  <2>5. touched' = {}
    BY <1>0, <1>3, <2>2 DEF OwnersInv, Use
  <2>6. CallsInv'
    BY <1>4, <1>5, <1>7, <2>4 DEF ClockInv, SetTypeOK
  <2>7. \A u \in Timers : OnePlace(u)'
    BY <1>0, <1>4, <1>7, <2>3, <2>4 DEF ClockInv, SetTypeOK, OwnersInv, OnePlace
  <2>8. \A u \in Timers : UserInv(u)'
    BY <1>0, <2>2, <2>4 DEF ClockInv, SetTypeOK, OwnersInv, UserInv
  <2> QED
    BY <2>5, <2>6, <2>7, <2>8 DEF OwnersInv
<1> QED
  BY <1>6, <1>7

LEMMA HandleReadOwners ==
  ASSUME ClockInv, OwnersInv, handleRead
  PROVE  OwnersInv'
<1>0. /\ UNCHANGED <<heap, interval, calls, caller, touched>>
      /\ spc = "idle" /\ spc' = "run"
      /\ batch' \in SUBSET container /\ container' = container \ batch' /\ batch = {}
  BY DEF handleRead, getExpired, ClockInv, RoundInv
<1>1. CallsInv'
  BY <1>0, CallsSame DEF OwnersInv
<1>2. \A u \in Timers : OnePlace(u)'
  BY <1>0, QueuedSame DEF OwnersInv, OnePlace
<1>3. \A u \in Timers : UserInv(u)'
  BY <1>0 DEF OwnersInv, UserInv
<1> QED
  BY <1>0, <1>1, <1>2, <1>3 DEF OwnersInv

LEMMA RunTimerOwners ==
  ASSUME ClockInv, OwnersInv, Careful, RunTimer
  PROVE  OwnersInv'
<1>0. /\ UNCHANGED <<spc, batch, calls>> /\ torun \subseteq batch /\ batch \subseteq Timers
  BY DEF RunTimer, ClockInv, SetTypeOK
<1>1. \A t \in torun : Use(t) = {}
  BY <1>0 DEF OwnersInv, OnePlace, Use
<1>2. CASE UNCHANGED <<heap, interval, container, caller, touched>>
  BY <1>0, <1>2, OwnersSame
<1>3. ASSUME NEW u \in Timers, NEW when \in 0 .. MaxWhen, NEW n \in Intervals,
             NewTimer(u, when, n), addTimerInLoop(u, when),
             caller' = [caller EXCEPT ![u] = "id"], touched' = touched
      PROVE  OwnersInv'
  <2>0. /\ heap[u] = "none" /\ heap' = [heap EXCEPT ![u] = "live"]
        /\ interval' = [interval EXCEPT ![u] = n] /\ container' = container \cup {u}
    BY <1>3 DEF NewTimer, addTimerInLoop
  <2>1. /\ ~Queued(<<"add", u>>) /\ ~Queued(<<"cancel", u>>) /\ u \notin container
        /\ u \notin batch
    BY <2>0 DEF OwnersInv, OnePlace, UserInv, CallsInv
  <2>2. CallsInv'
    BY <1>0, <1>3, <2>0, <2>1, CallsSame DEF ClockInv, SetTypeOK, OwnersInv
  <2>3. \A v \in Timers : OnePlace(v)'
    BY <1>0, <2>0, <2>1, QueuedSame DEF ClockInv, SetTypeOK, OwnersInv, OnePlace
  <2>4. \A v \in Timers : UserInv(v)'
    BY <1>0, <1>3, <2>0, <2>1 DEF ClockInv, SetTypeOK, OwnersInv, UserInv
  <2> QED
    BY <1>3, <2>2, <2>3, <2>4 DEF OwnersInv
<1>4. ASSUME NEW u \in Timers, MayCancel(u), u \in container, cancelInLoop(u),
             caller' = [caller EXCEPT ![u] = "cancelled"], touched' = touched \cup Use(u),
             UNCHANGED interval
      PROVE  OwnersInv'
  <2>1. heap[u] = "live" /\ ~Queued(<<"cancel", u>>)
    BY <1>4, CancelledIsLive
  <2>2. ~Queued(<<"add", u>>) /\ u \notin batch
    BY <1>4 DEF OwnersInv, OnePlace
  <2>3. /\ container' = container \ {u} /\ heap' = [heap EXCEPT ![u] = "freed"]
        /\ touched' = touched
    BY <1>4, <2>1 DEF cancelInLoop, Use
  <2>4. CallsInv'
    BY <1>0, <1>4, <2>1, <2>3, CallsSame DEF ClockInv, SetTypeOK, OwnersInv
  <2>5. \A v \in Timers : OnePlace(v)'
    BY <1>0, <2>2, <2>3, QueuedSame DEF ClockInv, SetTypeOK, OwnersInv, OnePlace
  <2>6. \A v \in Timers : UserInv(v)'
    BY <1>0, <1>4, <2>1, <2>3 DEF ClockInv, SetTypeOK, OwnersInv, UserInv
  <2> QED
    BY <2>3, <2>4, <2>5, <2>6 DEF OwnersInv
<1>5. PICK t \in torun :
        \/ /\ touched' = touched \cup Use(t)
           /\ UNCHANGED <<heap, due, interval, container, left, readable, caller, ahead>>
        \/ \E u \in Timers, when \in 0 .. MaxWhen, n \in Intervals :
             /\ NewTimer(u, when, n)
             /\ addTimerInLoop(u, when)
             /\ caller' = [caller EXCEPT ![u] = "id"]
             /\ touched' = touched \cup Use(t)
        \/ \E u \in Timers :
             /\ MayCancel(u)
             /\ Careful => u \in container
             /\ cancelInLoop(u)
             /\ caller' = [caller EXCEPT ![u] = "cancelled"]
             /\ touched' = touched \cup Use(t) \cup Use(u)
             /\ UNCHANGED <<due, interval, left, readable, ahead>>
  BY DEF RunTimer
<1>6. Use(t) = {} /\ touched \cup Use(t) = touched
  BY <1>1
<1> QED
  BY <1>2, <1>3, <1>4, <1>5, <1>6

LEMMA ResetOwners ==
  ASSUME ClockInv, OwnersInv, reset
  PROVE  OwnersInv'
<1>0. /\ UNCHANGED <<interval, calls, caller>>
      /\ spc = "run" /\ spc' = "idle" /\ batch' = {}
      /\ container' = container \cup {t \in batch : interval[t] > 0}
      /\ heap' = [t \in Timers |-> IF t \in batch /\ interval[t] = 0 THEN "freed" ELSE heap[t]]
      /\ touched' = touched \cup UNION {Use(t) : t \in batch}
  BY DEF reset
<1>1. touched' = {}
  <2>1. \A t \in batch : Use(t) = {}
    BY DEF ClockInv, SetTypeOK, OwnersInv, OnePlace, Use
  <2> QED
    BY <1>0, <2>1 DEF OwnersInv
<1>2. \A t \in Timers : interval[t] \in Nat
  BY IntervalIsNat DEF ClockInv
<1>3. CallsInv'
  <2>1. \A t \in Timers : Queued(<<"cancel", t>>) => heap'[t] = heap[t]
    BY <1>0 DEF OwnersInv, CallsInv
  <2> QED
    BY <1>0, <2>1, CallsSame DEF OwnersInv
<1>4. ASSUME NEW t \in Timers PROVE OnePlace(t)' /\ UserInv(t)'
  <2>1. /\ OnePlace(t) /\ UserInv(t) /\ interval[t] \in Nat
        /\ (Queued(<<"add", t>>)' <=> Queued(<<"add", t>>))
    BY <1>0, <1>2, QueuedSame DEF OwnersInv
  <2>2. heap'[t] = IF t \in batch /\ interval[t] = 0 THEN "freed" ELSE heap[t]
    BY <1>0
  <2>3. OnePlace(t)'
    BY <1>0, <2>1, <2>2 DEF OnePlace
  <2>4. UserInv(t)'
    BY <1>0, <2>1, <2>2 DEF UserInv, OnePlace
  <2> QED
    BY <2>3, <2>4
<1> QED
  BY <1>1, <1>3, <1>4 DEF OwnersInv

LEMMA DestroySetOwners ==
  ASSUME ClockInv, OwnersInv, DestroySet
  PROVE  OwnersInv'
<1>0. /\ UNCHANGED <<interval, batch, calls, caller>>
      /\ calls = <<>> /\ spc' = "destroyed" /\ container' = {} /\ batch = {}
      /\ \A t \in Timers : caller[t] # "adding"
      /\ heap' = [t \in Timers |-> IF t \in container THEN "freed" ELSE heap[t]]
      /\ touched' = touched \cup UNION {Use(t) : t \in container}
  BY DEF DestroySet, ClockInv, RoundInv
<1>1. touched' = {}
  <2>1. \A t \in container : Use(t) = {}
    BY DEF ClockInv, SetTypeOK, OwnersInv, OnePlace, Use
  <2> QED
    BY <1>0, <2>1 DEF OwnersInv
<1>2. \A g : ~Queued(g) /\ ~Queued(g)'
  BY <1>0 DEF Queued
<1>3. CallsInv'
  BY <1>0, <1>2, CallsSame DEF OwnersInv
<1>4. \A t \in Timers : OnePlace(t)'
  BY <1>0, <1>2 DEF OwnersInv, OnePlace
<1>5. \A t \in Timers : UserInv(t)'
  BY <1>0, <1>1 DEF OwnersInv, OnePlace, UserInv
<1> QED
  BY <1>1, <1>3, <1>4, <1>5 DEF OwnersInv

LEMMA SetInvStep == SetInv /\ [SetNext]_setVars => SetInv'
<1> SUFFICES ASSUME SetInv, [SetNext]_setVars PROVE SetInv'
  OBVIOUS
<1>0. ClockInv /\ ClockInv'
  BY ClockInvStep DEF SetInv
<1> SUFFICES ASSUME Careful, OwnersInv PROVE OwnersInv'
  BY <1>0 DEF SetInv
<1>1. CASE Tick \/ Rewind \/ Forward
  BY <1>1, OwnersSame DEF Tick, Rewind, Forward
<1>2. ASSUME NEW t \in Timers,
             \E when \in 0 .. MaxWhen, n \in Intervals : addTimer(t, when, n)
      PROVE  OwnersInv'
  BY <1>0, <1>2, AddTimerOwners
<1>3. ASSUME NEW t \in Timers, addTimerReturn(t) \/ cancel(t)
      PROVE  OwnersInv'
  BY <1>0, <1>3, AddReturnOwners, CancelOwners
<1>4. CASE SetStep
  BY <1>0, <1>4, RunCallOwners, HandleReadOwners, RunTimerOwners, ResetOwners DEF SetStep
<1>5. CASE DestroySet
  BY <1>0, <1>5, DestroySetOwners
<1>6. CASE UNCHANGED setVars
  BY <1>6, OwnersSame DEF setVars
<1> QED
  BY <1>1, <1>2, <1>3, <1>4, <1>5, <1>6 DEF SetNext

(* A timer that is in one place is counted once.                           *)
LEMMA SetInvOwned == Careful /\ SetInv => TimersOwned
<1> SUFFICES ASSUME OwnersInv PROVE TimersOwned
  BY DEF SetInv
<1> DEFINE places(t) ==
      {p \in {"calls", "container", "batch"} :
         \/ p = "calls" /\ \E i \in DOMAIN calls : calls[i] = <<"add", t>>
         \/ p = "container" /\ t \in container
         \/ p = "batch" /\ t \in batch}
<1>1. ASSUME NEW t \in Timers
      PROVE  IF heap[t] = "live" THEN Cardinality(places(t)) = 1 ELSE places(t) = {}
  <2>1. OnePlace(t)
    BY DEF OwnersInv
  <2>2. CASE heap[t] = "live"
    <3>1. \E x : places(t) = {x}
      <4>1. CASE Queued(<<"add", t>>)
        <5>1. places(t) = {"calls"}
          BY <2>1, <4>1 DEF OnePlace, Queued
        <5> QED
          BY <5>1
      <4>2. CASE t \in container
        <5>1. places(t) = {"container"}
          BY <2>1, <4>2 DEF OnePlace, Queued
        <5> QED
          BY <5>1
      <4>3. CASE t \in batch
        <5>1. places(t) = {"batch"}
          BY <2>1, <4>3 DEF OnePlace, Queued
        <5> QED
          BY <5>1
      <4> QED
        BY <2>1, <2>2, <4>1, <4>2, <4>3 DEF OnePlace
    <3>2. PICK x : places(t) = {x}
      BY <3>1
    <3>3. Cardinality({x}) = 1
      BY FS_Singleton
    <3> HIDE DEF places
    <3> QED
      BY <2>2, <3>2, <3>3
  <2>3. CASE heap[t] # "live"
    BY <2>1, <2>3 DEF OnePlace, Queued
  <2> QED
    BY <2>2, <2>3
<1>2. touched = {} /\ \A t \in Timers : caller[t] = "late" => interval[t] = 0
  BY DEF OwnersInv, UserInv
<1> QED
  BY <1>1, <1>2 DEF TimersOwned

-----------------------------------------------------------------------------
(* The parts on their own.                                                 *)

(* No wakeup of ThreadPool is lost: with any number of workers, producers  *)
(* and tasks, and any limit of queue_, a worker only sleeps when the       *)
(* others that are awake are enough for the tasks queued.                  *)
THEOREM NoLostWakeup == PoolSpec => []TasksHaveWorkers
<1>1. PoolInv => TasksHaveWorkers
  BY EnoughIsTasksHaveWorkers DEF PoolInv
<1> QED
  BY <1>1, PoolInvInit, PoolInvStep, PTL DEF PoolSpec

(* ~ThreadPool leaves no thread behind that could still use the pool.      *)
THEOREM PoolOutlivesWorkers == PoolSpec => []NoWorkerAfterDestroy
BY PoolInvInit, PoolInvStep, PoolInvOutlived, PTL DEF PoolSpec

(* The loops EPollerThreadPool hands out, and those ~EPollerThread calls   *)
(* quit() on, exist, unless user code has told them to quit: a loop found  *)
(* dead was always ended by user code, never by the pool itself.           *)
THEOREM LoopsOutliveUse == LoopsSpec => []LoopsUsedAreAlive
BY LoopsInvInit, LoopsInvStep, LoopsInvAlive, PTL DEF LoopsSpec

(* If users cancel only what is safe to cancel (see TimerSet), every Timer *)
(* has exactly one owner until it is freed, the set never uses it          *)
(* afterwards, and addTimer's own late read is of a timer that does not    *)
(* repeat.                                                                 *)
THEOREM TimersHaveOneOwner == Careful => (SetSpec => []TimersOwned)
<1> SUFFICES ASSUME Careful PROVE SetSpec => []TimersOwned
  OBVIOUS
<1>1. SetInv => TimersOwned
  BY SetInvOwned
<1> QED
  BY <1>1, SetInvInit, SetInvStep, PTL DEF SetSpec

(* The timerfd never goes off later than the first timer is due, plus what *)
(* the clock was set forward since, whatever users cancel.                 *)
THEOREM TimerfdArmed == SetSpec => []ArmedForFirst
<1>1. SetInv => ArmedForFirst
  BY DEF SetInv, ClockInv
<1> QED
  BY <1>1, SetInvInit, SetInvStep, PTL DEF SetSpec

-----------------------------------------------------------------------------
(* All of them together, as the runs check them.                           *)
UnreadInv == unread \in Seq(1 .. MaxPut)

ServicesInv == PoolInv /\ LoopsInv /\ SetInv /\ WheelInv /\ BufferInv /\ UnreadInv

LEMMA ServicesInvInit == Init => ServicesInv
<1>1. BufferInit => UnreadInv
  BY EmptySeq DEF BufferInit, UnreadInv
<1> QED
  BY <1>1, PoolInvInit, LoopsInvInit, SetInvInit, WheelInvInit, BufferInvInit
     DEF Init, ServicesInv

(* The bytes in a Buffer are among those that were put in.                 *)
LEMMA UnreadInvStep ==
  BufferInv /\ UnreadInv /\ [BufferNext]_bufferVars => UnreadInv'
<1> SUFFICES ASSUME BufferInv, UnreadInv, [BufferNext]_bufferVars PROVE UnreadInv'
  OBVIOUS
<1>0. put \in Nat /\ MaxPut \in Nat /\ unread \in Seq(1 .. MaxPut) /\ Len(unread) \in Nat
  BY BufferAssumption DEF BufferInv, UnreadInv
<1>1. ASSUME NEW n \in 0 .. MaxPut, Put(n) PROVE UnreadInv'
  <2>1. Fresh(n) \in Seq(1 .. MaxPut)
    BY <1>0, <1>1 DEF Put, Fresh
  <2> QED
    BY <1>0, <1>1, <2>1 DEF Put, UnreadInv
<1>2. ASSUME NEW n \in 0 .. MaxPut, Retrieve(n) PROVE UnreadInv'
  <2>1. unread' = SubSeq(unread, n + 1, Len(unread))
    BY <1>2 DEF Retrieve
  <2>2. SubSeq(unread, n + 1, Len(unread)) \in Seq(1 .. MaxPut)
    BY <1>0
  <2> QED
    BY <2>1, <2>2 DEF UnreadInv
<1>3. ASSUME NEW n \in 0 .. MaxPut, Unwrite(n) PROVE UnreadInv'
  <2>1. unread' = SubSeq(unread, 1, Len(unread) - n)
    BY <1>3 DEF Unwrite
  <2>2. SubSeq(unread, 1, Len(unread) - n) \in Seq(1 .. MaxPut)
    BY <1>0
  <2> QED
    BY <2>1, <2>2 DEF UnreadInv
<1>4. CASE \E n \in 0 .. MaxPut : Shrink(n)
  BY <1>4 DEF Shrink, UnreadInv
<1>5. CASE UNCHANGED bufferVars
  BY <1>5 DEF bufferVars, UnreadInv
<1> QED
  BY <1>1, <1>2, <1>3, <1>4, <1>5 DEF BufferNext, AppendBytes, ReadFd

LEMMA ServicesInvStep ==
  ServicesInv /\ [PoolStep \/ LoopsStep \/ SetPart \/ WheelPart \/ BufferPart]_servicesVars
    => ServicesInv'
<1> SUFFICES ASSUME ServicesInv,
                    [PoolStep \/ LoopsStep \/ SetPart \/ WheelPart \/ BufferPart]_servicesVars
             PROVE  ServicesInv'
  OBVIOUS
<1>1. /\ [PoolNext]_poolVars /\ [LoopsNext]_loopsVars /\ [SetNext]_setVars
      /\ [WheelNext]_wheelVars /\ [BufferNext]_bufferVars
  BY DEF PoolStep, LoopsStep, SetPart, WheelPart, BufferPart, servicesVars
<1> QED
  BY <1>1, PoolInvStep, LoopsInvStep, SetInvStep, WheelInvStep, BufferInvStep,
     UnreadInvStep DEF ServicesInv

(* ThreadPool, EPollerThread, TimerSet, TimerWheel and Buffer keep their   *)
(* invariants next to each other.                                          *)
THEOREM ServicesInvariant == Spec => []ServicesInv
BY ServicesInvInit, ServicesInvStep, PTL DEF Spec

(* Every variable of the five parts keeps its type.                        *)
THEOREM ServicesTypeCorrect == Spec => []TypeOK
<1>1. ServicesInv => TypeOK
  <2>1. BufferInv /\ UnreadInv => BufferTypeOK
    BY DEF BufferInv, UnreadInv, BufferTypeOK, WellFormed, Buffers, Byte
  <2> QED
    BY <2>1 DEF ServicesInv, PoolInv, LoopsInv, SetInv, ClockInv, WheelInv, TypeOK
<1> QED
  BY <1>1, ServicesInvariant, PTL

(* Threads and what they use live long enough for each other: no worker is *)
(* left in a destroyed ThreadPool, and of the loops only those that user   *)
(* code told to quit are ever used after their end.                        *)
THEOREM PoolsAreOutlived == Spec => []PoolsOutlived
<1>1. ServicesInv => PoolsOutlived
  BY PoolInvOutlived, LoopsInvAlive DEF ServicesInv, PoolsOutlived
<1> QED
  BY <1>1, ServicesInvariant, PTL

(* What is proved of ThreadPool and TimerSet alone holds where they are    *)
(* put together; the owners of timers, if users are careful.               *)
THEOREM PartsTogether ==
  Careful => (Spec => [](TasksHaveWorkers /\ TimersOwned /\ ArmedForFirst))
<1> SUFFICES ASSUME Careful
             PROVE  Spec => [](TasksHaveWorkers /\ TimersOwned /\ ArmedForFirst)
  OBVIOUS
<1>1. ServicesInv => TasksHaveWorkers /\ TimersOwned /\ ArmedForFirst
  BY EnoughIsTasksHaveWorkers, SetInvOwned DEF ServicesInv, PoolInv, SetInv, ClockInv
<1> QED
  BY <1>1, ServicesInvariant, PTL
=============================================================================
