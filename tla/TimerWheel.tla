----------------------------- MODULE TimerWheel ------------------------------
(***************************************************************************)
(* TimerWheel (ydx_timer_wheel.cpp): a ring of buckets, one per            *)
(* millisecond, that only moves when addNode() is given a later time.  The *)
(* buckets hold the only strong references to a node; ~TimerNode runs its  *)
(* callback, so a node fires when its last reference goes.  The wheel      *)
(* stays on one thread.  Time is counted in units of a PerMilli-th of a    *)
(* millisecond since the wheel was made.                                   *)
(***************************************************************************)
EXTENDS Integers

CONSTANTS
  Nodes,       \* the TimerNodes that are made
  Buckets,     \* bucket_num_
  PerMilli,    \* units of time in a millisecond
  MaxTime      \* bound: the latest time given

ASSUME WheelAssumption ==
  Buckets \in Nat \ {0} /\ PerMilli \in Nat \ {0} /\ MaxTime \in Nat

VARIABLES
  node_circle_buf,  \* the nodes of each bucket; the last bucket is back()
  time,             \* time_
  node,             \* each node: not yet made, held by the wheel, or how it was fired
  stamp,            \* time_ when the node was last put in a bucket
  held              \* how much time_ had moved since then when the node fired

wheelVars == <<node_circle_buf, time, node, stamp, held>>

WheelTypeOK ==
  /\ node_circle_buf \in [1 .. Buckets -> SUBSET Nodes]
  /\ time \in 0 .. MaxTime
  /\ node \in [Nodes -> {"none", "held", "fired", "refused", "dropped"}]
  /\ stamp \in [Nodes -> 0 .. MaxTime]
  /\ held \in [Nodes -> 0 .. MaxTime]

WheelInit ==
  /\ node_circle_buf = [b \in 1 .. Buckets |-> {}]
  /\ time = 0
  /\ node = [n \in Nodes |-> "none"]
  /\ stamp = [n \in Nodes |-> 0]
  /\ held = [n \in Nodes |-> 0]

-----------------------------------------------------------------------------
(* timeDifferenceMicro: whole milliseconds, rounded towards zero.          *)
timeDifferenceMicro(high, low) ==
  IF high >= low THEN (high - low) \div PerMilli ELSE -((low - high) \div PerMilli)

(* Whether some bucket holds n.                                            *)
InBuckets(buf, n) == \E b \in 1 .. Buckets : n \in buf[b]

(* push_back(Bucket()) k times: the k oldest buckets are destroyed.        *)
PushBuckets(k) ==
  [b \in 1 .. Buckets |-> IF b + k <= Buckets THEN node_circle_buf[b + k] ELSE {}]

(* Mutant: the wheel's time follows every node.                            *)
addNode_AlwaysSetsTime(t, n) ==
  LET k == timeDifferenceMicro(t, time)
      buf == PushBuckets(k)
      gone == {m \in Nodes : node[m] = "held" /\ ~InBuckets(buf, m)}
  IN
  /\ node[n] = "none" /\ k >= 0
  /\ time' = t
  /\ node_circle_buf' = [buf EXCEPT ![Buckets] = @ \cup {n}]
  /\ node' = [m \in Nodes |-> IF m = n THEN "held"
                              ELSE IF m \in gone THEN "fired" ELSE node[m]]
  /\ held' = [m \in Nodes |-> IF m \in gone THEN time' - stamp[m] ELSE held[m]]
  /\ stamp' = [stamp EXCEPT ![n] = time']

addNode(t, n) ==
  LET k == timeDifferenceMicro(t, time)
      buf == PushBuckets(k)
      gone == {m \in Nodes : node[m] = "held" /\ ~InBuckets(buf, m)}
  IN
  /\ node[n] = "none"
  /\ IF k < 0
       THEN /\ node' = [node EXCEPT ![n] = "refused"]
            /\ UNCHANGED <<node_circle_buf, time, stamp, held>>
       ELSE /\ time' = IF k > 0 THEN t ELSE time
            /\ node_circle_buf' = [buf EXCEPT ![Buckets] = @ \cup {n}]
            /\ node' = [m \in Nodes |-> IF m = n THEN "held"
                                        ELSE IF m \in gone THEN "fired" ELSE node[m]]
            /\ held' = [m \in Nodes |-> IF m \in gone THEN time' - stamp[m] ELSE held[m]]
            /\ stamp' = [stamp EXCEPT ![n] = time']

(* refreshNode: a node that is still held gets another reference.          *)
refreshNode(n) ==
  /\ node[n] = "held"
  /\ node_circle_buf' = [node_circle_buf EXCEPT ![Buckets] = @ \cup {n}]
  /\ stamp' = [stamp EXCEPT ![n] = time]
  /\ UNCHANGED <<time, node, held>>

(* The wheel goes, and with it the nodes it holds: they all fire.  (Those  *)
(* not yet made are never added.)                                          *)
DestroyWheel ==
  /\ node_circle_buf' = [b \in 1 .. Buckets |-> {}]
  /\ node' = [n \in Nodes |-> IF node[n] \in {"none", "held"} THEN "dropped" ELSE node[n]]
  /\ UNCHANGED <<time, stamp, held>>

WheelNext ==
  \/ \E n \in Nodes : (\E t \in 0 .. MaxTime : addNode(t, n)) \/ refreshNode(n)
  \/ DestroyWheel

WheelSpec == WheelInit /\ [][WheelNext]_wheelVars

-----------------------------------------------------------------------------
(* A node fires exactly when its last reference goes: it is held, and      *)
(* unfired, as long as some bucket has it.  It is not fired before the     *)
(* wheel's time has moved on by a millisecond per bucket since it was      *)
(* added or last refreshed.  Each addNode drops a fraction of a            *)
(* millisecond, so it may be held for longer, but for less than twice as   *)
(* long, however the times given fall.                                     *)
WheelWindow ==
  \A n \in Nodes :
    /\ node[n] = "held" <=> InBuckets(node_circle_buf, n)
    /\ node[n] = "fired" => held[n] >= Buckets * PerMilli
    /\ node[n] = "held" => time - stamp[n] <= (Buckets - 1) * (2 * PerMilli - 1)
=============================================================================
