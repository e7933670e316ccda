--------------------------- MODULE TcpServerProofs ---------------------------
(***************************************************************************)
(* The life of a connection, for any number of connections, io loops and   *)
(* user calls: what CloseAssertHolds, CallbacksPaired,                     *)
(* NothingAfterDestroyed and RemoveFindsConnection say holds as long as    *)
(* the DOWN callback does not send.                                        *)
(*                                                                         *)
(* The inductive invariant ties the state of each connection to the        *)
(* functors about it that the loops have still to begin: a connection is   *)
(* in one of six stages, and in each of them at most one functor, on one   *)
(* loop, will take it to the next.                                         *)
(***************************************************************************)
EXTENDS TcpServer, TLAPS

(* What the state of TcpConnection and Channel is before                   *)
(* connectEstablished, from then to handleClose, from then to              *)
(* connectDestroyed, and after it.                                         *)
IsFresh(k) ==
  /\ k.index = "kNew" /\ k.events = {}
  /\ k.ups = 0 /\ k.downs = 0 /\ k.established = 0 /\ k.destroyed = 0
  /\ k.aborted = FALSE

IsUp(k) ==
  /\ k.state \in {"kConnected", "kDisconnecting"}
  /\ k.index = "kAdded" /\ "read" \in k.events
  /\ k.ups = 1 /\ k.downs = 0 /\ k.established = 1 /\ k.destroyed = 0
  /\ k.aborted = FALSE

IsDown(k) ==
  /\ k.state \in {"kDisconnected", "kDisconnecting"}
  /\ k.index = "kDeleted" /\ k.events = {}
  /\ k.ups = 1 /\ k.downs = 1 /\ k.established = 1 /\ k.destroyed = 0
  /\ k.aborted = FALSE

IsGone(k) ==
  /\ k.index = "kNew" /\ k.events = {}
  /\ k.ups = 1 /\ k.downs = 1 /\ k.established = 1 /\ k.destroyed = 1
  /\ k.aborted = FALSE

-----------------------------------------------------------------------------
(* The functors a loop has still to begin, in order.                       *)
rest(l) == IF lpc[l] = "erase" THEN Tail(batch[l]) ELSE batch[l]
work(l) == rest(l) \o queue[l]

Occurs(s, x)        == \E i \in 1 .. Len(s) : s[i] = x
Has(l, what, c)     == Occurs(work(l), <<what, c>>)
None(what, c)       == \A l \in Loops : ~Has(l, what, c)
OnlyAt(at, what, c) == \A l \in Loops : Has(l, what, c) <=> l = at

Inactive(c) == \A l \in Loops : c \notin active[l]

(* The six stages.                                                         *)
Unborn(c) ==
  /\ phase[c] # "accepted" /\ IsFresh(conn[c])
  /\ None("established", c) /\ None("remove", c) /\ None("destroyed", c)
  /\ Inactive(c)

Announced(c) ==
  /\ phase[c] = "accepted" /\ IsFresh(conn[c]) /\ c \in connections
  /\ OnlyAt(loopOf[c], "established", c) /\ None("remove", c) /\ None("destroyed", c)
  /\ Inactive(c)

Established(c) ==
  /\ phase[c] = "accepted" /\ IsUp(conn[c]) /\ c \in connections
  /\ None("established", c) /\ None("remove", c) /\ None("destroyed", c)
  /\ \A l \in Loops : c \in active[l] => l = loopOf[c]

Removing(c) ==
  /\ phase[c] = "accepted" /\ IsDown(conn[c]) /\ c \in connections /\ loopOf[c] # Base
  /\ None("established", c) /\ OnlyAt(Base, "remove", c) /\ None("destroyed", c)
  /\ Inactive(c)

Ending(c) ==
  /\ phase[c] = "accepted" /\ IsDown(conn[c])
  /\ None("established", c) /\ None("remove", c) /\ OnlyAt(loopOf[c], "destroyed", c)
  /\ Inactive(c)

Ended(c) ==
  /\ phase[c] = "accepted" /\ IsGone(conn[c])
  /\ None("established", c) /\ None("remove", c) /\ None("destroyed", c)
  /\ Inactive(c)

Stage(c) ==
  Unborn(c) \/ Announced(c) \/ Established(c) \/ Removing(c) \/ Ending(c) \/ Ended(c)

(* No functor but shutdownInLoop is there twice.                           *)
Unique(s) ==
  \A i, j \in 1 .. Len(s) : s[i] = s[j] /\ s[i][1] # "shutdown" => i = j

(* A loop has functors in hand only while it runs them; the base loop,     *)
(* between the two halves of removeConnectionInLoop, deals with a          *)
(* connection whose connectDestroyed is queued or has run.                 *)
LoopsInv ==
  \A l \in Loops :
    /\ lpc[l] \in {"poll", "dispatch"} => batch[l] = <<>>
    /\ lpc[l] = "erase" =>
         /\ l = Base
         /\ batch[l] # <<>>
         /\ \E c \in Conns : Head(batch[l]) = <<"remove", c>> /\ (Ending(c) \/ Ended(c))

ServerInv ==
  /\ TypeOK
  /\ LoopsInv
  /\ \A l \in Loops : Unique(work(l))
  /\ \A c \in Conns : Stage(c)

-----------------------------------------------------------------------------
(* The operations of a connection.                                         *)

(* The user's calls keep a connection up.                                  *)
LEMMA SendUp ==
  ASSUME NEW k \in Connection, IsUp(k), NEW full \in BOOLEAN
  PROVE  send(k, full) \in Connection /\ IsUp(send(k, full))
BY DEF send, enableWriting, update, isWriting, IsUp, Connection

LEMMA ShutdownUp ==
  ASSUME NEW k \in Connection, IsUp(k)
  PROVE  shutdown(k) \in Connection /\ IsUp(shutdown(k))
BY DEF shutdown, shutdownInLoop, isWriting, IsUp, Connection, States

LEMMA CallbackUp ==
  ASSUME NEW k \in Connection, IsUp(k), NEW user \in UserCalls, NEW full \in BOOLEAN
  PROVE  callback(k, user, full) \in Connection /\ IsUp(callback(k, user, full))
<1>1. CASE user = "nothing"
  BY <1>1 DEF callback
<1>2. CASE user = "send"
  BY <1>2, SendUp DEF callback
<1>3. CASE user = "shutdown"
  BY <1>3, ShutdownUp DEF callback
<1> QED
  BY <1>1, <1>2, <1>3 DEF UserCalls

(* connectEstablished brings a fresh connection up.                        *)
LEMMA EstablishedIsUp ==
  ASSUME NEW k \in Connection, IsFresh(k), NEW user \in UserCalls, NEW full \in BOOLEAN
  PROVE  /\ connectEstablished(k, user, full) \in Connection
         /\ IsUp(connectEstablished(k, user, full))
<1> DEFINE e == enableReading([k EXCEPT !.state = "kConnected"])
           f == [e EXCEPT !.established = @ + 1, !.ups = @ + 1]
<1> DEFINE g == [k EXCEPT !.state = "kConnected", !.events = {"read"}]
<1>1. g \in Connection /\ g.state = "kConnected" /\ g.events = {"read"} /\ g.index = "kNew"
  BY DEF IsFresh, Connection, States
<1>2. /\ g.ups = 0 /\ g.downs = 0 /\ g.established = 0 /\ g.destroyed = 0
      /\ g.aborted = FALSE
  BY DEF IsFresh, Connection
<1>3. e = update(g)
  BY DEF enableReading, IsFresh, Connection
<1> HIDE DEF g
<1>4. e \in Connection /\ e.state = "kConnected" /\ e.index = "kAdded" /\ "read" \in e.events
  BY <1>1, <1>3 DEF update, Connection
<1>5. /\ e.ups = 0 /\ e.downs = 0 /\ e.established = 0 /\ e.destroyed = 0
      /\ e.aborted = FALSE
  BY <1>1, <1>2, <1>3 DEF update, Connection
<1> HIDE DEF e
<1>6. f \in Connection /\ IsUp(f)
  <2>1. f \in Connection
    <3>1. f = [e EXCEPT !.established = 1, !.ups = 1]
      BY <1>5
    <3> HIDE DEF f
    <3> QED
      BY <1>4, <3>1 DEF Connection
  <2>2. f.ups = 1 /\ f.established = 1
    BY <1>4, <1>5 DEF Connection
  <2>3. /\ f.downs = 0 /\ f.destroyed = 0 /\ f.aborted = FALSE
        /\ f.state = "kConnected" /\ f.index = "kAdded" /\ "read" \in f.events
    BY <1>4, <1>5 DEF Connection
  <2> QED
    BY <2>1, <2>2, <2>3 DEF IsUp
<1> HIDE DEF f
<1>7. connectEstablished(k, user, full) = callback(f, user, full)
  BY DEF e, f, connectEstablished
<1> QED
  BY <1>6, <1>7, CallbackUp

(* handleClose takes a connection that is up down, if the DOWN callback    *)
(* does not send: to shut down what is already disconnected does nothing.  *)
LEMMA CloseGoesDown ==
  ASSUME NEW k \in Connection, IsUp(k), NEW down \in UserCalls \ {"send"}, NEW full \in BOOLEAN
  PROVE  handleClose(k, down, full) \in Connection /\ IsDown(handleClose(k, down, full))
<1> DEFINE d == disableAll([k EXCEPT !.state = "kDisconnected"])
           e == [d EXCEPT !.downs = @ + 1]
<1>1. d \in Connection /\ d.state = "kDisconnected" /\ d.index = "kDeleted" /\ d.events = {}
  BY DEF disableAll, update, IsUp, Connection, States
<1>2. /\ d.ups = 1 /\ d.downs = 0 /\ d.established = 1 /\ d.destroyed = 0
      /\ d.aborted = FALSE
  BY DEF disableAll, update, IsUp, Connection, States
<1>3. handleClose(k, down, full) = callback(e, down, full)
  BY DEF handleClose, IsUp
<1> HIDE DEF d
<1>4. e \in Connection /\ IsDown(e) /\ e.state = "kDisconnected"
  BY <1>1, <1>2 DEF IsDown, Connection
<1> HIDE DEF e
<1>5. callback(e, down, full) = e
  BY <1>4 DEF callback, shutdown, UserCalls
<1> QED
  BY <1>3, <1>4, <1>5

LEMMA ErrorKeeps ==
  ASSUME NEW k \in Connection
  PROVE  /\ handleError(k) \in Connection
         /\ IsUp(k) => IsUp(handleError(k))
         /\ IsDown(k) => IsDown(handleError(k))
BY DEF handleError, IsUp, IsDown, Connection

LEMMA ReadUpOrDown ==
  ASSUME NEW k \in Connection, IsUp(k), NEW user \in UserCalls,
         NEW down \in UserCalls \ {"send"}, NEW full \in BOOLEAN
  PROVE  /\ handleRead(k, user, down, full) \in Connection
         /\ IsUp(handleRead(k, user, down, full)) \/ IsDown(handleRead(k, user, down, full))
<1>1. CASE k.data
  <2> DEFINE d == [k EXCEPT !.data = FALSE]
  <2>1. d \in Connection /\ IsUp(d)
    BY DEF IsUp, Connection
  <2>2. handleRead(k, user, down, full) = callback(d, user, full)
    BY <1>1 DEF handleRead
  <2> QED
    BY <2>1, <2>2, CallbackUp
<1>2. CASE ~k.data
  <2>1. handleRead(k, user, down, full) \in {handleError(k), handleClose(k, down, full), k}
    BY <1>2 DEF handleRead
  <2> QED
    BY <2>1, ErrorKeeps, CloseGoesDown
<1> QED
  BY <1>1, <1>2

LEMMA WriteKeeps ==
  ASSUME NEW k \in Connection, NEW full \in BOOLEAN
  PROVE  /\ handleWrite(k, full) \in Connection
         /\ IsUp(k) => IsUp(handleWrite(k, full))
         /\ IsDown(k) => IsDown(handleWrite(k, full))
<1>1. CASE ~isWriting(k)
  BY <1>1 DEF handleWrite
<1>2. CASE isWriting(k)
  <2>1. ~IsDown(k)
    BY <1>2 DEF isWriting, IsDown
  <2> QED
    BY <1>2, <2>1 DEF handleWrite, disableWriting, update, IsUp, Connection
<1> QED
  BY <1>1, <1>2

(* Whatever events are reported, a connection that is up stays up or goes  *)
(* down, once.                                                             *)
LEMMA EventUpOrDown ==
  ASSUME NEW k \in Connection, IsUp(k), NEW r, NEW user \in UserCalls,
         NEW down \in UserCalls \ {"send"}, NEW full \in BOOLEAN
  PROVE  /\ handleEvent(k, r, user, down, full) \in Connection
         /\ \/ IsUp(handleEvent(k, r, user, down, full))
            \/ IsDown(handleEvent(k, r, user, down, full))
<1> DEFINE c == IF "HUP" \in r /\ "IN" \notin r THEN handleClose(k, down, full) ELSE k
           e == IF "ERR" \in r THEN handleError(c) ELSE c
           i == IF "IN" \in r THEN handleRead(e, user, down, full) ELSE e
<1>1. c \in Connection /\ (IsUp(c) \/ (IsDown(c) /\ "IN" \notin r))
  BY CloseGoesDown
<1> HIDE DEF c
<1>2. e \in Connection /\ (IsUp(e) \/ (IsDown(e) /\ "IN" \notin r))
  BY <1>1, ErrorKeeps
<1> HIDE DEF e
<1>3. i \in Connection /\ (IsUp(i) \/ IsDown(i))
  BY <1>2, ReadUpOrDown
<1>4. handleEvent(k, r, user, down, full) = IF "OUT" \in r THEN handleWrite(i, full) ELSE i
  BY DEF handleEvent, c, e, i
<1> HIDE DEF i
<1> QED
  BY <1>3, <1>4, WriteKeeps

(* connectDestroyed ends a connection that is down.                        *)
LEMMA DestroyedIsGone ==
  ASSUME NEW k \in Connection, IsDown(k), NEW down, NEW full
  PROVE  /\ connectDestroyed(k, down, full) \in Connection
         /\ IsGone(connectDestroyed(k, down, full))
<1>1. connectDestroyed(k, down, full) = remove([k EXCEPT !.destroyed = @ + 1])
  BY DEF connectDestroyed, IsDown
<1> DEFINE e == [k EXCEPT !.destroyed = @ + 1]
<1>2. /\ e \in Connection
      /\ e.events = {} /\ e.ups = 1 /\ e.downs = 1 /\ e.established = 1 /\ e.destroyed = 1
      /\ e.aborted = FALSE
  BY DEF IsDown, Connection
<1> HIDE DEF e
<1>3. remove(e) \in Connection /\ IsGone(remove(e))
  BY <1>2 DEF remove, IsGone, Connection
<1> QED
  BY <1>1, <1>3 DEF e

(* What the peer, shutdown() in another thread and shutdownInLoop change   *)
(* does not matter to any of this.                                         *)
LEMMA OthersKeep ==
  ASSUME NEW k \in Connection,
         NEW m \in {shutdownInLoop(k), [k EXCEPT !.data = TRUE], [k EXCEPT !.peer = "fin"],
                    [k EXCEPT !.peer = "rst", !.err = TRUE]}
  PROVE  /\ m \in Connection
         /\ IsFresh(k) => IsFresh(m)
         /\ IsUp(k) => IsUp(m)
         /\ IsDown(k) => IsDown(m)
         /\ IsGone(k) => IsGone(m)
<1>1. CASE m = shutdownInLoop(k)
  BY <1>1 DEF shutdownInLoop, IsFresh, IsUp, IsDown, IsGone, Connection
<1>2. CASE m = [k EXCEPT !.data = TRUE]
  BY <1>2 DEF IsFresh, IsUp, IsDown, IsGone, Connection
<1>3. CASE m = [k EXCEPT !.peer = "fin"]
  BY <1>3 DEF IsFresh, IsUp, IsDown, IsGone, Connection, Peers
<1>4. CASE m = [k EXCEPT !.peer = "rst", !.err = TRUE]
  BY <1>4 DEF IsFresh, IsUp, IsDown, IsGone, Connection, Peers
<1> QED
  BY <1>1, <1>2, <1>3, <1>4

-----------------------------------------------------------------------------
(* The functors of a loop are a queue.                                     *)

(* The three things a step does to what the loops have still to begin:     *)
(* nothing, one functor more at the end for l, or l begins its first.      *)
Kept == \A m \in Loops : work(m)' = work(m)
Queued(l, f) == \A m \in Loops : work(m)' = IF m = l THEN Append(work(m), f) ELSE work(m)
Begun(l) == /\ work(l) # <<>>
            /\ \A m \in Loops : work(m)' = IF m = l THEN Tail(work(m)) ELSE work(m)

LEMMA WorkType ==
  ASSUME TypeOK, LoopsInv, NEW l \in Loops
  PROVE  /\ rest(l) \in Seq(Functor) /\ queue[l] \in Seq(Functor) /\ batch[l] \in Seq(Functor)
         /\ work(l) \in Seq(Functor)
<1>1. queue[l] \in Seq(Functor) /\ batch[l] \in Seq(Functor)
  BY DEF TypeOK
<1>2. lpc[l] = "erase" => batch[l] # <<>>
  BY DEF LoopsInv
<1>3. rest(l) \in Seq(Functor)
  BY <1>1, <1>2 DEF rest
<1> QED
  BY <1>1, <1>3 DEF work

(* Appending and removing the first, for the functors in a sequence.       *)
LEMMA AppendOccurs ==
  ASSUME NEW s \in Seq(Functor), NEW f \in Functor
  PROVE  /\ \A x : Occurs(Append(s, f), x) <=> Occurs(s, x) \/ x = f
         /\ Unique(s) /\ (f[1] = "shutdown" \/ ~Occurs(s, f)) => Unique(Append(s, f))
<1>1. /\ Len(Append(s, f)) = Len(s) + 1 /\ Len(s) \in Nat
      /\ Append(s, f)[Len(s) + 1] = f
      /\ \A i \in 1 .. Len(s) : Append(s, f)[i] = s[i]
  OBVIOUS
<1>2. \A x : Occurs(Append(s, f), x) <=> Occurs(s, x) \/ x = f
  BY <1>1 DEF Occurs
<1>3. Unique(s) /\ (f[1] = "shutdown" \/ ~Occurs(s, f)) => Unique(Append(s, f))
  BY <1>1 DEF Unique, Occurs
<1> QED
  BY <1>2, <1>3

LEMMA TailOccurs ==
  ASSUME NEW s \in Seq(Functor), s # <<>>, Unique(s)
  PROVE  /\ \A x : x[1] # "shutdown" => (Occurs(Tail(s), x) <=> Occurs(s, x) /\ x # Head(s))
         /\ Unique(Tail(s))
         /\ Occurs(s, Head(s))
<1>1. /\ Len(s) \in Nat /\ Len(s) > 0 /\ Len(Tail(s)) = Len(s) - 1 /\ Head(s) = s[1]
      /\ \A i \in 1 .. Len(s) - 1 : Tail(s)[i] = s[i + 1]
  OBVIOUS
<1>2. ASSUME NEW x, x[1] # "shutdown"
      PROVE  Occurs(Tail(s), x) <=> Occurs(s, x) /\ x # Head(s)
  <2>1. ASSUME NEW i \in 1 .. Len(Tail(s)), Tail(s)[i] = x
        PROVE  Occurs(s, x) /\ x # Head(s)
    <3>1. i + 1 \in 1 .. Len(s) /\ s[i + 1] = x /\ 1 \in 1 .. Len(s) /\ i + 1 # 1
      BY <1>1, <2>1
    <3>2. s[1] # x
      BY <1>2, <3>1 DEF Unique
    <3> QED
      BY <1>1, <3>1, <3>2 DEF Occurs
  <2>2. ASSUME NEW j \in 1 .. Len(s), s[j] = x, x # Head(s)
        PROVE  Occurs(Tail(s), x)
    <3>1. j - 1 \in 1 .. Len(Tail(s)) /\ Tail(s)[j - 1] = x
      BY <1>1, <2>2
    <3> QED
      BY <3>1 DEF Occurs
  <2> QED
    BY <2>1, <2>2 DEF Occurs
<1>3. Unique(Tail(s))
  BY <1>1 DEF Unique
<1>4. Occurs(s, Head(s))
  BY <1>1 DEF Occurs
<1> QED
  BY <1>2, <1>3, <1>4

LEMMA AppendLast ==
  ASSUME NEW s \in Seq(Functor), NEW t \in Seq(Functor), NEW f \in Functor
  PROVE  s \o Append(t, f) = Append(s \o t, f)
OBVIOUS

LEMMA TailFirst ==
  ASSUME NEW s \in Seq(Functor), NEW t \in Seq(Functor), s # <<>>
  PROVE  /\ Tail(s) \o t = Tail(s \o t)
         /\ Head(s) = Head(s \o t)
         /\ s \o t # <<>>
<1>1. Tail(s) \in Seq(Functor) /\ Len(Tail(s)) = Len(s) - 1 /\ Len(s) > 0
  OBVIOUS
<1>2. s \o t \in Seq(Functor) /\ Len(s \o t) = Len(s) + Len(t)
  OBVIOUS
<1>3. s \o t # <<>> /\ Head(s) = Head(s \o t)
  BY <1>1, <1>2
<1> QED
  BY <1>1, <1>2, <1>3

(* queueInLoop adds to the end.                                            *)
LEMMA QueueInLoopQueues ==
  ASSUME TypeOK, LoopsInv, NEW l \in Loops, NEW f \in Functor,
         queue' = [queue EXCEPT ![l] = Append(@, f)],
         \A m \in Loops : rest(m)' = rest(m)
  PROVE  Queued(l, f)
<1> SUFFICES ASSUME NEW m \in Loops
             PROVE  work(m)' = IF m = l THEN Append(work(m), f) ELSE work(m)
  BY DEF Queued
<1>1. work(m)' = rest(m) \o queue'[m]
  BY DEF work
<1>2. queue'[m] = IF m = l THEN Append(queue[m], f) ELSE queue[m]
  BY DEF TypeOK
<1>3. CASE m = l
  <2>1. rest(m) \in Seq(Functor) /\ queue[m] \in Seq(Functor)
    BY WorkType
  <2>2. rest(m) \o Append(queue[m], f) = Append(work(m), f)
    BY <2>1, AppendLast DEF work
  <2> QED
    BY <1>1, <1>2, <1>3, <2>2
<1>4. CASE m # l
  BY <1>1, <1>2, <1>4 DEF work
<1> QED
  BY <1>3, <1>4

LEMMA WorkKept ==
  ASSUME queue' = queue, \A m \in Loops : rest(m)' = rest(m)
  PROVE  Kept
BY DEF Kept, work

(* What that does to the places where a functor is.                        *)
LEMMA KeptHas ==
  ASSUME Kept
  PROVE  /\ \A m \in Loops : \A w, d : Has(m, w, d)' <=> Has(m, w, d)
         /\ (\A m \in Loops : Unique(work(m))) => (\A m \in Loops : Unique(work(m)))'
<1>1. ASSUME NEW m \in Loops, NEW w, NEW d
      PROVE  Has(m, w, d)' <=> Has(m, w, d)
  BY DEF Kept, Has, Occurs
<1>2. ASSUME NEW m \in Loops, Unique(work(m))
      PROVE  Unique(work(m)')
  BY <1>2 DEF Kept
<1> QED
  BY <1>1, <1>2

LEMMA QueuedHas ==
  ASSUME TypeOK, LoopsInv, NEW l \in Loops, NEW f \in Functor, Queued(l, f)
  PROVE  /\ \A m \in Loops : \A w, d : Has(m, w, d)' <=> Has(m, w, d) \/ (m = l /\ f = <<w, d>>)
         /\ (\A m \in Loops : Unique(work(m))) /\ (f[1] = "shutdown" \/ ~Occurs(work(l), f))
               => (\A m \in Loops : Unique(work(m)))'
<1>1. /\ work(l) \in Seq(Functor) /\ work(l)' = Append(work(l), f)
      /\ \A m \in Loops \ {l} : work(m)' = work(m)
  BY WorkType DEF Queued
<1>2. ASSUME NEW m \in Loops, NEW w, NEW d
      PROVE  Has(m, w, d)' <=> Has(m, w, d) \/ (m = l /\ f = <<w, d>>)
  <2>1. CASE m = l
    <3>1. Has(m, w, d)' <=> Occurs(Append(work(l), f), <<w, d>>)
      BY <1>1, <2>1 DEF Has, Occurs
    <3> QED
      BY <1>1, <2>1, <3>1, AppendOccurs DEF Has
  <2>2. CASE m # l
    BY <1>1, <2>2 DEF Has, Occurs
  <2> QED
    BY <2>1, <2>2
<1>3. ASSUME NEW m \in Loops, \A n \in Loops : Unique(work(n)),
             f[1] = "shutdown" \/ ~Occurs(work(l), f)
      PROVE  Unique(work(m)')
  <2>1. CASE m = l
    <3>1. Unique(Append(work(l), f))
      BY <1>1, <1>3, AppendOccurs
    <3> QED
      BY <1>1, <2>1, <3>1
  <2>2. CASE m # l
    BY <1>1, <1>3, <2>2
  <2> QED
    BY <2>1, <2>2
<1> QED
  BY <1>2, <1>3

LEMMA BegunHas ==
  ASSUME TypeOK, LoopsInv, \A m \in Loops : Unique(work(m)), NEW l \in Loops, Begun(l)
  PROVE  /\ \A m \in Loops, w \in {"established", "remove", "destroyed"} : \A d :
              Has(m, w, d)' <=> Has(m, w, d) /\ ~(m = l /\ Head(work(l)) = <<w, d>>)
         /\ (\A m \in Loops : Unique(work(m)))'
         /\ \A w, d : Head(work(l)) = <<w, d>> => Has(l, w, d)
<1>1. /\ work(l) \in Seq(Functor) /\ work(l) # <<>> /\ work(l)' = Tail(work(l))
      /\ \A m \in Loops \ {l} : work(m)' = work(m)
  BY WorkType DEF Begun
<1>2. ASSUME NEW m \in Loops, NEW d, NEW w \in {"established", "remove", "destroyed"}
      PROVE  Has(m, w, d)' <=> Has(m, w, d) /\ ~(m = l /\ Head(work(l)) = <<w, d>>)
  <2>1. CASE m = l
    <3>1. Has(m, w, d)' <=> Occurs(Tail(work(l)), <<w, d>>)
      BY <1>1, <2>1 DEF Has, Occurs
    <3>2. <<w, d>>[1] # "shutdown"
      OBVIOUS
    <3> QED
      BY <1>1, <2>1, <3>1, <3>2, TailOccurs DEF Has
  <2>2. CASE m # l
    BY <1>1, <2>2 DEF Has, Occurs
  <2> QED
    BY <2>1, <2>2
<1>3. ASSUME NEW m \in Loops
      PROVE  Unique(work(m)')
  BY <1>1, TailOccurs
<1>4. \A w, d : Head(work(l)) = <<w, d>> => Has(l, w, d)
  BY <1>1, TailOccurs DEF Has
<1> QED
  BY <1>2, <1>3, <1>4

-----------------------------------------------------------------------------
(* The stages.                                                             *)

Late(c) == Ending(c) \/ Ended(c)

(* A step that does not concern d: its record stays in the same part of    *)
(* its life, no event of it becomes active, and the functors about it are  *)
(* where they were.                                                        *)
Similar(k, m) ==
  /\ IsFresh(k) => IsFresh(m)
  /\ IsUp(k) => IsUp(m)
  /\ IsDown(k) => IsDown(m)
  /\ IsGone(k) => IsGone(m)

SameWork(d) ==
  \A l \in Loops, w \in {"established", "remove", "destroyed"} : Has(l, w, d)' <=> Has(l, w, d)

Steady(d) ==
  /\ Similar(conn[d], conn'[d])
  /\ phase'[d] = "accepted" <=> phase[d] = "accepted"
  /\ loopOf'[d] = loopOf[d]
  /\ d \in connections => d \in connections'
  /\ \A l \in Loops : d \in active'[l] => d \in active[l]
  /\ SameWork(d)

LEMMA StageKept ==
  ASSUME NEW d \in Conns, Steady(d), Stage(d)
  PROVE  Stage(d)' /\ (Late(d) => Late(d)')
<1> USE DEF Steady, SameWork, Similar, None, OnlyAt, Inactive
<1>1. CASE Unborn(d)
  BY <1>1 DEF Unborn, Stage, Late, Ending, Ended
<1>2. CASE Announced(d)
  BY <1>2 DEF Announced, Stage, Late, Ending, Ended
<1>3. CASE Established(d)
  BY <1>3 DEF Established, Stage, Late, Ending, Ended
<1>4. CASE Removing(d)
  BY <1>4 DEF Removing, Stage, Late, Ending, Ended
<1>5. CASE Ending(d)
  BY <1>5 DEF Ending, Stage, Late
<1>6. CASE Ended(d)
  BY <1>6 DEF Ended, Stage, Late
<1> QED
  BY <1>1, <1>2, <1>3, <1>4, <1>5, <1>6 DEF Stage

LEMMA SimilarSame == ASSUME NEW k PROVE Similar(k, k)
BY DEF Similar

(* What each step has to show.                                             *)
Stages == \A d \in Conns : Stage(d)' /\ (Late(d) => Late(d)')

(* A step that moves no loop leaves LoopsInv.                              *)
LEMMA LoopsKept ==
  ASSUME LoopsInv, Stages, lpc' = lpc, batch' = batch
  PROVE  LoopsInv'
BY DEF LoopsInv, Stages, Late

(* One connection only is concerned.                                       *)
Others(c) == \A d \in Conns \ {c} : Steady(d)

LEMMA OthersKeepStage ==
  ASSUME ServerInv, NEW c \in Conns, Others(c), Stage(c)' /\ (Late(c) => Late(c)')
  PROVE  Stages
BY StageKept DEF ServerInv, Others, Stages

LEMMA AllKeepStage ==
  ASSUME ServerInv, \A d \in Conns : Steady(d)
  PROVE  Stages
BY StageKept DEF ServerInv, Stages

LEMMA LoopsFacts ==
  /\ Base \in Loops
  /\ \A p \in Pools : p \in Seq(Loops \ {Base}) 
  /\ Scenes \subseteq Scene /\ DownCalls \subseteq UserCalls
BY ServerAssumption DEF Loops

-----------------------------------------------------------------------------
(* The steps, one by one.                                                  *)

StepInv == TypeOK' /\ LoopsInv' /\ (\A l \in Loops : Unique(work(l)))' /\ Stages

LEMMA PeerConnectStep ==
  ASSUME ServerInv, NEW c \in Conns, PeerConnect(c)
  PROVE  StepInv
<1> USE DEF ServerInv
<1>1. TypeOK'
  BY DEF TypeOK, PeerConnect
<1>2. Kept
  BY WorkKept DEF PeerConnect, rest
<1>3. \A d \in Conns : Steady(d)
  BY <1>2, KeptHas, SimilarSame DEF Steady, SameWork, PeerConnect, TypeOK
<1>4. Stages
  BY <1>3, AllKeepStage
<1> QED
  BY <1>1, <1>2, <1>4, KeptHas, LoopsKept DEF StepInv, PeerConnect

LEMMA PeerStepStep ==
  ASSUME ServerInv, NEW c \in Conns, PeerStep(c)
  PROVE  StepInv
<1> USE DEF ServerInv
<1>0. conn[c] \in Connection
  BY DEF TypeOK
<1>1. PICK m \in {[conn[c] EXCEPT !.data = TRUE], [conn[c] EXCEPT !.peer = "fin"],
                  [conn[c] EXCEPT !.peer = "rst", !.err = TRUE]} : conn' = [conn EXCEPT ![c] = m]
  BY DEF PeerStep, TypeOK
<1>2. m \in Connection /\ Similar(conn[c], m)
  BY <1>0, <1>1, OthersKeep DEF Similar
<1>3. TypeOK'
  BY <1>1, <1>2 DEF TypeOK, PeerStep
<1>4. Kept
  BY WorkKept DEF PeerStep, rest
<1>5. ASSUME NEW d \in Conns PROVE Similar(conn[d], conn'[d])
  <2>1. conn'[d] = IF d = c THEN m ELSE conn[d]
    BY <1>1 DEF TypeOK
  <2> QED
    BY <1>2, <2>1, SimilarSame
<1>6. \A d \in Conns : Steady(d)
  BY <1>4, <1>5, KeptHas DEF Steady, SameWork, PeerStep
<1>7. Stages
  BY <1>6, AllKeepStage
<1> QED
  BY <1>3, <1>4, <1>7, KeptHas, LoopsKept DEF StepInv, PeerStep

LEMMA AcceptFailsStep ==
  ASSUME ServerInv, NEW c \in Conns, acceptFails(c)
  PROVE  StepInv
<1> USE DEF ServerInv
<1>1. TypeOK'
  BY DEF TypeOK, acceptFails
<1>2. Kept
  BY WorkKept DEF acceptFails, rest
<1>3. \A d \in Conns : Steady(d)
  BY <1>2, KeptHas, SimilarSame DEF Steady, SameWork, acceptFails, TypeOK
<1>4. Stages
  BY <1>3, AllKeepStage
<1> QED
  BY <1>1, <1>2, <1>4, KeptHas, LoopsKept DEF StepInv, acceptFails

LEMMA ShutdownCheckStep ==
  ASSUME ServerInv, NEW c \in Conns, ShutdownCheck(c)
  PROVE  StepInv
<1> USE DEF ServerInv
<1>1. TypeOK'
  BY DEF TypeOK, ShutdownCheck
<1>2. Kept
  BY WorkKept DEF ShutdownCheck, rest
<1>3. \A d \in Conns : Steady(d)
  BY <1>2, KeptHas, SimilarSame DEF Steady, SameWork, ShutdownCheck
<1>4. Stages
  BY <1>3, AllKeepStage
<1> QED
  BY <1>1, <1>2, <1>4, KeptHas, LoopsKept DEF StepInv, ShutdownCheck

LEMMA QueueInLoopType ==
  ASSUME TypeOK, NEW l \in Loops, NEW f \in Functor, queueInLoop(l, f)
  PROVE  queue' \in [Loops -> Seq(Functor)] /\ wake' \in [Loops -> BOOLEAN]
BY DEF TypeOK, queueInLoop

LEMMA ShutdownQueueStep ==
  ASSUME ServerInv, NEW c \in Conns, ShutdownQueue(c)
  PROVE  StepInv
<1> USE DEF ServerInv
<1> DEFINE m == [conn[c] EXCEPT !.state = "kDisconnecting"]
           f == <<"shutdown", c>>
<1>1. m \in Connection /\ Similar(conn[c], m)
  <2>1. conn[c] \in Connection
    BY DEF TypeOK
  <2> QED
    BY <2>1 DEF Similar, IsFresh, IsUp, IsDown, IsGone, Connection, States
<1>2. conn' = [conn EXCEPT ![c] = m]
  BY DEF ShutdownQueue
<1> HIDE DEF m
<1>3. f \in Functor /\ loopOf[c] \in Loops /\ f[1] = "shutdown"
  BY DEF Functor, TypeOK
<1>4. TypeOK'
  <2>1. queue' \in [Loops -> Seq(Functor)] /\ wake' \in [Loops -> BOOLEAN]
    BY <1>3, QueueInLoopType DEF ShutdownQueue
  <2>2. conn' \in [Conns -> Connection]
    BY <1>1, <1>2 DEF TypeOK
  <2>3. upc' \in [Conns -> {"idle", "checked", "done"}]
    BY DEF TypeOK, ShutdownQueue
  <2> QED
    BY <2>1, <2>2, <2>3 DEF TypeOK, ShutdownQueue
<1>5. Queued(loopOf[c], f)
  BY <1>3, QueueInLoopQueues DEF ShutdownQueue, queueInLoop, rest
<1>6. ASSUME NEW d \in Conns PROVE Similar(conn[d], conn'[d])
  <2>1. conn'[d] = IF d = c THEN m ELSE conn[d]
    BY <1>2 DEF TypeOK
  <2> QED
    BY <1>1, <2>1, SimilarSame
<1>7. ASSUME NEW d \in Conns PROVE SameWork(d)
  <2>1. \A w \in {"established", "remove", "destroyed"} : f # <<w, d>>
    OBVIOUS
  <2> HIDE DEF f
  <2> QED
    BY <1>3, <1>5, <2>1, QueuedHas DEF SameWork
<1>8. \A d \in Conns : Steady(d)
  BY <1>6, <1>7 DEF Steady, ShutdownQueue
<1>9. Stages
  BY <1>8, AllKeepStage
<1>10. (\A l \in Loops : Unique(work(l)))'
  <2> HIDE DEF f
  <2> QED
    BY <1>3, <1>5, QueuedHas
<1> QED
  BY <1>4, <1>9, <1>10, LoopsKept DEF StepInv, ShutdownQueue

LEMMA PollStep ==
  ASSUME ServerInv, NEW l \in Loops, Poll(l)
  PROVE  StepInv
<1> USE DEF ServerInv
<1> DEFINE evs(writable, d) ==
             IF phase[d] = "accepted" /\ loopOf[d] = l
               THEN revents(conn[d], d \in writable) ELSE {}
<1>1. PICK writable : active' = [active EXCEPT ![l] = {d \in Conns : evs(writable, d) # {}}]
                      /\ rev' = [d \in Conns |-> IF d \in {e \in Conns : evs(writable, e) # {}}
                                                THEN evs(writable, d) ELSE rev[d]]
  BY DEF Poll
<1>0. accepting' \in BOOLEAN
  BY DEF Poll, TypeOK
<1>2. \A d \in Conns : evs(writable, d) \subseteq {"IN", "OUT", "HUP", "ERR"}
  BY DEF revents
<1>3. ASSUME NEW d \in Conns, evs(writable, d) # {}
      PROVE  Established(d) /\ loopOf[d] = l
  <2>1. phase[d] = "accepted" /\ loopOf[d] = l /\ conn[d].index = "kAdded"
    BY <1>3 DEF revents
  <2>2. Stage(d)
    OBVIOUS
  <2> QED
    BY <2>1, <2>2 DEF Stage, Unborn, Announced, Removing, Ending, Ended, IsFresh, IsDown, IsGone
<1> HIDE DEF evs
<1>4. TypeOK'
  <2>1. rev' \in [Conns -> SUBSET {"IN", "OUT", "HUP", "ERR"}]
    BY <1>1, <1>2 DEF TypeOK
  <2>2. active' \in [Loops -> SUBSET Conns]
    BY <1>1 DEF TypeOK
  <2>3. wake' \in [Loops -> BOOLEAN]
    BY DEF Poll, TypeOK
  <2>4. lpc' \in [Loops -> {"poll", "dispatch", "functors", "erase"}]
    BY DEF Poll, TypeOK
  <2> QED
    BY <1>0, <2>1, <2>2, <2>3, <2>4 DEF TypeOK, Poll
<1>5. lpc[l] = "poll" /\ lpc' = [lpc EXCEPT ![l] = "dispatch"] /\ batch' = batch /\ queue' = queue
  BY DEF Poll
<1>6. Kept
  <2>1. \A m \in Loops : rest(m)' = rest(m)
    BY <1>5 DEF rest, TypeOK
  <2> QED
    BY <1>5, <2>1, WorkKept
<1>7. ASSUME NEW d \in Conns
      PROVE  Stage(d)' /\ (Late(d) => Late(d)')
  <2>1. CASE evs(writable, d) = {}
    <3>1. \A m \in Loops : d \in active'[m] => d \in active[m]
      BY <1>1, <2>1 DEF TypeOK
    <3>2. Steady(d)
      BY <1>6, <3>1, KeptHas, SimilarSame DEF Steady, SameWork, Poll
    <3> QED
      BY <3>2, StageKept
  <2>2. CASE evs(writable, d) # {}
    <3>1. Established(d) /\ loopOf[d] = l
      BY <1>3, <2>2
    <3>2. \A m \in Loops : d \in active'[m] => m = loopOf'[d]
      BY <1>1, <3>1 DEF Established, TypeOK, Poll
    <3>3. Established(d)'
      BY <1>6, <3>1, <3>2, KeptHas DEF Established, None, Poll
    <3>4. ~Late(d)
      BY <3>1 DEF Late, Ending, Ended, Established, IsUp, IsDown, IsGone
    <3> QED
      BY <3>3, <3>4 DEF Stage
  <2> QED
    BY <2>1, <2>2
<1>8. Stages
  BY <1>7 DEF Stages
<1>9. LoopsInv'
  <2> SUFFICES ASSUME NEW m \in Loops
               PROVE  /\ lpc'[m] \in {"poll", "dispatch"} => batch'[m] = <<>>
                      /\ lpc'[m] = "erase" =>
                           /\ m = Base
                           /\ batch'[m] # <<>>
                           /\ \E c \in Conns : Head(batch'[m]) = <<"remove", c>> /\ Late(c)'
    BY DEF LoopsInv, Late
  <2>1. CASE m = l
    BY <1>5, <2>1 DEF LoopsInv, TypeOK
  <2>2. CASE m # l
    <3>1. lpc'[m] = lpc[m] /\ batch'[m] = batch[m]
      BY <1>5, <2>2 DEF TypeOK
    <3> QED
      BY <1>8, <3>1 DEF LoopsInv, Stages, Late
  <2> QED
    BY <2>1, <2>2
<1> QED
  BY <1>4, <1>6, <1>8, <1>9, KeptHas DEF StepInv

LEMMA StartFunctorsStep ==
  ASSUME ServerInv, NEW l \in Loops, StartFunctors(l)
  PROVE  StepInv
<1> USE DEF ServerInv
<1>1. TypeOK'
  BY DEF TypeOK, StartFunctors
<1>2. Kept
  <2> SUFFICES ASSUME NEW m \in Loops PROVE work(m)' = work(m)
    BY DEF Kept
  <2>1. CASE m # l
    BY <2>1 DEF work, rest, StartFunctors, TypeOK
  <2>2. CASE m = l
    <3>1. work(m)' = queue[m] \o <<>>
      BY <2>2 DEF work, rest, StartFunctors, TypeOK
    <3>2. work(m) = <<>> \o queue[m]
      BY <2>2 DEF work, rest, StartFunctors, LoopsInv
    <3>3. queue[m] \in Seq(Functor)
      BY DEF TypeOK
    <3> QED
      BY <3>1, <3>2, <3>3
  <2> QED
    BY <2>1, <2>2
<1>3. \A d \in Conns : Steady(d)
  BY <1>2, KeptHas, SimilarSame DEF Steady, SameWork, StartFunctors
<1>4. Stages
  BY <1>3, AllKeepStage
<1>5. LoopsInv'
  BY <1>4 DEF LoopsInv, Stages, Late, StartFunctors, TypeOK
<1> QED
  BY <1>1, <1>2, <1>4, <1>5, KeptHas DEF StepInv

LEMMA EndFunctorsStep ==
  ASSUME ServerInv, NEW l \in Loops, EndFunctors(l)
  PROVE  StepInv
<1> USE DEF ServerInv
<1>1. TypeOK'
  BY DEF TypeOK, EndFunctors
<1>2. Kept
  <2>1. \A m \in Loops : rest(m)' = rest(m)
    BY DEF rest, EndFunctors, TypeOK
  <2> QED
    BY <2>1, WorkKept DEF EndFunctors
<1>3. \A d \in Conns : Steady(d)
  BY <1>2, KeptHas, SimilarSame DEF Steady, SameWork, EndFunctors
<1>4. Stages
  BY <1>3, AllKeepStage
<1>5. LoopsInv'
  BY <1>4 DEF LoopsInv, Stages, Late, EndFunctors, TypeOK
<1> QED
  BY <1>1, <1>2, <1>4, <1>5, KeptHas DEF StepInv

(* What is not accepted or has functors on it is in the stage they say.    *)
LEMMA StageOf ==
  ASSUME NEW c \in Conns, Stage(c)
  PROVE  /\ phase[c] # "accepted" => Unborn(c) /\ ~Late(c)
         /\ \A l \in Loops : c \in active[l] => Established(c) /\ ~Late(c) /\ l = loopOf[c]
         /\ \A l \in Loops : Has(l, "established", c) =>
              Announced(c) /\ ~Late(c) /\ l = loopOf[c]
         /\ \A l \in Loops : Has(l, "remove", c) => Removing(c) /\ ~Late(c) /\ l = Base
         /\ \A l \in Loops : Has(l, "destroyed", c) => Ending(c) /\ l = loopOf[c]
<1> USE DEF None, OnlyAt, Inactive, Late
<1>1. CASE Unborn(c)
  BY <1>1 DEF Unborn, Ending, Ended
<1>2. CASE Announced(c)
  BY <1>2 DEF Announced, Ending, Ended, IsFresh, IsDown, IsGone
<1>3. CASE Established(c)
  BY <1>3 DEF Established, Ending, Ended, IsUp, IsDown, IsGone
<1>4. CASE Removing(c)
  BY <1>4, LoopsFacts DEF Removing, Ending, Ended
<1>5. CASE Ending(c)
  BY <1>5 DEF Ending
<1>6. CASE Ended(c)
  BY <1>6 DEF Ended
<1> QED
  BY <1>1, <1>2, <1>3, <1>4, <1>5, <1>6 DEF Stage

(* getNextLoop gives out a loop of the pool, the base loop if it has none. *)
LEMMA NextLoop ==
  ASSUME TypeOK
  PROVE  /\ getNextLoop.loop \in Loops
         /\ getNextLoop.next = 0 \/ getNextLoop.next \in 1 .. Len(pool) - 1
<1>1. CASE pool = <<>>
  BY <1>1, LoopsFacts DEF getNextLoop, TypeOK
<1>2. CASE pool # <<>>
  <2>1. pool \in Seq(Loops \ {Base}) /\ Len(pool) \in Nat \ {0}
    BY <1>2, LoopsFacts DEF TypeOK
  <2>2. next \in Nat /\ next + 1 \in 1 .. Len(pool)
    BY <2>1 DEF TypeOK
  <2>3. getNextLoop.loop = pool[next + 1]
    BY <1>2 DEF getNextLoop
  <2>4. getNextLoop.next = IF next + 1 >= Len(pool) THEN 0 ELSE next + 1
    BY <1>2 DEF getNextLoop
  <2> QED
    BY <2>1, <2>2, <2>3, <2>4
<1> QED
  BY <1>1, <1>2

LEMMA NewConnectionStep ==
  ASSUME ServerInv, NEW c \in Conns, NEW user \in UserCalls, NEW full \in BOOLEAN,
         newConnection(c, user, full)
  PROVE  StepInv
<1> USE DEF ServerInv
<1> DEFINE n == getNextLoop
           m == connectEstablished(conn[c], user, full)
           f == <<"established", c>>
<1>1. n.loop \in Loops /\ (n.next = 0 \/ n.next \in 1 .. Len(pool) - 1) /\ f \in Functor
  BY NextLoop DEF Functor
<1>2. Unborn(c) /\ ~Late(c) /\ IsFresh(conn[c]) /\ conn[c] \in Connection
  <2>1. phase[c] # "accepted" /\ Stage(c)
    BY DEF newConnection
  <2>2. Unborn(c) /\ ~Late(c)
    BY <2>1, StageOf
  <2> QED
    BY <2>2 DEF Unborn, TypeOK
<1>3. m \in Connection /\ IsUp(m)
  BY <1>2, EstablishedIsUp
<1>4. /\ phase' = [phase EXCEPT ![c] = "accepted"]
      /\ loopOf' = [loopOf EXCEPT ![c] = n.loop]
      /\ next' = n.next /\ connections' = connections \cup {c}
      /\ accepting' = FALSE
      /\ n.loop = Base => conn' = [conn EXCEPT ![c] = m] /\ queue' = queue /\ wake' = wake
      /\ n.loop # Base => queueInLoop(n.loop, f) /\ conn' = conn
      /\ UNCHANGED <<scene, pool, lpc, active, rev, batch, upc>>
  BY DEF newConnection
<1> HIDE DEF n, m, f
<1>5. TypeOK'
  <2>1. conn' \in [Conns -> Connection]
    BY <1>3, <1>4 DEF TypeOK
  <2>2. queue' \in [Loops -> Seq(Functor)] /\ wake' \in [Loops -> BOOLEAN]
    BY <1>1, <1>4, QueueInLoopType DEF TypeOK
  <2>3. /\ phase' \in [Conns -> {"none", "backlog", "accepted", "refused"}]
        /\ loopOf' \in [Conns -> Loops]
        /\ next' = 0 \/ next' \in 1 .. Len(pool') - 1
        /\ connections' \in SUBSET Conns
    BY <1>1, <1>4 DEF TypeOK
  <2> QED
    BY <1>4, <2>1, <2>2, <2>3 DEF TypeOK
<1>6. /\ phase'[c] = "accepted" /\ loopOf'[c] = n.loop /\ c \in connections'
      /\ Inactive(c)'
  BY <1>2, <1>4 DEF Unborn, Inactive, TypeOK
<1>7. \A l \in Loops : rest(l)' = rest(l)
  BY <1>4 DEF rest
<1>8. ASSUME NEW d \in Conns \ {c}, SameWork(d)
      PROVE  Steady(d)
  <2>1. conn'[d] = conn[d] /\ phase'[d] = phase[d] /\ loopOf'[d] = loopOf[d] /\ active' = active
        /\ (d \in connections => d \in connections')
    BY <1>4 DEF TypeOK
  <2> QED
    BY <1>8, <2>1, SimilarSame DEF Steady
<1>9. CASE n.loop = Base
  <2>1. Kept
    BY <1>4, <1>7, <1>9, WorkKept
  <2>2. IsUp(conn'[c])
    BY <1>3, <1>4, <1>9 DEF TypeOK
  <2>3. Established(c)'
    BY <1>2, <1>6, <2>1, <2>2, KeptHas DEF Unborn, Established, None, Inactive
  <2>4. Others(c)
    BY <1>8, <2>1, KeptHas DEF Others, SameWork
  <2>5. Stages
    BY <1>2, <2>3, <2>4, OthersKeepStage DEF Stage
  <2> QED
    BY <1>4, <1>5, <2>1, <2>5, KeptHas, LoopsKept DEF StepInv
<1>10. CASE n.loop # Base
  <2>1. Queued(n.loop, f)
    BY <1>1, <1>4, <1>7, <1>10, QueueInLoopQueues DEF queueInLoop
  <2>2. \A l \in Loops : \A w, d : Has(l, w, d)' <=> Has(l, w, d) \/ (l = n.loop /\ f = <<w, d>>)
    BY <1>1, <2>1, QueuedHas
  <2>3. IsFresh(conn'[c])
    BY <1>2, <1>4, <1>10
  <2>4. Announced(c)'
    <3>1. OnlyAt(loopOf[c], "established", c)'
      BY <1>2, <1>6, <2>2 DEF Unborn, None, OnlyAt, f
    <3>2. None("remove", c)' /\ None("destroyed", c)'
      BY <1>2, <2>2 DEF Unborn, None, f
    <3> QED
      BY <1>6, <2>3, <3>1, <3>2 DEF Announced
  <2>5. Others(c)
    <3>1. \A d \in Conns \ {c} : SameWork(d)
      BY <2>2 DEF SameWork, f
    <3> QED
      BY <1>8, <3>1 DEF Others
  <2>6. Stages
    BY <1>2, <2>4, <2>5, OthersKeepStage DEF Stage
  <2>7. (\A l \in Loops : Unique(work(l)))'
    <3>1. ~Occurs(work(n.loop), f)
      BY <1>1, <1>2 DEF Unborn, None, Has, f
    <3> QED
      BY <1>1, <2>1, <3>1, QueuedHas
  <2> QED
    BY <1>4, <1>5, <2>6, <2>7, LoopsKept DEF StepInv
<1> QED
  BY <1>9, <1>10

LEMMA HandleConnectionStep ==
  ASSUME ServerInv, NEW l \in Loops, NEW c \in Conns, NEW user \in UserCalls,
         NEW down \in UserCalls \ {"send"}, NEW full \in BOOLEAN,
         HandleConnection(l, c, user, down, full)
  PROVE  StepInv
<1> USE DEF ServerInv
<1> DEFINE k == handleEvent(conn[c], rev[c], user, down, full)
<1>1. /\ lpc[l] = "dispatch" /\ c \in active[l]
      /\ active' = [active EXCEPT ![l] = @ \ {c}]
      /\ conn' = [conn EXCEPT ![c] = k]
      /\ k.downs > conn[c].downs => removeConnection(l, c)
      /\ ~(k.downs > conn[c].downs) => UNCHANGED <<queue, wake, connections>>
      /\ UNCHANGED <<scene, phase, loopOf, pool, next, lpc, rev, accepting, batch, upc>>
  BY DEF HandleConnection
<1>2. Established(c) /\ ~Late(c) /\ l = loopOf[c]
  BY <1>1, StageOf
<1>3. conn[c] \in Connection /\ IsUp(conn[c]) /\ conn[c].downs = 0
  BY <1>2 DEF Established, IsUp, TypeOK
<1>4. k \in Connection /\ (IsUp(k) \/ IsDown(k))
  BY <1>3, EventUpOrDown
<1> HIDE DEF k
<1>5. conn'[c] = k /\ \A d \in Conns \ {c} : conn'[d] = conn[d]
  BY <1>1 DEF TypeOK
<1>6. conn' \in [Conns -> Connection] /\ active' \in [Loops -> SUBSET Conns]
  BY <1>1, <1>4 DEF TypeOK
<1>7. \A m \in Loops : rest(m)' = rest(m)
  BY <1>1 DEF rest
<1>8. /\ \A d \in Conns, m \in Loops : d \in active'[m] => d \in active[m]
      /\ Inactive(c)'
  BY <1>1, <1>2 DEF Inactive, Established, TypeOK
<1>9. ASSUME NEW d \in Conns \ {c}, SameWork(d), d \in connections => d \in connections'
      PROVE  Steady(d)
  BY <1>1, <1>5, <1>8, <1>9, SimilarSame DEF Steady
<1>10. CASE IsUp(k)
  <2>1. UNCHANGED <<queue, wake, connections>>
    BY <1>1, <1>3, <1>10 DEF IsUp
  <2>2. TypeOK'
    BY <1>1, <1>6, <2>1 DEF TypeOK
  <2>3. Kept
    BY <1>7, <2>1, WorkKept
  <2>4. Established(c)'
    BY <1>1, <1>2, <1>5, <1>8, <1>10, <2>1, <2>3, KeptHas DEF Established, None, Inactive
  <2>5. Others(c)
    BY <1>9, <2>1, <2>3, KeptHas DEF Others, SameWork
  <2>6. Stages
    BY <1>2, <2>4, <2>5, OthersKeepStage DEF Stage
  <2> QED
    BY <1>1, <2>2, <2>3, <2>6, KeptHas, LoopsKept DEF StepInv
<1>11. CASE IsDown(k)
  <2>1. removeConnection(l, c)
    BY <1>1, <1>3, <1>11 DEF IsDown
  <2> DEFINE w == IF l = Base THEN "destroyed" ELSE "remove"
             f == <<w, c>>
  <2>2. /\ queue' = [queue EXCEPT ![Base] = Append(@, f)]
        /\ wake' \in [Loops -> BOOLEAN]
        /\ connections' = IF l = Base THEN connections \ {c} ELSE connections
    BY <2>1, LoopsFacts DEF removeConnection, queueInLoop, TypeOK
  <2>3. f \in Functor /\ Base \in Loops
    BY LoopsFacts DEF Functor
  <2>4. TypeOK'
    <3>1. queue' \in [Loops -> Seq(Functor)]
      BY <2>2, <2>3 DEF TypeOK
    <3> QED
      BY <1>1, <1>6, <2>2, <3>1 DEF TypeOK
  <2>5. Queued(Base, f)
    <3> HIDE DEF f
    <3> QED
      BY <1>7, <2>2, <2>3, QueueInLoopQueues
  <2>6. /\ \A m \in Loops : \A v, d : Has(m, v, d)' <=> Has(m, v, d) \/ (m = Base /\ f = <<v, d>>)
        /\ (f[1] = "shutdown" \/ ~Occurs(work(Base), f))
              => (\A m \in Loops : Unique(work(m)))'
    <3> HIDE DEF f
    <3> QED
      BY <2>3, <2>5, QueuedHas
  <2>7. None("established", c) /\ None("remove", c) /\ None("destroyed", c)
    BY <1>2 DEF Established
  <2>8. (\A m \in Loops : Unique(work(m)))'
    <3>1. ~Occurs(work(Base), f)
      BY <2>3, <2>7 DEF None, Has
    <3> QED
      BY <2>6, <3>1
  <2>9. Stage(c)'
    <3>1. phase'[c] = "accepted" /\ IsDown(conn'[c]) /\ loopOf'[c] = l
      BY <1>1, <1>2, <1>5, <1>11 DEF Established
    <3>2. CASE l = Base
      <4>1. f = <<"destroyed", c>>
        BY <3>2
      <4> HIDE DEF f
      <4>2. None("established", c)' /\ None("remove", c)' /\ OnlyAt(loopOf[c], "destroyed", c)'
        BY <2>6, <2>7, <3>1, <3>2, <4>1 DEF None, OnlyAt
      <4> QED
        BY <1>8, <3>1, <4>2 DEF Ending, Stage
    <3>3. CASE l # Base
      <4>1. f = <<"remove", c>>
        BY <3>3
      <4> HIDE DEF f
      <4>2. None("established", c)' /\ OnlyAt(Base, "remove", c)' /\ None("destroyed", c)'
        BY <2>6, <2>7, <4>1 DEF None, OnlyAt
      <4>3. c \in connections'
        BY <1>2, <2>2, <3>3 DEF Established
      <4> QED
        BY <1>8, <3>1, <3>3, <4>2, <4>3 DEF Removing, Stage
    <3> QED
      BY <3>2, <3>3
  <2>10. Others(c)
    <3>1. ASSUME NEW d \in Conns \ {c} PROVE SameWork(d)
      <4>1. \A v : f # <<v, d>>
        OBVIOUS
      <4> HIDE DEF f
      <4> QED
        BY <2>6, <4>1 DEF SameWork
    <3> QED
      BY <1>9, <2>2, <3>1 DEF Others
  <2>11. Stages
    BY <1>2, <2>9, <2>10, OthersKeepStage
  <2> QED
    BY <1>1, <2>4, <2>8, <2>11, LoopsKept DEF StepInv
<1> QED
  BY <1>4, <1>10, <1>11

(* The first functor of a batch is the first the loop has to begin.        *)
LEMMA NextIsFirst ==
  ASSUME ServerInv, NEW l \in Loops, NEW w, NEW c, IsNext(l, w, c)
  PROVE  /\ batch[l] \in Seq(Functor) /\ batch[l] # <<>> /\ rest(l) = batch[l]
         /\ work(l) # <<>> /\ Head(work(l)) = <<w, c>>
         /\ Tail(batch[l]) \o queue[l] = Tail(work(l))
         /\ Tail(batch[l]) \in Seq(Functor)
<1>1. /\ batch[l] \in Seq(Functor) /\ queue[l] \in Seq(Functor)
      /\ batch[l] # <<>> /\ rest(l) = batch[l] /\ Head(batch[l]) = <<w, c>>
  BY DEF ServerInv, TypeOK, IsNext, rest
<1>2. work(l) = batch[l] \o queue[l]
  BY <1>1 DEF work
<1>3. /\ Tail(batch[l]) \o queue[l] = Tail(batch[l] \o queue[l])
      /\ Head(batch[l]) = Head(batch[l] \o queue[l])
      /\ batch[l] \o queue[l] # <<>>
  BY <1>1, TailFirst
<1>4. Tail(batch[l]) \in Seq(Functor)
  BY <1>1
<1> QED
  BY <1>1, <1>2, <1>3, <1>4

LEMMA NextBegins ==
  ASSUME ServerInv, NEW l \in Loops, NEW w, NEW c, IsNext(l, w, c),
         batch' = [batch EXCEPT ![l] = Tail(@)], lpc' = lpc, queue' = queue
  PROVE  Begun(l)
<1>1. ASSUME NEW m \in Loops
      PROVE  work(m)' = IF m = l THEN Tail(work(m)) ELSE work(m)
  <2>1. CASE m = l
    <3>1. work(m)' = Tail(batch[l]) \o queue[l]
      BY <2>1 DEF work, rest, IsNext, ServerInv, TypeOK
    <3> QED
      BY <2>1, <3>1, NextIsFirst
  <2>2. CASE m # l
    BY <2>2 DEF work, rest, ServerInv, TypeOK
  <2> QED
    BY <2>1, <2>2
<1> QED
  BY <1>1, NextIsFirst DEF Begun

LEMMA RunOnConnectionStep ==
  ASSUME ServerInv, NEW l \in Loops, NEW c \in Conns, NEW user \in UserCalls,
         NEW down, NEW full \in BOOLEAN, RunOnConnection(l, c, user, down, full)
  PROVE  StepInv
<1> USE DEF ServerInv
<1>1. /\ batch' = [batch EXCEPT ![l] = Tail(@)]
      /\ UNCHANGED <<scene, phase, loopOf, pool, next, connections, lpc, active, rev, accepting,
                     queue, wake, upc>>
  BY DEF RunOnConnection
<1>2. PICK w \in {"established", "destroyed", "shutdown"} :
        /\ IsNext(l, w, c)
        /\ w = "established" => conn' = [conn EXCEPT ![c] = connectEstablished(@, user, full)]
        /\ w = "destroyed" => conn' = [conn EXCEPT ![c] = connectDestroyed(@, down, full)]
        /\ w = "shutdown" => conn' = [conn EXCEPT ![c] = shutdownInLoop(@)]
  BY DEF RunOnConnection
<1>3. Begun(l) /\ Head(work(l)) = <<w, c>>
  BY <1>1, <1>2, NextBegins, NextIsFirst
<1>4. /\ \A n \in Loops, v \in {"established", "remove", "destroyed"} : \A d :
            Has(n, v, d)' <=> Has(n, v, d) /\ ~(n = l /\ v = w /\ d = c)
      /\ (\A n \in Loops : Unique(work(n)))'
      /\ Has(l, w, c)
  <2>1. /\ \A n \in Loops, v \in {"established", "remove", "destroyed"} : \A d :
              Has(n, v, d)' <=> Has(n, v, d) /\ ~(n = l /\ Head(work(l)) = <<v, d>>)
        /\ (\A n \in Loops : Unique(work(n)))'
        /\ Has(l, w, c)
    BY <1>3, BegunHas
  <2>2. \A v, d : Head(work(l)) = <<v, d>> <=> v = w /\ d = c
    BY <1>3
  <2> QED
    BY <2>1, <2>2
<1> DEFINE m == conn'[c]
<1>5. /\ w = "established" => m = connectEstablished(conn[c], user, full)
      /\ w = "destroyed" => m = connectDestroyed(conn[c], down, full)
      /\ w = "shutdown" => m = shutdownInLoop(conn[c])
      /\ conn' = [conn EXCEPT ![c] = m]
      /\ \A d \in Conns \ {c} : conn'[d] = conn[d]
      /\ conn[c] \in Connection
  BY <1>2 DEF TypeOK
<1>6. Others(c)
  <2>1. \A d \in Conns \ {c} : SameWork(d)
    BY <1>4 DEF SameWork
  <2> QED
    BY <1>1, <1>5, <2>1, SimilarSame DEF Others, Steady
<1>7. m \in Connection /\ Stage(c)' /\ (Late(c) => Late(c)')
  <2>1. CASE w = "established"
    <3>1. Announced(c) /\ ~Late(c) /\ l = loopOf[c] /\ IsFresh(conn[c])
      BY <1>4, <2>1, StageOf DEF Announced
    <3>2. m \in Connection /\ IsUp(m)
      BY <1>2, <1>5, <2>1, <3>1, EstablishedIsUp
    <3>3. None("established", c)' /\ None("remove", c)' /\ None("destroyed", c)'
      BY <1>4, <2>1, <3>1 DEF Announced, None, OnlyAt
    <3>4. Established(c)'
      BY <1>1, <1>5, <3>1, <3>2, <3>3 DEF Announced, Established, Inactive
    <3> QED
      BY <3>1, <3>2, <3>4 DEF Stage
  <2>2. CASE w = "destroyed"
    <3>1. Ending(c) /\ l = loopOf[c] /\ IsDown(conn[c])
      BY <1>4, <2>2, StageOf DEF Ending
    <3>2. m \in Connection /\ IsGone(m)
      BY <1>2, <1>5, <2>2, <3>1, DestroyedIsGone
    <3>3. None("established", c)' /\ None("remove", c)' /\ None("destroyed", c)'
      BY <1>4, <2>2, <3>1 DEF Ending, None, OnlyAt
    <3>4. Ended(c)'
      BY <1>1, <1>5, <3>1, <3>2, <3>3 DEF Ending, Ended, Inactive
    <3> QED
      BY <3>2, <3>4 DEF Stage, Late
  <2>3. CASE w = "shutdown"
    <3>1. m \in Connection /\ Similar(conn[c], m)
      BY <1>2, <1>5, <2>3, OthersKeep DEF Similar
    <3>2. SameWork(c)
      BY <1>4, <2>3 DEF SameWork
    <3>3. Steady(c)
      BY <1>1, <1>5, <3>1, <3>2 DEF Steady
    <3> QED
      BY <3>1, <3>3, StageKept
  <2> QED
    BY <2>1, <2>2, <2>3
<1>8. Stages
  BY <1>6, <1>7, OthersKeepStage
<1>9. TypeOK'
  <2>1. conn' \in [Conns -> Connection]
    BY <1>5, <1>7 DEF TypeOK
  <2>2. batch' \in [Loops -> Seq(Functor)]
    BY <1>1, <1>2, NextIsFirst DEF TypeOK
  <2> QED
    BY <1>1, <2>1, <2>2 DEF TypeOK
<1>10. LoopsInv'
  <2>1. lpc[l] = "functors"
    BY <1>2 DEF IsNext
  <2>2. \A n \in Loops \ {l} : batch'[n] = batch[n]
    BY <1>1 DEF TypeOK
  <2> QED
    BY <1>1, <1>8, <2>1, <2>2 DEF LoopsInv, Stages, Late
<1> QED
  BY <1>4, <1>8, <1>9, <1>10 DEF StepInv

LEMMA RemoveConnectionStep ==
  ASSUME ServerInv, NEW c \in Conns, removeConnectionInLoop(c)
  PROVE  StepInv
<1> USE DEF ServerInv
<1> DEFINE f == <<"destroyed", c>>
<1>0. PICK at \in Loops : at = loopOf[c]
  BY DEF TypeOK
<1>1. /\ IsNext(Base, "remove", c)
      /\ queueInLoop(at, f)
      /\ lpc' = [lpc EXCEPT ![Base] = "erase"]
      /\ UNCHANGED <<scene, conn, phase, loopOf, pool, next, connections, active, rev, accepting,
                     batch, upc>>
  BY <1>0 DEF removeConnectionInLoop
<1>2. Base \in Loops /\ at \in Loops /\ f \in Functor
  BY LoopsFacts DEF Functor
<1>3. /\ work(Base) \in Seq(Functor) /\ work(Base) # <<>>
      /\ Head(work(Base)) = <<"remove", c>> /\ work(at) \in Seq(Functor)
      /\ Unique(work(Base)) /\ Unique(work(at))
  BY <1>1, <1>2, NextIsFirst, WorkType
<1>4. Has(Base, "remove", c)
  BY <1>3, TailOccurs DEF Has
<1>5. Removing(c) /\ ~Late(c) /\ at # Base
  BY <1>0, <1>2, <1>4, StageOf DEF Removing
<1> HIDE DEF f
<1>6. work(Base)' = Tail(work(Base))
  <2>1. work(Base)' = Tail(batch[Base]) \o queue[Base]
    BY <1>1, <1>2, <1>5 DEF work, rest, queueInLoop, TypeOK
  <2> QED
    BY <1>1, <1>2, <2>1, NextIsFirst
<1>7. work(at)' = Append(work(at), f)
  <2>1. lpc'[at] = lpc[at]
    BY <1>1, <1>2, <1>5 DEF TypeOK
  <2>2. rest(at)' = rest(at) /\ queue'[at] = Append(queue[at], f)
    BY <1>1, <1>2, <2>1 DEF rest, queueInLoop, TypeOK
  <2>3. rest(at) \in Seq(Functor) /\ queue[at] \in Seq(Functor)
    BY <1>2, WorkType
  <2> QED
    BY <1>2, <2>2, <2>3, AppendLast DEF work
<1>8. \A m \in Loops \ {Base, at} : work(m)' = work(m)
  BY <1>1, <1>2 DEF work, rest, queueInLoop, TypeOK
<1>9. ASSUME NEW m \in Loops, NEW d, NEW w \in {"established", "remove", "destroyed"}
      PROVE  Has(m, w, d)' <=> \/ Has(m, w, d) /\ ~(m = Base /\ w = "remove" /\ d = c)
                               \/ m = at /\ w = "destroyed" /\ d = c
  <2>1. CASE m = Base
    <3>1. Has(m, w, d)' <=> Occurs(Tail(work(Base)), <<w, d>>)
      BY <1>6, <2>1 DEF Has, Occurs
    <3>2. <<w, d>>[1] # "shutdown"
      OBVIOUS
    <3>3. <<w, d>> = Head(work(Base)) <=> w = "remove" /\ d = c
      BY <1>3
    <3>4. Occurs(Tail(work(Base)), <<w, d>>)
            <=> Occurs(work(Base), <<w, d>>) /\ <<w, d>> # Head(work(Base))
      BY <1>3, <3>2, TailOccurs
    <3> QED
      BY <1>5, <2>1, <3>1, <3>3, <3>4 DEF Has
  <2>2. CASE m = at
    <3>1. Has(m, w, d)' <=> Occurs(Append(work(at), f), <<w, d>>)
      BY <1>7, <2>2 DEF Has, Occurs
    <3>2. <<w, d>> = f <=> w = "destroyed" /\ d = c
      BY DEF f
    <3>3. Occurs(Append(work(at), f), <<w, d>>) <=> Occurs(work(at), <<w, d>>) \/ <<w, d>> = f
      BY <1>2, <1>3, AppendOccurs
    <3> QED
      BY <1>5, <2>2, <3>1, <3>2, <3>3 DEF Has
  <2>3. CASE m \notin {Base, at}
    BY <1>8, <2>3 DEF Has, Occurs
  <2> QED
    BY <2>1, <2>2, <2>3
<1>10. ASSUME NEW m \in Loops PROVE Unique(work(m)')
  <2>1. CASE m = Base
    BY <1>3, <1>6, <2>1, TailOccurs
  <2>2. CASE m = at
    <3>1. ~Occurs(work(at), f)
      BY <1>2, <1>5 DEF Removing, None, Has, f
    <3>2. Unique(Append(work(at), f))
      BY <1>2, <1>3, <3>1, AppendOccurs
    <3> QED
      BY <1>7, <2>2, <3>2
  <2>3. CASE m \notin {Base, at}
    BY <1>8, <2>3
  <2> QED
    BY <2>1, <2>2, <2>3
<1>11. Ending(c)'
  <2>1. None("established", c)' /\ None("remove", c)'
    BY <1>2, <1>5, <1>9 DEF Removing, None, OnlyAt
  <2>2. OnlyAt(loopOf[c], "destroyed", c)'
    BY <1>0, <1>1, <1>2, <1>5, <1>9 DEF Removing, None, OnlyAt
  <2> QED
    BY <1>1, <1>5, <2>1, <2>2 DEF Removing, Ending, Inactive
<1>12. Others(c)
  <2>1. \A d \in Conns \ {c} : SameWork(d)
    BY <1>9 DEF SameWork
  <2> QED
    BY <1>1, <2>1, SimilarSame DEF Others, Steady
<1>13. Stages
  BY <1>11, <1>12, OthersKeepStage DEF Stage, Late
<1>14. TypeOK'
  <2>1. queue' \in [Loops -> Seq(Functor)] /\ wake' \in [Loops -> BOOLEAN]
    BY <1>1, <1>2, QueueInLoopType
  <2>2. lpc' \in [Loops -> {"poll", "dispatch", "functors", "erase"}]
    BY <1>1 DEF TypeOK
  <2> QED
    BY <1>1, <2>1, <2>2 DEF TypeOK
<1>15. LoopsInv'
  <2>1. lpc'[Base] = "erase" /\ \A m \in Loops \ {Base} : lpc'[m] = lpc[m]
    BY <1>1, <1>2 DEF TypeOK
  <2>2. batch[Base] # <<>> /\ Head(batch[Base]) = <<"remove", c>>
    BY <1>1 DEF IsNext
  <2> QED
    BY <1>1, <1>11, <1>13, <2>1, <2>2 DEF LoopsInv, Stages, Late
<1> QED
  BY <1>10, <1>13, <1>14, <1>15 DEF StepInv

LEMMA EraseStep ==
  ASSUME ServerInv, NEW c \in Conns, eraseConnection(c)
  PROVE  StepInv
<1> USE DEF ServerInv
<1>1. /\ lpc[Base] = "erase" /\ Head(batch[Base]) = <<"remove", c>>
      /\ connections' = connections \ {c}
      /\ batch' = [batch EXCEPT ![Base] = Tail(@)]
      /\ lpc' = [lpc EXCEPT ![Base] = "functors"]
      /\ UNCHANGED <<scene, conn, phase, loopOf, pool, next, active, rev, accepting, queue, wake,
                     upc>>
  BY DEF eraseConnection
<1>2. batch[Base] \in Seq(Functor) /\ batch[Base] # <<>> /\ Late(c) /\ Base \in Loops
  <2>1. PICK d \in Conns : Head(batch[Base]) = <<"remove", d>> /\ Late(d)
    BY <1>1, LoopsFacts DEF LoopsInv, Late
  <2> QED
    BY <1>1, <2>1, LoopsFacts DEF LoopsInv, TypeOK
<1>3. TypeOK'
  <2>1. batch' \in [Loops -> Seq(Functor)]
    BY <1>1, <1>2 DEF TypeOK
  <2> QED
    BY <1>1, <2>1 DEF TypeOK
<1>4. Kept
  <2>1. \A m \in Loops : rest(m)' = rest(m)
    BY <1>1, <1>2 DEF rest, TypeOK
  <2> QED
    BY <1>1, <2>1, WorkKept
<1>5. Late(c)'
  BY <1>1, <1>2, <1>4, KeptHas DEF Late, Ending, Ended, None, OnlyAt, Inactive
<1>6. Others(c)
  BY <1>1, <1>4, KeptHas, SimilarSame DEF Others, Steady, SameWork
<1>7. Stages
  BY <1>5, <1>6, OthersKeepStage DEF Stage, Late
<1>8. LoopsInv'
  <2>1. /\ lpc'[Base] = "functors"
        /\ \A m \in Loops \ {Base} : lpc'[m] = lpc[m] /\ batch'[m] = batch[m]
    BY <1>1, <1>2 DEF TypeOK
  <2> QED
    BY <1>7, <2>1 DEF LoopsInv, Stages, Late
<1> QED
  BY <1>3, <1>4, <1>7, <1>8, KeptHas DEF StepInv

-----------------------------------------------------------------------------
LEMMA InitServerInv == Init => ServerInv
<1> SUFFICES ASSUME Init PROVE ServerInv
  OBVIOUS
<1>1. NewTcpConnection \in Connection /\ IsFresh(NewTcpConnection)
  BY DEF NewTcpConnection, Connection, IsFresh, States, Peers
<1>2. TypeOK
  <2>1. conn \in [Conns -> Connection]
    BY <1>1 DEF Init
  <2>2. /\ queue \in [Loops -> Seq(Functor)] /\ batch \in [Loops -> Seq(Functor)]
        /\ loopOf \in [Conns -> Loops]
    BY LoopsFacts DEF Init
  <2> QED
    BY <2>1, <2>2 DEF Init, TypeOK
<1>3. LoopsInv
  BY DEF Init, LoopsInv
<1>4. \A l \in Loops : work(l) = <<>>
  BY DEF Init, work, rest
<1>5. \A l \in Loops : Unique(work(l))
  BY <1>4 DEF Unique
<1>6. \A l \in Loops : \A w, c : ~Has(l, w, c)
  BY <1>4 DEF Has, Occurs
<1>7. \A c \in Conns : Unborn(c)
  BY <1>1, <1>6 DEF Init, Unborn, None, Inactive
<1> QED
  BY <1>2, <1>3, <1>5, <1>7 DEF ServerInv, Stage

LEMMA StepServerInv ==
  ASSUME "send" \notin DownCalls
  PROVE  ServerInv /\ [Next]_vars => ServerInv'
<1> SUFFICES ASSUME ServerInv, [Next]_vars PROVE StepInv
  BY DEF StepInv, Stages, ServerInv
<1>0. scene.calls \subseteq UserCalls /\ DownCalls \subseteq UserCalls \ {"send"}
  BY LoopsFacts DEF ServerInv, TypeOK, Scene
<1>1. ASSUME NEW l \in Loops, LoopStep(l) PROVE StepInv
  <2>1. CASE Poll(l) \/ StartFunctors(l) \/ EndFunctors(l)
    BY <2>1, PollStep, StartFunctorsStep, EndFunctorsStep
  <2>2. CASE \E c \in Conns, user \in scene.calls, down \in DownCalls, full \in BOOLEAN :
               \/ HandleConnection(l, c, user, down, full)
               \/ RunOnConnection(l, c, user, down, full)
    <3>1. PICK c \in Conns, user \in scene.calls, down \in DownCalls, full \in BOOLEAN :
                 \/ HandleConnection(l, c, user, down, full)
                 \/ RunOnConnection(l, c, user, down, full)
      BY <2>2
    <3> QED
      BY <1>0, <3>1, HandleConnectionStep, RunOnConnectionStep
  <2> QED
    BY <1>1, <2>1, <2>2 DEF LoopStep
<1>2. CASE BaseStep
  <2>1. PICK c \in Conns :
          \/ \E user \in scene.calls, full \in BOOLEAN : newConnection(c, user, full)
          \/ acceptFails(c) \/ removeConnectionInLoop(c) \/ eraseConnection(c)
    BY <1>2 DEF BaseStep
  <2>2. ASSUME NEW user \in scene.calls, NEW full \in BOOLEAN, newConnection(c, user, full)
        PROVE  StepInv
    BY <1>0, <2>2, NewConnectionStep
  <2> QED
    BY <2>1, <2>2, AcceptFailsStep, RemoveConnectionStep, EraseStep
<1>3. CASE Environment
  <2>1. PICK c \in Conns : PeerConnect(c) \/ PeerStep(c) \/ ShutdownCheck(c)
    BY <1>3 DEF Environment
  <2> QED
    BY <2>1, PeerConnectStep, PeerStepStep, ShutdownCheckStep
<1>4. CASE \E c \in Conns : ShutdownQueue(c)
  <2>1. PICK c \in Conns : ShutdownQueue(c)
    BY <1>4
  <2> QED
    BY <2>1, ShutdownQueueStep
<1>5. CASE UNCHANGED vars
  <2>1. Kept
    BY <1>5, WorkKept DEF vars, rest
  <2>2. \A d \in Conns : Steady(d)
    BY <1>5, <2>1, KeptHas, SimilarSame DEF vars, Steady, SameWork
  <2>3. Stages
    BY <2>2, AllKeepStage
  <2>4. TypeOK'
    BY <1>5 DEF vars, TypeOK, ServerInv
  <2> QED
    <3>1. LoopsInv'
      BY <1>5, <2>3, LoopsKept DEF vars, ServerInv
    <3>2. (\A l \in Loops : Unique(work(l)))'
      BY <2>1, KeptHas DEF ServerInv
    <3> QED
      BY <2>3, <2>4, <3>1, <3>2 DEF StepInv
<1>6. CASE \E l \in Loops : LoopStep(l)
  <2>1. PICK l \in Loops : LoopStep(l)
    BY <1>6
  <2> QED
    BY <1>1, <2>1
<1> QED
  BY <1>2, <1>3, <1>4, <1>5, <1>6 DEF Next

(* What the runs check follows.                                            *)
LEMMA ServerInvImplies ==
  ASSUME ServerInv
  PROVE  CloseAssertHolds /\ CallbacksPaired /\ NothingAfterDestroyed /\ RemoveFindsConnection
<1> USE DEF ServerInv
<1>1. \A c \in Conns : IsFresh(conn[c]) \/ IsUp(conn[c]) \/ IsDown(conn[c]) \/ IsGone(conn[c])
  BY DEF Stage, Unborn, Announced, Established, Removing, Ending, Ended
<1>2. CloseAssertHolds
  BY <1>1 DEF CloseAssertHolds, IsFresh, IsUp, IsDown, IsGone
<1>3. CallbacksPaired
  BY <1>1 DEF CallbacksPaired, IsFresh, IsUp, IsDown, IsGone
<1>4. ASSUME NEW l \in Loops, NEW f \in Pending(l)
      PROVE  f \in Functor /\ Has(l, f[1], f[2])
  <2>1. rest(l) \in Seq(Functor) /\ queue[l] \in Seq(Functor)
    BY WorkType
  <2>2. f \in Range(queue[l]) \/ f \in Range(rest(l))
    BY <1>4 DEF Pending, rest
  <2>3. f \in Functor /\ Occurs(rest(l) \o queue[l], f)
    <3>1. CASE f \in Range(rest(l))
      <4>1. PICK i \in 1 .. Len(rest(l)) : f = rest(l)[i]
        BY <2>1, <3>1 DEF Range
      <4>2. i \in 1 .. Len(rest(l) \o queue[l]) /\ (rest(l) \o queue[l])[i] = f /\ f \in Functor
        BY <2>1, <4>1
      <4> QED
        BY <4>2 DEF Occurs
    <3>2. CASE f \in Range(queue[l])
      <4>1. PICK i \in 1 .. Len(queue[l]) : f = queue[l][i]
        BY <2>1, <3>2 DEF Range
      <4>2. /\ Len(rest(l)) + i \in 1 .. Len(rest(l) \o queue[l])
            /\ (rest(l) \o queue[l])[Len(rest(l)) + i] = f /\ f \in Functor
        BY <2>1, <4>1
      <4> QED
        BY <4>2 DEF Occurs
    <3> QED
      BY <2>2, <3>1, <3>2
  <2>4. f = <<f[1], f[2]>>
    BY <2>3 DEF Functor
  <2> QED
    BY <2>3, <2>4 DEF Has, work
<1>5. NothingAfterDestroyed
  <2> SUFFICES ASSUME NEW c \in Conns, conn[c].destroyed > 0
               PROVE  /\ conn[c].index = "kNew"
                      /\ \A l \in Loops :
                           /\ c \notin active[l]
                           /\ \A f \in Pending(l) : f[2] = c => f[1] = "shutdown"
    BY DEF NothingAfterDestroyed
  <2>1. Ended(c)
    BY DEF Stage, Unborn, Announced, Established, Removing, Ending, IsFresh, IsUp, IsDown
  <2>2. ASSUME NEW l \in Loops, NEW f \in Pending(l), f[2] = c, f[1] # "shutdown"
        PROVE  FALSE
    <3>1. f[1] \in {"established", "remove", "destroyed"} /\ Has(l, f[1], c)
      BY <1>4, <2>2 DEF Functor
    <3> QED
      BY <2>1, <3>1 DEF Ended, None
  <2> QED
    BY <2>1, <2>2 DEF Ended, IsGone, Inactive
<1>6. RemoveFindsConnection
  <2> SUFFICES ASSUME NEW c \in Conns,
                      conn[c].ups > conn[c].downs \/ <<"remove", c>> \in Pending(Base)
               PROVE  c \in connections
    BY DEF RemoveFindsConnection
  <2>1. CASE conn[c].ups > conn[c].downs
    BY <2>1 DEF Stage, Unborn, Announced, Established, Removing, Ending, Ended, IsFresh, IsDown,
                IsGone
  <2>2. CASE <<"remove", c>> \in Pending(Base)
    <3>1. Has(Base, "remove", c)
      BY <1>4, <2>2, LoopsFacts
    <3>2. Removing(c)
      BY <3>1, StageOf, LoopsFacts
    <3> QED
      BY <3>2 DEF Removing
  <2> QED
    BY <2>1, <2>2
<1> QED
  BY <1>2, <1>3, <1>5, <1>6

-----------------------------------------------------------------------------
(* The server's invariant, for all sets of connections, pools, scenes and  *)
(* user callbacks, as long as the DOWN callback does not send.             *)
THEOREM ServerInvariant ==
  ASSUME "send" \notin DownCalls
  PROVE  Spec => []ServerInv
BY InitServerInv, StepServerInv, PTL DEF Spec

(* Every variable of the server keeps its type: getNextLoop's next_ stays  *)
(* inside the pool, and only functors are queued.                          *)
THEOREM TypeCorrect ==
  ASSUME "send" \notin DownCalls
  PROVE  Spec => []TypeOK
<1>1. ServerInv => TypeOK
  BY DEF ServerInv
<1> QED
  BY <1>1, ServerInvariant, PTL

(* The assert at the head of TcpConnection::handleClose never fails.       *)
THEOREM CloseNeverAsserts ==
  ASSUME "send" \notin DownCalls
  PROVE  Spec => []CloseAssertHolds
<1>1. ServerInv => CloseAssertHolds
  BY ServerInvImplies
<1> QED
  BY <1>1, ServerInvariant, PTL

(* Every connection is established once, signalled UP once and DOWN once,  *)
(* in this order, and destroyed once, whatever the peer, the callbacks and *)
(* another thread's shutdown() do meanwhile.                               *)
THEOREM CallbacksComeInPairs ==
  ASSUME "send" \notin DownCalls
  PROVE  Spec => []CallbacksPaired
<1>1. ServerInv => CallbacksPaired
  BY ServerInvImplies
<1> QED
  BY <1>1, ServerInvariant, PTL

(* When connectDestroyed has run, no event and no functor that would use   *)
(* the connection's channel again is left on any loop.                     *)
THEOREM DestroyedIsForgotten ==
  ASSUME "send" \notin DownCalls
  PROVE  Spec => []NothingAfterDestroyed
<1>1. ServerInv => NothingAfterDestroyed
  BY ServerInvImplies
<1> QED
  BY <1>1, ServerInvariant, PTL

(* connections_.find, in removeConnectionInLoop, finds what it looks for.  *)
THEOREM RemovalFinds ==
  ASSUME "send" \notin DownCalls
  PROVE  Spec => []RemoveFindsConnection
<1>1. ServerInv => RemoveFindsConnection
  BY ServerInvImplies
<1> QED
  BY <1>1, ServerInvariant, PTL
=============================================================================
