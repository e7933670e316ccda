---------------------------- MODULE ClientProofs -----------------------------
(***************************************************************************)
(* The connecting side: no socket is leaked or has two owners.             *)
(***************************************************************************)
EXTENDS Client, TLAPS

(* A connection that is up: registered, and not told that it has closed.   *)
Up(c) ==
  /\ c \in Connection
  /\ c.state \in {"kConnected", "kDisconnecting"}
  /\ c.index = "kAdded" /\ "read" \in c.events
  /\ c.downs = 0 /\ c.aborted = FALSE

ThreadPlaces == {"start", "sleep", "poll", "lock", "waiting", "read", "crashed", "gone"}

ClientType ==
  /\ mode \in {"sender", "client"}
  /\ tpc \in ThreadPlaces
  /\ back \in {"poll", "lock"}
  /\ sock \in [Socks -> {"closed", "connecting", "connected", "refused"}]
  /\ chan \in Socks \cup {0} /\ conn \in Socks \cup {0} /\ dying \in Socks \cup {0}
  /\ retry_ \in BOOLEAN

(* A connection is being removed only while the thread sleeps in retry(),  *)
(* and before an attempt to connect nothing is open that would get in its  *)
(* way.                                                                    *)
OwnerInv ==
  /\ \A s \in Socks : sock[s] # "closed" <=> s \in {chan, conn, dying}
  /\ chan # 0 => conn = 0 /\ dying = 0 /\ cconnect
  /\ conn # 0 => dying = 0 /\ cstate = "kConnected" /\ Up(k)
  /\ chan # 0 <=> cstate = "kConnecting"
  /\ dying # 0 => tpc = "sleep"
  /\ tpc \in {"start", "sleep"} => chan = 0 /\ conn = 0
  /\ mode = "sender" /\ made => (connect_ <=> conn # 0)

ClientInv == ClientType /\ OwnerInv

-----------------------------------------------------------------------------
(* The operations of a connection.                                         *)

(* A connection that has been told that it has closed.                     *)
Downed(c) == c \in Connection /\ c.downs = 1

(* The user's calls keep a connection up, and leave a closed one closed.   *)
LEMMA SendKeeps ==
  ASSUME NEW c \in Connection, NEW full \in BOOLEAN
  PROVE  /\ send(c, full) \in Connection
         /\ Up(c) => Up(send(c, full))
         /\ send(c, full).downs = c.downs
<1>1. send(c, full) \in Connection
  BY DEF send, enableWriting, update, isWriting, Connection
<1>2. send(c, full).downs = c.downs
  BY DEF send, enableWriting, update, isWriting, Connection
<1>3. Up(c) => Up(send(c, full))
  BY DEF send, enableWriting, update, isWriting, Up, Connection
<1> QED
  BY <1>1, <1>2, <1>3

LEMMA ShutdownKeeps ==
  ASSUME NEW c \in Connection
  PROVE  /\ shutdown(c) \in Connection
         /\ Up(c) => Up(shutdown(c))
         /\ shutdown(c).downs = c.downs
<1>1. shutdown(c) \in Connection
  BY DEF shutdown, shutdownInLoop, isWriting, Connection, States
<1>2. shutdown(c).downs = c.downs
  BY DEF shutdown, shutdownInLoop, isWriting, Connection, States
<1>3. Up(c) => Up(shutdown(c))
  BY DEF shutdown, shutdownInLoop, isWriting, Up, Connection, States
<1> QED
  BY <1>1, <1>2, <1>3

LEMMA CallbackKeeps ==
  ASSUME NEW c \in Connection, NEW user \in UserCalls, NEW full \in BOOLEAN
  PROVE  /\ callback(c, user, full) \in Connection
         /\ Up(c) => Up(callback(c, user, full))
         /\ Downed(c) => Downed(callback(c, user, full))
<1>1. CASE user = "nothing"
  BY <1>1 DEF callback
<1>2. CASE user = "send"
  BY <1>2, SendKeeps DEF callback, Downed
<1>3. CASE user = "shutdown"
  BY <1>3, ShutdownKeeps DEF callback, Downed
<1> QED
  BY <1>1, <1>2, <1>3 DEF UserCalls

(* A new connection is up once connectEstablished has run.                 *)
LEMMA EstablishedIsUp ==
  ASSUME NEW user \in UserCalls, NEW full \in BOOLEAN
  PROVE  Up(connectEstablished(NewTcpConnection, user, full))
<1> DEFINE e == enableReading([NewTcpConnection EXCEPT !.state = "kConnected"])
           f == [e EXCEPT !.established = @ + 1, !.ups = @ + 1]
           g == [NewTcpConnection EXCEPT !.state = "kConnected", !.events = {"read"}]
<1>1. /\ g \in Connection /\ g.state = "kConnected" /\ g.events = {"read"}
      /\ g.index = "kNew" /\ g.downs = 0 /\ g.aborted = FALSE
      /\ g.ups = 0 /\ g.established = 0
  BY DEF NewTcpConnection, Connection, States, Peers
<1>2. e = update(g)
  BY DEF enableReading, NewTcpConnection
<1> HIDE DEF g
<1>3. Up(e) /\ e.ups = 0 /\ e.established = 0
  BY <1>1, <1>2 DEF update, Connection, Up
<1> HIDE DEF e
<1>4. f \in Connection /\ Up(f)
  <2>1. f = [e EXCEPT !.established = 1, !.ups = 1]
    BY <1>3
  <2> HIDE DEF f
  <2> QED
    BY <1>3, <2>1 DEF Up, Connection
<1> HIDE DEF f
<1>5. connectEstablished(NewTcpConnection, user, full) = callback(f, user, full)
  BY DEF e, f, connectEstablished
<1> QED
  BY <1>4, <1>5, CallbackKeeps

(* handleClose tells a connection that is up that it has closed, whatever  *)
(* the user does then.                                                     *)
LEMMA CloseDowns ==
  ASSUME NEW c, Up(c), NEW down \in UserCalls, NEW full \in BOOLEAN
  PROVE  Downed(handleClose(c, down, full))
<1> DEFINE d == disableAll([c EXCEPT !.state = "kDisconnected"])
           e == [d EXCEPT !.downs = @ + 1]
<1>1. d \in Connection /\ d.downs = 0
  BY DEF disableAll, update, Up, Connection, States
<1>2. handleClose(c, down, full) = callback(e, down, full)
  BY DEF handleClose, Up
<1> HIDE DEF d
<1>3. Downed(e)
  BY <1>1 DEF Downed, Connection
<1> HIDE DEF e
<1> QED
  BY <1>2, <1>3, CallbackKeeps DEF Downed

LEMMA ErrorKeeps ==
  ASSUME NEW c
  PROVE  /\ Up(c) => Up(handleError(c))
         /\ Downed(c) => Downed(handleError(c))
BY DEF handleError, Up, Downed, Connection

LEMMA ReadUpOrDowned ==
  ASSUME NEW c, Up(c), NEW user \in UserCalls, NEW down \in UserCalls, NEW full \in BOOLEAN
  PROVE  Up(handleRead(c, user, down, full)) \/ Downed(handleRead(c, user, down, full))
<1>1. CASE c.data
  <2> DEFINE d == [c EXCEPT !.data = FALSE]
  <2>1. d \in Connection /\ Up(d)
    BY DEF Up, Connection
  <2>2. handleRead(c, user, down, full) = callback(d, user, full)
    BY <1>1 DEF handleRead
  <2> QED
    BY <2>1, <2>2, CallbackKeeps
<1>2. CASE ~c.data
  <2>1. handleRead(c, user, down, full) \in {handleError(c), handleClose(c, down, full), c}
    BY <1>2 DEF handleRead
  <2> QED
    BY <2>1, ErrorKeeps, CloseDowns
<1> QED
  BY <1>1, <1>2

LEMMA WriteKeeps ==
  ASSUME NEW c, NEW full \in BOOLEAN
  PROVE  /\ Up(c) => Up(handleWrite(c, full))
         /\ Downed(c) => Downed(handleWrite(c, full))
<1>1. Up(c) => Up(handleWrite(c, full))
  BY DEF handleWrite, isWriting, disableWriting, update, Up, Connection
<1>2. Downed(c) => Downed(handleWrite(c, full))
  BY DEF handleWrite, isWriting, disableWriting, update, Downed, Connection
<1> QED
  BY <1>1, <1>2

(* An event leaves a connection up unless it closes.                       *)
LEMMA EventUpUnlessDowned ==
  ASSUME NEW c, Up(c), NEW rev, NEW user \in UserCalls, NEW down \in UserCalls,
         NEW full \in BOOLEAN,
         handleEvent(c, rev, user, down, full).downs = c.downs
  PROVE  Up(handleEvent(c, rev, user, down, full))
<1> DEFINE d == IF "HUP" \in rev /\ "IN" \notin rev THEN handleClose(c, down, full) ELSE c
           e == IF "ERR" \in rev THEN handleError(d) ELSE d
           i == IF "IN" \in rev THEN handleRead(e, user, down, full) ELSE e
<1>1. Up(d) \/ (Downed(d) /\ "IN" \notin rev)
  BY CloseDowns
<1> HIDE DEF d
<1>2. Up(e) \/ (Downed(e) /\ "IN" \notin rev)
  BY <1>1, ErrorKeeps
<1> HIDE DEF e
<1>3. Up(i) \/ Downed(i)
  BY <1>2, ReadUpOrDowned
<1>4. handleEvent(c, rev, user, down, full) = IF "OUT" \in rev THEN handleWrite(i, full) ELSE i
  BY DEF handleEvent, d, e, i
<1> HIDE DEF i
<1>5. \/ Up(handleEvent(c, rev, user, down, full))
      \/ Downed(handleEvent(c, rev, user, down, full))
  BY <1>3, <1>4, WriteKeeps
<1> QED
  BY <1>5 DEF Up, Downed

-----------------------------------------------------------------------------
(* The steps of the connector and of the client.                           *)

LEMMA InitHolds == ClientInit => ClientInv
<1> SUFFICES ASSUME ClientInit PROVE ClientInv
  OBVIOUS
<1>1. ClientType
  BY DEF ClientInit, ClientType, Socks, ThreadPlaces
<1>2. OwnerInv
  BY DEF ClientInit, OwnerInv, Socks
<1> QED
  BY <1>1, <1>2 DEF ClientInv

(* socket() finds a number when one is free.                               *)
LEMMA FreeIsFree ==
  ASSUME NEW sk, \E s \in Socks : sk[s] = "closed"
  PROVE  Free(sk) \in Socks /\ sk[Free(sk)] = "closed"
<1>1. \E s \in Socks : sk[s] = "closed" /\ \A u \in Socks : sk[u] = "closed" => s <= u
  <2>1. CASE sk[1] = "closed"
    BY <2>1 DEF Socks
  <2>2. CASE sk[1] # "closed"
    BY <2>2 DEF Socks
  <2> QED
    BY <2>1, <2>2
<1> QED
  BY <1>1 DEF Free

(* An attempt to connect while no socket is open but, it may be, that of a *)
(* connection being removed.                                               *)
LEMMA ConnectKeeps ==
  ASSUME ClientType, NEW d \in Socks \cup {0}, NEW o \in Outcomes, connect(sock, d, o),
         \A s \in Socks : sock[s] # "closed" <=> s = d,
         conn' = 0, back' \in {"poll", "lock"}, mode' = mode, retry_' = retry_,
         mode' = "sender" /\ made' => ~connect_'
  PROVE  ClientType' /\ OwnerInv'
<1>1. Free(sock) \in Socks /\ sock[Free(sock)] = "closed"
  <2>1. \E s \in Socks : s # d
    BY DEF Socks
  <2> QED
    BY <2>1, FreeIsFree
<1>2. chan' \in Socks \cup {0} /\ (chan' # 0 <=> o = "begun") /\ (chan' # 0 => chan' = Free(sock))
  BY <1>1 DEF connect, Socks
<1>3. dying' \in Socks \cup {0} /\ (o # "again" => dying' = 0) /\ (o = "again" => dying' = d)
  BY DEF connect
<1>4. tpc' \in ThreadPlaces /\ (tpc' \in {"start", "sleep"} <=> o = "again")
      /\ (o = "again" => tpc' = "sleep")
  BY DEF connect, ThreadPlaces
<1>5. \A s \in Socks : sock'[s] = IF s = d /\ o # "again" THEN "closed"
                                  ELSE IF s = chan' THEN "connecting" ELSE sock[s]
  BY DEF connect
<1>6. sock' \in [Socks -> {"closed", "connecting", "connected", "refused"}]
  BY DEF connect, ClientType
<1>7. cconnect' /\ (chan' # 0 <=> cstate' = "kConnecting")
  BY <1>2 DEF connect
<1>8. ClientType'
  BY <1>2, <1>3, <1>4, <1>6 DEF ClientType
<1>9. ASSUME NEW s \in Socks PROVE sock'[s] # "closed" <=> s \in {chan', conn', dying'}
  <2>1. s # 0
    BY DEF Socks
  <2>2. CASE o = "again"
    BY <2>1, <2>2, <1>2, <1>3, <1>5
  <2>3. CASE o # "again"
    BY <2>1, <2>3, <1>1, <1>2, <1>3, <1>5
  <2> QED
    BY <2>2, <2>3
<1>10. OwnerInv'
  <2>1. chan' # 0 => conn' = 0 /\ dying' = 0 /\ cconnect'
    BY <1>2, <1>3, <1>7 DEF Outcomes
  <2>2. dying' # 0 => tpc' = "sleep"
    BY <1>3, <1>4
  <2>3. tpc' \in {"start", "sleep"} => chan' = 0 /\ conn' = 0
    BY <1>2, <1>4
  <2> QED
    BY <1>7, <1>9, <2>1, <2>2, <2>3 DEF OwnerInv
<1> QED
  BY <1>8, <1>10

(* retry() closes the connector's socket.                                  *)
LEMMA RetryKeeps ==
  ASSUME ClientType, OwnerInv, tpc = "poll", chan # 0, back' \in {"poll", "lock"}, retry(chan),
         UNCHANGED <<mode, retry_, connect_, conn, k, made>>
  PROVE  ClientType' /\ OwnerInv'
<1>1. chan \in Socks /\ conn = 0 /\ dying = 0 /\ cstate = "kConnecting"
  BY DEF ClientType, OwnerInv
<1>2. \A s \in Socks : sock'[s] = IF s = chan THEN "closed" ELSE sock[s]
  BY <1>1 DEF retry, ClientType
<1>3. ClientType'
  BY <1>1 DEF retry, ClientType, ThreadPlaces
<1>4. \A s \in Socks : sock'[s] # "closed" <=> s \in {chan', conn', dying'}
  BY <1>1, <1>2 DEF retry, OwnerInv, Socks
<1>5. OwnerInv'
  BY <1>1, <1>4 DEF retry, OwnerInv
<1> QED
  BY <1>3, <1>5

(* Steps that leave the sockets and their owners alone.                    *)
LEMMA OwnersStay ==
  ASSUME ClientType, OwnerInv,
         UNCHANGED <<mode, back, sock, cstate, cconnect, chan, dying, retry_, conn, made>>,
         tpc' = tpc \/ (tpc' \in ThreadPlaces \ {"start", "sleep"} /\ tpc # "sleep"),
         conn # 0 => Up(k'),
         mode = "sender" => connect_' = connect_
  PROVE  ClientType' /\ OwnerInv'
<1>1. ClientType'
  BY DEF ClientType, ThreadPlaces
<1>2. OwnerInv'
  BY DEF OwnerInv
<1> QED
  BY <1>1, <1>2

LEMMA AfterPollPlace == AfterPoll \in {"poll", "lock"}
BY DEF AfterPoll

LEMMA CallbackCalls == Callbacks \subseteq UserCalls
BY DEF Callbacks, UserCalls

-----------------------------------------------------------------------------
(* Every action keeps the sockets owned.                                   *)

LEMMA RetryWakesKeeps == ClientType /\ OwnerInv /\ RetryWakes => ClientType' /\ OwnerInv'
<1> SUFFICES ASSUME ClientType, OwnerInv, RetryWakes PROVE ClientType' /\ OwnerInv'
  OBVIOUS
<1>1. PICK o \in Outcomes : connect(sock, dying, o)
  BY DEF RetryWakes
<1>2. dying \in Socks \cup {0} /\ conn' = 0 /\ back' \in {"poll", "lock"}
  BY DEF RetryWakes, ClientType, OwnerInv
<1>3. \A s \in Socks : sock[s] # "closed" <=> s = dying
  BY DEF RetryWakes, OwnerInv, Socks
<1>4. mode' = mode /\ retry_' = retry_ /\ (mode' = "sender" /\ made' => ~connect_')
  BY DEF RetryWakes, OwnerInv
<1> QED
  BY <1>1, <1>2, <1>3, <1>4, ConnectKeeps

LEMMA StartKeeps == ClientType /\ OwnerInv /\ Start => ClientType' /\ OwnerInv'
<1> SUFFICES ASSUME ClientType, OwnerInv, Start PROVE ClientType' /\ OwnerInv'
  OBVIOUS
<1>1. PICK o \in Outcomes : connect(sock, 0, o)
  BY DEF Start
<1>2. conn' = 0 /\ back' \in {"poll", "lock"}
  BY DEF Start, OwnerInv
<1>3. \A s \in Socks : sock[s] # "closed" <=> s = 0
  BY DEF Start, OwnerInv, Socks
<1>4. mode' = mode /\ retry_' = retry_ /\ (mode' = "sender" /\ made' => ~connect_')
  BY DEF Start, OwnerInv
<1> QED
  BY <1>1, <1>2, <1>3, <1>4, ConnectKeeps

LEMMA NewConnectionKeeps == ClientType /\ OwnerInv /\ newConnection => ClientType' /\ OwnerInv'
<1> SUFFICES ASSUME ClientType, OwnerInv, newConnection PROVE ClientType' /\ OwnerInv'
  OBVIOUS
<1>1. chan \in Socks /\ conn = 0 /\ dying = 0 /\ tpc' = AfterPoll /\ back' = AfterPoll
  BY DEF newConnection, Connected, ClientType, OwnerInv
<1>2. Up(k')
  BY EstablishedIsUp, CallbackCalls DEF newConnection
<1>3. /\ conn' = chan /\ chan' = 0 /\ dying' = 0 /\ sock' = sock
      /\ cstate' = "kConnected" /\ connect_' = TRUE /\ mode' = mode /\ retry_' = retry_
  BY <1>1 DEF newConnection, Connected
<1>4. ClientType'
  BY <1>1, <1>3, AfterPollPlace DEF ClientType, ThreadPlaces
<1>5. \A s \in Socks : sock'[s] # "closed" <=> s \in {chan', conn', dying'}
  BY <1>1, <1>3 DEF OwnerInv, Socks
<1>6. tpc' \notin {"start", "sleep"}
  BY <1>1, AfterPollPlace
<1>7. OwnerInv'
  BY <1>1, <1>2, <1>3, <1>5, <1>6 DEF OwnerInv, Socks
<1> QED
  BY <1>4, <1>7

LEMMA HandleConnectionKeeps ==
  ClientType /\ OwnerInv /\ HandleConnection => ClientType' /\ OwnerInv'
<1> SUFFICES ASSUME ClientType, OwnerInv, HandleConnection PROVE ClientType' /\ OwnerInv'
  OBVIOUS
<1>1. /\ Up(k) /\ conn \in Socks /\ conn # 0 /\ dying = 0 /\ chan = 0 /\ tpc = "poll"
      /\ cstate = "kConnected"
  BY DEF HandleConnection, ClientType, OwnerInv
<1>2. /\ back' = AfterPoll /\ mode' = mode /\ retry_' = retry_ /\ made' = made
      /\ back' \in {"poll", "lock"}
  BY AfterPollPlace DEF HandleConnection
<1>3. PICK user \in Callbacks, down \in Callbacks, full \in BOOLEAN, writable \in BOOLEAN :
        LET r == handleEvent(k, revents(k, writable), user, down, full) IN
        IF r.downs = k.downs
          THEN /\ k' = r
               /\ tpc' = AfterPoll
               /\ UNCHANGED <<sock, cstate, cconnect, chan, dying, connect_, conn>>
          ELSE /\ conn' = 0
               /\ connect_' = FALSE
               /\ k' = NewTcpConnection
               /\ IF retry_ THEN \E o \in Outcomes : connect(sock, conn, o)
                  ELSE /\ sock' = [sock EXCEPT ![conn] = "closed"]
                       /\ tpc' = AfterPoll
                       /\ UNCHANGED <<cstate, cconnect, chan, dying>>
  BY DEF HandleConnection
<1> DEFINE r == handleEvent(k, revents(k, writable), user, down, full)
<1>4. CASE r.downs = k.downs
  <2>1. Up(k')
    BY <1>1, <1>3, <1>4, EventUpUnlessDowned, CallbackCalls
  <2> HIDE DEF r
  <2>2. tpc' \in {"poll", "lock"} /\ UNCHANGED <<sock, cstate, cconnect, chan, dying, connect_, conn>>
    BY <1>3, <1>4, AfterPollPlace DEF r
  <2>3. ClientType'
    BY <1>2, <2>2 DEF ClientType, ThreadPlaces
  <2>4. OwnerInv'
    BY <1>1, <1>2, <2>1, <2>2 DEF OwnerInv
  <2> QED
    BY <2>3, <2>4
<1>5. CASE r.downs # k.downs /\ retry_
  <2> HIDE DEF r
  <2>1. conn' = 0 /\ connect_' = FALSE /\ \E o \in Outcomes : connect(sock, conn, o)
    BY <1>3, <1>5 DEF r
  <2>2. \A s \in Socks : sock[s] # "closed" <=> s = conn
    BY <1>1 DEF OwnerInv, Socks
  <2> QED
    BY <1>1, <1>2, <2>1, <2>2, ConnectKeeps
<1>6. CASE r.downs # k.downs /\ ~retry_
  <2> HIDE DEF r
  <2>1. /\ conn' = 0 /\ connect_' = FALSE
        /\ sock' = [sock EXCEPT ![conn] = "closed"]
        /\ tpc' \in {"poll", "lock"}
        /\ UNCHANGED <<cstate, cconnect, chan, dying>>
    BY <1>3, <1>6, AfterPollPlace DEF r
  <2>2. \A s \in Socks : sock'[s] = IF s = conn THEN "closed" ELSE sock[s]
    BY <2>1 DEF ClientType
  <2>3. ClientType'
    BY <1>2, <2>1 DEF ClientType, ThreadPlaces
  <2>4. \A s \in Socks : sock'[s] # "closed" <=> s \in {chan', conn', dying'}
    BY <1>1, <2>1, <2>2 DEF OwnerInv, Socks
  <2>5. OwnerInv'
    BY <1>1, <1>2, <2>1, <2>4 DEF OwnerInv
  <2> QED
    BY <2>3, <2>5
<1> QED
  BY <1>4, <1>5, <1>6

LEMMA StopKeeps == ClientType /\ OwnerInv /\ stop => ClientType' /\ OwnerInv'
<1> SUFFICES ASSUME ClientType, OwnerInv, stop PROVE ClientType' /\ OwnerInv'
  OBVIOUS
<1>1. UNCHANGED <<mode, tpc, back, dying, retry_, conn, k, made>> /\ mode = "client"
  BY DEF stop
<1>2. CASE cstate = "kConnecting"
  <2>1. chan \in Socks /\ chan # 0 /\ conn = 0 /\ dying = 0
    BY <1>2 DEF ClientType, OwnerInv
  <2>2. chan' = 0 /\ cstate' = "kDisconnected" /\ sock' = [sock EXCEPT ![chan] = "closed"]
    BY <1>2 DEF stop, ConnectorStop
  <2>3. \A s \in Socks : sock'[s] = IF s = chan THEN "closed" ELSE sock[s]
    BY <2>2 DEF ClientType
  <2>4. ClientType'
    BY <1>1, <2>2 DEF ClientType
  <2>5. \A s \in Socks : sock'[s] # "closed" <=> s \in {chan', conn', dying'}
    BY <1>1, <2>1, <2>2, <2>3 DEF OwnerInv, Socks
  <2>6. OwnerInv'
    BY <1>1, <2>1, <2>2, <2>5 DEF OwnerInv
  <2> QED
    BY <2>4, <2>6
<1>3. CASE cstate # "kConnecting"
  <2>1. UNCHANGED <<sock, chan, cstate>> /\ chan = 0
    BY <1>3 DEF stop, ConnectorStop, OwnerInv
  <2>2. ClientType'
    BY <1>1, <2>1 DEF ClientType
  <2>3. OwnerInv'
    BY <1>1, <2>1 DEF OwnerInv
  <2> QED
    BY <2>2, <2>3
<1> QED
  BY <1>2, <1>3

LEMMA DestroyKeeps == ClientType /\ OwnerInv /\ DestroyClient => ClientType' /\ OwnerInv'
<1> SUFFICES ASSUME ClientType, OwnerInv, DestroyClient PROVE ClientType' /\ OwnerInv'
  OBVIOUS
<1>1. /\ mode = "client" /\ tpc = "poll" /\ tpc' = "gone" /\ conn' = 0 /\ chan' = 0
      /\ cstate' = "kDisconnected" /\ UNCHANGED <<mode, back, dying, retry_, made>>
  BY DEF DestroyClient
<1>2. \A s \in Socks : sock'[s] = IF s \in {conn, chan} THEN "closed" ELSE sock[s]
  BY DEF DestroyClient
<1>3. dying = 0
  BY <1>1 DEF OwnerInv
<1>4. sock' \in [Socks -> {"closed", "connecting", "connected", "refused"}]
  BY DEF DestroyClient, ClientType
<1>5. ClientType'
  BY <1>1, <1>4 DEF ClientType, ThreadPlaces
<1>6. \A s \in Socks : sock'[s] = "closed"
  BY <1>2, <1>3 DEF OwnerInv, Socks
<1>7. OwnerInv'
  BY <1>1, <1>3, <1>6 DEF OwnerInv, Socks
<1> QED
  BY <1>5, <1>7

LEMMA AnswerKeeps ==
  ASSUME ClientType, OwnerInv, NEW result \in {"connected", "refused"}, Answer(result)
  PROVE  ClientType' /\ OwnerInv'
<1>1. UNCHANGED <<mode, tpc, back, cstate, cconnect, chan, dying, retry_, connect_, conn, k, made>>
  BY DEF Answer
<1>2. \A s \in Socks : sock'[s] = IF s = chan THEN result ELSE sock[s]
  BY DEF Answer, ClientType
<1>3. sock' \in [Socks -> {"closed", "connecting", "connected", "refused"}]
  BY DEF Answer, ClientType
<1>4. ClientType'
  BY <1>1, <1>3 DEF ClientType
<1>5. \A s \in Socks : sock'[s] # "closed" <=> s \in {chan', conn', dying'}
  BY <1>1, <1>2 DEF OwnerInv
<1>6. OwnerInv'
  BY <1>1, <1>5 DEF OwnerInv
<1> QED
  BY <1>4, <1>6

(* What the peer does to a connection leaves it up.                        *)
LEMMA PeerKeepsUp ==
  ASSUME NEW c, Up(c)
  PROVE  /\ Up([c EXCEPT !.data = TRUE])
         /\ Up([c EXCEPT !.peer = "fin"])
         /\ Up([c EXCEPT !.peer = "rst", !.err = TRUE, !.data = FALSE])
<1>1. Up([c EXCEPT !.data = TRUE])
  BY DEF Up, Connection
<1>2. Up([c EXCEPT !.peer = "fin"])
  BY DEF Up, Connection, Peers
<1>3. Up([c EXCEPT !.peer = "rst", !.err = TRUE, !.data = FALSE])
  BY DEF Up, Connection, Peers
<1> QED
  BY <1>1, <1>2, <1>3

LEMMA UserKeeps ==
  ASSUME ClientType, OwnerInv, UserSends \/ disconnect \/ PeerActs
  PROVE  ClientType' /\ OwnerInv'
<1>1. UNCHANGED <<mode, back, sock, cstate, cconnect, chan, dying, retry_, conn, made, tpc>>
  BY DEF UserSends, disconnect, PeerActs, connectorVars
<1>2. mode = "sender" => connect_' = connect_
  BY DEF UserSends, disconnect, PeerActs
<1>3. ASSUME conn # 0 PROVE Up(k')
  <2>1. Up(k) /\ k \in Connection
    BY <1>3 DEF OwnerInv, Up
  <2>2. CASE UserSends
    BY <2>1, <2>2, SendKeeps DEF UserSends
  <2>3. CASE disconnect
    BY <1>3, <2>1, <2>3, ShutdownKeeps DEF disconnect
  <2>4. CASE PeerActs
    BY <2>1, <2>4, PeerKeepsUp DEF PeerActs
  <2> QED
    BY <2>2, <2>3, <2>4
<1> QED
  BY <1>1, <1>2, <1>3, OwnersStay

LEMMA SenderKeeps ==
  ASSUME ClientType, OwnerInv, PollTimeout \/ CheckCount \/ WaitReturns \/ SendMessage
  PROVE  ClientType' /\ OwnerInv'
<1>1. UNCHANGED <<mode, back, sock, cstate, cconnect, chan, dying, retry_, conn, made, connect_>>
  BY DEF PollTimeout, CheckCount, WaitReturns, SendMessage
<1>2. tpc' = tpc \/ (tpc' \in ThreadPlaces \ {"start", "sleep"} /\ tpc # "sleep")
  BY DEF PollTimeout, CheckCount, WaitReturns, SendMessage, ThreadPlaces
<1>3. ASSUME conn # 0 PROVE Up(k')
  <2>1. Up(k) /\ k \in Connection
    BY <1>3 DEF OwnerInv, Up
  <2>2. k' = k \/ \E len \in BOOLEAN, buf \in BOOLEAN : k' = send(send(k, len), buf)
    BY DEF PollTimeout, CheckCount, WaitReturns, SendMessage
  <2>3. ASSUME NEW len \in BOOLEAN, NEW buf \in BOOLEAN PROVE Up(send(send(k, len), buf))
    BY <2>1, SendKeeps
  <2> QED
    BY <2>1, <2>2, <2>3
<1> QED
  BY <1>1, <1>2, <1>3, OwnersStay

LEMMA StepKeeps == ClientInv /\ [ClientNext]_clientVars => ClientInv'
<1> SUFFICES ASSUME ClientType, OwnerInv, [ClientNext]_clientVars PROVE ClientType' /\ OwnerInv'
  BY DEF ClientInv
<1>1. CASE ClientNext
  <2>1. CASE ConnectorError \/ ConnectorWriteFails
    BY <2>1, RetryKeeps, AfterPollPlace DEF ConnectorError, ConnectorWriteFails
  <2>2. CASE PollTimeout \/ CheckCount \/ WaitReturns \/ SendMessage
    BY <2>2, SenderKeeps
  <2>3. CASE UserSends \/ disconnect \/ PeerActs
    BY <2>3, UserKeeps
  <2>4. CASE Answer("connected") \/ Answer("refused")
    BY <2>4, AnswerKeeps
  <2>5. CASE \/ RetryWakes \/ Start \/ newConnection \/ HandleConnection
             \/ stop \/ DestroyClient
    BY <2>5, RetryWakesKeeps, StartKeeps, NewConnectionKeeps, HandleConnectionKeeps, StopKeeps,
       DestroyKeeps
  <2> QED
    BY <1>1, <2>1, <2>2, <2>3, <2>4, <2>5 DEF ClientNext, Loop
<1>2. CASE UNCHANGED clientVars
  <2>1. UNCHANGED <<mode, tpc, back, sock, cstate, cconnect, chan, dying, retry_, connect_, conn,
                    k, made>>
    BY <1>2 DEF clientVars, connectorVars
  <2> QED
    BY <2>1 DEF ClientType, OwnerInv
<1> QED
  BY <1>1, <1>2

(* The state that Connector and TcpClient share stays consistent.          *)
THEOREM ClientInvariant == ClientSpec => []ClientInv
<1> QED
  BY InitHolds, StepKeeps, PTL DEF ClientSpec

(* No socket is leaked and none has two owners, whatever connect(2)        *)
(* returns, whenever the peer resets or the user stops or destroys the     *)
(* client; and once a connection has been made is_connected() tells a      *)
(* Sender the truth.                                                       *)
THEOREM SocketsHaveOwners == ClientSpec => []SocketsOwned
<1>1. ClientInv => SocketsOwned
  <2> SUFFICES ASSUME ClientInv PROVE SocketsOwned
    OBVIOUS
  <2>1. {s \in Socks : sock[s] # "closed"} = {chan, conn, dying} \ {0}
    BY DEF ClientInv, ClientType, OwnerInv, Socks
  <2> QED
    BY <2>1 DEF ClientInv, OwnerInv, SocketsOwned, Up
<1> QED
  BY <1>1, ClientInvariant, PTL

=============================================================================
