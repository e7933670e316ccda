------------------------------- MODULE Client --------------------------------
(***************************************************************************)
(* The connecting side: Connector and TcpClient on a TcpConnection.  Two   *)
(* programs are modelled: "sender", the thread of Sender, and "client", a  *)
(* TcpClient whose loop is poll() and whose user calls it on the loop      *)
(* thread, between polls or in callbacks.                                  *)
(*                                                                         *)
(* Sockets are numbered and reused, the lowest first, as descriptors are.  *)
(* A connector's channel is freed in its own handleEvent; what handleEvent *)
(* then reads there is taken to be the new channel's revents_, 0, or that  *)
(* of a channel whose callbacks do nothing.  Of Sender's messages this     *)
(* module knows nothing: the thread may find the count zero or not,        *)
(* read_buffer may give it a message or not.  Module Sender has them.      *)
(***************************************************************************)
EXTENDS TcpConnection

Socks == 1 .. 2      \* never more than two are open (SocketsOwned)

VARIABLES
  mode,      \* "sender" or "client"
  tpc,       \* the loop thread
  back,      \* where it goes on once Connector has returned
  sock,      \* the kernel's view of each socket
  cstate, cconnect, chan,    \* Connector: state_, connect_, the socket of channel_ or 0
  dying,     \* the socket of a connection being removed, or 0
  retry_, connect_, conn,    \* TcpClient: retry_, connect_, the socket of connection_ or 0
  k,         \* connection_
  made       \* a connection has been made

connectorVars == <<tpc, back, sock, cstate, cconnect, chan, dying>>
clientVars    == <<mode, connectorVars, retry_, connect_, conn, k, made>>

ClientInit ==
  /\ mode \in {"sender", "client"}
  /\ tpc = "start"
  /\ back = "poll"
  /\ sock = [s \in Socks |-> "closed"]
  /\ cstate = "kDisconnected" /\ cconnect = FALSE /\ chan = 0
  /\ dying = 0
  /\ retry_ \in (IF mode = "sender" THEN {TRUE} ELSE BOOLEAN)
  /\ connect_ = TRUE
  /\ conn = 0
  /\ k = NewTcpConnection
  /\ made = FALSE

-----------------------------------------------------------------------------
(* Connector.                                                              *)

Free(sk) == CHOOSE s \in Socks : sk[s] = "closed" /\ \A u \in Socks : sk[u] = "closed" => s <= u

(* How connect(2) can come out: under way; one of the errors that are      *)
(* retried; any other.                                                     *)
Outcomes == {"begun", "again", "error"}

(* connect(), with connecting() and the first steps of retry().  Once it   *)
(* returns, a connection that was being removed is deleted, and its socket *)
(* closed.                                                                 *)
connect(sk, d, o) ==
  /\ cconnect' = TRUE
  /\ chan' = IF o = "begun" THEN Free(sk) ELSE 0
  /\ cstate' = IF o = "begun" THEN "kConnecting" ELSE "kDisconnected"
  /\ tpc' = IF o = "again" THEN "sleep" ELSE back'
  /\ dying' = IF o = "again" THEN d ELSE 0
  /\ sock' = [s \in Socks |-> IF s = d /\ o # "again" THEN "closed"
                              ELSE IF s = chan' THEN "connecting" ELSE sk[s]]

(* Mutant: the socket is left open.                                        *)
retry_NoClose(s) ==
  /\ sock' = sock
  /\ cstate' = "kDisconnected"
  /\ chan' = 0
  /\ tpc' = IF cconnect THEN "sleep" ELSE back'
  /\ UNCHANGED <<cconnect, dying>>

(* Mutant: the channel stays, and there is no new attempt.                 *)
retry_KeepsChannel(s) ==
  /\ sock' = [sock EXCEPT ![s] = "closed"]
  /\ cstate' = "kDisconnected"
  /\ chan' = chan
  /\ tpc' = back'
  /\ UNCHANGED <<cconnect, dying>>

retry(s) ==
  /\ sock' = [sock EXCEPT ![s] = "closed"]
  /\ cstate' = "kDisconnected"
  /\ chan' = 0
  /\ tpc' = IF cconnect THEN "sleep" ELSE back'
  /\ UNCHANGED <<cconnect, dying>>

(* The five seconds of retry() are over: start() again.                    *)
RetryWakes ==
  /\ tpc = "sleep"
  /\ UNCHANGED back
  /\ \E o \in Outcomes : connect(sock, dying, o)
  /\ UNCHANGED <<mode, retry_, connect_, conn, k, made>>

-----------------------------------------------------------------------------
(* The loop.                                                               *)

(* TcpClient::connect                                                      *)
Start ==
  /\ tpc = "start"
  /\ back' = "poll"
  /\ \E o \in Outcomes : connect(sock, 0, o)
  /\ UNCHANGED <<mode, retry_, connect_, conn, k, made>>

(* Where poll() or run_one_poll() goes on to.                              *)
AfterPoll == IF mode = "sender" THEN "lock" ELSE "poll"

(* What the user's callbacks do: Sender's do nothing.                      *)
Callbacks == IF mode = "sender" THEN {"nothing"} ELSE UserCalls

(* Connector::handleError                                                  *)
ConnectorError ==
  /\ tpc = "poll" /\ chan # 0 /\ sock[chan] = "refused"
  /\ back' = AfterPoll
  /\ retry(chan)
  /\ UNCHANGED <<mode, retry_, connect_, conn, k, made>>

(* Connector::handleWrite on a socket that fails after all, or that is     *)
(* connected to itself.                                                    *)
ConnectorWriteFails ==
  /\ tpc = "poll" /\ chan # 0 /\ sock[chan] = "connected"
  /\ back' = AfterPoll
  /\ retry(chan)
  /\ UNCHANGED <<mode, retry_, connect_, conn, k, made>>

(* Connector::handleWrite on a socket that is connected.  Its connect_ is  *)
(* TRUE: stop() would have closed the socket (SocketsOwned).               *)
Connected ==
  /\ tpc = "poll" /\ chan # 0 /\ sock[chan] = "connected"
  /\ cstate' = "kConnected"
  /\ chan' = 0

(* TcpClient::newConnection                                                *)
newConnection ==
  /\ Connected
  /\ conn' = chan
  /\ \E user \in Callbacks, full \in BOOLEAN :
       k' = connectEstablished(NewTcpConnection, user, full)
  /\ connect_' = TRUE
  /\ made' = TRUE
  /\ back' = AfterPoll
  /\ tpc' = AfterPoll
  /\ UNCHANGED <<mode, sock, cconnect, dying, retry_>>

(* A connection's handleEvent; when it closes, TcpClient::removeConnection *)
(* and, to try again, Connector::restart.                                  *)
HandleConnection ==
  /\ tpc = "poll" /\ conn # 0
  /\ back' = AfterPoll
  /\ \E user \in Callbacks, down \in Callbacks, full \in BOOLEAN, writable \in BOOLEAN :
       LET rev == revents(k, writable)
           r == handleEvent(k, rev, user, down, full)
       IN
       /\ rev # {}
       /\ IF r.downs = k.downs
            THEN /\ k' = r
                 /\ tpc' = AfterPoll
                 /\ UNCHANGED <<sock, cstate, cconnect, chan, dying, connect_, conn>>
            ELSE /\ conn' = 0
                 /\ connect_' = FALSE
                 /\ k' = NewTcpConnection
                 /\ IF retry_ THEN \E o \in Outcomes : connect(sock, conn, o)
                    ELSE /\ sock' = [sock EXCEPT ![conn] = "closed"]
                         /\ tpc' = AfterPoll
                         /\ UNCHANGED <<cstate, cconnect, chan, dying>>
  /\ UNCHANGED <<mode, retry_, made>>

(* run_one_poll gives up after half a second.                              *)
PollTimeout ==
  /\ tpc = "poll" /\ mode = "sender"
  /\ chan # 0 => sock[chan] = "connecting"
  /\ conn # 0 => revents(k, FALSE) = {}
  /\ tpc' = "lock"
  /\ UNCHANGED <<mode, back, sock, cstate, cconnect, chan, dying, retry_, connect_, conn, k,
                 made>>

-----------------------------------------------------------------------------
(* The user of a TcpClient, on the loop thread.                            *)

UserSends ==
  /\ mode = "client" /\ tpc = "poll" /\ conn # 0
  /\ \E full \in BOOLEAN : k' = send(k, full)
  /\ UNCHANGED <<mode, connectorVars, retry_, connect_, conn, made>>

disconnect ==
  /\ mode = "client" /\ tpc = "poll"
  /\ connect_' = FALSE
  /\ k' = IF conn # 0 THEN shutdown(k) ELSE k
  /\ UNCHANGED <<mode, connectorVars, retry_, conn, made>>

(* Connector::stop                                                         *)
ConnectorStop ==
  /\ cconnect' = FALSE
  /\ IF cstate = "kConnecting"
       THEN sock' = [sock EXCEPT ![chan] = "closed"] /\ chan' = 0 /\ cstate' = "kDisconnected"
       ELSE UNCHANGED <<sock, chan, cstate>>

(* TcpClient::stop                                                         *)
stop ==
  /\ mode = "client" /\ tpc = "poll"
  /\ connect_' = FALSE
  /\ ConnectorStop
  /\ UNCHANGED <<mode, tpc, back, dying, retry_, conn, k, made>>

(* ~TcpClient, on a connection nobody else holds: shut down and deleted,   *)
(* with its socket; or Connector::stop.                                    *)
DestroyClient ==
  /\ mode = "client" /\ tpc = "poll"
  /\ tpc' = "gone"
  /\ sock' = [s \in Socks |-> IF s \in {conn, chan} THEN "closed" ELSE sock[s]]
  /\ conn' = 0
  /\ k' = NewTcpConnection
  /\ chan' = 0
  /\ cstate' = "kDisconnected"
  /\ cconnect' = FALSE
  /\ UNCHANGED <<mode, back, dying, retry_, connect_, made>>

-----------------------------------------------------------------------------
(* Sender's thread, after run_one_poll.                                    *)

(* Asleep when the count is zero.                                          *)
CheckCount ==
  /\ tpc = "lock"
  /\ tpc' \in {"waiting", "read"}
  /\ UNCHANGED <<mode, back, sock, cstate, cconnect, chan, dying, retry_, connect_, conn, k, made>>

(* cond_.wait() returns: notified, or for no reason.                       *)
WaitReturns ==
  /\ tpc = "waiting"
  /\ tpc' = "read"
  /\ UNCHANGED <<mode, back, sock, cstate, cconnect, chan, dying, retry_, connect_, conn, k, made>>

(* read_buffer, and both sends when there is a connection; is_connected()  *)
(* may say so when there is none, and connection() then returns null.      *)
SendMessage ==
  /\ tpc = "read"
  /\ \E read_ret \in BOOLEAN :
       /\ tpc' = IF read_ret /\ connect_ /\ conn = 0 THEN "crashed" ELSE "poll"
       /\ IF read_ret /\ connect_ /\ conn # 0
            THEN \E len \in BOOLEAN, buf \in BOOLEAN : k' = send(send(k, len), buf)
            ELSE UNCHANGED k
  /\ UNCHANGED <<mode, back, sock, cstate, cconnect, chan, dying, retry_, connect_, conn, made>>

-----------------------------------------------------------------------------
(* The server and the network.                                             *)

Answer(result) ==
  /\ chan # 0 /\ sock[chan] = "connecting"
  /\ sock' = [sock EXCEPT ![chan] = result]
  /\ UNCHANGED <<mode, tpc, back, cstate, cconnect, chan, dying, retry_, connect_, conn, k, made>>

PeerActs ==
  /\ conn # 0 /\ k.peer = "open"
  /\ \/ k' = [k EXCEPT !.data = TRUE]
     \/ k' = [k EXCEPT !.peer = "fin"]
     \/ k' = [k EXCEPT !.peer = "rst", !.err = TRUE, !.data = FALSE]
  /\ UNCHANGED <<mode, connectorVars, retry_, connect_, conn, made>>

-----------------------------------------------------------------------------
Loop ==
  \/ RetryWakes \/ Start \/ ConnectorError \/ ConnectorWriteFails \/ newConnection
  \/ HandleConnection \/ PollTimeout \/ CheckCount \/ SendMessage

ClientNext ==
  /\ tpc # "crashed"
  /\ \/ Loop \/ WaitReturns
     \/ UserSends \/ disconnect \/ stop \/ DestroyClient
     \/ Answer("connected") \/ Answer("refused") \/ PeerActs

ClientSpec == ClientInit /\ [][ClientNext]_clientVars

(* The thread runs, but nobody has to call send() and wake it up; attempts *)
(* to connect are answered, and not refused for ever.                      *)
ClientFairness ==
  /\ WF_clientVars(Loop)
  /\ WF_clientVars(Answer("connected") \/ Answer("refused"))
  /\ SF_clientVars(Answer("connected"))
  /\ SF_clientVars(newConnection)
  /\ SF_clientVars(RetryWakes /\ tpc' # "sleep")

-----------------------------------------------------------------------------
(* Every open socket has one owner: the connector's channel, exactly while *)
(* it is connecting, the client's connection, which is watched until it    *)
(* closes, or a connection that is being removed; none is leaked, whatever *)
(* fails.  Once a connection has been made, is_connected() tells a Sender  *)
(* the truth.                                                              *)
SocketsOwned ==
  /\ {s \in Socks : sock[s] # "closed"} = {chan, conn, dying} \ {0}
  /\ chan # 0 => conn = 0 /\ dying = 0 /\ cconnect
  /\ conn # 0 => dying = 0 /\ cstate = "kConnected" /\ k.index = "kAdded" /\ ~k.aborted
  /\ chan # 0 <=> cstate = "kConnecting"
  /\ mode = "sender" /\ made => (connect_ <=> conn # 0)

(* The connector was turned down by an error it does not retry, or its     *)
(* client has been stopped or destroyed.                                   *)
GivenUp == conn = 0 /\ chan = 0 /\ tpc \notin {"start", "sleep"}

(* Once connect() was called, a client without a connection gets one,      *)
(* unless the connector gives up.  (Sender's thread goes on connecting     *)
(* only when it has a message.)                                            *)
ClientProgress ==
  (conn = 0 /\ tpc \notin {"start", "waiting"})
    ~> (conn # 0 \/ GivenUp \/ tpc \in {"waiting", "crashed"})

(* Sender is used as test/sender uses it: send() right after start().      *)
NoNullConnection == tpc # "crashed"
=============================================================================
