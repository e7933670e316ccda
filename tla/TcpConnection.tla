---------------------------- MODULE TcpConnection ----------------------------
(***************************************************************************)
(* One connection: TcpConnection with its Channel and the kernel's socket  *)
(* under it, as a record.  The methods are functions of that record, run   *)
(* on the connection's loop thread by the machine of TcpServer.            *)
(*                                                                         *)
(* Bytes are not modelled: data says that unread input is there, output    *)
(* that outputBuffer_ is not empty.  A write takes everything ("full") or  *)
(* leaves a rest (a short write or EWOULDBLOCK).                           *)
(***************************************************************************)
EXTENDS Naturals, FiniteSets

(* The kernel's side of a socket: the peer has it open, has closed it      *)
(* (fin) or has reset it (rst); shut: we have shut down writing; err:      *)
(* SO_ERROR is pending.                                                    *)
Peers  == {"open", "fin", "rst"}
States == {"kConnecting", "kConnected", "kDisconnecting", "kDisconnected"}

Connection ==
  [state : States, events : SUBSET {"read", "write"},
   index : {"kNew", "kAdded", "kDeleted"}, output : BOOLEAN,
   peer : Peers, data : BOOLEAN, shut : BOOLEAN, err : BOOLEAN,
   ups : Nat, downs : Nat, established : Nat, destroyed : Nat,
   aborted : BOOLEAN]

(* The constructor, on a socket just accepted.  ups, downs, established    *)
(* and destroyed count calls of the connection callback and of             *)
(* connectEstablished and connectDestroyed; aborted: an assert failed.     *)
NewTcpConnection ==
  [state |-> "kConnecting", events |-> {}, index |-> "kNew", output |-> FALSE,
   peer |-> "open", data |-> FALSE, shut |-> FALSE, err |-> FALSE,
   ups |-> 0, downs |-> 0, established |-> 0, destroyed |-> 0, aborted |-> FALSE]

-----------------------------------------------------------------------------
(* Channel.                                                                *)

update(k) ==
  [k EXCEPT !.index = IF k.index = "kAdded" /\ k.events = {} THEN "kDeleted"
                                                            ELSE "kAdded"]

enableReading(k)  == update([k EXCEPT !.events = @ \cup {"read"}])
enableWriting(k)  == update([k EXCEPT !.events = @ \cup {"write"}])
disableWriting(k) == update([k EXCEPT !.events = @ \ {"write"}])
disableAll(k)     == update([k EXCEPT !.events = {}])
remove(k)         == [k EXCEPT !.index = "kNew"]

isWriting(k) == "write" \in k.events

(* What epoll_wait reports for the descriptor; EPOLLHUP and EPOLLERR come  *)
(* whether they were asked for or not.                                     *)
revents(k, writable) ==
  IF k.index # "kAdded" THEN {}
  ELSE {e \in {"IN", "OUT", "HUP", "ERR"} :
          \/ e = "IN" /\ "read" \in k.events /\ (k.data \/ k.peer # "open")
          \/ e = "OUT" /\ isWriting(k) /\ (writable \/ k.peer = "rst")
          \/ e = "HUP" /\ (k.peer = "rst" \/ (k.peer = "fin" /\ k.shut))
          \/ e = "ERR" /\ k.err}

-----------------------------------------------------------------------------
(* TcpConnection.                                                          *)

(* send: written at once unless output is waiting; EPIPE and ECONNRESET    *)
(* drop the message (and take the socket's pending error), a rest is       *)
(* buffered and the channel set to writing.                                *)
send(k, full) ==
  LET faultError == ~k.output /\ (k.peer = "rst" \/ k.shut)
      remaining  == k.output \/ ~full
      buffered   == [k EXCEPT !.output = TRUE]
  IN IF faultError THEN [k EXCEPT !.err = FALSE]
     ELSE IF ~remaining THEN k
     ELSE IF isWriting(buffered) THEN buffered
     ELSE enableWriting(buffered)

shutdownInLoop(k) == IF isWriting(k) THEN k ELSE [k EXCEPT !.shut = TRUE]

shutdown(k) ==
  IF k.state = "kConnected"
    THEN shutdownInLoop([k EXCEPT !.state = "kDisconnecting"]) ELSE k

(* What the user's callback does with the connection it is given.          *)
UserCalls == {"nothing", "send", "shutdown"}
callback(k, user, full) ==
  CASE user = "nothing"  -> k
    [] user = "send"     -> send(k, full)
    [] user = "shutdown" -> shutdown(k)

connectEstablished(k, user, full) ==
  LET e == enableReading([k EXCEPT !.state = "kConnected"]) IN
  callback([e EXCEPT !.established = @ + 1, !.ups = @ + 1], user, full)

(* Mutants: DOWN is signalled whatever the state; the channel is left      *)
(* registered.                                                             *)
connectDestroyed_AlwaysDown(k, user, full) ==
  LET d == disableAll([k EXCEPT !.state = "kDisconnected"]) IN
  remove([callback([d EXCEPT !.downs = @ + 1], user, full) EXCEPT !.destroyed = @ + 1])

connectDestroyed_NoRemove(k, user, full) ==
  LET d == disableAll([k EXCEPT !.state = "kDisconnected"])
      c == IF k.state = "kConnected"
             THEN callback([d EXCEPT !.downs = @ + 1], user, full) ELSE k
  IN [c EXCEPT !.destroyed = @ + 1]

connectDestroyed(k, user, full) ==
  LET d == disableAll([k EXCEPT !.state = "kDisconnected"])
      c == IF k.state = "kConnected"
             THEN callback([d EXCEPT !.downs = @ + 1], user, full) ELSE k
  IN remove([c EXCEPT !.destroyed = @ + 1])

(* Mutant: the channel stays enabled.                                      *)
handleClose_StaysEnabled(k, user, full) ==
  IF k.state \notin {"kConnected", "kDisconnecting"}
    THEN [k EXCEPT !.aborted = TRUE]
    ELSE callback([k EXCEPT !.state = "kDisconnected", !.downs = @ + 1], user, full)

(* The assert on state_, then DOWN; the caller goes on with closeCallback_.*)
handleClose(k, user, full) ==
  IF k.state \notin {"kConnected", "kDisconnecting"}
    THEN [k EXCEPT !.aborted = TRUE]
    ELSE LET d == disableAll([k EXCEPT !.state = "kDisconnected"]) IN
         callback([d EXCEPT !.downs = @ + 1], user, full)

(* getsockopt(SO_ERROR) clears the pending error.                          *)
handleError(k) == [k EXCEPT !.err = FALSE]

(* read_fd returns data, or 0 at the end of the stream, or the pending     *)
(* error of a reset.                                                       *)
handleRead(k, user, down, full) ==
  IF k.data THEN callback([k EXCEPT !.data = FALSE], user, full)
  ELSE IF k.err THEN handleError(k)
  ELSE IF k.peer # "open" THEN handleClose(k, down, full)
  ELSE k

(* The output may be drained; a failing write is only logged.              *)
handleWrite(k, full) ==
  IF ~isWriting(k) THEN k
  ELSE IF k.peer = "rst" \/ k.shut THEN [k EXCEPT !.err = FALSE]
  ELSE IF full THEN disableWriting([k EXCEPT !.output = FALSE])
  ELSE k

(* Channel::handleEvent: the callbacks of the reported events, in order.   *)
handleEvent(k, rev, user, down, full) ==
  LET c == IF "HUP" \in rev /\ "IN" \notin rev THEN handleClose(k, down, full) ELSE k
      e == IF "ERR" \in rev THEN handleError(c) ELSE c
      r == IF "IN" \in rev THEN handleRead(e, user, down, full) ELSE e
  IN IF "OUT" \in rev THEN handleWrite(r, full) ELSE r
=============================================================================
