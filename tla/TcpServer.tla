------------------------------ MODULE TcpServer ------------------------------
(***************************************************************************)
(* TcpServer with its Acceptor, its EPollerThreadPool and its connections: *)
(* the base loop accepts and keeps the map of connections, the io loops    *)
(* (the base loop when there are none) handle the connections' events.     *)
(* The loops call each other through runInLoop and queueInLoop; a loop is  *)
(* EPollPoller reduced to its rounds: epoll_wait, the active channels, the *)
(* swapped batch of functors.                                              *)
(***************************************************************************)
EXTENDS TcpConnection, Sequences, Functions

CONSTANTS
  Conns,          \* connections the peers open
  Base,           \* the acceptor's loop
  Pools,          \* the pools setThreadNum may ask for, sequences of loops
  BaseWakeup,     \* TRUE iff the owner of the base loop called enable_wakeup
  Scenes,         \* what may happen: see Scene
  DownCalls       \* what the DOWN callback may do

Loops == {Base} \cup UNION {{p[i] : i \in 1 .. Len(p)} : p \in Pools}

(* Which peers connect, what the UP and the message callback may do, and   *)
(* which connections another thread of the user holds.                     *)
Scene == [peers : SUBSET Conns, calls : SUBSET UserCalls, held : SUBSET Conns]

ASSUME ServerAssumption ==
  /\ Pools \subseteq Seq(Loops \ {Base})
  /\ BaseWakeup \in BOOLEAN
  /\ Scenes \subseteq Scene
  /\ DownCalls \subseteq UserCalls

VARIABLES
  scene,         \* the scene of this behaviour
  conn,          \* each connection's record
  phase,         \* "none", in the listen "backlog", "accepted" or "refused"
  loopOf,        \* TcpConnection::getLoop()
  pool,          \* EPollerThreadPool::epollers_: the io loops
  next,          \* EPollerThreadPool::next_
  connections,   \* connections_, the server's map
  lpc,           \* where each loop is
  active,        \* each loop's activeChannels_ still to be handled
  rev,           \* the revents_ set by fillActiveChannels
  accepting,     \* the acceptor's channel is active
  queue,         \* each loop's pendingFunctors_
  batch,         \* each loop's functors being run
  wake,          \* each loop's eventfd is readable
  upc            \* another thread calling shutdown() on a connection

vars == <<scene, conn, phase, loopOf, pool, next, connections, lpc, active, rev, accepting,
          queue, batch, wake, upc>>

Functor == {"established", "remove", "destroyed", "shutdown"} \X Conns

TypeOK ==
  /\ scene \in Scenes
  /\ conn \in [Conns -> Connection]
  /\ phase \in [Conns -> {"none", "backlog", "accepted", "refused"}]
  /\ loopOf \in [Conns -> Loops]
  /\ pool \in Pools
  /\ next = 0 \/ next \in 1 .. Len(pool) - 1
  /\ connections \in SUBSET Conns
  /\ lpc \in [Loops -> {"poll", "dispatch", "functors", "erase"}]
  /\ active \in [Loops -> SUBSET Conns]
  /\ rev \in [Conns -> SUBSET {"IN", "OUT", "HUP", "ERR"}]
  /\ accepting \in BOOLEAN
  /\ queue \in [Loops -> Seq(Functor)]
  /\ batch \in [Loops -> Seq(Functor)]
  /\ wake \in [Loops -> BOOLEAN]
  /\ upc \in [Conns -> {"idle", "checked", "done"}]

Init ==
  /\ scene \in Scenes
  /\ conn = [c \in Conns |-> NewTcpConnection]
  /\ phase = [c \in Conns |-> "none"]
  /\ loopOf = [c \in Conns |-> Base]
  /\ pool \in Pools
  /\ next = 0
  /\ connections = {}
  /\ lpc = [l \in Loops |-> "poll"]
  /\ active = [l \in Loops |-> {}]
  /\ rev = [c \in Conns |-> {}]
  /\ accepting = FALSE
  /\ queue = [l \in Loops |-> <<>>]
  /\ batch = [l \in Loops |-> <<>>]
  /\ wake = [l \in Loops |-> FALSE]
  /\ upc = [c \in Conns |-> "idle"]

-----------------------------------------------------------------------------
(* The peers and the kernel.                                               *)

Live(c) == phase[c] \in {"backlog", "accepted"} /\ conn[c].destroyed = 0

PeerConnect(c) ==
  /\ c \in scene.peers
  /\ phase[c] = "none"
  /\ phase' = [phase EXCEPT ![c] = "backlog"]
  /\ UNCHANGED <<scene, conn, loopOf, pool, next, connections, lpc, active, rev, accepting,
                 queue, batch, wake, upc>>

PeerStep(c) ==
  /\ Live(c)
  /\ \/ /\ conn[c].peer = "open"
        /\ conn' = [conn EXCEPT ![c].data = TRUE]
     \/ /\ conn[c].peer = "open"
        /\ conn' = [conn EXCEPT ![c].peer = "fin"]
     \/ /\ conn[c].peer # "rst"
        /\ conn' = [conn EXCEPT ![c].peer = "rst", ![c].err = TRUE]
  /\ UNCHANGED <<scene, phase, loopOf, pool, next, connections, lpc, active, rev, accepting,
                 queue, batch, wake, upc>>

-----------------------------------------------------------------------------
(* A loop's round.                                                         *)

(* The eventfd is watched by every loop of the pool (EPollerThread calls   *)
(* enable_wakeup), by the base loop only if its owner asked for it.        *)
Woken(l) == wake[l] /\ (l # Base \/ BaseWakeup)

Poll(l) ==
  /\ lpc[l] = "poll"
  /\ \E writable \in SUBSET {c \in Conns : isWriting(conn[c])} :
       LET evs(c) == IF phase[c] = "accepted" /\ loopOf[c] = l
                       THEN revents(conn[c], c \in writable) ELSE {}
           ready == {c \in Conns : evs(c) # {}}
           acceptable == l = Base /\ \E c \in Conns : phase[c] = "backlog"
       IN /\ ready # {} \/ acceptable \/ Woken(l)
          /\ active' = [active EXCEPT ![l] = ready]
          /\ rev' = [c \in Conns |-> IF c \in ready THEN evs(c) ELSE rev[c]]
          /\ accepting' = IF l = Base THEN acceptable ELSE accepting
  /\ lpc' = [lpc EXCEPT ![l] = "dispatch"]
  /\ wake' = [wake EXCEPT ![l] = @ /\ ~Woken(l)]
  /\ UNCHANGED <<scene, conn, phase, loopOf, pool, next, connections, queue, batch, upc>>

(* Mutant: the loop is not woken up.                                       *)
queueInLoop_NoWakeup(l, f) ==
  /\ queue' = [queue EXCEPT ![l] = Append(@, f)]
  /\ UNCHANGED wake

(* queueInLoop from another thread: push, then wakeup().                   *)
queueInLoop(l, f) ==
  /\ queue' = [queue EXCEPT ![l] = Append(@, f)]
  /\ wake' = [wake EXCEPT ![l] = TRUE]

(* Mutant: next_ is not wrapped around.                                    *)
getNextLoop_NoWrap ==
  IF pool = <<>> THEN [loop |-> Base, next |-> next]
  ELSE [loop |-> pool[next + 1], next |-> next + 1]

(* EPollerThreadPool::getNextLoop                                          *)
getNextLoop ==
  IF pool = <<>> THEN [loop |-> Base, next |-> next]
  ELSE [loop |-> pool[next + 1],
        next |-> IF next + 1 >= Len(pool) THEN 0 ELSE next + 1]

(* Acceptor::handleRead and TcpServer::newConnection: one connection per   *)
(* event, its connectEstablished run on its loop.                          *)
newConnection(c, user, full) ==
  LET n == getNextLoop IN
  /\ lpc[Base] = "dispatch"
  /\ accepting
  /\ accepting' = FALSE
  /\ phase[c] = "backlog"
  /\ phase' = [phase EXCEPT ![c] = "accepted"]
  /\ loopOf' = [loopOf EXCEPT ![c] = n.loop]
  /\ next' = n.next
  /\ connections' = connections \cup {c}
  /\ IF n.loop = Base
       THEN /\ conn' = [conn EXCEPT ![c] = connectEstablished(@, user, full)]
            /\ UNCHANGED <<queue, wake>>
       ELSE /\ queueInLoop(n.loop, <<"established", c>>)
            /\ UNCHANGED conn
  /\ UNCHANGED <<scene, pool, lpc, active, rev, batch, upc>>

(* accept() fails: with EMFILE the spare descriptor is given up to accept  *)
(* and close the connection, otherwise it is left to the next round.       *)
acceptFails(c) ==
  /\ lpc[Base] = "dispatch"
  /\ accepting
  /\ accepting' = FALSE
  /\ phase[c] = "backlog"
  /\ \E p \in {"refused", "backlog"} : phase' = [phase EXCEPT ![c] = p]
  /\ UNCHANGED <<scene, conn, loopOf, pool, next, connections, lpc, active, rev, queue,
                 batch, wake, upc>>

(* Mutant: the map is changed at once, on whatever thread this is.         *)
removeConnection_ErasesHere(l, c) ==
  /\ connections' = connections \ {c}
  /\ queueInLoop(Base, <<"remove", c>>)

(* closeCallback_: removeConnection runs removeConnectionInLoop on the     *)
(* base loop, at once if that is the thread it is on.                      *)
removeConnection(l, c) ==
  IF l = Base
    THEN /\ queue' = [queue EXCEPT ![Base] = Append(@, <<"destroyed", c>>)]
         /\ connections' = connections \ {c}
         /\ UNCHANGED wake
    ELSE /\ queueInLoop(Base, <<"remove", c>>)
         /\ UNCHANGED connections

(* handleEvent of an active connection; handleClose has run iff DOWN was   *)
(* signalled.                                                              *)
HandleConnection(l, c, user, down, full) ==
  LET k == handleEvent(conn[c], rev[c], user, down, full) IN
  /\ lpc[l] = "dispatch"
  /\ c \in active[l]
  /\ active' = [active EXCEPT ![l] = @ \ {c}]
  /\ conn' = [conn EXCEPT ![c] = k]
  /\ IF k.downs > conn[c].downs
       THEN removeConnection(l, c) ELSE UNCHANGED <<queue, wake, connections>>
  /\ UNCHANGED <<scene, phase, loopOf, pool, next, lpc, rev, accepting, batch, upc>>

(* doPendingFunctors swaps the queue out.                                  *)
StartFunctors(l) ==
  /\ lpc[l] = "dispatch"
  /\ active[l] = {}
  /\ l = Base => ~accepting
  /\ lpc' = [lpc EXCEPT ![l] = "functors"]
  /\ batch' = [batch EXCEPT ![l] = queue[l]]
  /\ queue' = [queue EXCEPT ![l] = <<>>]
  /\ UNCHANGED <<scene, conn, phase, loopOf, pool, next, connections, active, rev, accepting,
                 wake, upc>>

EndFunctors(l) ==
  /\ lpc[l] = "functors"
  /\ batch[l] = <<>>
  /\ lpc' = [lpc EXCEPT ![l] = "poll"]
  /\ UNCHANGED <<scene, conn, phase, loopOf, pool, next, connections, active, rev, accepting,
                 queue, batch, wake, upc>>

IsNext(l, what, c) ==
  lpc[l] = "functors" /\ batch[l] # <<>> /\ Head(batch[l]) = <<what, c>>

(* A functor bound to a method of the connection.                          *)
RunOnConnection(l, c, user, down, full) ==
  /\ \/ /\ IsNext(l, "established", c)
        /\ conn' = [conn EXCEPT ![c] = connectEstablished(@, user, full)]
     \/ /\ IsNext(l, "destroyed", c)
        /\ conn' = [conn EXCEPT ![c] = connectDestroyed(@, down, full)]
     \/ /\ IsNext(l, "shutdown", c)
        /\ conn' = [conn EXCEPT ![c] = shutdownInLoop(@)]
  /\ batch' = [batch EXCEPT ![l] = Tail(@)]
  /\ UNCHANGED <<scene, phase, loopOf, pool, next, connections, lpc, active, rev, accepting,
                 queue, wake, upc>>

(* removeConnectionInLoop, queued by an io loop: connectDestroyed is       *)
(* handed back to the connection's loop ...                                *)
removeConnectionInLoop(c) ==
  /\ IsNext(Base, "remove", c)
  /\ queueInLoop(loopOf[c], <<"destroyed", c>>)
  /\ lpc' = [lpc EXCEPT ![Base] = "erase"]
  /\ UNCHANGED <<scene, conn, phase, loopOf, pool, next, connections, active, rev, accepting,
                 batch, upc>>

(* ... and then the connection is erased from the map.                     *)
eraseConnection(c) ==
  /\ lpc[Base] = "erase"
  /\ Head(batch[Base]) = <<"remove", c>>
  /\ connections' = connections \ {c}
  /\ batch' = [batch EXCEPT ![Base] = Tail(@)]
  /\ lpc' = [lpc EXCEPT ![Base] = "functors"]
  /\ UNCHANGED <<scene, conn, phase, loopOf, pool, next, active, rev, accepting, queue, wake, upc>>

-----------------------------------------------------------------------------
(* shutdown() from a thread of the user that holds the connection: state_  *)
(* is read, then written, then shutdownInLoop is queued.                   *)
ShutdownCheck(c) ==
  /\ c \in scene.held
  /\ upc[c] = "idle"
  /\ conn[c].ups > 0
  /\ conn[c].state = "kConnected"
  /\ upc' = [upc EXCEPT ![c] = "checked"]
  /\ UNCHANGED <<scene, conn, phase, loopOf, pool, next, connections, lpc, active, rev,
                 accepting, queue, batch, wake>>

ShutdownQueue(c) ==
  /\ upc[c] = "checked"
  /\ upc' = [upc EXCEPT ![c] = "done"]
  /\ conn' = [conn EXCEPT ![c].state = "kDisconnecting"]
  /\ queueInLoop(loopOf[c], <<"shutdown", c>>)
  /\ UNCHANGED <<scene, phase, loopOf, pool, next, connections, lpc, active, rev, accepting, batch>>

-----------------------------------------------------------------------------
LoopStep(l) ==
  \/ Poll(l)
  \/ StartFunctors(l)
  \/ EndFunctors(l)
  \/ \E c \in Conns, user \in scene.calls, down \in DownCalls, full \in BOOLEAN :
       \/ HandleConnection(l, c, user, down, full)
       \/ RunOnConnection(l, c, user, down, full)

BaseStep ==
  \E c \in Conns :
    \/ \E user \in scene.calls, full \in BOOLEAN : newConnection(c, user, full)
    \/ acceptFails(c)
    \/ removeConnectionInLoop(c)
    \/ eraseConnection(c)

Environment ==
  \E c \in Conns : PeerConnect(c) \/ PeerStep(c) \/ ShutdownCheck(c)

Next ==
  \/ \E l \in Loops : LoopStep(l)
  \/ BaseStep
  \/ Environment
  \/ \E c \in Conns : ShutdownQueue(c)

Spec == Init /\ [][Next]_vars

(* Every loop's thread is scheduled.                                       *)
FairSpec ==
  /\ Spec
  /\ \A l \in Loops : WF_vars(LoopStep(l) \/ (l = Base /\ BaseStep))

-----------------------------------------------------------------------------
(* handleClose is only entered on a connection that is up: its assert on   *)
(* state_ never fails.                                                     *)
CloseAssertHolds == \A c \in Conns : ~conn[c].aborted

(* connectEstablished and connectDestroyed are called at most once each,   *)
(* and the user sees UP once, then DOWN once, before the connection is     *)
(* destroyed.                                                              *)
CallbacksPaired ==
  \A c \in Conns :
    /\ conn[c].established <= 1 /\ conn[c].destroyed <= 1
    /\ conn[c].downs <= conn[c].ups /\ conn[c].ups <= 1
    /\ conn[c].destroyed > 0 => conn[c].downs = 1

(* The functors of a loop that have not begun.                             *)
Pending(l) ==
  Range(queue[l]) \cup Range(IF lpc[l] = "erase" THEN Tail(batch[l]) ELSE batch[l])

(* Once connectDestroyed has run, the loop's reference to the connection   *)
(* is gone: its channel is not registered, no event of it is left to be    *)
(* handled, and no functor will establish, remove or destroy it again.     *)
NothingAfterDestroyed ==
  \A c \in Conns : conn[c].destroyed > 0 =>
    /\ conn[c].index = "kNew"
    /\ \A l \in Loops :
         /\ c \notin active[l]
         /\ \A f \in Pending(l) : f[2] = c => f[1] = "shutdown"

(* removeConnectionInLoop dereferences what connections_.find returns, so  *)
(* a connection that is up, or whose removal is queued, is in the map: a   *)
(* second removal would dereference end().                                 *)
RemoveFindsConnection ==
  \A c \in Conns :
    (\/ conn[c].ups > conn[c].downs
     \/ <<"remove", c>> \in Pending(Base))
    => c \in connections

Closed(c) == phase[c] = "accepted" /\ conn[c].peer # "open"
Gone(c) == conn[c].destroyed > 0 /\ c \notin connections

(* removeConnection has queued the removal in a base loop whose owner did  *)
(* not call enable_wakeup: the eventfd is written, but nobody watches it.  *)
RemovalWaits(c) == ~BaseWakeup /\ <<"remove", c>> \in Range(queue[Base])

(* A connection the peer has closed or reset is destroyed and forgotten,   *)
(* with one exception: its removal may wait in a sleeping base loop that   *)
(* does not watch its eventfd. The next event of that loop ends the wait.  *)
ClosedIsDestroyed ==
  \A c \in Conns :
    /\ Closed(c) ~> (Gone(c) \/ (RemovalWaits(c) /\ lpc[Base] = "poll"))
    /\ (RemovalWaits(c) /\ lpc[Base] = "dispatch") ~> Gone(c)
=============================================================================
