---------------------------- MODULE EPollerThread ----------------------------
(***************************************************************************)
(* The life of the io threads: EPollerThreadPool::start creates one        *)
(* EPollerThread after another, each with an EPollPoller on the stack of   *)
(* its threadFunc, and the destructors end them.  A loop is reduced to its *)
(* quit_ flag and its eventfd; user code on a loop may call quit() too.    *)
(***************************************************************************)
EXTENDS Naturals, Sequences

CONSTANTS MaxLoops    \* bound: setThreadNum is given 0 .. MaxLoops

ASSUME LoopsAssumption == MaxLoops \in Nat

Loops == 1 .. MaxLoops

VARIABLES
  bpc,        \* the base thread: where it is in start() or the destructors
  numLoops,   \* numThreads_
  cur,        \* the EPollerThread the base thread deals with
  epolls,     \* epolls_: what startEpoll returned
  epoller,    \* epoller_ # NULL, for each thread
  alive,      \* threadFunc's EPollPoller exists
  quit,       \* its quit_
  wake,       \* its eventfd is readable
  tpc,        \* where threadFunc is
  userQuit,   \* user code called quit() on the loop
  dead        \* threads whose loop was used after its end (or NULL was)

loopsVars == <<bpc, numLoops, cur, epolls, epoller, alive, quit, wake, tpc, userQuit, dead>>

LoopsTypeOK ==
  /\ bpc \in {"new", "start", "wait", "started", "check", "quit", "join", "destroyed"}
  /\ numLoops \in 0 .. MaxLoops
  /\ cur \in 1 .. MaxLoops + 1
  /\ epolls \in Seq(Loops)
  /\ epoller \in [Loops -> BOOLEAN]
  /\ alive \in [Loops -> BOOLEAN]
  /\ quit \in [Loops -> BOOLEAN]
  /\ wake \in [Loops -> BOOLEAN]
  /\ tpc \in [Loops -> {"none", "begin", "enable", "poll", "epoll_wait", "clear", "finished"}]
  /\ userQuit \in [Loops -> BOOLEAN]
  /\ dead \in SUBSET Loops

LoopsInit ==
  /\ bpc = "new"
  /\ numLoops = 0
  /\ cur = 1
  /\ epolls = <<>>
  /\ epoller = [i \in Loops |-> FALSE]
  /\ alive = [i \in Loops |-> FALSE]
  /\ quit = [i \in Loops |-> FALSE]
  /\ wake = [i \in Loops |-> FALSE]
  /\ tpc = [i \in Loops |-> "none"]
  /\ userQuit = [i \in Loops |-> FALSE]
  /\ dead = {}

-----------------------------------------------------------------------------
(* The base thread.                                                        *)

(* setThreadNum(n) and start().                                            *)
startPool(n) ==
  /\ bpc = "new"
  /\ bpc' = "start"
  /\ numLoops' = n
  /\ UNCHANGED <<cur, epolls, epoller, alive, quit, wake, tpc, userQuit, dead>>

(* start()'s loop: a new EPollerThread, whose startEpoll starts the thread *)
(* and waits for epoller_.                                                 *)
startThread ==
  /\ bpc = "start"
  /\ IF cur <= numLoops
       THEN /\ tpc' = [tpc EXCEPT ![cur] = "begin"]
            /\ bpc' = "wait"
            /\ UNCHANGED cur
       ELSE /\ bpc' = "started"
            /\ cur' = 1
            /\ UNCHANGED tpc
  /\ UNCHANGED <<numLoops, epolls, epoller, alive, quit, wake, userQuit, dead>>

(* Mutant: the thread is started and not waited for.                       *)
startEpoll_NoWait ==
  /\ bpc = "wait"
  /\ epolls' = Append(epolls, cur)
  /\ cur' = cur + 1
  /\ bpc' = "start"
  /\ UNCHANGED <<numLoops, epoller, alive, quit, wake, tpc, userQuit, dead>>

(* The rest of startEpoll, once epoller_ is set and cond_ notified.        *)
startEpoll ==
  /\ bpc = "wait"
  /\ epoller[cur]
  /\ epolls' = Append(epolls, cur)
  /\ cur' = cur + 1
  /\ bpc' = "start"
  /\ UNCHANGED <<numLoops, epoller, alive, quit, wake, tpc, userQuit, dead>>

(* ~EPollerThread, for one thread after the other: epoller_ is read ...    *)
DestroyThread ==
  /\ bpc \in {"started", "check"}
  /\ bpc' = IF cur > numLoops THEN "destroyed" ELSE IF epoller[cur] THEN "quit" ELSE "check"
  /\ cur' = IF cur <= numLoops /\ ~epoller[cur] THEN cur + 1 ELSE cur
  /\ UNCHANGED <<numLoops, epolls, epoller, alive, quit, wake, tpc, userQuit, dead>>

(* ... and, when it was not NULL, used: quit_ is set, the eventfd written. *)
QuitLoop ==
  /\ bpc = "quit"
  /\ bpc' = "join"
  /\ IF alive[cur] /\ epoller[cur]
       THEN /\ quit' = [quit EXCEPT ![cur] = TRUE]
            /\ wake' = [wake EXCEPT ![cur] = TRUE]
            /\ UNCHANGED dead
       ELSE dead' = dead \cup {cur} /\ UNCHANGED <<quit, wake>>
  /\ UNCHANGED <<numLoops, cur, epolls, epoller, alive, tpc, userQuit>>

(* thread_.join()                                                          *)
JoinThread ==
  /\ bpc = "join"
  /\ tpc[cur] = "finished"
  /\ bpc' = "check"
  /\ cur' = cur + 1
  /\ UNCHANGED <<numLoops, epolls, epoller, alive, quit, wake, tpc, userQuit, dead>>

-----------------------------------------------------------------------------
(* threadFunc.                                                             *)

Goto(i, label) == tpc' = [tpc EXCEPT ![i] = label]

(* The loop is constructed, published under the mutex and notified.        *)
Publish(i) ==
  /\ tpc[i] = "begin"
  /\ Goto(i, "enable")
  /\ alive' = [alive EXCEPT ![i] = TRUE]
  /\ epoller' = [epoller EXCEPT ![i] = TRUE]
  /\ UNCHANGED <<bpc, numLoops, cur, epolls, quit, wake, userQuit, dead>>

(* enable_wakeup, after startEpoll may have returned.                      *)
EnableWakeup(i) ==
  /\ tpc[i] = "enable"
  /\ Goto(i, "poll")
  /\ UNCHANGED <<bpc, numLoops, cur, epolls, epoller, alive, quit, wake, userQuit, dead>>

(* while(!quit_)                                                           *)
CheckLoopQuit(i) ==
  /\ tpc[i] = "poll"
  /\ Goto(i, IF quit[i] THEN "clear" ELSE "epoll_wait")
  /\ UNCHANGED <<bpc, numLoops, cur, epolls, epoller, alive, quit, wake, userQuit, dead>>

(* epoll_wait returns for the eventfd or after 500 ms.                     *)
WaitReturns(i) ==
  /\ tpc[i] = "epoll_wait"
  /\ Goto(i, "poll")
  /\ wake' = [wake EXCEPT ![i] = FALSE]
  /\ UNCHANGED <<bpc, numLoops, cur, epolls, epoller, alive, quit, userQuit, dead>>

(* epoller_ = NULL, without the mutex; the EPollPoller ends with the       *)
(* function.                                                               *)
ClearEpoller(i) ==
  /\ tpc[i] = "clear"
  /\ Goto(i, "finished")
  /\ epoller' = [epoller EXCEPT ![i] = FALSE]
  /\ alive' = [alive EXCEPT ![i] = FALSE]
  /\ UNCHANGED <<bpc, numLoops, cur, epolls, quit, wake, userQuit, dead>>

(* A callback on the loop, or a thread that got it from getAllLoops, calls *)
(* quit() while the pool is in use.                                        *)
UserQuit(i) ==
  /\ bpc = "started"
  /\ alive[i] /\ ~userQuit[i]
  /\ userQuit' = [userQuit EXCEPT ![i] = TRUE]
  /\ quit' = [quit EXCEPT ![i] = TRUE]
  /\ wake' = [wake EXCEPT ![i] = TRUE]
  /\ UNCHANGED <<bpc, numLoops, cur, epolls, epoller, alive, tpc, dead>>

-----------------------------------------------------------------------------
BaseThreadStep ==
  \/ startThread \/ startEpoll \/ QuitLoop \/ JoinThread
  \/ bpc = "check" /\ DestroyThread
LoopThreadStep(i) ==
  Publish(i) \/ EnableWakeup(i) \/ CheckLoopQuit(i) \/ WaitReturns(i) \/ ClearEpoller(i)

LoopsNext ==
  \/ \E n \in 0 .. MaxLoops : startPool(n)
  \/ BaseThreadStep
  \/ bpc = "started" /\ DestroyThread
  \/ \E i \in Loops : LoopThreadStep(i) \/ UserQuit(i)

(* Every thread is scheduled; the owner need not start or destroy the pool.*)
LoopsFairness ==
  /\ WF_loopsVars(BaseThreadStep)
  /\ \A i \in Loops : WF_loopsVars(LoopThreadStep(i))

LoopsSpec == LoopsInit /\ [][LoopsNext]_loopsVars

-----------------------------------------------------------------------------
(* A loop that somebody uses exists: the loops in epolls_, which           *)
(* getNextLoop and getAllLoops give out, until the pool is destroyed, and  *)
(* the one ~EPollerThread calls quit() on.  Loops user code has told to    *)
(* quit are excepted, because there it is not so: such a loop is given out *)
(* after its end, and when it ends between ~EPollerThread's check of       *)
(* epoller_ and its use (epoller_thread.cpp:20 and 22, against 52), quit() *)
(* is called on a loop that is gone; TLC reaches both.                     *)
LoopsUsedAreAlive ==
  /\ bpc \in {"start", "wait", "started"} =>
       \A k \in DOMAIN epolls : alive[epolls[k]] \/ userQuit[epolls[k]]
  /\ \A i \in dead : userQuit[i]

(* start() returns, and so do the destructors once they have begun, at     *)
(* whatever point of its life each thread is.                              *)
LoopThreadsStartAndEnd ==
  /\ bpc = "start" ~> bpc = "started"
  /\ bpc \in {"check", "quit"} ~> bpc = "destroyed"
=============================================================================
