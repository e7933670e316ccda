----------------------------- MODULE EPollPoller -----------------------------
(***************************************************************************)
(* The event loop (epoller.h, epoller.cpp): one loop thread in poll(), any *)
(* number of other threads calling runInLoop, queueInLoop and quit on it,  *)
(* and the kernel's epoll instance and eventfd.                            *)
(*                                                                         *)
(* A functor stands for one call that hands it over, so each is issued at  *)
(* most once: that is the only bound on the callers.                       *)
(***************************************************************************)
EXTENDS Integers, Sequences, FiniteSets

CONSTANTS
  Threads,            \* threads other than the loop's
  Functors,           \* one per call of runInLoop / queueInLoop
  Channels,           \* the channels of user file descriptors
  WakeupChannel,      \* wakeupChannel_, over the eventfd wakeupFd_
  EnableWakeup,       \* TRUE iff the owner of the loop calls enable_wakeup()
  InitEventListSize   \* kInitEventListSize

ASSUME LoopAssumption ==
  /\ WakeupChannel \notin Channels
  /\ EnableWakeup \in BOOLEAN
  /\ InitEventListSize \in Nat \ {0}
  /\ IsFiniteSet(Channels)

AllChannels == Channels \cup {WakeupChannel}

VARIABLES
  pc,                      \* where the loop thread is in poll()
  quit,                    \* quit_
  callingPendingFunctors,  \* callingPendingFunctors_, not initialised by the constructor
  pendingFunctors,         \* pendingFunctors_, guarded by mutex_
  functors,                \* doPendingFunctors' local vector: what is left to call
  index,                   \* Channel::index(): kNew, kAdded or kDeleted
  epoll,                   \* channels the kernel's epoll instance watches
  ready,                   \* channels whose descriptor is ready (level triggered)
  events,                  \* events_.size()
  active,                  \* activeChannels_ not yet handled
  current,                 \* currentActiveChannel_
  tpc,                     \* where each other thread is
  issued,                  \* functors already handed over
  ran                      \* functors called, in order (history)

loopVars   == <<pc, quit, callingPendingFunctors, functors, current>>
queueVars  == <<pendingFunctors, issued>>
pollerVars == <<index, epoll, events, active>>
vars == <<pc, quit, callingPendingFunctors, pendingFunctors, functors, index,
          epoll, ready, events, active, current, tpc, issued, ran>>

LoopPcs   == {"enable", "check", "wait", "dispatch", "handler", "swap",
              "run", "functor", "exited"}
ThreadPcs == {"idle", "wakeup"}
Indexes   == {"kNew", "kAdded", "kDeleted"}

TypeOK ==
  /\ pc \in LoopPcs
  /\ quit \in BOOLEAN
  /\ callingPendingFunctors \in BOOLEAN
  /\ pendingFunctors \in Seq(Functors)
  /\ functors \in Seq(Functors)
  /\ index \in [AllChannels -> Indexes]
  /\ epoll \in SUBSET AllChannels
  /\ ready \in SUBSET AllChannels
  /\ events \in Nat \ {0}
  /\ active \in SUBSET AllChannels
  /\ current \in AllChannels
  /\ tpc \in [Threads -> ThreadPcs]
  /\ issued \in SUBSET Functors
  /\ ran \in Seq(Functors)

(* The constructor leaves callingPendingFunctors_ (and the pointer         *)
(* currentActiveChannel_) uninitialised: either value may be found there.  *)
(* The user channels in use are registered before poll() is entered, the   *)
(* way Acceptor::listen and the timer set do.                              *)
Init ==
  /\ pc = "enable"
  /\ quit = FALSE
  /\ callingPendingFunctors \in BOOLEAN
  /\ pendingFunctors = <<>>
  /\ functors = <<>>
  /\ index = [c \in AllChannels |-> IF c \in Channels THEN "kAdded" ELSE "kNew"]
  /\ epoll = Channels
  /\ ready = {}
  /\ events = InitEventListSize
  /\ active = {}
  /\ current = WakeupChannel
  /\ tpc = [t \in Threads |-> "idle"]
  /\ issued = {}
  /\ ran = <<>>

-----------------------------------------------------------------------------
(* Channel registration.                                                   *)

(* updateChannel and update: ADD a new or deleted channel, DEL one that    *)
(* has no event left, MOD otherwise (the watched set stays as it is).      *)
updateChannel(c, isNoneEvent) ==
  LET delete == index[c] = "kAdded" /\ isNoneEvent IN
  /\ index' = [index EXCEPT ![c] = IF delete THEN "kDeleted" ELSE "kAdded"]
  /\ epoll' = IF delete THEN epoll \ {c} ELSE epoll \cup {c}

removeChannel(c) ==
  /\ epoll' = IF index[c] = "kAdded" THEN epoll \ {c} ELSE epoll
  /\ index' = [index EXCEPT ![c] = "kNew"]

(* wakeup: the eventfd's counter becomes positive, its descriptor ready.   *)
wakeup == ready' = ready \cup {WakeupChannel}

-----------------------------------------------------------------------------
(* The loop thread.                                                        *)

(* Mutant: quit_ is reset when the loop starts.                            *)
enable_wakeup_ResetsQuit ==
  /\ pc = "enable"
  /\ pc' = "check"
  /\ quit' = FALSE
  /\ updateChannel(WakeupChannel, FALSE)
  /\ UNCHANGED <<callingPendingFunctors, functors, current, ready, events,
                 active, tpc, ran, queueVars>>

(* enable_wakeup, when the owner of the loop calls it, before poll().      *)
enable_wakeup ==
  /\ pc = "enable"
  /\ pc' = "check"
  /\ IF EnableWakeup
       THEN updateChannel(WakeupChannel, FALSE)
       ELSE UNCHANGED <<index, epoll>>
  /\ UNCHANGED <<quit, callingPendingFunctors, functors, current, ready,
                 events, active, tpc, ran, queueVars>>

(* while(!quit_)                                                           *)
CheckQuit ==
  /\ pc = "check"
  /\ pc' = IF quit THEN "exited" ELSE "wait"
  /\ active' = {}
  /\ UNCHANGED <<quit, callingPendingFunctors, functors, current, index, epoll,
                 ready, events, tpc, ran, queueVars>>

Watched == ready \cap epoll

(* Mutants: the array shrinks to half of what was used; it never grows.    *)
resized_Shrinks(n) == IF n = events THEN events * 2 ELSE n \div 2
resized_Fixed(n)   == events

(* events_ after a round with n events: a full array doubles.              *)
resized(n) == IF n = events THEN events * 2 ELSE events

(* epoll_wait returns as many ready channels as events_ holds, or all of   *)
(* them.                                                                   *)
PollEvents ==
  /\ pc = "wait"
  /\ \E A \in (SUBSET Watched) \ {{}} :
       /\ A = Watched \/ (Cardinality(A) = events /\ Cardinality(Watched) > events)
       /\ Cardinality(A) <= events
       /\ active' = A
       /\ events' = resized(Cardinality(A))
  /\ pc' = "dispatch"
  /\ UNCHANGED <<quit, callingPendingFunctors, functors, current, index, epoll,
                 ready, tpc, ran, queueVars>>

(* epoll_wait returns 0 after 500 ms, or -1 when a signal interrupts it,   *)
(* whatever is ready: doPendingFunctors is not called.                     *)
PollNothing ==
  /\ pc = "wait"
  /\ pc' = "check"
  /\ UNCHANGED <<quit, callingPendingFunctors, functors, current, pollerVars,
                 ready, tpc, ran, queueVars>>

(* The next active channel's handleEvent: the wakeup channel's handleRead  *)
(* drains the eventfd, any other handler is user code ("handler"), which   *)
(* consumes what made its descriptor ready.                                *)
HandleEvent ==
  /\ pc = "dispatch"
  /\ \E c \in active :
       /\ active' = active \ {c}
       /\ current' = c
       /\ ready' = ready \ {c}
       /\ pc' = IF c = WakeupChannel THEN "dispatch" ELSE "handler"
  /\ UNCHANGED <<quit, callingPendingFunctors, functors, index, epoll, events,
                 tpc, ran, queueVars>>

(* All active channels handled: doPendingFunctors begins.                  *)
StartPendingFunctors ==
  /\ pc = "dispatch"
  /\ active = {}
  /\ pc' = "swap"
  /\ callingPendingFunctors' = TRUE
  /\ UNCHANGED <<quit, functors, current, pollerVars, ready, tpc, ran, queueVars>>

(* Mutant: the queue is copied, not swapped out.                           *)
SwapPendingFunctors_Copies ==
  /\ pc = "swap"
  /\ pc' = "run"
  /\ functors' = pendingFunctors
  /\ UNCHANGED <<quit, callingPendingFunctors, pendingFunctors, current,
                 pollerVars, ready, tpc, issued, ran>>

SwapPendingFunctors ==
  /\ pc = "swap"
  /\ pc' = "run"
  /\ functors' = pendingFunctors
  /\ pendingFunctors' = functors
  /\ UNCHANGED <<quit, callingPendingFunctors, current, pollerVars, ready, tpc,
                 issued, ran>>

CallFunctor ==
  /\ pc = "run"
  /\ functors # <<>>
  /\ pc' = "functor"
  /\ ran' = Append(ran, Head(functors))
  /\ functors' = Tail(functors)
  /\ UNCHANGED <<quit, callingPendingFunctors, current, pollerVars, ready, tpc,
                 queueVars>>

EndPendingFunctors ==
  /\ pc = "run"
  /\ functors = <<>>
  /\ pc' = "check"
  /\ callingPendingFunctors' = FALSE
  /\ UNCHANGED <<quit, functors, current, pollerVars, ready, tpc, ran, queueVars>>

-----------------------------------------------------------------------------
(* What a user callback, a channel's handler or a functor, may do on the   *)
(* loop thread before it returns.                                          *)

InCallback == pc \in {"handler", "functor"}

CallbackReturn ==
  /\ InCallback
  /\ pc' = IF pc = "handler" THEN "dispatch" ELSE "run"
  /\ UNCHANGED <<quit, callingPendingFunctors, functors, current, pollerVars,
                 ready, tpc, ran, queueVars>>

push_back(f) ==
  /\ f \notin issued
  /\ issued' = issued \cup {f}
  /\ pendingFunctors' = Append(pendingFunctors, f)

(* Mutant: no wakeup on the loop's own thread, also while functors run.    *)
LoopQueueInLoop_NoWakeup(f) ==
  /\ InCallback
  /\ push_back(f)
  /\ UNCHANGED ready
  /\ UNCHANGED <<loopVars, pollerVars, tpc, ran>>

(* queueInLoop on the loop's thread: nobody but this thread takes from the *)
(* queue, so the push and the write to the eventfd are one step.           *)
LoopQueueInLoop(f) ==
  /\ InCallback
  /\ push_back(f)
  /\ IF callingPendingFunctors THEN wakeup ELSE UNCHANGED ready
  /\ UNCHANGED <<loopVars, pollerVars, tpc, ran>>

(* runInLoop on the loop's thread calls the functor at once.               *)
LoopRunInLoop(f) ==
  /\ InCallback
  /\ f \notin issued
  /\ issued' = issued \cup {f}
  /\ ran' = Append(ran, f)
  /\ UNCHANGED <<loopVars, pendingFunctors, pollerVars, ready, tpc>>

LoopQuit ==
  /\ InCallback
  /\ quit' = TRUE
  /\ UNCHANGED <<pc, callingPendingFunctors, functors, current, pollerVars,
                 ready, tpc, ran, queueVars>>

(* Channel::enableReading/enableWriting, on any channel.                   *)
EnableChannel(c) ==
  /\ InCallback
  /\ updateChannel(c, FALSE)
  /\ UNCHANGED <<loopVars, queueVars, events, active, ready, tpc, ran>>

(* Mutant: a handler removes another channel at once.                      *)
MayRemove_AnyChannel(c) == InCallback

(* A handler may disable and remove its own channel (TcpConnection's       *)
(* handleClose, Connector's handleWrite); other channels are only removed  *)
(* from a functor, the way removeConnectionInLoop queues connectDestroyed. *)
MayRemove(c) == pc = "functor" \/ (pc = "handler" /\ c = current)

DisableChannel(c) ==
  /\ MayRemove(c)
  /\ index[c] = "kAdded"
  /\ updateChannel(c, TRUE)
  /\ UNCHANGED <<loopVars, queueVars, events, active, ready, tpc, ran>>

RemoveChannel(c) ==
  /\ MayRemove(c)
  /\ index[c] # "kNew"
  /\ removeChannel(c)
  /\ UNCHANGED <<loopVars, queueVars, events, active, ready, tpc, ran>>

-----------------------------------------------------------------------------
(* The other threads: runInLoop and queueInLoop push under the mutex, then *)
(* write to the eventfd; quit sets quit_, then writes to the eventfd.      *)

queueInLoop(t, f) ==
  /\ tpc[t] = "idle"
  /\ push_back(f)
  /\ tpc' = [tpc EXCEPT ![t] = "wakeup"]
  /\ UNCHANGED <<loopVars, pollerVars, ready, ran>>

Quit(t) ==
  /\ tpc[t] = "idle"
  /\ quit' = TRUE
  /\ tpc' = [tpc EXCEPT ![t] = "wakeup"]
  /\ UNCHANGED <<pc, callingPendingFunctors, functors, current, pollerVars,
                 queueVars, ready, ran>>

Wakeup(t) ==
  /\ tpc[t] = "wakeup"
  /\ tpc' = [tpc EXCEPT ![t] = "idle"]
  /\ wakeup
  /\ UNCHANGED <<loopVars, queueVars, pollerVars, ran>>

(* The kernel: a user descriptor becomes readable or writable.             *)
Event(c) ==
  /\ ready' = ready \cup {c}
  /\ UNCHANGED <<loopVars, queueVars, pollerVars, tpc, ran>>

-----------------------------------------------------------------------------
LoopStep ==
  \/ enable_wakeup \/ CheckQuit \/ PollEvents \/ PollNothing \/ HandleEvent
  \/ StartPendingFunctors \/ SwapPendingFunctors \/ CallFunctor
  \/ EndPendingFunctors \/ CallbackReturn

UserCall ==
  \/ \E f \in Functors : LoopQueueInLoop(f) \/ LoopRunInLoop(f)
  \/ LoopQuit
  \/ \E c \in Channels : EnableChannel(c) \/ DisableChannel(c) \/ RemoveChannel(c)

ThreadStep ==
  \E t \in Threads :
    \/ \E f \in Functors : queueInLoop(t, f)
    \/ Quit(t)
    \/ Wakeup(t)

Next ==
  \/ LoopStep
  \/ UserCall
  \/ ThreadStep
  \/ \E c \in Channels : Event(c)

Spec == Init /\ [][Next]_vars

(* The loop thread is scheduled, its callbacks return, and a thread that   *)
(* is about to write to the eventfd does so.  Signals do not interrupt     *)
(* every epoll_wait for ever.                                              *)
Fairness ==
  /\ WF_vars(LoopStep)
  /\ SF_vars(PollEvents)
  /\ \A t \in Threads : WF_vars(Wakeup(t))

FairSpec == Spec /\ Fairness

-----------------------------------------------------------------------------
(* No lost wakeup: whenever the loop may go to sleep in epoll_wait         *)
(* although functors are pending (everywhere but between epoll_wait's      *)
(* return and doPendingFunctors' swap), the eventfd is already readable or *)
(* a thread is about to make it so.                                        *)
NoLostWakeup ==
  pendingFunctors # <<>> /\ pc \notin {"dispatch", "handler", "swap"} =>
    \/ WakeupChannel \in ready
    \/ \E t \in Threads : tpc[t] = "wakeup"

(* A channel that poll() has still to handle in this round has not been    *)
(* removed (and freed) by a handler that ran before it.                    *)
ActiveChannelsAlive ==
  pc \in {"dispatch", "handler"} => \A c \in active : index[c] # "kNew"

(* The loop's queue behaves as the FIFO of LoopQueue: every functor once,  *)
(* in the order of queueInLoop, none after the loop has left poll(), and   *)
(* (FairSpec) every one unless the loop stops, if the owner of the loop    *)
(* has called enable_wakeup.                                               *)
LQ == INSTANCE LoopQueue WITH queue <- functors \o pendingFunctors,
                              stopped <- pc = "exited"
ImplementsLoopQueue == LQ!Spec

(* quit() from any thread, or from a callback, ends poll().                *)
QuitEndsPoll == quit ~> pc = "exited"

(* A channel that is ready and watched is handled, however many others are *)
(* ready with it, unless it is disabled or the loop is told to quit:       *)
(* events_ grows until no ready channel is left out.                       *)
ReadyIsHandled ==
  \A c \in Channels :
    (c \in Watched /\ pc # "exited") ~> (c \notin Watched \/ quit)
=============================================================================
