-------------------------- MODULE EPollPollerProofs --------------------------
(***************************************************************************)
(* Proofs about EPollPoller, for every set of threads, functors and        *)
(* channels and every initial size of events_.                             *)
(***************************************************************************)
EXTENDS EPollPoller, TLAPS

(* The variables of the loop keep their types: the state of poll(),        *)
(* queueInLoop, quit and the channel registration is well formed.          *)
THEOREM TypeCorrect == Spec => []TypeOK
<1>1. Init => TypeOK
  <2> SUFFICES ASSUME Init PROVE TypeOK
    OBVIOUS
  <2>1. WakeupChannel \in AllChannels /\ Channels \subseteq AllChannels
    BY DEF AllChannels
  <2>2. /\ index \in [AllChannels -> Indexes]
        /\ tpc \in [Threads -> ThreadPcs]
    BY DEF Init, Indexes, ThreadPcs
  <2>3. callingPendingFunctors \in BOOLEAN
    BY DEF Init
  <2>4. events \in Nat \ {0}
    BY LoopAssumption DEF Init, LoopAssumption
  <2>5. /\ epoll \in SUBSET AllChannels
        /\ ready \in SUBSET AllChannels
        /\ active \in SUBSET AllChannels
        /\ issued \in SUBSET Functors
    BY <2>1 DEF Init
  <2>6. /\ pendingFunctors \in Seq(Functors)
        /\ functors \in Seq(Functors)
        /\ ran \in Seq(Functors)
    BY DEF Init
  <2>7. QED
    BY <2>1, <2>2, <2>3, <2>4, <2>5, <2>6 DEF Init, TypeOK, LoopPcs
<1>2. TypeOK /\ [Next]_vars => TypeOK'
  <2> SUFFICES ASSUME TypeOK, [Next]_vars PROVE TypeOK'
    OBVIOUS
  <2> USE DEF TypeOK, LoopPcs, ThreadPcs, Indexes
  <2>1. CASE enable_wakeup
    <3>1. WakeupChannel \in AllChannels
      BY DEF AllChannels
    <3>2. QED
      BY <2>1, <3>1 DEF enable_wakeup, updateChannel, queueVars
  <2>2. CASE CheckQuit
    BY <2>2 DEF CheckQuit, queueVars
  <2>3. CASE PollEvents
    BY <2>3 DEF PollEvents, resized, queueVars, Watched
  <2>4. CASE PollNothing
    BY <2>4 DEF PollNothing, queueVars, pollerVars
  <2>5. CASE HandleEvent
    BY <2>5 DEF HandleEvent, queueVars
  <2>6. CASE StartPendingFunctors
    BY <2>6 DEF StartPendingFunctors, queueVars, pollerVars
  <2>7. CASE SwapPendingFunctors
    BY <2>7 DEF SwapPendingFunctors, pollerVars
  <2>8. CASE CallFunctor
    BY <2>8 DEF CallFunctor, queueVars, pollerVars
  <2>9. CASE EndPendingFunctors
    BY <2>9 DEF EndPendingFunctors, queueVars, pollerVars
  <2>10. CASE CallbackReturn
    BY <2>10 DEF CallbackReturn, queueVars, pollerVars
  <2>11. ASSUME NEW f \in Functors, LoopQueueInLoop(f) PROVE TypeOK'
    BY <2>11 DEF LoopQueueInLoop, push_back, wakeup, loopVars, pollerVars, AllChannels
  <2>12. ASSUME NEW f \in Functors, LoopRunInLoop(f) PROVE TypeOK'
    BY <2>12 DEF LoopRunInLoop, loopVars, pollerVars
  <2>13. CASE LoopQuit
    BY <2>13 DEF LoopQuit, queueVars, pollerVars
  <2>14. ASSUME NEW c \in Channels, EnableChannel(c) \/ DisableChannel(c) \/ RemoveChannel(c)
         PROVE TypeOK'
    <3>1. c \in AllChannels
      BY DEF AllChannels
    <3>2. QED
      BY <2>14, <3>1 DEF EnableChannel, DisableChannel, RemoveChannel, updateChannel,
                         removeChannel, loopVars, queueVars
  <2>15. ASSUME NEW t \in Threads, NEW f \in Functors, queueInLoop(t, f) PROVE TypeOK'
    BY <2>15 DEF queueInLoop, push_back, loopVars, pollerVars
  <2>16. ASSUME NEW t \in Threads, Quit(t) PROVE TypeOK'
    BY <2>16 DEF Quit, queueVars, pollerVars
  <2>17. ASSUME NEW t \in Threads, Wakeup(t) PROVE TypeOK'
    BY <2>17 DEF Wakeup, wakeup, loopVars, queueVars, pollerVars, AllChannels
  <2>18. ASSUME NEW c \in Channels, Event(c) PROVE TypeOK'
    BY <2>18 DEF Event, loopVars, queueVars, pollerVars, AllChannels
  <2>19. CASE UNCHANGED vars
    BY <2>19 DEF vars
  <2>20. QED
    BY <2>1, <2>2, <2>3, <2>4, <2>5, <2>6, <2>7, <2>8, <2>9, <2>10, <2>11,
       <2>12, <2>13, <2>14, <2>15, <2>16, <2>17, <2>18, <2>19
       DEF Next, LoopStep, UserCall, ThreadStep
<1>3. QED
  BY <1>1, <1>2, PTL DEF Spec

(* The local vector of doPendingFunctors is empty outside of its loop.     *)
LocalVector == pc \notin {"run", "functor"} => functors = <<>>

(* While doPendingFunctors calls functors the flag is up, so a functor     *)
(* that queues another one writes to the eventfd.                          *)
CallingFlag == pc \in {"swap", "run", "functor"} => callingPendingFunctors

WakeupInv == LocalVector /\ CallingFlag /\ NoLostWakeup

(* Every step of the loop, of its callbacks and of the other threads       *)
(* preserves the strengthened invariant of queueInLoop's wakeup protocol.  *)
LEMMA WakeupInvariant == Spec => []WakeupInv
<1>1. Init => WakeupInv
  BY DEF Init, WakeupInv, LocalVector, CallingFlag, NoLostWakeup
<1>2. TypeOK /\ WakeupInv /\ [Next]_vars => WakeupInv'
  <2> SUFFICES ASSUME TypeOK, WakeupInv, [Next]_vars PROVE WakeupInv'
    OBVIOUS
  <2> USE DEF WakeupInv, LocalVector, CallingFlag, NoLostWakeup
  <2>1. CASE enable_wakeup
    BY <2>1 DEF enable_wakeup, queueVars
  <2>2. CASE CheckQuit
    BY <2>2 DEF CheckQuit, queueVars
  <2>3. CASE PollEvents
    BY <2>3 DEF PollEvents, queueVars
  <2>4. CASE PollNothing
    BY <2>4 DEF PollNothing, queueVars
  <2>5. CASE HandleEvent
    BY <2>5 DEF HandleEvent, queueVars
  <2>6. CASE StartPendingFunctors
    BY <2>6 DEF StartPendingFunctors, queueVars
  <2>7. CASE SwapPendingFunctors
    BY <2>7 DEF SwapPendingFunctors
  <2>8. CASE CallFunctor
    BY <2>8 DEF CallFunctor, queueVars
  <2>9. CASE EndPendingFunctors
    BY <2>9 DEF EndPendingFunctors, queueVars
  <2>10. CASE CallbackReturn
    BY <2>10 DEF CallbackReturn, InCallback, queueVars
  <2>11. ASSUME NEW f \in Functors, LoopQueueInLoop(f) PROVE WakeupInv'
    BY <2>11 DEF LoopQueueInLoop, InCallback, wakeup, loopVars
  <2>12. ASSUME NEW f \in Functors, LoopRunInLoop(f) PROVE WakeupInv'
    BY <2>12 DEF LoopRunInLoop, loopVars
  <2>13. CASE LoopQuit
    BY <2>13 DEF LoopQuit, queueVars
  <2>14. ASSUME NEW c \in Channels, EnableChannel(c) \/ DisableChannel(c) \/ RemoveChannel(c)
         PROVE WakeupInv'
    BY <2>14 DEF EnableChannel, DisableChannel, RemoveChannel, loopVars, queueVars
  <2>15. ASSUME NEW t \in Threads, NEW f \in Functors, queueInLoop(t, f) PROVE WakeupInv'
    BY <2>15 DEF queueInLoop, loopVars, TypeOK
  <2>16. ASSUME NEW t \in Threads, Quit(t) PROVE WakeupInv'
    BY <2>16 DEF Quit, queueVars, TypeOK
  <2>17. ASSUME NEW t \in Threads, Wakeup(t) PROVE WakeupInv'
    BY <2>17 DEF Wakeup, wakeup, loopVars, queueVars
  <2>18. ASSUME NEW c \in Channels, Event(c) PROVE WakeupInv'
    BY <2>18 DEF Event, loopVars, queueVars
  <2>19. CASE UNCHANGED vars
    BY <2>19 DEF vars
  <2>20. QED
    BY <2>1, <2>2, <2>3, <2>4, <2>5, <2>6, <2>7, <2>8, <2>9, <2>10, <2>11,
       <2>12, <2>13, <2>14, <2>15, <2>16, <2>17, <2>18, <2>19
       DEF Next, LoopStep, UserCall, ThreadStep
<1>3. QED
  BY <1>1, <1>2, TypeCorrect, PTL DEF Spec

(* queueInLoop never loses a wakeup, whatever the uninitialised            *)
(* callingPendingFunctors_ held, and however pushes, eventfd writes,       *)
(* handleRead and the swap of doPendingFunctors interleave.                *)
THEOREM WakeupNeverLost == Spec => []NoLostWakeup
<1>1. WakeupInv => NoLostWakeup
  BY DEF WakeupInv
<1>2. QED
  BY <1>1, WakeupInvariant, PTL

-----------------------------------------------------------------------------
(* What the kernel watches is registered, and the channel being handled is *)
(* no longer among those poll() has still to handle.                       *)
AliveInv ==
  /\ \A c \in epoll : index[c] = "kAdded"
  /\ pc = "handler" => current \notin active
  /\ ActiveChannelsAlive

(* handleEvent is never called on a channel that an earlier handler of the *)
(* same round has removed, as long as handlers remove only their own       *)
(* channel and leave every other removal to a queued functor.              *)
THEOREM HandledChannelsAlive == Spec => []ActiveChannelsAlive
<1>1. Init => AliveInv
  BY LoopAssumption DEF LoopAssumption, Init, AliveInv, ActiveChannelsAlive, AllChannels
<1>2. TypeOK /\ AliveInv /\ [Next]_vars => AliveInv'
  <2> SUFFICES ASSUME TypeOK, AliveInv, [Next]_vars PROVE AliveInv'
    OBVIOUS
  <2> USE DEF AliveInv, ActiveChannelsAlive
  <2>1. CASE enable_wakeup
    BY <2>1 DEF enable_wakeup, updateChannel, TypeOK, AllChannels
  <2>2. CASE CheckQuit
    BY <2>2 DEF CheckQuit
  <2>3. CASE PollEvents
    BY <2>3 DEF PollEvents, Watched
  <2>4. CASE PollNothing
    BY <2>4 DEF PollNothing, pollerVars
  <2>5. CASE HandleEvent
    BY <2>5 DEF HandleEvent
  <2>6. CASE StartPendingFunctors
    BY <2>6 DEF StartPendingFunctors, pollerVars
  <2>7. CASE SwapPendingFunctors
    BY <2>7 DEF SwapPendingFunctors, pollerVars
  <2>8. CASE CallFunctor
    BY <2>8 DEF CallFunctor, pollerVars
  <2>9. CASE EndPendingFunctors
    BY <2>9 DEF EndPendingFunctors, pollerVars
  <2>10. CASE CallbackReturn
    BY <2>10 DEF CallbackReturn, InCallback, pollerVars
  <2>11. ASSUME NEW f \in Functors, LoopQueueInLoop(f) PROVE AliveInv'
    BY <2>11 DEF LoopQueueInLoop, loopVars, pollerVars
  <2>12. ASSUME NEW f \in Functors, LoopRunInLoop(f) PROVE AliveInv'
    BY <2>12 DEF LoopRunInLoop, loopVars, pollerVars
  <2>13. CASE LoopQuit
    BY <2>13 DEF LoopQuit, pollerVars
  <2>14. ASSUME NEW c \in Channels, EnableChannel(c) PROVE AliveInv'
    BY <2>14 DEF EnableChannel, updateChannel, loopVars, TypeOK, AllChannels
  <2>15. ASSUME NEW c \in Channels, DisableChannel(c) PROVE AliveInv'
    BY <2>15 DEF DisableChannel, updateChannel, loopVars, TypeOK, AllChannels
  <2>16. ASSUME NEW c \in Channels, RemoveChannel(c) PROVE AliveInv'
    <3>1. \A d \in epoll' : index'[d] = "kAdded"
      BY <2>16 DEF RemoveChannel, removeChannel, TypeOK, AllChannels
    <3>2. pc' = pc /\ active' = active /\ current' = current
      BY <2>16 DEF RemoveChannel, loopVars
    <3>3. pc \in {"dispatch", "handler"} => c \notin active
      BY <2>16 DEF RemoveChannel, MayRemove
    <3>4. \A d \in active : d # c => index'[d] = index[d]
      BY <2>16 DEF RemoveChannel, removeChannel, TypeOK
    <3>5. QED
      BY <3>1, <3>2, <3>3, <3>4
  <2>17. ASSUME NEW t \in Threads, NEW f \in Functors, queueInLoop(t, f) PROVE AliveInv'
    BY <2>17 DEF queueInLoop, loopVars, pollerVars
  <2>18. ASSUME NEW t \in Threads, Quit(t) PROVE AliveInv'
    BY <2>18 DEF Quit, pollerVars
  <2>19. ASSUME NEW t \in Threads, Wakeup(t) PROVE AliveInv'
    BY <2>19 DEF Wakeup, loopVars, pollerVars
  <2>20. ASSUME NEW c \in Channels, Event(c) PROVE AliveInv'
    BY <2>20 DEF Event, loopVars, pollerVars
  <2>21. CASE UNCHANGED vars
    BY <2>21 DEF vars
  <2>22. QED
    BY <2>1, <2>2, <2>3, <2>4, <2>5, <2>6, <2>7, <2>8, <2>9, <2>10, <2>11,
       <2>12, <2>13, <2>14, <2>15, <2>16, <2>17, <2>18, <2>19, <2>20, <2>21
       DEF Next, LoopStep, UserCall, ThreadStep
<1>3. AliveInv => ActiveChannelsAlive
  BY DEF AliveInv
<1>4. QED
  BY <1>1, <1>2, <1>3, TypeCorrect, PTL DEF Spec

-----------------------------------------------------------------------------
(* The loop implements the FIFO of LoopQueue (its safety part): functors   *)
(* run exactly once, in the order of queueInLoop, and none runs after the  *)
(* loop has left poll().                                                   *)
THEOREM LoopIsFifo == Spec => LQ!SafeSpec
<1>1. Init => LQ!Init
  BY DEF Init, LQ!Init
<1>2. TypeOK /\ WakeupInv /\ [Next]_vars => [LQ!Next]_(LQ!lqVars)
  <2> SUFFICES ASSUME TypeOK, WakeupInv, [Next]_vars
               PROVE LQ!Next \/ UNCHANGED LQ!lqVars
    OBVIOUS
  <2> DEFINE q == functors \o pendingFunctors
  <2> USE DEF TypeOK, WakeupInv, LocalVector
  <2>1. ASSUME UNCHANGED <<functors, pendingFunctors, ran>>,
               pc # "exited", pc' # "exited"
        PROVE UNCHANGED LQ!lqVars
    BY <2>1 DEF LQ!lqVars
  <2>2. CASE enable_wakeup \/ PollEvents \/ PollNothing \/ HandleEvent
             \/ StartPendingFunctors \/ EndPendingFunctors \/ CallbackReturn
             \/ LoopQuit \/ \E c \in Channels : EnableChannel(c)
                                \/ DisableChannel(c) \/ RemoveChannel(c)
    BY <2>1, <2>2 DEF enable_wakeup, PollEvents, PollNothing, HandleEvent,
       StartPendingFunctors, EndPendingFunctors, CallbackReturn, LoopQuit,
       EnableChannel, DisableChannel, RemoveChannel, MayRemove, InCallback,
       queueVars, loopVars
  <2>3. CASE CheckQuit
    BY <2>3 DEF CheckQuit, queueVars, LQ!Next, LQ!Stop, LQ!lqVars
  <2>4. CASE SwapPendingFunctors
    <3>1. functors = <<>> /\ functors' = pendingFunctors /\ pendingFunctors' = <<>>
      BY <2>4 DEF SwapPendingFunctors
    <3>2. q' = q
      BY <3>1
    <3>3. QED
      BY <2>4, <3>2 DEF SwapPendingFunctors, LQ!lqVars
  <2>5. CASE CallFunctor
    <3>1. /\ functors # <<>> /\ functors' = Tail(functors)
          /\ pendingFunctors' = pendingFunctors
          /\ ran' = Append(ran, Head(functors))
          /\ pc = "run" /\ pc' = "functor"
      BY <2>5 DEF CallFunctor, queueVars
    <3>2. q # <<>> /\ Head(q) = Head(functors)
      BY <3>1
    <3>3. q' = Tail(q)
      BY <3>1
    <3>4. LQ!RunHead
      BY <3>1, <3>2, <3>3 DEF LQ!RunHead
    <3>5. QED
      BY <3>4 DEF LQ!Next
  <2>6. ASSUME NEW f \in Functors, pendingFunctors' = Append(pendingFunctors, f),
               UNCHANGED <<pc, functors, ran>>
        PROVE LQ!Next
    <3>1. q' = Append(q, f)
      BY <2>6
    <3>2. LQ!Enqueue(f)
      BY <2>6, <3>1 DEF LQ!Enqueue
    <3>3. QED
      BY <3>2 DEF LQ!Next
  <2>7. ASSUME NEW f \in Functors, LoopQueueInLoop(f) PROVE LQ!Next
    BY <2>6, <2>7 DEF LoopQueueInLoop, push_back, loopVars
  <2>8. ASSUME NEW f \in Functors, LoopRunInLoop(f) PROVE LQ!Next
    BY <2>8 DEF LoopRunInLoop, InCallback, loopVars, LQ!Next, LQ!RunDirect
  <2>9. ASSUME NEW t \in Threads, NEW f \in Functors, queueInLoop(t, f) PROVE LQ!Next
    BY <2>6, <2>9 DEF queueInLoop, push_back, loopVars
  <2>10. CASE (\E t \in Threads : Quit(t) \/ Wakeup(t))
              \/ (\E c \in Channels : Event(c)) \/ UNCHANGED vars
    <3>1. UNCHANGED <<functors, pendingFunctors, ran, pc>>
      BY <2>10 DEF Quit, Wakeup, Event, loopVars, queueVars, vars
    <3>2. QED
      BY <3>1 DEF LQ!lqVars
  <2>11. QED
    BY <2>2, <2>3, <2>4, <2>5, <2>7, <2>8, <2>9, <2>10
       DEF Next, LoopStep, UserCall, ThreadStep
<1>3. QED
  BY <1>1, <1>2, TypeCorrect, WakeupInvariant, PTL DEF Spec, LQ!SafeSpec
=============================================================================
