------------------------------- MODULE Services ------------------------------
(***************************************************************************)
(* The parts that connections, servers and their users are built from: the *)
(* workers of ThreadPool, the pool of loops of EPollerThread, the          *)
(* clock-driven timers of TimerSet, the TimerWheel and the Buffer.  They   *)
(* share nothing, so a behaviour is one of one of them.                    *)
(***************************************************************************)
EXTENDS ThreadPool, EPollerThread, TimerSet, TimerWheel, Buffer

VARIABLE system    \* which of the five this behaviour is about

servicesVars == <<system, poolVars, loopsVars, setVars, wheelVars, bufferVars>>

TypeOK == PoolTypeOK /\ LoopsTypeOK /\ SetTypeOK /\ WheelTypeOK /\ BufferTypeOK

Init ==
  /\ system \in {"pool", "loops", "set", "wheel", "buffer"}
  /\ PoolInit /\ LoopsInit /\ SetInit /\ WheelInit /\ BufferInit

PoolStep ==
  /\ system = "pool" /\ PoolNext
  /\ UNCHANGED <<system, loopsVars, setVars, wheelVars, bufferVars>>

LoopsStep ==
  /\ system = "loops" /\ LoopsNext
  /\ UNCHANGED <<system, poolVars, setVars, wheelVars, bufferVars>>

SetPart ==
  /\ system = "set" /\ SetNext
  /\ UNCHANGED <<system, poolVars, loopsVars, wheelVars, bufferVars>>

WheelPart ==
  /\ system = "wheel" /\ WheelNext
  /\ UNCHANGED <<system, poolVars, loopsVars, setVars, bufferVars>>

BufferPart ==
  /\ system = "buffer" /\ BufferNext
  /\ UNCHANGED <<system, poolVars, loopsVars, setVars, wheelVars>>

Spec ==
  Init /\ [][PoolStep \/ LoopsStep \/ SetPart \/ WheelPart \/ BufferPart]_servicesVars

FairSpec ==
  /\ Spec
  /\ \/ system = "pool" /\ PoolFairness
     \/ system = "loops" /\ LoopsFairness
     \/ system = "set" /\ SetFairness
     \/ system \in {"wheel", "buffer"}

-----------------------------------------------------------------------------
(* Threads and what they use live long enough for each other: no worker is *)
(* left in a pool that is destroyed, and a loop that is handed out, or     *)
(* told to quit by ~EPollerThread, is there unless user code has told it   *)
(* to quit before (see LoopsUsedAreAlive for what happens then).           *)
PoolsOutlived == NoWorkerAfterDestroy /\ LoopsUsedAreAlive

(* Starting and ending threads never hangs: ThreadPool::stop returns,      *)
(* EPollerThreadPool::start returns, and ~EPollerThread joins its thread.  *)
ThreadsEnd == StopReturns /\ LoopThreadsStartAndEnd
=============================================================================
