------------------------------ MODULE ThreadPool -----------------------------
(***************************************************************************)
(* ThreadPool (thread_pool.cpp) over Thread (thread.cpp): an owner starts, *)
(* stops and destroys the pool, producers hand tasks to run(), workers     *)
(* take them from queue_.  What is done under mutex_ is one step; a thread *)
(* in a condition's wait() has given the mutex up and runs its loop again  *)
(* once it is signalled (or for no reason at all).                         *)
(***************************************************************************)
EXTENDS Naturals, Sequences, FiniteSets

CONSTANTS
  MaxThreads,    \* bound: start() asks for 0 .. MaxThreads threads
  QueueSizes,    \* what setMaxQueueSize may be given; 0 is no limit
  Producers,     \* threads calling run()
  MaxTasks       \* bound: calls of run()

ASSUME PoolAssumption ==
  /\ MaxThreads \in Nat
  /\ QueueSizes \subseteq Nat
  /\ IsFiniteSet(Producers)
  /\ MaxTasks \in Nat

Workers == 1 .. MaxThreads
Tasks   == 1 .. MaxTasks       \* numbered in the order run() accepts them

VARIABLES
  opc,           \* where the owner is
  maxQueueSize,  \* maxQueueSize_
  numThreads,    \* start()'s argument
  created,       \* threads_.size()
  joined,        \* threads whose join() has returned
  running,       \* running_
  queue,         \* queue_
  wpc,           \* where each worker is in runInThread() and take()
  task,          \* the task each worker has taken
  ppc,           \* where each producer is in run()
  accepted,      \* tasks run() has taken over (history)
  ran            \* tasks called (history)

ownerVars == <<opc, numThreads, created, joined>>
poolVars  == <<ownerVars, maxQueueSize, running, queue, wpc, task, ppc, accepted, ran>>

PoolTypeOK ==
  /\ opc \in {"new", "starting", "started", "joining", "stopped", "destroyed"}
  /\ maxQueueSize \in QueueSizes \cup {0}
  /\ numThreads \in 0 .. MaxThreads
  /\ created \in 0 .. numThreads
  /\ joined \in 0 .. created
  /\ running \in BOOLEAN
  /\ queue \in Seq(Tasks)
  /\ wpc \in [Workers -> {"none", "check", "take", "waiting", "signalled", "task", "finished"}]
  /\ task \in [Workers -> Tasks \cup {0}]
  /\ ppc \in [Producers -> {"idle", "waiting", "signalled"}]
  /\ accepted \in 0 .. MaxTasks
  /\ ran \in SUBSET Tasks

(* The constructor.                                                        *)
PoolInit ==
  /\ opc = "new"
  /\ maxQueueSize = 0
  /\ numThreads = 0
  /\ created = 0
  /\ joined = 0
  /\ running = FALSE
  /\ queue = <<>>
  /\ wpc = [w \in Workers |-> "none"]
  /\ task = [w \in Workers |-> 0]
  /\ ppc = [p \in Producers |-> "idle"]
  /\ accepted = 0
  /\ ran = {}

-----------------------------------------------------------------------------
(* Condition: the threads waiting on it, and notify(), which signals one   *)
(* of them if there is one.                                                *)
waiting(pc) == {t \in DOMAIN pc : pc[t] = "waiting"}

notify(pc) ==
  IF waiting(pc) = {} THEN {pc}
  ELSE {[pc EXCEPT ![t] = "signalled"] : t \in waiting(pc)}

notifyAll(pc) == [t \in DOMAIN pc |-> IF pc[t] = "waiting" THEN "signalled" ELSE pc[t]]

-----------------------------------------------------------------------------
(* The owner.                                                              *)

(* setMaxQueueSize(size), which must come first, and start(n).             *)
start(n, size) ==
  /\ opc = "new"
  /\ maxQueueSize' = size
  /\ opc' = IF n = 0 THEN "started" ELSE "starting"
  /\ numThreads' = n
  /\ running' = TRUE
  /\ UNCHANGED <<created, joined, queue, wpc, task, ppc, accepted, ran>>

(* Mutant: the loop makes one round too many.                              *)
StartThread_OneMore ==
  /\ opc = "starting"
  /\ created' = created + 1
  /\ wpc' = [wpc EXCEPT ![created'] = "check"]
  /\ opc' = IF created = numThreads THEN "started" ELSE "starting"
  /\ UNCHANGED <<numThreads, joined, maxQueueSize, running, queue, task, ppc, accepted, ran>>

(* One round of start()'s loop: Thread::start creates the thread, which    *)
(* enters runInThread.                                                     *)
StartThread ==
  /\ opc = "starting"
  /\ created' = created + 1
  /\ wpc' = [wpc EXCEPT ![created'] = "check"]
  /\ opc' = IF created' = numThreads THEN "started" ELSE "starting"
  /\ UNCHANGED <<numThreads, joined, maxQueueSize, running, queue, task, ppc, accepted,
                 ran>>

(* Mutant: the workers that wait are not woken.                            *)
stop_NoNotify ==
  /\ opc = "started"
  /\ running' = FALSE
  /\ opc' = "joining"
  /\ UNCHANGED <<numThreads, created, joined, maxQueueSize, queue, wpc, task, ppc, accepted,
                 ran>>

(* stop(), called by the user or by the destructor.                        *)
stop ==
  /\ opc = "started"
  /\ running' = FALSE
  /\ wpc' = notifyAll(wpc)
  /\ opc' = "joining"
  /\ UNCHANGED <<numThreads, created, joined, maxQueueSize, queue, task, ppc, accepted,
                 ran>>

(* stop()'s joins, in the order of threads_.                               *)
join ==
  /\ opc = "joining"
  /\ IF joined = created
       THEN opc' = "stopped" /\ UNCHANGED joined
       ELSE /\ wpc[joined + 1] = "finished"
            /\ joined' = joined + 1
            /\ UNCHANGED opc
  /\ UNCHANGED <<numThreads, created, maxQueueSize, running, queue, wpc, task, ppc, accepted,
                 ran>>

(* ~ThreadPool, which first stops a running pool, then ~Thread for each    *)
(* thread, which detaches one that was not joined.                         *)
Destroy ==
  /\ ~running
  /\ opc \in {"new", "stopped"}
  /\ opc' = "destroyed"
  /\ UNCHANGED <<numThreads, created, joined, maxQueueSize, running, queue, wpc, task, ppc,
                 accepted, ran>>

-----------------------------------------------------------------------------
(* Producers in run().                                                     *)

isFull == maxQueueSize > 0 /\ Len(queue) >= maxQueueSize

(* Mutant: workers are only told of a task when there was none.            *)
notEmpty_notify_WhenEmpty == IF queue = <<>> THEN notify(wpc) ELSE {wpc}

notEmpty_notify == notify(wpc)

(* run(): without threads the task is called here; otherwise it is queued, *)
(* once there is room for it.                                              *)
run(p) ==
  /\ opc # "destroyed"
  /\ ppc[p] # "waiting"
  /\ accepted < MaxTasks
  /\ IF created > 0 /\ isFull
       THEN /\ ppc' = [ppc EXCEPT ![p] = "waiting"]
            /\ UNCHANGED <<queue, wpc, accepted, ran>>
       ELSE /\ ppc' = [ppc EXCEPT ![p] = "idle"]
            /\ accepted' = accepted + 1
            /\ IF created = 0
                 THEN ran' = ran \cup {accepted'} /\ UNCHANGED <<queue, wpc>>
                 ELSE /\ queue' = Append(queue, accepted')
                      /\ wpc' \in notEmpty_notify
                      /\ UNCHANGED ran
  /\ UNCHANGED <<ownerVars, maxQueueSize, running, task>>

-----------------------------------------------------------------------------
(* Workers in runInThread().                                               *)

(* while (running_), read without the mutex.                               *)
CheckRunning(w) ==
  /\ wpc[w] = "check"
  /\ wpc' = [wpc EXCEPT ![w] = IF running THEN "take" ELSE "finished"]
  /\ UNCHANGED <<ownerVars, maxQueueSize, running, queue, task, ppc, accepted, ran>>

(* Mutant: no producer is told of the room.                                *)
notFull_notify_None == {ppc}

notFull_notify == IF maxQueueSize > 0 THEN notify(ppc) ELSE {ppc}

(* take(): wait for a task while the pool is running; a worker woken by    *)
(* stop() with nothing to take returns an empty task.                      *)
take(w) ==
  /\ wpc[w] \in {"take", "signalled"}
  /\ IF queue = <<>>
       THEN /\ wpc' = [wpc EXCEPT ![w] = IF running THEN "waiting" ELSE "check"]
            /\ UNCHANGED <<queue, task, ppc>>
       ELSE /\ wpc' = [wpc EXCEPT ![w] = "task"]
            /\ task' = [task EXCEPT ![w] = Head(queue)]
            /\ queue' = Tail(queue)
            /\ ppc' \in notFull_notify
  /\ UNCHANGED <<ownerVars, maxQueueSize, running, accepted, ran>>

CallTask(w) ==
  /\ wpc[w] = "task"
  /\ ran' = ran \cup {task[w]}
  /\ task' = [task EXCEPT ![w] = 0]
  /\ wpc' = [wpc EXCEPT ![w] = "check"]
  /\ UNCHANGED <<ownerVars, maxQueueSize, running, queue, ppc, accepted>>

(* pthread_cond_wait may return without a signal.                          *)
SpuriousWakeup ==
  /\ \/ \E w \in waiting(wpc) : wpc' = [wpc EXCEPT ![w] = "signalled"] /\ UNCHANGED ppc
     \/ \E p \in waiting(ppc) : ppc' = [ppc EXCEPT ![p] = "signalled"] /\ UNCHANGED wpc
  /\ UNCHANGED <<ownerVars, maxQueueSize, running, queue, task, accepted, ran>>

-----------------------------------------------------------------------------
OwnerStep == StartThread \/ join
WorkerStep(w) == CheckRunning(w) \/ take(w) \/ CallTask(w)

PoolNext ==
  \/ \E n \in 0 .. MaxThreads, size \in QueueSizes : start(n, size)
  \/ OwnerStep \/ stop \/ Destroy
  \/ \E p \in Producers : run(p)
  \/ \E w \in Workers : WorkerStep(w)
  \/ SpuriousWakeup

(* Threads are scheduled and tasks return; nothing makes the owner start,  *)
(* stop or destroy the pool, or a producer call run().                     *)
PoolFairness ==
  /\ WF_poolVars(OwnerStep)
  /\ \A w \in Workers : WF_poolVars(WorkerStep(w))
  /\ \A p \in Producers : WF_poolVars(ppc[p] = "signalled" /\ run(p))

PoolSpec == PoolInit /\ [][PoolNext]_poolVars

-----------------------------------------------------------------------------
(* No lost wakeup: while some worker sleeps, there are at least as many    *)
(* workers awake as tasks in queue_, so each task has a worker that will   *)
(* look at the queue before it sleeps.                                     *)
TasksHaveWorkers ==
  waiting(wpc) # {} =>
    Len(queue) <= Cardinality({w \in Workers :
                                 wpc[w] \in {"check", "take", "signalled", "task"}})

(* Nothing of the pool is used after its destructor has returned: every    *)
(* thread it created has left runInThread.                                 *)
NoWorkerAfterDestroy ==
  opc = "destroyed" => \A w \in Workers : wpc[w] \in {"none", "finished"}

(* Only stop() can strand anybody: as long as the pool runs, an accepted   *)
(* task is called, and a producer waiting for room in queue_ is woken.     *)
NobodyStranded ==
  /\ \A t \in Tasks :
       (running /\ \E i \in DOMAIN queue : queue[i] = t) ~> (t \in ran \/ ~running)
  /\ \A p \in Producers :
       (ppc[p] = "waiting" /\ running) ~> (ppc[p] # "waiting" \/ ~running)

(* stop() returns: every worker, sleeping or busy, leaves its loop.        *)
StopReturns == opc = "joining" ~> opc = "stopped"
=============================================================================
