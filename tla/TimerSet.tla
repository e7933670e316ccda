------------------------------- MODULE TimerSet ------------------------------
(***************************************************************************)
(* TimerSet (ydx_timer_set.cpp) with its Timers, on the loop whose         *)
(* timerfd it watches.  Other threads add and cancel timers through        *)
(* runInLoop: the loop's queue is used as LoopQueue describes it, every    *)
(* functor once, in order, between two handlers.                           *)
(*                                                                         *)
(* Times are kept relative to the wall clock, in steps of the 100          *)
(* microseconds that is the least the timerfd is set to: due[t] is         *)
(* expiration_ minus now.  Tick lets time pass; Rewind and Forward set the *)
(* wall clock, which the timerfd (CLOCK_MONOTONIC) does not notice.        *)
(*                                                                         *)
(* cancel() frees the timer it is given, whatever the timer is doing.      *)
(* Careful users cancel only repeating timers; and, in a callback, where   *)
(* cancel() acts at once, none that is just expiring and none whose        *)
(* addTimer, made by another thread, the loop has still to carry out. The  *)
(* code asks nobody to be careful: with Careful = FALSE any TimerId is     *)
(* cancelled at any time.  Either way an id is cancelled once.             *)
(***************************************************************************)
EXTENDS Integers, Sequences, FiniteSets

CONSTANTS
  Timers,       \* the Timer objects that are allocated
  MaxWhen,      \* bound: timers are set at most that far ahead
  Intervals,    \* intervals; 0 is a timer that does not repeat
  MaxRound,     \* bound: ticks that pass while handleRead runs
  MaxRewind,    \* bound: ticks the wall clock is set back, in total
  MaxForward,   \* bound: ticks it is set forward while the timerfd is armed
  Careful       \* TRUE iff users cancel as described above

ASSUME TimerAssumption ==
  /\ MaxWhen \in Nat /\ MaxRound \in Nat /\ MaxRewind \in Nat
  /\ MaxForward \in Nat /\ Careful \in BOOLEAN
  /\ Intervals \subseteq Nat

VARIABLES
  heap,        \* each Timer: not "allocated" yet, "live" or "freed"
  due,         \* expiration_, from now
  interval,    \* interval_; repeat_ is interval_ > 0
  container,   \* timer_container_; an entry's time is its timer's expiration_
  left,        \* the timerfd: ticks left, 0 when it is disarmed
  readable,    \* the timerfd has expired and was not read
  spc,         \* the loop thread: idle, in handleRead's callbacks, set destroyed
  batch,       \* handleRead's expired
  torun,       \* the part of it still to be run
  age,         \* now minus handleRead's local now
  calls,       \* functors handed to the loop
  caller,      \* what the user has of each timer
  touched,     \* timers used after they were freed
  rewound,     \* ticks the clock was set back
  ahead        \* ticks it was set forward since the timerfd was set

setVars == <<heap, due, interval, container, left, readable, spc, batch, torun, age,
             calls, caller, touched, rewound, ahead>>

SetTypeOK ==
  /\ heap \in [Timers -> {"none", "live", "freed"}]
  /\ due \in [Timers -> Int]
  /\ interval \in [Timers -> Intervals \cup {0}]
  /\ container \in SUBSET Timers
  /\ left \in Nat
  /\ readable \in BOOLEAN
  /\ spc \in {"idle", "run", "destroyed"}
  /\ batch \in SUBSET Timers
  /\ torun \in SUBSET batch
  /\ age \in -MaxRewind .. MaxRound
  /\ calls \in Seq({"add", "cancel"} \X Timers)
  /\ caller \in [Timers -> {"none", "adding", "id", "late", "cancelled"}]
  /\ touched \in SUBSET Timers
  /\ rewound \in 0 .. MaxRewind
  /\ ahead \in 0 .. MaxForward

SetInit ==
  /\ heap = [t \in Timers |-> "none"]
  /\ due = [t \in Timers |-> 0]
  /\ interval = [t \in Timers |-> 0]
  /\ container = {}
  /\ left = 0
  /\ readable = FALSE
  /\ spc = "idle"
  /\ batch = {}
  /\ torun = {}
  /\ age = 0
  /\ calls = <<>>
  /\ caller = [t \in Timers |-> "none"]
  /\ touched = {}
  /\ rewound = 0
  /\ ahead = 0

-----------------------------------------------------------------------------
(* The clocks.                                                             *)

(* A due time further back than the clock can be set makes no difference.  *)
Sooner(d) == IF d > -MaxRewind THEN d - 1 ELSE d

Tick ==
  /\ spc = "run" => age < MaxRound
  /\ due' = [t \in Timers |-> IF heap[t] = "live" THEN Sooner(due[t]) ELSE due[t]]
  /\ left' = IF left > 0 THEN left - 1 ELSE 0
  /\ readable' = (readable \/ left = 1)
  /\ age' = IF spc = "run" THEN age + 1 ELSE age
  /\ UNCHANGED <<heap, interval, container, spc, batch, torun, calls, caller, touched, rewound,
                 ahead>>

Rewind ==
  /\ rewound < MaxRewind
  /\ rewound' = rewound + 1
  /\ due' = [t \in Timers |-> IF heap[t] = "live" THEN due[t] + 1 ELSE due[t]]
  /\ age' = IF spc = "run" THEN age - 1 ELSE age
  /\ UNCHANGED <<heap, interval, container, left, readable, spc, batch, torun, calls, caller,
                 touched, ahead>>

Forward ==
  /\ ahead < MaxForward
  /\ spc = "run" => age < MaxRound
  /\ ahead' = ahead + 1
  /\ due' = [t \in Timers |-> IF heap[t] = "live" THEN Sooner(due[t]) ELSE due[t]]
  /\ age' = IF spc = "run" THEN age + 1 ELSE age
  /\ UNCHANGED <<heap, interval, container, left, readable, spc, batch, torun, calls, caller,
                 touched, rewound>>

(* resetTimerfd and howMuchTimeFromNow: at least 100 microseconds from now *)
(* on; what had expired and was not read is forgotten.                     *)
resetTimerfd(d) ==
  /\ left' = IF d < 1 THEN 1 ELSE d
  /\ readable' = FALSE
  /\ ahead' = 0

-----------------------------------------------------------------------------
(* Mutant: a timer put in front of others is not noticed.                  *)
earliestChanged_Empty(d) == container = {}

(* What insert() returns for a timer due at d.                             *)
earliestChanged(d) == \A u \in container : d < due[u]

(* addTimerInLoop                                                          *)
addTimerInLoop(t, d) ==
  /\ container' = container \cup {t}
  /\ IF earliestChanged(d) THEN resetTimerfd(d) ELSE UNCHANGED <<left, readable, ahead>>

(* Mutant: the entry stays in the container.                               *)
cancelInLoop_KeepsEntry(t) ==
  /\ container' = container
  /\ heap' = [heap EXCEPT ![t] = "freed"]

cancelInLoop(t) ==
  /\ container' = container \ {t}
  /\ heap' = [heap EXCEPT ![t] = "freed"]

(* Following the pointer to a timer, which may have been deleted.          *)
Use(t) == IF heap[t] = "freed" THEN {t} ELSE {}

(* new Timer(cb, when, interval)                                           *)
NewTimer(t, when, n) ==
  /\ heap[t] = "none"
  /\ heap' = [heap EXCEPT ![t] = "live"]
  /\ due' = [due EXCEPT ![t] = when]
  /\ interval' = [interval EXCEPT ![t] = n]

-----------------------------------------------------------------------------
(* Other threads.                                                          *)

(* addTimer: the timer is allocated and handed to the loop ...             *)
addTimer(t, when, n) ==
  /\ spc # "destroyed"
  /\ NewTimer(t, when, n)
  /\ calls' = Append(calls, <<"add", t>>)
  /\ caller' = [caller EXCEPT ![t] = "adding"]
  /\ UNCHANGED <<container, left, readable, spc, batch, torun, age, touched, rewound,
                 ahead>>

(* ... and then its sequence number is read for the TimerId: too late when  *)
(* the loop has run the timer and deleted it.                              *)
addTimerReturn(t) ==
  /\ caller[t] = "adding"
  /\ caller' = [caller EXCEPT ![t] = IF heap[t] = "freed" THEN "late" ELSE "id"]
  /\ UNCHANGED <<heap, due, interval, container, left, readable, spc, batch, torun, age, calls,
                 touched, rewound, ahead>>

(* The user holds the id; a careful user, of a repeating timer.            *)
MayCancel(t) ==
  /\ caller[t] \in {"id", "late"}
  /\ spc # "destroyed"
  /\ Careful => interval[t] > 0

cancel(t) ==
  /\ MayCancel(t)
  /\ caller' = [caller EXCEPT ![t] = "cancelled"]
  /\ calls' = Append(calls, <<"cancel", t>>)
  /\ UNCHANGED <<heap, due, interval, container, left, readable, spc, batch, torun, age,
                 touched, rewound, ahead>>

-----------------------------------------------------------------------------
(* The loop thread.                                                        *)

(* The next functor of the queue.                                          *)
RunCall ==
  /\ spc = "idle"
  /\ calls # <<>>
  /\ calls' = Tail(calls)
  /\ LET t == Head(calls)[2] IN
     /\ touched' = touched \cup Use(t)
     /\ IF Head(calls)[1] = "add"
          THEN addTimerInLoop(t, due[t]) /\ UNCHANGED heap
          ELSE cancelInLoop(t) /\ UNCHANGED <<left, readable, ahead>>
  /\ UNCHANGED <<due, interval, spc, batch, torun, age, caller, rewound>>

getExpired == {t \in container : due[t] <= 0}

(* handleRead up to the callbacks: the timerfd is read, the timers that    *)
(* are due are taken out of the container.                                 *)
handleRead ==
  /\ spc = "idle"
  /\ readable
  /\ readable' = FALSE
  /\ spc' = "run"
  /\ age' = 0
  /\ batch' = getExpired
  /\ torun' = batch'
  /\ container' = container \ batch'
  /\ UNCHANGED <<heap, due, interval, left, calls, caller, touched, rewound, ahead>>

(* One callback, the earliest first; it may add or cancel another timer,   *)
(* at once.                                                                *)
RunTimer ==
  /\ spc = "run"
  /\ \E t \in torun :
       /\ \A u \in torun : due[t] <= due[u]
       /\ torun' = torun \ {t}
       /\ \/ /\ touched' = touched \cup Use(t)
             /\ UNCHANGED <<heap, due, interval, container, left, readable, caller, ahead>>
          \/ \E u \in Timers, when \in 0 .. MaxWhen, n \in Intervals :
               /\ NewTimer(u, when, n)
               /\ addTimerInLoop(u, when)
               /\ caller' = [caller EXCEPT ![u] = "id"]
               /\ touched' = touched \cup Use(t)
          \/ \E u \in Timers :
               /\ MayCancel(u)
               /\ Careful => u \in container
               /\ cancelInLoop(u)
               /\ caller' = [caller EXCEPT ![u] = "cancelled"]
               /\ touched' = touched \cup Use(t) \cup Use(u)
               /\ UNCHANGED <<due, interval, left, readable, ahead>>
  /\ UNCHANGED <<spc, batch, age, calls, rewound>>

(* Timer::restart: from handleRead's now on.                               *)
restart(t) == interval[t] - age

(* Mutant: the timerfd is not set again.                                   *)
reset_NotArmed ==
  /\ spc = "run" /\ torun = {}
  /\ spc' = "idle"
  /\ batch' = {}
  /\ due' = [t \in Timers |-> IF t \in batch /\ interval[t] > 0 THEN restart(t) ELSE due[t]]
  /\ container' = container \cup {t \in batch : interval[t] > 0}
  /\ heap' = [t \in Timers |-> IF t \in batch /\ interval[t] = 0 THEN "freed" ELSE heap[t]]
  /\ UNCHANGED <<touched, left, readable, interval, torun, age, calls, caller, rewound,
                 ahead>>

(* reset(): repeating timers are restarted and inserted again, the others  *)
(* are deleted; the timerfd is set to the first.                           *)
reset ==
  /\ spc = "run" /\ torun = {}
  /\ spc' = "idle"
  /\ batch' = {}
  /\ due' = [t \in Timers |-> IF t \in batch /\ interval[t] > 0 THEN restart(t) ELSE due[t]]
  /\ container' = container \cup {t \in batch : interval[t] > 0}
  /\ heap' = [t \in Timers |-> IF t \in batch /\ interval[t] = 0 THEN "freed" ELSE heap[t]]
  /\ touched' = touched \cup UNION {Use(t) : t \in batch}
  /\ IF container' = {} THEN UNCHANGED <<left, readable, ahead>>
     ELSE resetTimerfd(CHOOSE d \in {due'[t] : t \in container'} :
                         \A t \in container' : d <= due'[t])
  /\ UNCHANGED <<interval, torun, age, calls, caller, rewound>>

(* The destructor, once no thread uses the set any more.                   *)
DestroySet ==
  /\ spc = "idle" /\ calls = <<>>
  /\ \A t \in Timers : caller[t] # "adding"
  /\ spc' = "destroyed"
  /\ heap' = [t \in Timers |-> IF t \in container THEN "freed" ELSE heap[t]]
  /\ touched' = touched \cup UNION {Use(t) : t \in container}
  /\ container' = {}
  /\ left' = 0
  /\ readable' = FALSE
  /\ UNCHANGED <<due, interval, batch, torun, age, calls, caller, rewound, ahead>>

-----------------------------------------------------------------------------
SetStep == RunCall \/ handleRead \/ RunTimer \/ reset

SetNext ==
  \/ Tick \/ Rewind \/ Forward
  \/ \E t \in Timers :
       \/ \E when \in 0 .. MaxWhen, n \in Intervals : addTimer(t, when, n)
       \/ addTimerReturn(t)
       \/ cancel(t)
  \/ SetStep
  \/ DestroySet

SetSpec == SetInit /\ [][SetNext]_setVars

(* Time passes and the loop thread runs: a ready timerfd is handled, its   *)
(* callbacks return, and poll() runs the functors after every round of     *)
(* handlers, however often the timerfd is ready (strong fairness).         *)
SetFairness ==
  /\ WF_setVars(Tick)
  /\ SF_setVars(RunCall)
  /\ WF_setVars(handleRead)
  /\ WF_setVars(RunTimer)
  /\ WF_setVars(reset)

-----------------------------------------------------------------------------
(* Who owns a timer when users are careful: as long as it is allocated it  *)
(* is in exactly one of the loop's queue, the container and the batch being *)
(* handled; once it is freed it is in none, and the set does not use it    *)
(* any more.  What addTimer itself reads after handing the timer over is   *)
(* AddTimerSafe's subject: it is late only for timers that do not repeat.  *)
TimersOwned ==
  /\ \A t \in Timers :
       LET places == {p \in {"calls", "container", "batch"} :
                        \/ p = "calls" /\ \E i \in DOMAIN calls : calls[i] = <<"add", t>>
                        \/ p = "container" /\ t \in container
                        \/ p = "batch" /\ t \in batch}
       IN IF heap[t] = "live" THEN Cardinality(places) = 1 ELSE places = {}
  /\ touched = {}
  /\ \A t \in Timers : caller[t] = "late" => interval[t] = 0

(* addTimer is thread safe, as its comment demands: it does not read the   *)
(* timer after the loop has deleted it.                                    *)
AddTimerSafe == \A t \in Timers : caller[t] # "late"

(* Whenever the loop goes back to epoll_wait with timers to watch, the     *)
(* timerfd goes off no later than the first of them is due, also after     *)
(* cancellations, earlier insertions or a clock set back; later by no more *)
(* than the clock was set forward after the timerfd was set.               *)
ArmedForFirst ==
  spc = "idle" /\ ~readable =>
    \A t \in container :
      left > 0 /\ left <= (IF due[t] < 1 THEN 1 ELSE due[t]) + ahead

(* A timer fires, and a repeating one fires again and again, until it is   *)
(* cancelled or the set is destroyed.                                      *)
TimersFire == \A t \in Timers : heap[t] = "live" ~> (t \in batch \/ heap[t] = "freed")
=============================================================================
