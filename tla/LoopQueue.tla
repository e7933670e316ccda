------------------------------ MODULE LoopQueue ------------------------------
(***************************************************************************)
(* What an event loop promises to the callers of runInLoop, queueInLoop    *)
(* and quit: the functors handed to the loop form a FIFO queue, the loop   *)
(* runs them one at a time from its head, and it keeps running them until  *)
(* it has stopped.  A functor passed to runInLoop on the loop's own thread *)
(* runs at once and bypasses the queue.                                    *)
(***************************************************************************)
EXTENDS Sequences

CONSTANT Functors

VARIABLES queue,    \* functors handed to the loop and not yet started
          ran,      \* functors started, in order
          stopped   \* the loop has left poll()

lqVars == <<queue, ran, stopped>>

Init ==
  /\ queue = <<>>
  /\ ran = <<>>
  /\ stopped = FALSE

Enqueue(f) ==
  /\ queue' = Append(queue, f)
  /\ UNCHANGED <<ran, stopped>>

RunHead ==
  /\ ~stopped
  /\ queue # <<>>
  /\ queue' = Tail(queue)
  /\ ran' = Append(ran, Head(queue))
  /\ UNCHANGED stopped

RunDirect(f) ==
  /\ ~stopped
  /\ ran' = Append(ran, f)
  /\ UNCHANGED <<queue, stopped>>

Stop ==
  /\ ~stopped
  /\ stopped' = TRUE
  /\ UNCHANGED <<queue, ran>>

Next ==
  \/ \E f \in Functors : Enqueue(f) \/ RunDirect(f)
  \/ RunHead
  \/ Stop

(* Safety only: order, exactly-once, nothing after the loop has stopped.   *)
SafeSpec == Init /\ [][Next]_lqVars

(* With progress: a queued functor is run unless the loop stops.           *)
Spec == SafeSpec /\ WF_lqVars(RunHead)
=============================================================================
