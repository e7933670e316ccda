----------------------------- MODULE MCReceiver ------------------------------
(* Instances of Receiver for TLC.                                          *)
EXTENDS Receiver

CONSTANTS r1, r2

MCReceivers == {r1, r2}
MCLens == {1, 3}
MCAnyLens == {-3, -2, -1, 0, 1, 9}

(* Two threads and reads that end between messages or in their bodies, or  *)
(* one thread and reads that end anywhere.                                 *)
TwoThreads == [callers |-> {r1, r2}, cuts |-> FALSE]
AnyCut     == [callers |-> {r1}, cuts |-> TRUE]

MCScenes     == {TwoThreads, AnyCut}
MCTwoThreads == {TwoThreads}
MCAnyCut     == {AnyCut}
=============================================================================
