----------------------------- MODULE MCTcpServer -----------------------------
(* Instances of TcpServer for TLC.                                         *)
EXTENDS TcpServer

CONSTANTS c1, c2, base, io1

MCConns   == {c1, c2}
MCAnyPool == {<<>>, <<io1>>}

(* One connection with which everything is done, or two whose callbacks do *)
(* nothing, one of which a user thread may shut down.                      *)
OneBusy  == [peers |-> {c1}, calls |-> UserCalls, held |-> {c1}]
TwoQuiet == [peers |-> {c1, c2}, calls |-> {"nothing"}, held |-> {c1}]

MCScenes  == {OneBusy, TwoQuiet}
MCOne     == {OneBusy}
MCNothing == {"nothing"}
MCSend    == {"send"}
=============================================================================
