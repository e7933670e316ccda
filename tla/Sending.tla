------------------------------- MODULE Sending -------------------------------
(***************************************************************************)
(* The sending side and what it rests on: the ring under calls that come   *)
(* one after the other (StreamBufferUser), Sender's two threads on a ring  *)
(* of their own (Sender), and the connection under Sender's thread or      *)
(* under a TcpClient's user (Client).  They share no state here, so a      *)
(* behaviour is one of one of them.                                        *)
(***************************************************************************)
EXTENDS StreamBufferUser, Sender, Client

VARIABLE side    \* which of the three this behaviour is about

sendingVars == <<side, userVars, senderVars, clientVars>>

Init ==
  /\ side \in {"ring", "sender", "client"}
  /\ UserInit /\ SenderInit /\ ClientInit
  /\ side # "client" => mode = "sender"

RingPart   == side = "ring" /\ UserNext /\ UNCHANGED <<side, senderVars, clientVars>>
SenderPart == side = "sender" /\ SenderNext /\ UNCHANGED <<side, userVars, clientVars>>
ClientPart == side = "client" /\ ClientNext /\ UNCHANGED <<side, userVars, senderVars>>

Spec == Init /\ [][RingPart \/ SenderPart \/ ClientPart]_sendingVars

FairSpec ==
  /\ Spec
  /\ \/ side = "ring"
     \/ side = "sender" /\ SenderFairness
     \/ side = "client" /\ ClientFairness
=============================================================================
