---------------------------- MODULE MCEPollPoller ----------------------------
(* An instance of EPollPoller for TLC.                                     *)
EXTENDS EPollPoller

CONSTANTS t1, t2, f1, f2, c1, c2, w

MCThreads  == {t1, t2}
MCFunctors == {f1, f2}
MCChannels == {c1, c2}
=============================================================================
