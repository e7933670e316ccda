------------------------------ MODULE Logging --------------------------------
(***************************************************************************)
(* The log: how one line is put together (LogStream) and where the lines   *)
(* of all threads go (AsyncLogging, LogFile).  A line is only handed on    *)
(* complete, so a behaviour is one of the first or one of the second.      *)
(***************************************************************************)
EXTENDS AsyncLogging, LogStream

VARIABLE system    \* which of the two this behaviour is about

allVars == <<system, logVars, streamVars>>

TypeOK == LoggingTypeOK /\ StreamTypeOK

Init ==
  /\ StreamInit
  /\ LoggingInit
  /\ \/ system = "sinks"
     \/ system = "stream" /\ sink = "file" /\ fatal = 0

SinkPart   == system = "sinks" /\ LoggingNext /\ UNCHANGED <<system, streamVars>>
StreamPart == system = "stream" /\ StreamNext /\ UNCHANGED <<system, logVars>>

Spec == Init /\ [][SinkPart \/ StreamPart]_allVars
FairSpec == Spec /\ (system = "sinks" => LoggingFairness)
=============================================================================
