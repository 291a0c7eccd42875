--------------------------- MODULE MCLogsCollector ---------------------------
(* Instances of LogsCollector for TLC.                                     *)
EXTENDS LogsCollector
=============================================================================
