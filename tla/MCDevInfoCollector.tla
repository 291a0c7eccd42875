-------------------------- MODULE MCDevInfoCollector --------------------------
(* An instance of DevInfoCollector for TLC. *)
EXTENDS DevInfoCollector
=============================================================================
