------------------------------ MODULE MCDebugPod ------------------------------
(* Instances of DebugPod for TLC.                                          *)
EXTENDS DebugPod
=============================================================================
