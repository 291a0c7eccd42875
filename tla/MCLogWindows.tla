---------------------------- MODULE MCLogWindows ----------------------------
(* Instances of LogWindows for TLC.                                        *)
EXTENDS LogWindows
=============================================================================
