---------------------------- MODULE LogDelivery ----------------------------
(***************************************************************************)
(* What the logs collector promises of the slices its polls submit         *)
(* (pkg/collectors/log_follower.go, pkg/loglines/lines.go): slice number i *)
(* is the i-th to come out at both ends, in the output file and as a dump  *)
(* file; each end may lag behind, but never repeats, skips or rewrites     *)
(* anything, and the clean-up closes the collector only when both have     *)
(* caught up.  After that nothing happens any more.                        *)
(***************************************************************************)
EXTENDS Naturals, Sequences

VARIABLES
  submitted, \* slices submitted so far
  written,   \* the output file
  dumped,    \* the dump files, in the order of their creation
  closed     \* CleanUp has returned

vars == <<submitted, written, dumped, closed>>

Init == submitted = 0 /\ written = <<>> /\ dumped = <<>> /\ closed = FALSE

Submit ==
  /\ ~closed /\ submitted' = submitted + 1
  /\ UNCHANGED <<written, dumped, closed>>

\* What has come out of one end, and the next slice.
NextOut(out) == Append(out, Len(out) + 1)

Write ==
  /\ ~closed /\ Len(written) < submitted /\ written' = NextOut(written)
  /\ UNCHANGED <<submitted, dumped, closed>>

Dump ==
  /\ ~closed /\ Len(dumped) < submitted /\ dumped' = NextOut(dumped)
  /\ UNCHANGED <<submitted, written, closed>>

Close ==
  /\ ~closed /\ Len(written) = submitted /\ Len(dumped) = submitted
  /\ closed' = TRUE
  /\ UNCHANGED <<submitted, written, dumped>>

Next == Submit \/ Write \/ Dump \/ Close

Spec == Init /\ [][Next]_vars

=============================================================================
