----------------------------- MODULE MCExecContext -----------------------------
(* An instance of ExecContext for TLC. *)
EXTENDS ExecContext
=============================================================================
