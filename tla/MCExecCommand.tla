----------------------------- MODULE MCExecCommand -----------------------------
(***************************************************************************)
(* ExecCommand for TLC: its own bounds are enough.                         *)
(***************************************************************************)
EXTENDS ExecCommand
=============================================================================
