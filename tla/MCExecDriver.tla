---------------------------- MODULE MCExecDriver ----------------------------
(***************************************************************************)
(* A small instance of ExecDriver for TLC.                                 *)
(***************************************************************************)
EXTENDS ExecDriver

CONSTANTS s1, s2, j1

=============================================================================
