---------------------------- MODULE MCRecording ----------------------------
(***************************************************************************)
(* A small instance of Recording for TLC.                                  *)
(***************************************************************************)
EXTENDS Recording, TLC

CONSTANTS a1, a2, j1

TheEnds == (a1 :> {"SUCCESS"}) @@ (a2 :> {"CANCEL"})

=============================================================================
