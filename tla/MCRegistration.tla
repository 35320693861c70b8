--------------------------- MODULE MCRegistration ---------------------------
(***************************************************************************)
(* Small instances of Registration for TLC.                                *)
(***************************************************************************)
EXTENDS Registration

CONSTANTS p1, p2, host

\* Both agents take the name of the host they run on.
SameName == [p \in Clients |-> host]

=============================================================================
