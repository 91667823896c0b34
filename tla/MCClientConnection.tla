------------------------- MODULE MCClientConnection -------------------------
(* ClientConnection for TLC.                                                 *)
EXTENDS ClientConnection

CONSTANTS m1, m2
=============================================================================
