--------------------------- MODULE MCThreadPool ---------------------------
(***************************************************************************)
(* ThreadPool for TLC: the connections as model values.                     *)
(***************************************************************************)
EXTENDS ThreadPool

CONSTANTS k1, k2, k3
=============================================================================
