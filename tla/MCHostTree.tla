----------------------------- MODULE MCHostTree -----------------------------
(***************************************************************************)
(* HostTree for TLC: five hosts, a tree that has room for four.              *)
(***************************************************************************)
EXTENDS HostTree

CONSTANTS m1

MCHosts == 1 .. 5

MCMaxQueue == [h \in MCHosts |-> IF h \in 2 .. 4 THEN 1 ELSE 0]
=============================================================================
