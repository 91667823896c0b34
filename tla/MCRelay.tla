------------------------------ MODULE MCRelay ------------------------------
(***************************************************************************)
(* Relay for TLC: two mails, two names to hand on.                          *)
(***************************************************************************)
EXTENDS Relay

CONSTANTS m1, m2, b1, b2, home, far, t1

MCTo == (m1 :> << [box |-> b1, dom |-> far], [box |-> b2, dom |-> far] >>) @@
        (m2 :> << [box |-> b1, dom |-> far], [box |-> b1, dom |-> home] >>)
=============================================================================
