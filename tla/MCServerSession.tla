-------------------------- MODULE MCServerSession --------------------------
(* ServerSession for TLC: mailboxes and senders are interchangeable.         *)
EXTENDS ServerSession, TLC

CONSTANTS b1, b2, local, remote, s1, s2

Symmetry == Permutations(Boxes) \union Permutations(Senders)
=============================================================================
