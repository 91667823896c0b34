---------------------------- MODULE MCPollLoop ----------------------------
(* PollLoop for TLC: connections are interchangeable.                        *)
EXTENDS PollLoop, TLC

CONSTANTS k1, k2, k3

Symmetry == Permutations(Conns)
=============================================================================
