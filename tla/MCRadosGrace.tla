---------------------------- MODULE MCRadosGrace ----------------------------
(* RadosGrace with two node ids and two processes, which may each run any  *)
(* command on any of the nodes.  Three epochs are enough for a grace       *)
(* period to be lifted and a new one to be declared behind the back of a   *)
(* process that is between its read and its write.                         *)
EXTENDS RadosGrace, TLC
CONSTANTS n1, n2, p1, p2
MCNodes == {n1, n2}
MCProcs == {p1, p2}
MCCommands == AllCommands \ {"remove"}
Symmetry == Permutations(MCProcs) \cup Permutations(MCNodes)
=============================================================================
