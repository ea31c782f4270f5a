--------------------------- MODULE MCGraceCluster ---------------------------
(* GraceCluster with two servers and one client on each of them.  *)
(* A failure takes down any server at any step.  When the failures allowed *)
(* are used up the cluster may come to rest in normal operation, where     *)
(* nothing is left to do.                                                  *)
EXTENDS GraceCluster
CONSTANTS n1, n2, c1
MCNodes == {n1, n2}
MCClients == {c1}
=============================================================================
