--------------------------- MODULE MCClientLease ----------------------------
(* An instance of ClientLease for TLC.                                     *)
EXTENDS ClientLease

CONSTANTS c1, c2, w1

MCClients == {c1, c2}
MCWorkers == {w1}
=============================================================================
