--------------------------- MODULE MCGraceStatus ---------------------------
(* GraceStatus with two request threads, one that starts the grace period *)
(* and two that lift it: enough for a reference to be outstanding while   *)
(* another is dropped, and for a lift to race a start and another lift.    *)
EXTENDS GraceStatus
CONSTANTS w1, w2, a1, l1, l2
MCWorkers == {w1, w2}
MCAdmin == {a1}
MCLifters == {l1, l2}
MCLifter == {l1}
=============================================================================
