------------------------------ MODULE MCDupReq ------------------------------
(* A request a1 with two duplicates, of which one comes over a second      *)
(* connection, and another request b.                                      *)
EXTENDS DupReq, TLC
CONSTANTS a1, a2, a3, b, x1, x2, ka, kb
MCRequests == {a1, a2, a3, b}
MCXprts == {x1, x2}
MCXprtOf == [r \in Requests |-> IF r \in {a1, a2} THEN x1 ELSE x2]
MCKeyOf == [r \in Requests |-> IF r = b THEN kb ELSE ka]
MCSymmetry == Permutations({a1, a2})
MCPartOf == (ka :> 1) @@ (kb :> 2)
=============================================================================
