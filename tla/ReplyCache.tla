----------------------------- MODULE ReplyCache -----------------------------
(* What a duplicate request cache promises to a client that repeats its    *)
(* calls: a call that the cache knows is carried out once.  A call that    *)
(* was carried out is forgotten sometime; one that was refused is not kept *)
(* at all.                                                                 *)
CONSTANT Calls
VARIABLE call

Init == call = [k \in Calls |-> "unknown"]

Begin(k) == call[k] = "unknown" /\ call' = [call EXCEPT ![k] = "running"]
CarryOut(k) == call[k] = "running" /\ call' = [call EXCEPT ![k] = "replied"]
Abandon(k) == call[k] = "running" /\ call' = [call EXCEPT ![k] = "unknown"]
Forget(ks) ==
    /\ \A k \in ks : call[k] = "replied"
    /\ call' = [k \in Calls |-> IF k \in ks THEN "unknown" ELSE call[k]]

Next == \/ \E k \in Calls : Begin(k) \/ CarryOut(k) \/ Abandon(k)
        \/ \E ks \in SUBSET Calls : Forget(ks)
Spec == Init /\ [][Next]_call
=============================================================================
