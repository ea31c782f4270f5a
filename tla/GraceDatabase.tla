--------------------------- MODULE GraceDatabase ---------------------------
(***************************************************************************)
(* What the shared grace database of a cluster promises: an object that    *)
(* holds the current epoch, the recovery epoch (zero when no grace period  *)
(* is in effect) and the flags of every member, and commands that act on   *)
(* it atomically.                                                          *)
(***************************************************************************)
EXTENDS Naturals

CONSTANT Nodes   \* node ids that can be members of the cluster

VARIABLE obj     \* the database object

NEED == "NEED_GRACE"
ENFORCING == "ENFORCING"
Flags == {NEED, ENFORCING}

Members(o) == DOMAIN o.flags

\* The members whose record carries a flag.
With(o, flag) == {n \in Members(o) : flag \in o.flags[n]}

Objects(epochs) ==
    [cur : epochs, rec : epochs \cup {0},
     flags : UNION {[M -> SUBSET Flags] : M \in SUBSET Nodes}]

\* The object with records replaced or created: f maps nodes to their flags.
SetFlags(o, f) ==
    [o EXCEPT !.flags = [n \in DOMAIN f \cup Members(o) |->
                            IF n \in DOMAIN f THEN f[n] ELSE o.flags[n]]]

Create(M) == [cur |-> 1, rec |-> 0, flags |-> [n \in M |-> {ENFORCING}]]

\* The first grace period: some members need it, some enforce it.
Recovering(M, need, enforcing) ==
    [cur |-> 2, rec |-> 1,
     flags |-> [n \in M |-> (IF n \in need THEN {NEED} ELSE {}) \cup
                            (IF n \in enforcing THEN {ENFORCING} ELSE {})]]

\* Some members and no grace period yet, or the first one in progress.
Init ==
    \E M \in SUBSET Nodes :
        \/ obj = Create(M)
        \/ \E enforcing \in SUBSET M, need \in (SUBSET M) \ {{}} :
               obj = Recovering(M, need, enforcing)

Add(S) ==
    /\ S \cap Members(obj) = {}
    /\ obj' = SetFlags(obj, [n \in S |-> {ENFORCING}])

Enforce(S) ==
    /\ S \subseteq Members(obj)
    /\ obj' = SetFlags(obj, [n \in S |-> obj.flags[n] \cup {ENFORCING}])

NoEnforce(S) ==
    /\ S \subseteq Members(obj)
    /\ obj' = SetFlags(obj, [n \in S |-> obj.flags[n] \ {ENFORCING}])

\* Join the grace period in effect ...
Join(S) ==
    /\ S \subseteq Members(obj)
    /\ obj.rec # 0
    /\ obj' = SetFlags(obj, [n \in S |-> Flags])

\* ... or declare a new one: R = C, C = C + 1.
Start(S) ==
    /\ S \subseteq Members(obj)
    /\ obj.rec = 0
    /\ obj' = [SetFlags(obj, [n \in S |-> Flags])
                 EXCEPT !.rec = obj.cur, !.cur = obj.cur + 1]

\* The grace period ends when no member needs it any more.
EndIfUnneeded(o) == IF With(o, NEED) = {} THEN [o EXCEPT !.rec = 0] ELSE o

\* No record is touched while a member is not yet enforcing.
Lift(S) ==
    /\ S \subseteq Members(obj)
    /\ obj.rec # 0 => With(obj, ENFORCING) = Members(obj)
    /\ obj' = EndIfUnneeded(SetFlags(obj, [n \in S |-> obj.flags[n] \ {NEED}]))

Remove(S) ==
    /\ S \subseteq Members(obj)
    /\ obj.rec # 0 => With(obj, ENFORCING) = Members(obj)
    /\ LET rest == [obj EXCEPT !.flags =
                       [n \in Members(obj) \ S |-> obj.flags[n]]]
       IN  obj' = EndIfUnneeded(rest)

Next ==
    \E S \in (SUBSET Nodes) \ {{}} :
        \/ Add(S) \/ Enforce(S) \/ NoEnforce(S)
        \/ Join(S) \/ Start(S) \/ Lift(S) \/ Remove(S)

Spec == Init /\ [][Next]_obj
=============================================================================
