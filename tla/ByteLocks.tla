----------------------------- MODULE ByteLocks ------------------------------
(* What the lock manager promises to its clients.  The locks are triples   *)
(* of an owner, a byte and a type.  A step changes the locks of one owner: *)
(* it gives up some, or gets some of one type, and gets only those that    *)
(* nobody else has a lock against.                                         *)
CONSTANTS Owners, Offsets
VARIABLE held

Locks == Owners \X Offsets \X {"read", "write"}

Compatible(x, y) == x[1] = y[1] \/ x[2] # y[2] \/ "write" \notin {x[3], y[3]}

Init == held = {}

Change(gained, lost) ==
    /\ \A x, y \in gained \cup lost : x[1] = y[1]
    /\ \A x, y \in gained : x[3] = y[3]
    /\ \A x \in gained, y \in held : Compatible(x, y)

Next == held' \subseteq Locks /\ Change(held' \ held, held \ held')
Spec == Init /\ [][Next]_held
=============================================================================
