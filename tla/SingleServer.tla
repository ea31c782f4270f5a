---------------------------- MODULE SingleServer ----------------------------
(***************************************************************************)
(* What the connection manager promises (include/connection_manager.h):    *)
(* the requests of a client are executed by one server of the cluster at a *)
(* time.  A server takes the client over when no other has it, with the    *)
(* connection that made it do so, and lets go of it only when the last     *)
(* connection is gone, that is, when every request sent to it is over.     *)
(***************************************************************************)
CONSTANTS Servers, Conns, Home, NoServer

VARIABLES owner,  \* the server that executes the client's requests
          open    \* the client's connections that may carry requests

Init == owner = NoServer /\ open = {}

Take(c) ==
    /\ owner = NoServer
    /\ owner' = Home[c]
    /\ open' = {c}

Admit(c) ==
    /\ owner = Home[c]
    /\ open' = open \cup {c}
    /\ UNCHANGED owner

Retire(c) ==
    /\ open' = open \ {c}
    /\ UNCHANGED owner

LetGo ==
    /\ open = {}
    /\ owner' = NoServer
    /\ UNCHANGED open

Next == LetGo \/ \E c \in Conns : Take(c) \/ Admit(c) \/ Retire(c)

Spec == Init /\ [][Next]_<<owner, open>>
=============================================================================
