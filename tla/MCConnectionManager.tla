------------------------ MODULE MCConnectionManager ------------------------
(* Two servers and up to four connections of the client: two of them go to *)
(* each server, so that one may abort or join what the other one started.  *)
EXTENDS ConnectionManager, TLC
CONSTANTS s1, s2, a1, a2, b1, b2
MCServers == {s1, s2}
MCConns == {a1, a2, b1, b2}
MCHome == (a1 :> s1) @@ (a2 :> s1) @@ (b1 :> s2) @@ (b2 :> s2)
MCReconfigured == {s2}
=============================================================================
