---------------------------- MODULE MCStateLock -----------------------------
(* StateLock on a file of four bytes, where the last range reaches the end  *)
(* of the offsets and the second is in the middle of the first.             *)
EXTENDS StateLock, TLC
CONSTANTS o1, o2, o3
MCOwners == {o1, o2, o3}
MCRanges == {<<0, 2>>, <<1, 1>>, <<1, 3>>}
MCWanted == (o1 :> {<<"write", <<0, 2>>>>, <<"read", <<1, 3>>>>})
            @@ (o2 :> {<<"write", <<1, 1>>>>, <<"read", <<0, 2>>>>})
            @@ (o3 :> {<<"write", <<1, 3>>>>})
=============================================================================
