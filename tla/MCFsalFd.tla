------------------------------ MODULE MCFsalFd ------------------------------
(* FsalFd with two threads that do I/O, so that one can be in the middle of *)
(* its I/O while the other needs another mode, one that releases the        *)
(* descriptor and the LRU thread, which tries twice at most.                *)
EXTENDS FsalFd, TLC
CONSTANTS i1, i2, c1, lru
MCIoThreads == {i1, i2}
MCClosers == {c1}
MCReclaimers == {lru}
MCRequests == (i1 :> {{}, {"read"}}) @@ (i2 :> {{"write"}})
=============================================================================
