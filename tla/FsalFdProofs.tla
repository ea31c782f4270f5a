---------------------------- MODULE FsalFdProofs ----------------------------
(***************************************************************************)
(* Proofs about FsalFd for any number of threads and requests.  The two    *)
(* counters count exactly the threads that have a claim, so that a zero    *)
(* means that nobody has one; a thread gets to work on the descriptor only *)
(* when it reads io_work = 0 with its own claim in fd_work, and to I/O     *)
(* only when it reads fd_work = 0 with its own claim in io_work.           *)
(***************************************************************************)
EXTENDS FsalFd, FiniteSetTheorems, TLAPS

\* Where a thread has a claim in io_work, in fd_work and in lru_reclaim.
IoClaim == {"check", "recheck", "backoff", "flags", "yield", "io"}
FdClaim == {"yield", "reopen_lock", "lull", "reopen_wait", "reopen",
            "close_lock", "close_lull", "close_wait", "closing"}
LruClaim == {"picked", "close_lock", "close_lull", "close_wait", "closing",
             "closed", "reclaimed"}
IoHolders == {t \in IoThreads : pc[t] \in IoClaim}
FdHolders == {t \in Threads : pc[t] \in FdClaim}
LruHolders == {t \in Reclaimers : pc[t] \in LruClaim}

\* The types, as TypeOK states them.
Data ==
    /\ io_work \in Int /\ fd_work \in Int /\ lru_reclaim \in Int
    /\ work_mutex \in Threads \cup {NoThread}
    /\ openflags \in SUBSET {"read", "write"}
    /\ fd_lru \in BOOLEAN /\ restricted \in BOOLEAN
    /\ global_counter \in Int
    /\ mode \in [IoThreads -> Modes]
    /\ retried \subseteq IoThreads /\ outer \subseteq IoThreads
    /\ asleep \subseteq Threads
    /\ requests \in 0 .. MaxRequests /\ reclaims \in 0 .. MaxReclaims

\* Which labels belong to which threads.
Labels ==
    /\ pc \in [Threads -> IoLabels \cup FdLabels]
    /\ \A t \in IoThreads : pc[t] \in IoLabels
    /\ \A t \in Closers \cup Reclaimers : pc[t] \in FdLabels

\* Every claim is counted.
Counts ==
    /\ io_work = Cardinality(IoHolders)
    /\ fd_work = Cardinality(FdHolders)
    /\ lru_reclaim = Cardinality(LruHolders)

\* A releasing thread is never where only the LRU thread can be, and a thread
\* that reopens the descriptor asked for a mode.
LabelInv ==
    /\ \A t \in Closers : pc[t] \notin {"picked", "closed", "reclaimed"}
    /\ \A t \in Reclaimers : pc[t] \notin {"close_wait", "lru_test", "lru_lock",
                                           "lru_wait", "gone"}
    /\ \A t \in IoThreads :
         pc[t] \in {"yield", "reopen_lock", "lull", "reopen_wait", "reopen"}
            => mode[t] # {}

\* work_mutex belongs to the thread that is in a locked section.
MutexInv ==
    \A t \in Threads :
        pc[t] \in {"locked", "lull", "reopen", "close_lull", "closing"} =>
            work_mutex = t

\* While a thread works on the descriptor no other relies on its flags.
NoneRelies ==
    \A t \in Threads : pc[t] \in {"reopen", "closing"} =>
        \A u \in IoThreads : pc[u] \notin {"recheck", "flags", "io"}

Safe == LabelInv /\ MutexInv /\ NoneRelies /\ IoModeAllowed /\ UsableAfterWait

IInv == Data /\ Labels /\ Counts /\ Safe
-----------------------------------------------------------------------------
\* The threads are finitely many.
LEMMA FiniteThreads ==
    /\ IsFiniteSet(IoThreads) /\ IsFiniteSet(Reclaimers) /\ IsFiniteSet(Threads)
<1>1. IoThreads \subseteq Threads /\ Reclaimers \subseteq Threads
  BY DEF Threads
<1> QED BY <1>1, ThreadsAssumption, FS_Subset

\* What the move of one element does to the size of a subset of B.
LEMMA Counting ==
    ASSUME NEW B, IsFiniteSet(B), NEW F \in SUBSET B, NEW G \in SUBSET B,
           NEW t \in B, \A u \in B \ {t} : u \in F <=> u \in G
    PROVE  /\ Cardinality(F) \in Nat /\ Cardinality(G) \in Nat
           /\ t \notin F /\ t \in G => Cardinality(G) = Cardinality(F) + 1
           /\ t \in F /\ t \notin G => Cardinality(G) = Cardinality(F) - 1
           /\ (t \in F <=> t \in G) =>
             Cardinality(G) = Cardinality(F)
<1>1. IsFiniteSet(F) /\ IsFiniteSet(G)
  BY FS_Subset
<1>2. Cardinality(F) \in Nat /\ Cardinality(G) \in Nat
  BY <1>1, FS_CardinalityType
<1>3. ASSUME t \notin F, t \in G PROVE Cardinality(G) = Cardinality(F) + 1
  <2>1. G = F \cup {t}
    BY <1>3
  <2> QED BY <2>1, <1>1, <1>3, FS_AddElement
<1>4. ASSUME t \in F, t \notin G PROVE Cardinality(G) = Cardinality(F) - 1
  <2>1. F = G \cup {t}
    BY <1>4
  <2>2. Cardinality(F) = Cardinality(G) + 1
    BY <2>1, <1>1, <1>4, FS_AddElement
  <2> QED BY <2>2, <1>2
<1>5. ASSUME t \in F <=> t \in G PROVE Cardinality(G) = Cardinality(F)
  <2>1. F = G
    BY <1>5
  <2> QED BY <2>1
<1> QED BY <1>2, <1>3, <1>4, <1>5

\* Exactly one thread moves in a step.
Moves(t) == pc' = [pc EXCEPT ![t] = pc'[t]]

\* Labels stay with the threads they belong to.
LEMMA LabelsKept ==
    ASSUME Labels, NEW t \in Threads, Moves(t),
           pc'[t] \in IF t \in IoThreads THEN IoLabels ELSE FdLabels
    PROVE  Labels'
BY ThreadsAssumption DEF Labels, Moves, Threads

\* What a label is worth in a counter.
Worth(l, C) == IF l \in C THEN 1 ELSE 0

\* How the numbers of claims change when t moves.
LEMMA Moved ==
    ASSUME Data, Labels, Counts, NEW t \in Threads, Moves(t)
    PROVE  /\ Cardinality(FdHolders') =
                fd_work + Worth(pc'[t], FdClaim) - Worth(pc[t], FdClaim)
           /\ t \in IoThreads => Cardinality(IoHolders') =
                io_work + Worth(pc'[t], IoClaim) - Worth(pc[t], IoClaim)
           /\ t \notin IoThreads => Cardinality(IoHolders') = io_work
           /\ t \in Reclaimers => Cardinality(LruHolders') =
                lru_reclaim + Worth(pc'[t], LruClaim) - Worth(pc[t], LruClaim)
           /\ t \notin Reclaimers => Cardinality(LruHolders') = lru_reclaim
<1>1. \A u \in Threads \ {t} : pc'[u] = pc[u]
  BY DEF Moves, Labels
<1>2. IoThreads \subseteq Threads /\ Reclaimers \subseteq Threads
  BY DEF Threads
<1>3. Cardinality(FdHolders') =
        fd_work + Worth(pc'[t], FdClaim) - Worth(pc[t], FdClaim)
  <2>1. /\ FdHolders \in SUBSET Threads /\ FdHolders' \in SUBSET Threads
        /\ \A u \in Threads \ {t} : u \in FdHolders <=> u \in FdHolders'
        /\ t \in FdHolders <=> pc[t] \in FdClaim
        /\ t \in FdHolders' <=> pc'[t] \in FdClaim
    BY <1>1, <1>2 DEF FdHolders
  <2>2. /\ t \notin FdHolders /\ t \in FdHolders' =>
             Cardinality(FdHolders') = Cardinality(FdHolders) + 1
        /\ t \in FdHolders /\ t \notin FdHolders' =>
             Cardinality(FdHolders') = Cardinality(FdHolders) - 1
        /\ (t \in FdHolders <=> t \in FdHolders') =>
             Cardinality(FdHolders') = Cardinality(FdHolders)
    BY <2>1, FiniteThreads, Counting
  <2> QED BY <2>1, <2>2 DEF Counts, Worth, Data
<1>4. ASSUME t \in IoThreads
      PROVE  Cardinality(IoHolders') =
               io_work + Worth(pc'[t], IoClaim) - Worth(pc[t], IoClaim)
  <2>1. /\ IoHolders \in SUBSET IoThreads /\ IoHolders' \in SUBSET IoThreads
        /\ \A u \in IoThreads \ {t} : u \in IoHolders <=> u \in IoHolders'
        /\ t \in IoHolders <=> pc[t] \in IoClaim
        /\ t \in IoHolders' <=> pc'[t] \in IoClaim
    BY <1>1, <1>2, <1>4 DEF IoHolders
  <2>2. /\ t \notin IoHolders /\ t \in IoHolders' =>
             Cardinality(IoHolders') = Cardinality(IoHolders) + 1
        /\ t \in IoHolders /\ t \notin IoHolders' =>
             Cardinality(IoHolders') = Cardinality(IoHolders) - 1
        /\ (t \in IoHolders <=> t \in IoHolders') =>
             Cardinality(IoHolders') = Cardinality(IoHolders)
    BY <2>1, <1>4, FiniteThreads, Counting
  <2> QED BY <2>1, <2>2 DEF Counts, Worth, Data
<1>5. ASSUME t \in Reclaimers
      PROVE  Cardinality(LruHolders') =
               lru_reclaim + Worth(pc'[t], LruClaim) - Worth(pc[t], LruClaim)
  <2>1. /\ LruHolders \in SUBSET Reclaimers /\ LruHolders' \in SUBSET Reclaimers
        /\ \A u \in Reclaimers \ {t} : u \in LruHolders <=> u \in LruHolders'
        /\ t \in LruHolders <=> pc[t] \in LruClaim
        /\ t \in LruHolders' <=> pc'[t] \in LruClaim
    BY <1>1, <1>2, <1>5 DEF LruHolders
  <2>2. /\ t \notin LruHolders /\ t \in LruHolders' =>
             Cardinality(LruHolders') = Cardinality(LruHolders) + 1
        /\ t \in LruHolders /\ t \notin LruHolders' =>
             Cardinality(LruHolders') = Cardinality(LruHolders) - 1
        /\ (t \in LruHolders <=> t \in LruHolders') =>
             Cardinality(LruHolders') = Cardinality(LruHolders)
    BY <2>1, <1>5, FiniteThreads, Counting
  <2> QED BY <2>1, <2>2 DEF Counts, Worth, Data
<1>6. t \notin IoThreads => IoHolders' = IoHolders
  BY <1>1, <1>2 DEF IoHolders
<1>7. t \notin Reclaimers => LruHolders' = LruHolders
  BY <1>1, <1>2 DEF LruHolders
<1> QED BY <1>3, <1>4, <1>5, <1>6, <1>7 DEF Counts

\* What a counter that is zero means.
ZeroMeansNone ==
    /\ io_work = 0 => \A t \in IoThreads : pc[t] \notin IoClaim
    /\ fd_work = 0 => \A t \in Threads : pc[t] \notin FdClaim

\* A counter that is zero means that nobody has a claim.
LEMMA NoClaims == Counts => ZeroMeansNone
<1> SUFFICES ASSUME Counts PROVE ZeroMeansNone
  OBVIOUS
<1>1. IsFiniteSet(IoHolders) /\ IsFiniteSet(FdHolders)
  BY FiniteThreads, FS_Subset DEF IoHolders, FdHolders
<1>2. io_work = 0 => IoHolders = {}
  BY <1>1, FS_EmptySet, Zenon DEF Counts
<1>3. fd_work = 0 => FdHolders = {}
  BY <1>1, FS_EmptySet, Zenon DEF Counts
<1> QED BY <1>2, <1>3 DEF IoHolders, FdHolders, ZeroMeansNone
-----------------------------------------------------------------------------
\* The steps of wait_to_start_io, reopen_fsal_fd and fsal_complete_io.
LEMMA IoPreserves ==
    ASSUME IInv, NEW t \in IoThreads,
           StartIo(t) \/ IoStep(t)
    PROVE  IInv'
<1>1. Data /\ Labels /\ Counts /\ Safe
  BY DEF IInv
<1>2. t \in Threads /\ NoThread \notin Threads
  BY ThreadsAssumption DEF Threads
<1>3. t \in IoThreads /\ t \notin Reclaimers /\ t \notin Closers
  BY ThreadsAssumption
<1>4. CASE StartIo(t)
  <2>1. /\ Moves(t)
        /\ pc[t] = "idle" /\ pc'[t] = "check"
        /\ io_work' = io_work + 1
        /\ UNCHANGED <<fd_work, lru_reclaim>>
    BY <1>1, <1>2, <1>4 DEF Labels, Moves, StartIo, Goto, fdvars
  <2>2. Labels'
    BY <1>1, <1>2, <1>3, <2>1, LabelsKept DEF IoLabels, Starting
  <2>3. Data'
    <3>1. mode' \in [IoThreads -> Modes]
      <4>1. PICK m \in Requests[t] : mode' = [mode EXCEPT ![t] = m]
        BY <1>4, Zenon DEF StartIo
      <4>2. m \in Modes
        BY <1>3, <4>1, ThreadsAssumption
      <4> QED BY <1>1, <4>1, <4>2 DEF Data
    <3>2. requests' \in 0 .. MaxRequests
      BY <1>1, <1>4, ThreadsAssumption DEF Data, StartIo
    <3> QED BY <1>1, <1>4, <3>1, <3>2 DEF Data, StartIo, fdvars
  <2>4. Counts'
    BY <1>1, <1>2, <1>3, <2>1, Moved
    DEF Data, Counts, Worth, IoClaim, FdClaim, LruClaim
  <2>5. Safe'
    BY SMTT(20), <1>1, <1>2, <1>3, <1>4, <2>1, NoClaims
    DEF Data, Labels, Safe, LabelInv, MutexInv, NoneRelies, IoModeAllowed,
        UsableAfterWait, open_correct, ZeroMeansNone, IoClaim, FdClaim, Moves,
        Threads, StartIo, Goto, fdvars
  <2> QED BY <2>2, <2>3, <2>4, <2>5 DEF IInv
<1>5. CASE RetryIo(t)
  <2>1. /\ Moves(t)
        /\ pc[t] = "retry" /\ pc'[t] = "check"
        /\ io_work' = io_work + 1
        /\ UNCHANGED <<fd_work, lru_reclaim>>
    BY <1>1, <1>2, <1>5 DEF Labels, Moves, RetryIo, Goto, fdvars
  <2>2. Labels'
    BY <1>1, <1>2, <1>3, <2>1, LabelsKept DEF IoLabels, Starting
  <2>3. Data'
    BY <1>1, <1>2, <1>3, <1>5
    DEF Data, RetryIo, bounds, fdvars
  <2>4. Counts'
    BY <1>1, <1>2, <1>3, <2>1, Moved
    DEF Data, Counts, Worth, IoClaim, FdClaim, LruClaim
  <2>5. Safe'
    BY SMTT(20), <1>1, <1>2, <1>3, <1>5, <2>1, NoClaims
    DEF Data, Labels, Safe, LabelInv, MutexInv, NoneRelies, IoModeAllowed,
        UsableAfterWait, open_correct, ZeroMeansNone, IoClaim, FdClaim, Moves,
        Threads, RetryIo, Goto, bounds, fdvars
  <2> QED BY <2>2, <2>3, <2>4, <2>5 DEF IInv
<1>6. CASE CheckFdWork(t)
  <2>1. /\ Moves(t)
        /\ pc[t] \in {"check", "recheck"} /\ pc'[t] \in {"flags", "backoff"}
        /\ UNCHANGED <<io_work, fd_work, lru_reclaim>>
    BY <1>1, <1>2, <1>6 DEF Labels, Moves, CheckFdWork, Goto, fdvars
  <2>2. Labels'
    BY <1>1, <1>2, <1>3, <2>1, LabelsKept DEF IoLabels, Starting
  <2>3. Data'
    BY <1>1, <1>2, <1>3, <1>6
    DEF Data, CheckFdWork, bounds, fdvars
  <2>4. Counts'
    BY <1>1, <1>2, <1>3, <2>1, Moved
    DEF Data, Counts, Worth, IoClaim, FdClaim, LruClaim
  <2>5. Safe'
    BY SMTT(20), <1>1, <1>2, <1>3, <1>6, <2>1, NoClaims
    DEF Data, Labels, Safe, LabelInv, MutexInv, NoneRelies, IoModeAllowed,
        UsableAfterWait, open_correct, ZeroMeansNone, IoClaim, FdClaim, Moves,
        Threads, CheckFdWork, Goto, bounds, fdvars
  <2> QED BY <2>2, <2>3, <2>4, <2>5 DEF IInv
<1>7. CASE BackOff(t)
  <2>1. /\ Moves(t)
        /\ pc[t] = "backoff" /\ pc'[t] \in {"relock", "locked"}
        /\ io_work' = io_work - 1
        /\ UNCHANGED <<fd_work, lru_reclaim>>
    BY <1>1, <1>2, <1>7
    DEF Labels, Moves, BackOff, DecLast, DecNotLast, Goto, fdvars
  <2>2. Labels'
    BY <1>1, <1>2, <1>3, <2>1, LabelsKept DEF IoLabels, Starting
  <2>3. Data'
    BY <1>1, <1>2, <1>3, <1>7
    DEF Data, BackOff, DecLast, DecNotLast, Free, Lock, Signal, bounds, fdvars,
        OneOf, IoSleepers, FdSleepers, LruSleepers, Sleeping
  <2>4. Counts'
    BY <1>1, <1>2, <1>3, <2>1, Moved
    DEF Data, Counts, Worth, IoClaim, FdClaim, LruClaim
  <2>5. Safe'
    BY SMTT(20), <1>1, <1>2, <1>3, <1>7, <2>1, NoClaims
    DEF Data, Labels, Safe, LabelInv, MutexInv, NoneRelies, IoModeAllowed,
        UsableAfterWait, open_correct, ZeroMeansNone, IoClaim, FdClaim, Moves,
        Threads, BackOff, DecLast, DecNotLast, Free, Goto, Lock, bounds, fdvars
  <2> QED BY <2>2, <2>3, <2>4, <2>5 DEF IInv
<1>8. CASE Relock(t)
  <2>1. /\ Moves(t)
        /\ \/ pc[t] = "relock" /\ pc'[t] = "locked"
           \/ pc[t] = "reopen_lock" /\ pc'[t] = "lull"
        /\ UNCHANGED <<io_work, fd_work, lru_reclaim>>
    BY <1>1, <1>2, <1>8 DEF Labels, Moves, Relock, Goto, fdvars
  <2>2. Labels'
    BY <1>1, <1>2, <1>3, <2>1, LabelsKept DEF IoLabels, Starting
  <2>3. Data'
    BY <1>1, <1>2, <1>3, <1>8
    DEF Data, Relock, Free, Lock, bounds, fdvars
  <2>4. Counts'
    BY <1>1, <1>2, <1>3, <2>1, Moved
    DEF Data, Counts, Worth, IoClaim, FdClaim, LruClaim
  <2>5. Safe'
    BY SMTT(20), <1>1, <1>2, <1>3, <1>8, <2>1, NoClaims
    DEF Data, Labels, Safe, LabelInv, MutexInv, NoneRelies, IoModeAllowed,
        UsableAfterWait, open_correct, ZeroMeansNone, IoClaim, FdClaim, Moves,
        Threads, Relock, Free, Goto, Lock, bounds, fdvars
  <2> QED BY <2>2, <2>3, <2>4, <2>5 DEF IInv
<1>9. CASE WaitIoCond(t)
  <2>1. /\ Moves(t)
        /\ pc[t] = "locked" /\ pc'[t] = "io_wait"
        /\ UNCHANGED <<io_work, fd_work, lru_reclaim>>
    BY <1>1, <1>2, <1>9 DEF Labels, Moves, WaitIoCond, Goto, fdvars
  <2>2. Labels'
    BY <1>1, <1>2, <1>3, <2>1, LabelsKept DEF IoLabels, Starting
  <2>3. Data'
    BY <1>1, <1>2, <1>3, <1>9
    DEF Data, WaitIoCond, Unlock, bounds, fdvars
  <2>4. Counts'
    BY <1>1, <1>2, <1>3, <2>1, Moved
    DEF Data, Counts, Worth, IoClaim, FdClaim, LruClaim
  <2>5. Safe'
    BY SMTT(20), <1>1, <1>2, <1>3, <1>9, <2>1, NoClaims
    DEF Data, Labels, Safe, LabelInv, MutexInv, NoneRelies, IoModeAllowed,
        UsableAfterWait, open_correct, ZeroMeansNone, IoClaim, FdClaim, Moves,
        Threads, WaitIoCond, Goto, Unlock, bounds, fdvars
  <2> QED BY <2>2, <2>3, <2>4, <2>5 DEF IInv
<1>10. CASE WakeUp(t)
  <2>1. /\ Moves(t)
        /\ \/ pc[t] = "io_wait" /\ pc'[t] = "locked"
           \/ pc[t] = "reopen_wait" /\ pc'[t] = "lull"
           \/ pc[t] = "close_wait" /\ pc'[t] = "close_lull"
        /\ UNCHANGED <<io_work, fd_work, lru_reclaim>>
    BY <1>1, <1>2, <1>10 DEF Labels, Moves, WakeUp, Goto, fdvars
  <2>2. Labels'
    BY <1>1, <1>2, <1>3, <2>1, LabelsKept DEF Labels, IoLabels, Starting
  <2>3. Data'
    BY <1>1, <1>2, <1>3, <1>10
    DEF Data, WakeUp, Free, Lock, bounds, fdvars
  <2>4. Counts'
    BY <1>1, <1>2, <1>3, <2>1, Moved
    DEF Data, Counts, Worth, IoClaim, FdClaim, LruClaim
  <2>5. Safe'
    BY SMTT(20), <1>1, <1>2, <1>3, <1>10, <2>1, NoClaims
    DEF Data, Labels, Safe, LabelInv, MutexInv, NoneRelies, IoModeAllowed,
        UsableAfterWait, open_correct, ZeroMeansNone, IoClaim, FdClaim, Moves,
        Threads, WakeUp, Free, Goto, Lock, bounds, fdvars
  <2> QED BY <2>2, <2>3, <2>4, <2>5 DEF IInv
<1>11. CASE ResumeIo(t)
  <2>1. /\ Moves(t)
        /\ pc[t] = "locked" /\ pc'[t] = "recheck"
        /\ io_work' = io_work + 1
        /\ UNCHANGED <<fd_work, lru_reclaim>>
    BY <1>1, <1>2, <1>11 DEF Labels, Moves, ResumeIo, Goto, fdvars
  <2>2. Labels'
    BY <1>1, <1>2, <1>3, <2>1, LabelsKept DEF IoLabels, Starting
  <2>3. Data'
    BY <1>1, <1>2, <1>3, <1>11
    DEF Data, ResumeIo, Unlock, bounds, fdvars
  <2>4. Counts'
    BY <1>1, <1>2, <1>3, <2>1, Moved
    DEF Data, Counts, Worth, IoClaim, FdClaim, LruClaim
  <2>5. Safe'
    BY SMTT(20), <1>1, <1>2, <1>3, <1>11, <2>1, NoClaims
    DEF Data, Labels, Safe, LabelInv, MutexInv, NoneRelies, IoModeAllowed,
        UsableAfterWait, open_correct, ZeroMeansNone, IoClaim, FdClaim, Moves,
        Threads, ResumeIo, Goto, Unlock, bounds, fdvars
  <2> QED BY <2>2, <2>3, <2>4, <2>5 DEF IInv
<1>12. CASE GiveUpLocked(t)
  <2>1. /\ Moves(t)
        /\ pc[t] = "locked" /\ pc'[t] = "idle"
        /\ UNCHANGED <<io_work, fd_work, lru_reclaim>>
    BY <1>1, <1>2, <1>12 DEF Labels, Moves, GiveUpLocked, Goto, fdvars
  <2>2. Labels'
    BY <1>1, <1>2, <1>3, <2>1, LabelsKept DEF IoLabels, Starting
  <2>3. Data'
    BY <1>1, <1>2, <1>3, <1>12
    DEF Data, GiveUpLocked, Forget, Unlock, bounds, fdvars, Modes, OneOf,
        IoSleepers, FdSleepers, LruSleepers, Sleeping
  <2>4. Counts'
    BY <1>1, <1>2, <1>3, <2>1, Moved
    DEF Data, Counts, Worth, IoClaim, FdClaim, LruClaim
  <2>5. Safe'
    BY SMTT(20), <1>1, <1>2, <1>3, <1>12, <2>1, NoClaims
    DEF Data, Labels, Safe, LabelInv, MutexInv, NoneRelies, IoModeAllowed,
        UsableAfterWait, open_correct, ZeroMeansNone, IoClaim, FdClaim, Moves,
        Threads, GiveUpLocked, Forget, Goto, Unlock, bounds, fdvars
  <2> QED BY <2>2, <2>3, <2>4, <2>5 DEF IInv
<1>13. CASE ReopenLocked(t)
  <2>1. /\ Moves(t)
        /\ pc[t] = "locked" /\ pc'[t] = "lull"
        /\ fd_work' = fd_work + 1
        /\ UNCHANGED <<io_work, lru_reclaim>>
    BY <1>1, <1>2, <1>13 DEF Labels, Moves, ReopenLocked, Goto, fdvars
  <2>2. Labels'
    BY <1>1, <1>2, <1>3, <2>1, LabelsKept DEF IoLabels, Starting
  <2>3. Data'
    BY <1>1, <1>2, <1>3, <1>13
    DEF Data, ReopenLocked, bounds, fdvars
  <2>4. Counts'
    BY <1>1, <1>2, <1>3, <2>1, Moved
    DEF Data, Counts, Worth, IoClaim, FdClaim, LruClaim
  <2>5. Safe'
    BY SMTT(20), <1>1, <1>2, <1>3, <1>13, <2>1, NoClaims
    DEF Data, Labels, Safe, LabelInv, MutexInv, NoneRelies, IoModeAllowed,
        UsableAfterWait, open_correct, ZeroMeansNone, IoClaim, FdClaim, Moves,
        Threads, ReopenLocked, Goto, bounds, fdvars
  <2> QED BY <2>2, <2>3, <2>4, <2>5 DEF IInv
<1>14. CASE UseFd(t)
  <2>1. /\ Moves(t)
        /\ pc[t] = "flags" /\ pc'[t] = "io"
        /\ UNCHANGED <<io_work, fd_work, lru_reclaim>>
    BY <1>1, <1>2, <1>14 DEF Labels, Moves, UseFd, Goto, fdvars
  <2>2. Labels'
    BY <1>1, <1>2, <1>3, <2>1, LabelsKept DEF IoLabels, Starting
  <2>3. Data'
    BY <1>1, <1>2, <1>3, <1>14
    DEF Data, UseFd, bounds, fdvars
  <2>4. Counts'
    BY <1>1, <1>2, <1>3, <2>1, Moved
    DEF Data, Counts, Worth, IoClaim, FdClaim, LruClaim
  <2>5. Safe'
    BY SMTT(20), <1>1, <1>2, <1>3, <1>14, <2>1, NoClaims
    DEF Data, Labels, Safe, LabelInv, MutexInv, NoneRelies, IoModeAllowed,
        UsableAfterWait, open_correct, ZeroMeansNone, IoClaim, FdClaim, Moves,
        Threads, UseFd, Goto, bounds, fdvars
  <2> QED BY <2>2, <2>3, <2>4, <2>5 DEF IInv
<1>15. CASE GiveUp(t)
  <2>1. /\ Moves(t)
        /\ pc[t] = "flags" /\ pc'[t] = "idle"
        /\ io_work' = io_work - 1
        /\ UNCHANGED <<fd_work, lru_reclaim>>
    BY <1>1, <1>2, <1>15
    DEF Labels, Moves, GiveUp, DecLast, DecNotLast, Goto, fdvars
  <2>2. Labels'
    BY <1>1, <1>2, <1>3, <2>1, LabelsKept DEF IoLabels, Starting
  <2>3. Data'
    BY <1>1, <1>2, <1>3, <1>15
    DEF Data, GiveUp, DecLast, DecNotLast, Forget, Free, Signal, bounds,
        fdvars, Modes, OneOf, IoSleepers, FdSleepers, LruSleepers, Sleeping
  <2>4. Counts'
    BY <1>1, <1>2, <1>3, <2>1, Moved
    DEF Data, Counts, Worth, IoClaim, FdClaim, LruClaim
  <2>5. Safe'
    BY SMTT(20), <1>1, <1>2, <1>3, <1>15, <2>1, NoClaims
    DEF Data, Labels, Safe, LabelInv, MutexInv, NoneRelies, IoModeAllowed,
        UsableAfterWait, open_correct, ZeroMeansNone, IoClaim, FdClaim, Moves,
        Threads, GiveUp, DecLast, DecNotLast, Forget, Free, Goto, bounds,
        fdvars
  <2> QED BY <2>2, <2>3, <2>4, <2>5 DEF IInv
<1>16. CASE Reopen(t)
  <2>1. /\ Moves(t)
        /\ pc[t] = "flags" /\ pc'[t] = "yield"
        /\ fd_work' = fd_work + 1
        /\ UNCHANGED <<io_work, lru_reclaim>>
    BY <1>1, <1>2, <1>16 DEF Labels, Moves, Reopen, Goto, fdvars
  <2>2. Labels'
    BY <1>1, <1>2, <1>3, <2>1, LabelsKept DEF IoLabels, Starting
  <2>3. Data'
    BY <1>1, <1>2, <1>3, <1>16
    DEF Data, Reopen, bounds, fdvars
  <2>4. Counts'
    BY <1>1, <1>2, <1>3, <2>1, Moved
    DEF Data, Counts, Worth, IoClaim, FdClaim, LruClaim
  <2>5. Safe'
    BY SMTT(20), <1>1, <1>2, <1>3, <1>16, <2>1, NoClaims
    DEF Data, Labels, Safe, LabelInv, MutexInv, NoneRelies, IoModeAllowed,
        UsableAfterWait, open_correct, ZeroMeansNone, IoClaim, FdClaim, Moves,
        Threads, Reopen, Goto, bounds, fdvars
  <2> QED BY <2>2, <2>3, <2>4, <2>5 DEF IInv
<1>17. CASE YieldIo(t)
  <2>1. /\ Moves(t)
        /\ pc[t] = "yield" /\ pc'[t] \in {"reopen_lock", "reopen"}
        /\ io_work' = io_work - 1
        /\ UNCHANGED <<fd_work, lru_reclaim>>
    BY <1>1, <1>2, <1>17
    DEF Labels, Moves, YieldIo, DecLast, DecNotLast, Goto, fdvars
  <2>2. Labels'
    BY <1>1, <1>2, <1>3, <2>1, LabelsKept DEF IoLabels, Starting
  <2>3. Data'
    BY <1>1, <1>2, <1>3, <1>17
    DEF Data, YieldIo, DecLast, DecNotLast, Free, Lock, bounds, fdvars
  <2>4. Counts'
    BY <1>1, <1>2, <1>3, <2>1, Moved
    DEF Data, Counts, Worth, IoClaim, FdClaim, LruClaim
  <2>6. ZeroMeansNone'
    <3>1. (Counts => ZeroMeansNone)'
      BY NoClaims, PTL
    <3> QED BY <2>4, <3>1
  <2>5. Safe'
    <3>1. NoneRelies'
      BY <1>1, <1>2, <1>3, <1>17, <2>1, <2>6
      DEF Labels, Safe, MutexInv, NoneRelies, ZeroMeansNone, IoClaim, Moves,
          YieldIo, Goto, Lock, Free, DecLast, Threads
    <3>2. LabelInv' /\ MutexInv'
      BY <1>1, <1>2, <1>3, <1>17, <2>1
      DEF Labels, Safe, LabelInv, MutexInv, Moves, YieldIo, Goto, Lock, Free,
          Threads
    <3>3. IoModeAllowed' /\ UsableAfterWait'
      BY <1>1, <1>2, <1>3, <1>17, <2>1
      DEF Labels, Safe, IoModeAllowed, UsableAfterWait, open_correct, Moves,
          YieldIo, fdvars, Threads
    <3> QED BY <3>1, <3>2, <3>3 DEF Safe
  <2> QED BY <2>2, <2>3, <2>4, <2>5 DEF IInv
<1>18. CASE AwaitLull(t)
  <2>1. /\ Moves(t)
        /\ pc[t] = "lull" /\ pc'[t] \in {"reopen_wait", "reopen"}
        /\ UNCHANGED <<io_work, fd_work, lru_reclaim>>
    BY <1>1, <1>2, <1>18 DEF Labels, Moves, AwaitLull, Goto, fdvars
  <2>2. Labels'
    BY <1>1, <1>2, <1>3, <2>1, LabelsKept DEF IoLabels, Starting
  <2>3. Data'
    BY <1>1, <1>2, <1>3, <1>18
    DEF Data, AwaitLull, Unlock, bounds, fdvars
  <2>4. Counts'
    BY <1>1, <1>2, <1>3, <2>1, Moved
    DEF Data, Counts, Worth, IoClaim, FdClaim, LruClaim
  <2>5. Safe'
    BY SMTT(20), <1>1, <1>2, <1>3, <1>18, <2>1, NoClaims
    DEF Data, Labels, Safe, LabelInv, MutexInv, NoneRelies, IoModeAllowed,
        UsableAfterWait, open_correct, ZeroMeansNone, IoClaim, FdClaim, Moves,
        Threads, AwaitLull, Goto, Unlock, bounds, fdvars
  <2> QED BY <2>2, <2>3, <2>4, <2>5 DEF IInv
<1>19. CASE FinishReopen(t)
  <2>1. /\ Moves(t)
        /\ pc[t] = "reopen"
        /\ \/ pc'[t] = "retry" /\ UNCHANGED io_work
           \/ pc'[t] = "recheck" /\ io_work' = io_work + 1
        /\ fd_work' = fd_work - 1
        /\ UNCHANGED lru_reclaim
    BY <1>1, <1>2, <1>19
    DEF Labels, Moves, FinishReopen, FdWorkDone, Goto, fdvars
  <2>2. Labels'
    BY <1>1, <1>2, <1>3, <2>1, LabelsKept DEF IoLabels, Starting
  <2>3. Data'
    <3>1. asleep' \subseteq Threads /\ fd_work' \in Int
      BY <1>1, <1>19
      DEF Data, FinishReopen, FdWorkDone, OneOf, FdSleepers, IoSleepers,
          Sleeping
    <3>2. mode[t] \in SUBSET {"read", "write"}
      BY <1>1, <1>3 DEF Data, Modes
    <3>3. Combined(t) \in SUBSET {"read", "write"}
      BY <1>1, <1>3 DEF Data, Modes, Combined, Wanted, Wanting
    <3>4. \/ UNCHANGED fdvars
          \/ \E m \in SUBSET {"read", "write"} : Open(m)
      BY <1>19, <3>2, <3>3 DEF FinishReopen, Reopened
    <3>5. openflags' \in SUBSET {"read", "write"}
      BY <1>1, <3>4, Zenon DEF Data, Open, fdvars
    <3>6. fd_lru' \in BOOLEAN
      BY <1>1, <3>4, Zenon DEF Data, Open, fdvars
    <3>7. global_counter' \in Int
      BY <1>1, <3>4 DEF Data, Open, fdvars
    <3>8. io_work' \in Int /\ retried' \subseteq IoThreads
      BY <1>1, <1>3, <1>19 DEF Data, FinishReopen
    <3> QED BY <1>1, <1>19, <3>1, <3>5, <3>6, <3>7, <3>8
        DEF Data, FinishReopen, Unlock, bounds
  <2>4. Counts'
    BY <1>1, <1>2, <1>3, <2>1, Moved
    DEF Data, Counts, Worth, IoClaim, FdClaim, LruClaim
  <2>5. Safe'
    BY SMTT(20), <1>1, <1>2, <1>3, <1>19, <2>1, NoClaims
    DEF Data, Labels, Safe, LabelInv, MutexInv, NoneRelies, IoModeAllowed,
        UsableAfterWait, open_correct, ZeroMeansNone, IoClaim, FdClaim, Moves,
        Threads, FinishReopen, Combined, Goto, Open, Reopened, Unlock, bounds,
        fdvars
  <2> QED BY <2>2, <2>3, <2>4, <2>5 DEF IInv
<1>20. CASE FailReopen(t)
  <2>1. /\ Moves(t)
        /\ pc[t] = "reopen" /\ pc'[t] = "idle"
        /\ fd_work' = fd_work - 1
        /\ UNCHANGED <<io_work, lru_reclaim>>
    BY <1>1, <1>2, <1>20
    DEF Labels, Moves, FailReopen, FdWorkDone, Goto, fdvars
  <2>2. Labels'
    BY <1>1, <1>2, <1>3, <2>1, LabelsKept DEF IoLabels, Starting
  <2>3. Data'
    BY <1>1, <1>2, <1>3, <1>20
    DEF Data, FailReopen, Combined, FdWorkDone, Forget, Unlock, bounds, fdvars,
        Modes, OneOf, IoSleepers, FdSleepers, LruSleepers, Sleeping
  <2>4. Counts'
    BY <1>1, <1>2, <1>3, <2>1, Moved
    DEF Data, Counts, Worth, IoClaim, FdClaim, LruClaim
  <2>5. Safe'
    BY SMTT(20), <1>1, <1>2, <1>3, <1>20, <2>1, NoClaims
    DEF Data, Labels, Safe, LabelInv, MutexInv, NoneRelies, IoModeAllowed,
        UsableAfterWait, open_correct, ZeroMeansNone, IoClaim, FdClaim, Moves,
        Threads, FailReopen, Combined, Forget, Goto, Unlock, bounds, fdvars
  <2> QED BY <2>2, <2>3, <2>4, <2>5 DEF IInv
<1>21. CASE CompleteIo(t)
  <2>1. /\ Moves(t)
        /\ pc[t] = "io" /\ pc'[t] = "bump"
        /\ io_work' = io_work - 1
        /\ UNCHANGED <<fd_work, lru_reclaim>>
    BY <1>1, <1>2, <1>21
    DEF Labels, Moves, CompleteIo, DecLast, DecNotLast, Goto, fdvars
  <2>2. Labels'
    BY <1>1, <1>2, <1>3, <2>1, LabelsKept DEF IoLabels, Starting
  <2>3. Data'
    BY <1>1, <1>2, <1>3, <1>21
    DEF Data, CompleteIo, DecLast, DecNotLast, Forget, Free, Lock, Signal,
        bounds, fdvars, Modes, OneOf, IoSleepers, FdSleepers, LruSleepers,
        Sleeping
  <2>4. Counts'
    BY <1>1, <1>2, <1>3, <2>1, Moved
    DEF Data, Counts, Worth, IoClaim, FdClaim, LruClaim
  <2>5. Safe'
    BY SMTT(20), <1>1, <1>2, <1>3, <1>21, <2>1, NoClaims
    DEF Data, Labels, Safe, LabelInv, MutexInv, NoneRelies, IoModeAllowed,
        UsableAfterWait, open_correct, ZeroMeansNone, IoClaim, FdClaim, Moves,
        Threads, CompleteIo, DecLast, DecNotLast, Forget, Free, Goto, Lock,
        bounds, fdvars
  <2> QED BY <2>2, <2>3, <2>4, <2>5 DEF IInv
<1>22. CASE BumpLru(t)
  <2>1. /\ Moves(t)
        /\ pc[t] = "bump" /\ pc'[t] = "idle"
        /\ UNCHANGED <<io_work, fd_work, lru_reclaim>>
    BY <1>1, <1>2, <1>22 DEF Labels, Moves, BumpLru, Goto
  <2>2. Labels'
    BY <1>1, <1>2, <1>3, <2>1, LabelsKept DEF IoLabels, Starting
  <2>3. Data'
    BY <1>1, <1>2, <1>3, <1>22
    DEF Data, BumpLru, Unlock, bounds
  <2>4. Counts'
    BY <1>1, <1>2, <1>3, <2>1, Moved
    DEF Data, Counts, Worth, IoClaim, FdClaim, LruClaim
  <2>5. Safe'
    BY SMTT(20), <1>1, <1>2, <1>3, <1>22, <2>1, NoClaims
    DEF Data, Labels, Safe, LabelInv, MutexInv, NoneRelies, IoModeAllowed,
        UsableAfterWait, open_correct, ZeroMeansNone, IoClaim, FdClaim, Moves,
        Threads, BumpLru, Goto, Unlock, bounds
  <2> QED BY <2>2, <2>3, <2>4, <2>5 DEF IInv
<1> QED BY <1>4, <1>5, <1>6, <1>7, <1>8, <1>9, <1>10, <1>11, <1>12, <1>13,
           <1>14, <1>15, <1>16, <1>17, <1>18, <1>19, <1>20, <1>21, <1>22
    DEF IoStep

\* The steps of close_fsal_fd and lru_try_one.
LEMMA FdPreserves ==
    ASSUME IInv, NEW t \in Closers \cup Reclaimers,
           (t \in Reclaimers /\ TryOne(t)) \/ StartFdWork(t) \/ FdStep(t)
    PROVE  IInv'
<1>1. Data /\ Labels /\ Counts /\ Safe
  BY DEF IInv
<1>2. t \in Threads /\ NoThread \notin Threads
  BY ThreadsAssumption DEF Threads
<1>3. t \notin IoThreads /\ (t \in Closers <=> t \notin Reclaimers)
  BY ThreadsAssumption
<1>4. CASE t \in Reclaimers /\ TryOne(t)
  <2>1. /\ Moves(t)
        /\ pc[t] = "idle" /\ pc'[t] = "picked"
        /\ lru_reclaim' = lru_reclaim + 1
        /\ UNCHANGED <<io_work, fd_work>>
    BY <1>1, <1>2, <1>4 DEF Labels, Moves, TryOne, Goto, fdvars
  <2>2. Labels'
    BY SMTT(20), <1>1, <1>2, <1>3, <2>1, LabelsKept DEF FdLabels
  <2>3. Data'
    BY SMTT(20), <1>1, <1>2, <1>4, ThreadsAssumption DEF Data, TryOne, fdvars
  <2>4. Counts'
    BY <1>1, <1>2, <1>3, <1>4, <2>1, Moved
    DEF Data, Counts, Worth, IoClaim, FdClaim, LruClaim
  <2>5. Safe'
    BY SMTT(20), <1>1, <1>2, <1>3, <1>4, <2>1, NoClaims
    DEF Data, Labels, Safe, LabelInv, MutexInv, NoneRelies, IoModeAllowed,
        UsableAfterWait, open_correct, ZeroMeansNone, IoClaim, FdClaim, Moves,
        Threads, TryOne, Goto, fdvars
  <2> QED BY <2>2, <2>3, <2>4, <2>5 DEF IInv
<1>5. CASE StartFdWork(t)
  <2>1. /\ Moves(t)
        /\ pc[t] = IF t \in Reclaimers THEN "picked" ELSE "idle"
        /\ pc'[t] = "close_lock"
        /\ fd_work' = fd_work + 1
        /\ UNCHANGED <<io_work, lru_reclaim>>
    BY <1>1, <1>2, <1>5 DEF Labels, Moves, StartFdWork, Goto, fdvars
  <2>2. Labels'
    BY SMTT(20), <1>1, <1>2, <1>3, <2>1, LabelsKept DEF FdLabels
  <2>3. Data'
    BY SMTT(20), <1>1, <1>2, <1>5
    DEF Data, StartFdWork, bounds, fdvars
  <2>4. Counts'
    BY <1>1, <1>2, <1>3, <2>1, Moved
    DEF Data, Counts, Worth, IoClaim, FdClaim, LruClaim
  <2>5. Safe'
    BY SMTT(20), <1>1, <1>2, <1>3, <1>5, <2>1, NoClaims
    DEF Data, Labels, Safe, LabelInv, MutexInv, NoneRelies, IoModeAllowed,
        UsableAfterWait, open_correct, ZeroMeansNone, IoClaim, FdClaim, Moves,
        Threads, StartFdWork, Goto, bounds, fdvars
  <2> QED BY <2>2, <2>3, <2>4, <2>5 DEF IInv
<1>6. CASE LockFdWork(t)
  <2>1. /\ Moves(t)
        /\ pc[t] = "close_lock" /\ pc'[t] = "close_lull"
        /\ UNCHANGED <<io_work, fd_work, lru_reclaim>>
    BY <1>1, <1>2, <1>6 DEF Labels, Moves, LockFdWork, Goto, fdvars
  <2>2. Labels'
    BY SMTT(20), <1>1, <1>2, <1>3, <2>1, LabelsKept DEF FdLabels
  <2>3. Data'
    BY SMTT(20), <1>1, <1>2, <1>6
    DEF Data, LockFdWork, Free, Lock, bounds, fdvars
  <2>4. Counts'
    BY <1>1, <1>2, <1>3, <2>1, Moved
    DEF Data, Counts, Worth, IoClaim, FdClaim, LruClaim
  <2>5. Safe'
    BY SMTT(20), <1>1, <1>2, <1>3, <1>6, <2>1, NoClaims
    DEF Data, Labels, Safe, LabelInv, MutexInv, NoneRelies, IoModeAllowed,
        UsableAfterWait, open_correct, ZeroMeansNone, IoClaim, FdClaim, Moves,
        Threads, LockFdWork, Free, Goto, Lock, bounds, fdvars
  <2> QED BY <2>2, <2>3, <2>4, <2>5 DEF IInv
<1>7. CASE AwaitClose(t)
  <2>1. /\ Moves(t)
        /\ pc[t] = "close_lull" /\ pc'[t] = "close_wait"
        /\ t \in Closers
        /\ UNCHANGED <<io_work, fd_work, lru_reclaim>>
    BY <1>1, <1>2, <1>7 DEF Labels, Moves, AwaitClose, Goto, fdvars
  <2>2. Labels'
    BY SMTT(20), <1>1, <1>2, <1>3, <2>1, LabelsKept DEF FdLabels
  <2>3. Data'
    BY SMTT(20), <1>1, <1>2, <1>7
    DEF Data, AwaitClose, Unlock, bounds, fdvars
  <2>4. Counts'
    BY <1>1, <1>2, <1>3, <2>1, Moved
    DEF Data, Counts, Worth, IoClaim, FdClaim, LruClaim
  <2>5. Safe'
    BY SMTT(20), <1>1, <1>2, <1>3, <1>7, <2>1, NoClaims
    DEF Data, Labels, Safe, LabelInv, MutexInv, NoneRelies, IoModeAllowed,
        UsableAfterWait, open_correct, ZeroMeansNone, IoClaim, FdClaim, Moves,
        Threads, AwaitClose, Goto, Unlock, bounds, fdvars
  <2> QED BY <2>2, <2>3, <2>4, <2>5 DEF IInv
<1>8. CASE WakeUp(t)
  <2>1. /\ Moves(t)
        /\ \/ pc[t] = "io_wait" /\ pc'[t] = "locked"
           \/ pc[t] = "reopen_wait" /\ pc'[t] = "lull"
           \/ pc[t] = "close_wait" /\ pc'[t] = "close_lull"
        /\ UNCHANGED <<io_work, fd_work, lru_reclaim>>
    BY <1>1, <1>2, <1>8 DEF Labels, Moves, WakeUp, Goto, fdvars
  <2>2. Labels'
    BY SMTT(20), <1>1, <1>2, <1>3, <2>1, LabelsKept DEF Labels, FdLabels
  <2>3. Data'
    BY SMTT(20), <1>1, <1>2, <1>8
    DEF Data, WakeUp, Free, Lock, bounds, fdvars
  <2>4. Counts'
    BY <1>1, <1>2, <1>3, <2>1, Moved
    DEF Data, Counts, Worth, IoClaim, FdClaim, LruClaim
  <2>5. Safe'
    BY SMTT(20), <1>1, <1>2, <1>3, <1>8, <2>1, NoClaims
    DEF Data, Labels, Safe, LabelInv, MutexInv, NoneRelies, IoModeAllowed,
        UsableAfterWait, open_correct, ZeroMeansNone, IoClaim, FdClaim, Moves,
        Threads, WakeUp, Free, Goto, Lock, bounds, fdvars
  <2> QED BY <2>2, <2>3, <2>4, <2>5 DEF IInv
<1>9. CASE SkipBusy(t)
  <2>1. /\ Moves(t)
        /\ pc[t] = "close_lull" /\ pc'[t] = "reclaimed"
        /\ t \in Reclaimers
        /\ fd_work' = fd_work - 1
        /\ UNCHANGED <<io_work, lru_reclaim>>
    BY <1>1, <1>2, <1>9 DEF Labels, Moves, SkipBusy, FdWorkDone, Goto
  <2>2. Labels'
    BY SMTT(20), <1>1, <1>2, <1>3, <2>1, LabelsKept DEF FdLabels
  <2>3. Data'
    BY SMTT(20), <1>1, <1>2, <1>9
    DEF Data, SkipBusy, FdWorkDone, Unlock, bounds, OneOf, IoSleepers,
        FdSleepers, LruSleepers, Sleeping
  <2>4. Counts'
    BY <1>1, <1>2, <1>3, <2>1, Moved
    DEF Data, Counts, Worth, IoClaim, FdClaim, LruClaim
  <2>5. Safe'
    BY SMTT(20), <1>1, <1>2, <1>3, <1>9, <2>1, NoClaims
    DEF Data, Labels, Safe, LabelInv, MutexInv, NoneRelies, IoModeAllowed,
        UsableAfterWait, open_correct, ZeroMeansNone, IoClaim, FdClaim, Moves,
        Threads, SkipBusy, Goto, Unlock, bounds
  <2> QED BY <2>2, <2>3, <2>4, <2>5 DEF IInv
<1>10. CASE BeginClose(t)
  <2>1. /\ Moves(t)
        /\ pc[t] = "close_lull" /\ pc'[t] = "closing"
        /\ UNCHANGED <<io_work, fd_work, lru_reclaim>>
    BY <1>1, <1>2, <1>10 DEF Labels, Moves, BeginClose, Goto, fdvars
  <2>2. Labels'
    BY SMTT(20), <1>1, <1>2, <1>3, <2>1, LabelsKept DEF FdLabels
  <2>3. Data'
    BY SMTT(20), <1>1, <1>2, <1>10
    DEF Data, BeginClose, bounds, fdvars
  <2>4. Counts'
    BY <1>1, <1>2, <1>3, <2>1, Moved
    DEF Data, Counts, Worth, IoClaim, FdClaim, LruClaim
  <2>5. Safe'
    BY SMTT(20), <1>1, <1>2, <1>3, <1>10, <2>1, NoClaims
    DEF Data, Labels, Safe, LabelInv, MutexInv, NoneRelies, IoModeAllowed,
        UsableAfterWait, open_correct, ZeroMeansNone, IoClaim, FdClaim, Moves,
        Threads, BeginClose, Goto, bounds, fdvars
  <2> QED BY <2>2, <2>3, <2>4, <2>5 DEF IInv
<1>11. CASE FinishClose(t)
  <2>1. /\ Moves(t)
        /\ pc[t] = "closing"
        /\ pc'[t] = IF t \in Reclaimers THEN "closed" ELSE "lru_test"
        /\ fd_work' = fd_work - 1
        /\ UNCHANGED <<io_work, lru_reclaim>>
    BY <1>1, <1>2, <1>11 DEF Labels, Moves, FinishClose, FdWorkDone, Goto
  <2>2. Labels'
    BY SMTT(20), <1>1, <1>2, <1>3, <2>1, LabelsKept DEF FdLabels
  <2>3. Data'
    <3>1. asleep' \subseteq Threads /\ fd_work' \in Int
      BY <1>1, <1>11
      DEF Data, FinishClose, FdWorkDone, OneOf, FdSleepers, IoSleepers,
          Sleeping
    <3>2. global_counter' \in Int
      BY <1>1, <1>11 DEF Data, FinishClose
    <3> QED BY <1>1, <1>11, <3>1, <3>2, Zenon
        DEF Data, FinishClose, Unlock, bounds
  <2>4. Counts'
    BY <1>1, <1>2, <1>3, <2>1, Moved
    DEF Data, Counts, Worth, IoClaim, FdClaim, LruClaim
  <2>5. Safe'
    BY SMTT(20), <1>1, <1>2, <1>3, <1>11, <2>1, NoClaims
    DEF Data, Labels, Safe, LabelInv, MutexInv, NoneRelies, IoModeAllowed,
        UsableAfterWait, open_correct, ZeroMeansNone, IoClaim, FdClaim, Moves,
        Threads, FinishClose, Goto, Unlock, bounds
  <2> QED BY <2>2, <2>3, <2>4, <2>5 DEF IInv
<1>12. CASE SignalClosed(t)
  <2>1. /\ Moves(t)
        /\ pc[t] = "closed" /\ pc'[t] = "reclaimed"
        /\ UNCHANGED <<io_work, fd_work, lru_reclaim>>
    BY <1>1, <1>2, <1>12 DEF Labels, Moves, SignalClosed, Goto, fdvars
  <2>2. Labels'
    BY SMTT(20), <1>1, <1>2, <1>3, <2>1, LabelsKept DEF FdLabels
  <2>3. Data'
    BY SMTT(20), <1>1, <1>2, <1>12
    DEF Data, SignalClosed, Signal, bounds, fdvars, OneOf, IoSleepers,
        FdSleepers, LruSleepers, Sleeping
  <2>4. Counts'
    BY <1>1, <1>2, <1>3, <2>1, Moved
    DEF Data, Counts, Worth, IoClaim, FdClaim, LruClaim
  <2>5. Safe'
    BY SMTT(20), <1>1, <1>2, <1>3, <1>12, <2>1, NoClaims
    DEF Data, Labels, Safe, LabelInv, MutexInv, NoneRelies, IoModeAllowed,
        UsableAfterWait, open_correct, ZeroMeansNone, IoClaim, FdClaim, Moves,
        Threads, SignalClosed, Goto, bounds, fdvars
  <2> QED BY <2>2, <2>3, <2>4, <2>5 DEF IInv
<1>13. CASE TriedOne(t)
  <2>1. /\ Moves(t)
        /\ pc[t] = "reclaimed" /\ pc'[t] = "idle"
        /\ t \in Reclaimers
        /\ lru_reclaim' = lru_reclaim - 1
        /\ UNCHANGED <<io_work, fd_work>>
    BY <1>1, <1>2, <1>3, <1>13
    DEF Safe, LabelInv, Labels, Moves, TriedOne, Goto, fdvars
  <2>2. Labels'
    BY SMTT(20), <1>1, <1>2, <1>3, <2>1, LabelsKept DEF FdLabels
  <2>3. Data'
    BY SMTT(20), <1>1, <1>2, <1>13
    DEF Data, TriedOne, Signal, bounds, fdvars, OneOf, IoSleepers, FdSleepers,
        LruSleepers, Sleeping
  <2>4. Counts'
    BY <1>1, <1>2, <1>3, <2>1, Moved
    DEF Data, Counts, Worth, IoClaim, FdClaim, LruClaim
  <2>5. Safe'
    BY SMTT(20), <1>1, <1>2, <1>3, <1>13, <2>1, NoClaims
    DEF Data, Labels, Safe, LabelInv, MutexInv, NoneRelies, IoModeAllowed,
        UsableAfterWait, open_correct, ZeroMeansNone, IoClaim, FdClaim, Moves,
        Threads, TriedOne, Goto, bounds, fdvars
  <2> QED BY <2>2, <2>3, <2>4, <2>5 DEF IInv
<1>14. CASE TestReclaim(t)
  <2>1. /\ Moves(t)
        /\ pc[t] \in {"lru_test", "lru_wait"} /\ pc'[t] \in {"gone", "lru_lock"}
        /\ UNCHANGED <<io_work, fd_work, lru_reclaim>>
    BY <1>1, <1>2, <1>14 DEF Labels, Moves, TestReclaim, Goto, fdvars
  <2>2. Labels'
    BY SMTT(20), <1>1, <1>2, <1>3, <2>1, LabelsKept DEF FdLabels
  <2>3. Data'
    BY SMTT(20), <1>1, <1>2, <1>14
    DEF Data, TestReclaim, bounds, fdvars
  <2>4. Counts'
    BY <1>1, <1>2, <1>3, <2>1, Moved
    DEF Data, Counts, Worth, IoClaim, FdClaim, LruClaim
  <2>5. Safe'
    BY SMTT(20), <1>1, <1>2, <1>3, <1>14, <2>1, NoClaims
    DEF Data, Labels, Safe, LabelInv, MutexInv, NoneRelies, IoModeAllowed,
        UsableAfterWait, open_correct, ZeroMeansNone, IoClaim, FdClaim, Moves,
        Threads, TestReclaim, Goto, bounds, fdvars
  <2> QED BY <2>2, <2>3, <2>4, <2>5 DEF IInv
<1>15. CASE WaitReclaim(t)
  <2>1. /\ Moves(t)
        /\ pc[t] = "lru_lock" /\ pc'[t] = "lru_wait"
        /\ UNCHANGED <<io_work, fd_work, lru_reclaim>>
    BY <1>1, <1>2, <1>15 DEF Labels, Moves, WaitReclaim, Goto, fdvars
  <2>2. Labels'
    BY SMTT(20), <1>1, <1>2, <1>3, <2>1, LabelsKept DEF FdLabels
  <2>3. Data'
    BY SMTT(20), <1>1, <1>2, <1>15
    DEF Data, WaitReclaim, bounds, fdvars
  <2>4. Counts'
    BY <1>1, <1>2, <1>3, <2>1, Moved
    DEF Data, Counts, Worth, IoClaim, FdClaim, LruClaim
  <2>5. Safe'
    BY SMTT(20), <1>1, <1>2, <1>3, <1>15, <2>1, NoClaims
    DEF Data, Labels, Safe, LabelInv, MutexInv, NoneRelies, IoModeAllowed,
        UsableAfterWait, open_correct, ZeroMeansNone, IoClaim, FdClaim, Moves,
        Threads, WaitReclaim, Goto, bounds, fdvars
  <2> QED BY <2>2, <2>3, <2>4, <2>5 DEF IInv
<1> QED BY <1>4, <1>5, <1>6, <1>7, <1>8, <1>9, <1>10, <1>11, <1>12, <1>13,
           <1>14, <1>15
    DEF FdStep
-----------------------------------------------------------------------------
\* A descriptor that nobody has used yet satisfies the invariant,
LEMMA Initially == Init => IInv
<1> SUFFICES ASSUME Init PROVE IInv
  OBVIOUS
<1>1. Data
  <2>1. requests \in 0 .. MaxRequests /\ reclaims \in 0 .. MaxReclaims
    BY ThreadsAssumption DEF Init
  <2>2. mode \in [IoThreads -> Modes]
    BY DEF Init, Modes
  <2>3. fd_lru \in BOOLEAN /\ restricted \in BOOLEAN
    BY Zenon DEF Init
  <2> QED BY <2>1, <2>2, <2>3 DEF Init, Data
<1>5. Labels
  BY DEF Init, Labels, IoLabels, FdLabels, Threads
<1>2. IoHolders = {} /\ FdHolders = {} /\ LruHolders = {}
  BY DEF Init, IoHolders, FdHolders, LruHolders, IoClaim, FdClaim, LruClaim,
         Threads
<1>3. Counts
  BY <1>2, FS_EmptySet DEF Init, Counts
<1>4. Safe
  BY DEF Init, Safe, LabelInv, MutexInv, NoneRelies, IoModeAllowed,
         UsableAfterWait, Threads
<1> QED BY <1>1, <1>5, <1>3, <1>4 DEF IInv

\* a step that changes nothing keeps it,
LEMMA Unchanged == IInv /\ UNCHANGED vars => IInv'
BY DEF IInv, vars, fdvars, bounds, Data, Labels, Counts, Safe, LabelInv,
       MutexInv, NoneRelies, IoModeAllowed, UsableAfterWait, open_correct,
       IoHolders, FdHolders, LruHolders

\* and so does every step of a thread.
LEMMA Inductive == IInv /\ [Next]_vars => IInv'
<1> SUFFICES ASSUME IInv, [Next]_vars PROVE IInv'
  OBVIOUS
<1>1. CASE UNCHANGED vars
  BY <1>1, Unchanged
<1>2. ASSUME NEW t \in IoThreads, StartIo(t) \/ IoStep(t) PROVE IInv'
  BY <1>2, IoPreserves
<1>3. ASSUME NEW t \in Reclaimers, TryOne(t) \/ StartFdWork(t) \/ FdStep(t)
      PROVE  IInv'
  BY <1>3, FdPreserves
<1>4. ASSUME NEW t \in Closers, StartFdWork(t) \/ FdStep(t) PROVE IInv'
  BY <1>4, FdPreserves
<1> QED BY <1>1, <1>2, <1>3, <1>4 DEF Next

\* It holds throughout every behaviour.
LEMMA Invariance == Spec => []IInv
BY Initially, Inductive, PTL DEF Spec

\* The counters of struct fsal_fd stay between zero and the number of threads
\* that can have a claim: no path of wait_to_start_io, close_fsal_fd or
\* lru_try_one drops a claim twice or leaves one behind.
THEOREM TypeCorrect == Spec => []TypeOK
<1>1. IInv => TypeOK
  <2> SUFFICES ASSUME IInv PROVE TypeOK
    OBVIOUS
  <2>1. io_work \in 0 .. Cardinality(IoThreads)
    <3>1. IoHolders \subseteq IoThreads
      BY DEF IoHolders
    <3> QED BY <3>1, FiniteThreads, FS_Subset, FS_CardinalityType
        DEF IInv, Counts
  <2>2. fd_work \in 0 .. Cardinality(Threads)
    <3>1. FdHolders \subseteq Threads
      BY DEF FdHolders
    <3> QED BY <3>1, FiniteThreads, FS_Subset, FS_CardinalityType
        DEF IInv, Counts
  <2>3. lru_reclaim \in 0 .. Cardinality(Reclaimers)
    <3>1. LruHolders \subseteq Reclaimers
      BY DEF LruHolders
    <3> QED BY <3>1, FiniteThreads, FS_Subset, FS_CardinalityType
        DEF IInv, Counts
  <2> QED BY <2>1, <2>2, <2>3 DEF IInv, Data, Labels, TypeOK
<1> QED BY <1>1, Invariance, PTL

\* While close_fsal_fd or reopen_fsal_fd works on the descriptor, nobody does
\* I/O through it and nobody else works on it.
THEOREM Exclusion == Spec => []WorkExcludesIo
<1>1. IInv => WorkExcludesIo
  BY ThreadsAssumption
  DEF IInv, Labels, Safe, MutexInv, NoneRelies, WorkExcludesIo, Threads
<1> QED BY <1>1, Invariance, PTL

\* I/O that wait_to_start_io let through has a descriptor in a mode that allows
\* it until fsal_complete_io.
THEOREM IoInRightMode == Spec => []IoModeAllowed
<1>1. IInv => IoModeAllowed
  BY DEF IInv, Safe
<1> QED BY <1>1, Invariance, PTL

\* A thread that had to wait for fd work finds the descriptor usable.
THEOREM WaitPaysOff == Spec => []UsableAfterWait
<1>1. IInv => UsableAfterWait
  BY DEF IInv, Safe
<1> QED BY <1>1, Invariance, PTL
=============================================================================
