------------------------- MODULE GraceStatusProofs -------------------------
(***************************************************************************)
(* Proofs about GraceStatus for any number of threads.  With sticky grace  *)
(* the word's counter is the number of references held, and the flags can  *)
(* only be changed by the owner of grace_mutex; from these two facts, no   *)
(* reference outlives the state of the grace period it was given for.      *)
(***************************************************************************)
EXTENDS GraceStatus, FiniteSetTheorems, TLAPS

Holders == {w \in Workers : pc[w] = "holding"}

\* Where a thread may be when it owns grace_mutex.
Locked == {"start_cas", "start_tail", "lift_cas", "lift_backend"}

\* The types, as TypeOK states them, and which labels belong to which threads.
Typing ==
    /\ grace_status \in Words
    /\ grace_mutex \in Threads \cup {NoThread}
    /\ cur \in [Threads -> Words]
    /\ want \in [Workers -> BOOLEAN]
    /\ expired \in BOOLEAN
    /\ pc \in [Threads -> Labels]
    /\ \A w \in Workers : pc[w] \in {"idle", "get_cas", "holding", "notify"}
    /\ \A a \in Admins : pc[a] \in {"idle", "start_cas", "start_tail",
                                    "eagain", "waiting", "retry"}
    /\ \A l \in Lifters : pc[l] \in {"idle", "lift_lock", "lift_cas",
                                     "lift_backend"}

\* grace_mutex is held by the thread that is in a locked section, and a word
\* read in one has the flags of the current word: only the owner changes them.
MutexInv ==
    \A t \in Threads :
        /\ pc[t] \in Locked => grace_mutex = t
        /\ pc[t] \in {"start_cas", "lift_cas"} =>
             cur[t].flags = grace_status.flags

\* Every reference is counted.
CountInv == grace_status.count = Cardinality(Holders)

\* A lifter that read a zero count and a pending change can rely on it.
LiftInv ==
    \A l \in Lifters :
        /\ pc[l] = "lift_cas" /\ CHANGE_REQ \in cur[l].flags /\ cur[l].count = 0
             => grace_status.count = 0
        /\ pc[l] = "lift_backend" =>
             grace_status.count = 0 /\ grace_status.flags = {ACTIVE, CHANGE_REQ}

IInv == Typing /\ MutexInv /\ CountInv /\ LiftInv /\ HeldStateStable
-----------------------------------------------------------------------------
\* A count of zero means that nobody holds a reference.
LEMMA NoHolders ==
    ASSUME Typing, CountInv, grace_status.count = 0
    PROVE  \A w \in Workers : pc[w] # "holding"
<1>1. IsFiniteSet(Holders)
  BY ThreadsAssumption, FS_Subset DEF Holders
<1>2. Holders = {}
  BY <1>1, FS_EmptySet DEF CountInv
<1> QED BY <1>2 DEF Holders

\* What a worker that leaves or enters "holding" does to the count.
LEMMA HoldersChange ==
    ASSUME NEW w \in Workers
    PROVE  /\ IsFiniteSet(Holders) /\ Cardinality(Holders) \in Nat
           /\ pc[w] = "holding" =>
                Cardinality(Holders \ {w}) = Cardinality(Holders) - 1
           /\ pc[w] # "holding" =>
                Cardinality(Holders \cup {w}) = Cardinality(Holders) + 1
<1>1. IsFiniteSet(Holders) /\ Cardinality(Holders) \in Nat
  BY ThreadsAssumption, FS_Subset, FS_CardinalityType DEF Holders
<1>2. pc[w] = "holding" => w \in Holders
  BY DEF Holders
<1>3. pc[w] # "holding" => w \notin Holders
  BY DEF Holders
<1>4. ASSUME w \in Holders
      PROVE  Cardinality(Holders \ {w}) = Cardinality(Holders) - 1
  BY <1>1, <1>4, FS_RemoveElement
<1>5. ASSUME w \notin Holders
      PROVE  Cardinality(Holders \cup {w}) = Cardinality(Holders) + 1
  BY <1>1, <1>5, FS_AddElement
<1> QED BY <1>1, <1>2, <1>3, <1>4, <1>5

\* The threads of one role are not threads of another.
LEMMA Roles ==
    /\ \A w \in Workers : w \in Threads /\ w \notin Admins /\ w \notin Lifters
    /\ \A a \in Admins : a \in Threads /\ a \notin Workers /\ a \notin Lifters
    /\ \A l \in Lifters : l \in Threads /\ l \notin Workers /\ l \notin Admins
    /\ \A t \in Threads : t # NoThread
    /\ \A t \in Threads : t \in Workers \/ t \in Admins \/ t \in Lifters
BY ThreadsAssumption DEF Threads

\* The empty word, and a word whose counter or flags change, are words.
LEMMA ZeroType == Zero \in Words
BY DEF Zero, Words

\* Changing the count or the flags of a word yields a word.
LEMMA WordTypes ==
    ASSUME NEW word \in Words
    PROVE  /\ \A n \in Int : [word EXCEPT !.count = n] \in Words
           /\ \A F \in SUBSET {ACTIVE, CHANGE_REQ} :
                [word EXCEPT !.flags = F] \in Words
           /\ word.count \in Int /\ word.flags \in SUBSET {ACTIVE, CHANGE_REQ}
BY DEF Words

\* The initial state satisfies the invariant.
LEMMA InitIInv == Init => IInv
<1> SUFFICES ASSUME Init PROVE IInv
  OBVIOUS
<1>1. Holders = {}
  BY Roles DEF Init, Holders
<1>2. Cardinality(Holders) = 0
  BY <1>1, FS_EmptySet
<1>3. Typing
  BY Roles, ZeroType DEF Init, Typing, Labels
<1>4. MutexInv /\ LiftInv /\ HeldStateStable
  BY Roles DEF Init, MutexInv, LiftInv, HeldStateStable, Locked
<1>5. CountInv
  BY <1>2 DEF Init, CountInv, Zero
<1> QED BY <1>3, <1>4, <1>5 DEF IInv

-----------------------------------------------------------------------------
\* Steps of a worker preserve the invariant.
LEMMA WorkerIInv ==
    ASSUME StickyGrace, IInv, NEW w \in Workers, WorkerStep(w)
    PROVE  IInv'
<1> USE Roles DEF IInv
<1>1. CASE GetLoad(w)
  <2>1. Typing'
    BY <1>1 DEF GetLoad, Load, Goto, Typing, Labels
  <2>2. MutexInv' /\ LiftInv' /\ HeldStateStable'
    BY <1>1 DEF GetLoad, Load, Goto, Typing, Labels, MutexInv, LiftInv, Locked,
                HeldStateStable, Matches
  <2>3. Holders' = Holders
    BY <1>1 DEF GetLoad, Goto, Typing, Labels, Holders
  <2>4. CountInv'
    BY <1>1, <2>3 DEF GetLoad, CountInv
  <2> QED BY <2>1, <2>2, <2>4
<1>2. CASE GetRefused(w)
  <2>1. Typing'
    BY <1>2, ZeroType DEF GetRefused, Forget, Goto, Typing, Labels
  <2>2. MutexInv' /\ LiftInv' /\ HeldStateStable'
    BY <1>2 DEF GetRefused, Forget, Goto, Typing, Labels, MutexInv, LiftInv, Locked,
                HeldStateStable, Matches
  <2>3. Holders' = Holders
    BY <1>2 DEF GetRefused, Goto, Typing, Labels, Holders
  <2>4. CountInv'
    BY <1>2, <2>3 DEF GetRefused, CountInv
  <2> QED BY <2>1, <2>2, <2>4
<1>3. CASE GetCas(w) /\ grace_status # cur[w]
  <2>1. Typing'
    BY <1>3 DEF GetCas, Load, Typing
  <2>2. MutexInv' /\ LiftInv' /\ HeldStateStable'
    BY <1>3 DEF GetCas, Load, Typing, MutexInv, LiftInv, Locked,
                HeldStateStable, Matches
  <2>3. Holders' = Holders
    BY <1>3 DEF GetCas, Holders
  <2>4. CountInv'
    BY <1>3, <2>3 DEF GetCas, CountInv
  <2> QED BY <2>1, <2>2, <2>4
<1>4. CASE GetCas(w) /\ grace_status = cur[w]
  <2>1. Typing'
    <3>1. grace_status' \in Words
      <4>1. grace_status \in Words /\ grace_status.count + 1 \in Int
        BY WordTypes DEF Typing
      <4>2. [grace_status EXCEPT !.count = grace_status.count + 1] \in Words
        BY <4>1, WordTypes
      <4> QED BY <1>4, <4>2 DEF GetCas
    <3>2. QED BY <1>4, <3>1, ZeroType DEF GetCas, Forget, Goto, Typing, Labels
  <2>2. /\ CHANGE_REQ \notin grace_status.flags
        /\ grace_status'.flags = grace_status.flags
        /\ grace_status'.count = grace_status.count + 1
    BY <1>4 DEF GetCas, Typing, Words
  <2>3. MutexInv'
    BY <1>4, <2>2 DEF GetCas, Forget, Goto, Typing, Labels, MutexInv, Locked
  <2>4. LiftInv'
    BY <1>4, <2>2 DEF GetCas, Forget, Goto, Typing, Labels, LiftInv, MutexInv, Locked
  <2>5. HeldStateStable'
    BY <1>4, <2>2 DEF GetCas, Forget, Goto, Typing, Labels, HeldStateStable, Matches
  <2>6. Holders' = Holders \cup {w} /\ pc[w] # "holding"
    BY <1>4 DEF GetCas, Goto, Typing, Labels, Holders
  <2>7. CountInv'
    BY <2>2, <2>6, HoldersChange DEF CountInv
  <2> QED BY <2>1, <2>3, <2>4, <2>5, <2>7
<1>5. CASE Put(w)
  <2>1. /\ grace_status'.flags = grace_status.flags
        /\ grace_status'.count = grace_status.count - 1
        /\ grace_status' \in Words
    BY <1>5 DEF Put, Typing, Words
  <2>2. pc' \in [Threads -> Labels]
        /\ pc'[w] \in {"idle", "notify"}
        /\ \A t \in Threads \ {w} : pc'[t] = pc[t]
    BY <1>5 DEF Put, Goto, Typing, Labels
  <2>3. Typing'
    BY <1>5, <2>1, <2>2 DEF Put, Typing
  <2>4. grace_status.count # 0
    BY <1>5, NoHolders DEF Put
  <2>5. MutexInv' /\ HeldStateStable'
    BY <1>5, <2>1, <2>2 DEF Put, Typing, MutexInv, Locked, HeldStateStable, Matches
  <2>6. LiftInv'
    BY <1>5, <2>1, <2>2, <2>4 DEF Put, Typing, LiftInv
  <2>7. Holders' = Holders \ {w} /\ pc[w] = "holding"
    BY <1>5, <2>2 DEF Put, Holders
  <2>8. CountInv'
    BY <2>1, <2>7, HoldersChange DEF CountInv
  <2> QED BY <2>3, <2>5, <2>6, <2>8
<1>6. CASE PutNotify(w)
  <2>1. /\ pc' \in [Threads -> Labels]
        /\ \A t \in Threads : \/ pc'[t] = pc[t]
                              \/ t = w /\ pc[t] = "notify" /\ pc'[t] = "idle"
                              \/ pc[t] = "waiting" /\ pc'[t] = "retry"
    BY <1>6 DEF PutNotify, Typing, Labels
  <2>2. Typing'
    BY <1>6, <2>1 DEF PutNotify, Typing
  <2>3. MutexInv' /\ LiftInv' /\ HeldStateStable'
    BY <1>6, <2>1 DEF PutNotify, Typing, MutexInv, LiftInv, Locked,
                      HeldStateStable, Matches
  <2>4. Holders' = Holders
    BY <1>6, <2>1 DEF PutNotify, Holders
  <2>5. CountInv'
    BY <1>6, <2>4 DEF PutNotify, CountInv
  <2> QED BY <2>2, <2>3, <2>5
<1> QED BY <1>1, <1>2, <1>3, <1>4, <1>5, <1>6 DEF WorkerStep

-----------------------------------------------------------------------------
\* Steps of nfs_start_grace preserve the invariant.
LEMMA AdminIInv ==
    ASSUME StickyGrace, IInv, NEW a \in Admins, AdminStep(a)
    PROVE  IInv'
<1> USE Roles DEF IInv
<1>0. ASSUME pc'[a] # "holding", \A w \in Workers : pc'[w] = pc[w],
             grace_status'.count = grace_status.count
      PROVE  CountInv'
  <2>1. Holders' = Holders
    BY <1>0 DEF Holders
  <2> QED BY <1>0, <2>1 DEF CountInv
<1>1. CASE StartLock(a)
  <2>1. Typing'
    BY <1>1 DEF StartLock, Load, Goto, Typing, Labels
  <2>2. MutexInv'
    BY <1>1 DEF StartLock, Load, Goto, Typing, Labels, MutexInv, Locked
  <2>3. LiftInv' /\ HeldStateStable'
    BY <1>1 DEF StartLock, Load, Goto, Typing, Labels, LiftInv, HeldStateStable, Matches
  <2>4. CountInv'
    BY <1>0, <1>1 DEF StartLock, Goto, Typing, Labels
  <2> QED BY <2>1, <2>2, <2>3, <2>4
<1>2. CASE StartExtend(a)
  <2>1. Typing'
    BY <1>2, ZeroType DEF StartExtend, Forget, Goto, Typing, Labels
  <2>2. MutexInv'
    BY <1>2 DEF StartExtend, Forget, Goto, Typing, Labels, MutexInv, Locked
  <2>3. LiftInv' /\ HeldStateStable'
    BY <1>2 DEF StartExtend, Forget, Goto, Typing, Labels, LiftInv, HeldStateStable, Matches
  <2>4. CountInv'
    BY <1>0, <1>2 DEF StartExtend, Goto, Typing, Labels
  <2> QED BY <2>1, <2>2, <2>3, <2>4
<1>3. CASE StartRetry(a)
  <2>1. Typing'
    BY <1>3 DEF StartRetry, Load, Typing
  <2>2. MutexInv'
    BY <1>3 DEF StartRetry, Load, Typing, MutexInv, Locked
  <2>3. LiftInv' /\ HeldStateStable'
    BY <1>3 DEF StartRetry, Load, Typing, LiftInv, HeldStateStable, Matches
  <2>4. CountInv'
    BY <1>0, <1>3 DEF StartRetry, Typing
  <2> QED BY <2>1, <2>2, <2>3, <2>4
<1>4. CASE StartCas(a)
  <2>1. /\ grace_mutex = a
        /\ \A t \in Threads \ {a} : pc[t] \notin Locked
        /\ cur[a] \in Words
    BY <1>4 DEF StartCas, Typing, MutexInv, Locked
  <2>2. /\ grace_status' \in Words
        /\ grace_status'.count = grace_status.count
        /\ ACTIVE \in grace_status.flags => ACTIVE \in grace_status'.flags
        /\ ACTIVE \in grace_status'.flags /\ ACTIVE \notin grace_status.flags
              => grace_status.count = 0
    <3>1. CASE StartProposal(cur[a]) = cur[a]
      BY <1>4, <3>1 DEF StartCas, Typing
    <3>2. CASE StartProposal(cur[a]) # cur[a] /\ cur[a].count # 0
      BY <1>4, <3>2, <2>1 DEF StartCas, StartProposal, Typing, Words, ACTIVE, CHANGE_REQ
    <3>3. CASE StartProposal(cur[a]) # cur[a] /\ cur[a].count = 0
      BY <1>4, <3>3, <2>1 DEF StartCas, StartProposal, Typing, Words, ACTIVE, CHANGE_REQ
    <3> QED BY <3>1, <3>2, <3>3
  <2>3. /\ pc'[a] \in {"eagain", "start_tail"}
        /\ pc' \in [Threads -> Labels]
        /\ \A t \in Threads \ {a} : pc'[t] = pc[t]
        /\ pc'[a] = "start_tail" => grace_mutex' = a
        /\ grace_mutex' \in Threads \cup {NoThread}
    BY <1>4, <2>1 DEF StartCas, Goto, Typing, Labels, Labels
  <2>4. Typing'
    BY <1>4, <2>2, <2>3, ZeroType DEF StartCas, Forget, Typing
  <2>5. MutexInv'
    BY <1>4, <2>1, <2>3 DEF StartCas, MutexInv, Locked
  <2>6. LiftInv'
    BY <2>1, <2>3 DEF LiftInv, Locked
  <2>7. HeldStateStable'
    BY <1>4, <2>2, <2>3, NoHolders DEF StartCas, HeldStateStable, Matches
  <2>8. CountInv'
    BY <1>0, <2>2, <2>3
  <2> QED BY <2>4, <2>5, <2>6, <2>7, <2>8
<1>5. CASE StartTail(a)
  <2>1. Typing'
    BY <1>5 DEF StartTail, Goto, Typing, Labels
  <2>2. MutexInv'
    BY <1>5 DEF StartTail, Goto, Typing, Labels, MutexInv, Locked
  <2>3. LiftInv' /\ HeldStateStable'
    BY <1>5 DEF StartTail, Goto, Typing, Labels, LiftInv, HeldStateStable, Matches
  <2>4. CountInv'
    BY <1>0, <1>5 DEF StartTail, Goto, Typing, Labels
  <2> QED BY <2>1, <2>2, <2>3, <2>4
<1>6. CASE WaitNorefs(a) \/ WaitTimeout(a)
  <2>1. Typing'
    BY <1>6 DEF WaitNorefs, WaitTimeout, Goto, Typing, Labels
  <2>2. MutexInv'
    BY <1>6 DEF WaitNorefs, WaitTimeout, Goto, Typing, Labels, MutexInv, Locked
  <2>3. LiftInv' /\ HeldStateStable'
    BY <1>6 DEF WaitNorefs, WaitTimeout, Goto, Typing, Labels, LiftInv, HeldStateStable, Matches
  <2>4. CountInv'
    BY <1>0, <1>6 DEF WaitNorefs, WaitTimeout, Goto, Typing, Labels
  <2> QED BY <2>1, <2>2, <2>3, <2>4
<1> QED BY <1>1, <1>2, <1>3, <1>4, <1>5, <1>6 DEF AdminStep

-----------------------------------------------------------------------------
\* Steps of nfs_try_lift_grace preserve the invariant.
LEMMA LifterIInv ==
    ASSUME StickyGrace, IInv, NEW l \in Lifters, LifterStep(l)
    PROVE  IInv'
<1> USE Roles DEF IInv
<1>0. ASSUME \A w \in Workers : pc'[w] = pc[w],
             grace_status'.count = grace_status.count
      PROVE  CountInv'
  <2>1. Holders' = Holders
    BY <1>0 DEF Holders
  <2> QED BY <1>0, <2>1 DEF CountInv
<1>1. CASE LiftCheck(l)
  <2>1. Typing'
    BY <1>1 DEF LiftCheck, Goto, Typing, Labels
  <2>2. MutexInv' /\ LiftInv' /\ HeldStateStable'
    BY <1>1 DEF LiftCheck, Goto, Typing, Labels, MutexInv, Locked, LiftInv,
                HeldStateStable, Matches
  <2>3. CountInv'
    BY <1>0, <1>1 DEF LiftCheck, Goto, Typing, Labels
  <2> QED BY <2>1, <2>2, <2>3
<1>2. CASE LiftLock(l)
  <2>1. Typing'
    BY <1>2 DEF LiftLock, Load, Goto, Typing, Labels
  <2>2. MutexInv'
    BY <1>2 DEF LiftLock, Load, Goto, Typing, Labels, MutexInv, Locked
  <2>3. LiftInv' /\ HeldStateStable'
    BY <1>2 DEF LiftLock, Load, Goto, Typing, Labels, LiftInv, HeldStateStable, Matches
  <2>4. CountInv'
    BY <1>0, <1>2 DEF LiftLock, Goto, Typing, Labels
  <2> QED BY <2>1, <2>2, <2>3, <2>4
<1>3. CASE LiftRetry(l)
  <2>1. Typing'
    BY <1>3 DEF LiftRetry, Load, Typing
  <2>2. MutexInv'
    BY <1>3 DEF LiftRetry, Load, Typing, MutexInv, Locked
  <2>3. LiftInv' /\ HeldStateStable'
    BY <1>3 DEF LiftRetry, Load, Typing, LiftInv, HeldStateStable, Matches
  <2>4. CountInv'
    BY <1>0, <1>3 DEF LiftRetry, Typing
  <2> QED BY <2>1, <2>2, <2>3, <2>4
<1>4. CASE LiftCas(l)
  <2>1. /\ grace_mutex = l
        /\ \A t \in Threads \ {l} : pc[t] \notin Locked
        /\ cur[l] \in Words
        /\ cur[l].flags = grace_status.flags
    BY <1>4 DEF LiftCas, Typing, MutexInv, Locked
  <2>2. /\ grace_status' \in Words
        /\ grace_status'.count = grace_status.count
        /\ ACTIVE \in grace_status.flags <=> ACTIVE \in grace_status'.flags
        /\ ACTIVE \in cur[l].flags /\ cur[l].count = 0 =>
             grace_status'.flags = {ACTIVE, CHANGE_REQ} /\ grace_status'.count = 0
    <3>1. CASE cur[l].flags = {ACTIVE}
      BY <1>4, <3>1, <2>1 DEF LiftCas, Typing, Words, ACTIVE, CHANGE_REQ
    <3>2. CASE cur[l].flags # {ACTIVE}
      <4>1. ACTIVE \in cur[l].flags => cur[l].flags = {ACTIVE, CHANGE_REQ}
        BY <3>2, <2>1 DEF Words
      <4> QED BY <1>4, <3>2, <2>1, <4>1 DEF LiftCas, Typing, LiftInv
    <3> QED BY <3>1, <3>2
  <2>3. /\ pc'[l] \in {"idle", "lift_backend"}
        /\ pc' \in [Threads -> Labels]
        /\ \A t \in Threads \ {l} : pc'[t] = pc[t]
        /\ pc'[l] = "lift_backend" =>
             grace_mutex' = l /\ ACTIVE \in cur[l].flags /\ cur[l].count = 0
        /\ grace_mutex' \in Threads \cup {NoThread}
    BY <1>4, <2>1 DEF LiftCas, Goto, Typing, Labels, Labels
  <2>4. Typing'
    BY <1>4, <2>2, <2>3, ZeroType DEF LiftCas, Forget, Typing
  <2>5. MutexInv'
    BY <1>4, <2>1, <2>3 DEF LiftCas, MutexInv, Locked
  <2>6. LiftInv'
    BY <2>1, <2>2, <2>3 DEF LiftInv, Locked
  <2>7. HeldStateStable'
    BY <1>4, <2>2, <2>3 DEF LiftCas, HeldStateStable, Matches
  <2>8. CountInv'
    BY <1>0, <2>2, <2>3
  <2> QED BY <2>4, <2>5, <2>6, <2>7, <2>8
<1>5. CASE LiftRefused(l)
  <2>1. Typing'
    BY <1>5, ZeroType DEF LiftRefused, Forget, Goto, Typing, Labels
  <2>2. MutexInv'
    BY <1>5 DEF LiftRefused, Forget, Goto, Typing, Labels, MutexInv, Locked
  <2>3. LiftInv' /\ HeldStateStable'
    BY <1>5 DEF LiftRefused, Forget, Goto, Typing, Labels, LiftInv, HeldStateStable, Matches
  <2>4. CountInv'
    BY <1>0, <1>5 DEF LiftRefused, Goto, Typing, Labels
  <2> QED BY <2>1, <2>2, <2>3, <2>4
<1>6. CASE LiftGrace(l)
  <2>1. /\ grace_status.count = 0
        /\ \A t \in Threads \ {l} : pc[t] \notin Locked
    BY <1>6 DEF LiftGrace, LiftInv, Typing, MutexInv, Locked
  <2>2. /\ grace_status' \in Words
        /\ grace_status'.count = grace_status.count
    BY <1>6 DEF LiftGrace, Lifted, Typing, Words
  <2>3. /\ pc' \in [Threads -> Labels]
        /\ pc'[l] = "idle"
        /\ \A t \in Threads \ {l} : pc'[t] = pc[t]
    BY <1>6 DEF LiftGrace, Goto, Typing, Labels
  <2>4. Typing'
    BY <1>6, <2>2, <2>3, ZeroType DEF LiftGrace, Forget, Typing
  <2>5. MutexInv' /\ LiftInv'
    BY <2>1, <2>3 DEF MutexInv, LiftInv, Locked
  <2>6. HeldStateStable'
    BY <2>1, <2>3, NoHolders DEF HeldStateStable
  <2>7. CountInv'
    BY <1>0, <2>2, <2>3
  <2> QED BY <2>4, <2>5, <2>6, <2>7
<1> QED BY <1>1, <1>2, <1>3, <1>4, <1>5, <1>6 DEF LifterStep

-----------------------------------------------------------------------------
\* Every step preserves the invariant.
LEMMA NextIInv == ASSUME StickyGrace PROVE IInv /\ [Next]_vars => IInv'
<1> SUFFICES ASSUME IInv, [Next]_vars PROVE IInv'
  OBVIOUS
<1>1. CASE Expire
  <2>1. Typing' /\ MutexInv' /\ LiftInv' /\ HeldStateStable'
    BY <1>1 DEF Expire, IInv, Typing, MutexInv, LiftInv, HeldStateStable, Matches
  <2>2. Holders' = Holders
    BY <1>1 DEF Expire, Holders
  <2>3. CountInv'
    BY <1>1, <2>2 DEF Expire, IInv, CountInv
  <2> QED BY <2>1, <2>3 DEF IInv
<1>2. CASE UNCHANGED vars
  <2>1. Typing' /\ MutexInv' /\ LiftInv' /\ HeldStateStable'
    BY <1>2 DEF vars, IInv, Typing, MutexInv, LiftInv, HeldStateStable, Matches
  <2>2. Holders' = Holders
    BY <1>2 DEF vars, Holders
  <2>3. CountInv'
    BY <1>2, <2>2 DEF vars, IInv, CountInv
  <2> QED BY <2>1, <2>3 DEF IInv
<1> QED BY <1>1, <1>2, WorkerIInv, AdminIInv, LifterIInv DEF Next

\* The invariant holds in every reachable state of a server with sticky grace.
LEMMA Invariance == ASSUME StickyGrace PROVE Spec => []IInv
<1>1. Init => IInv
  BY InitIInv
<1>2. IInv /\ [Next]_vars => IInv'
  BY NextIInv
<1> QED BY <1>1, <1>2, PTL DEF Spec

\* Type correctness for any number of threads; in particular the counter of
\* the word, which nfs_put_grace_status decrements blindly, never wraps.
THEOREM TypeCorrect == ASSUME StickyGrace PROVE Spec => []TypeOK
<1>1. IInv => TypeOK
  <2> SUFFICES ASSUME IInv PROVE TypeOK
    OBVIOUS
  <2>1. Cardinality(Holders) \in Nat
    BY ThreadsAssumption, FS_Subset, FS_CardinalityType DEF Holders
  <2>2. grace_status.count >= 0
    BY <2>1 DEF IInv, CountInv
  <2> QED BY <2>2 DEF IInv, Typing, TypeOK
<1> QED BY <1>1, Invariance, PTL

\* A request with a reference works in the state of the grace period it asked
\* for until its nfs_put_grace_status, however many requests, starts and lifts
\* run at the same time.
THEOREM HeldStateSafe == ASSUME StickyGrace PROVE Spec => []HeldStateStable
<1>1. IInv => HeldStateStable
  BY DEF IInv
<1> QED BY <1>1, Invariance, PTL

\* The assertion of nfs_lift_grace_locked never fires with sticky grace.
THEOREM LiftAssertion == ASSUME StickyGrace PROVE Spec => []NoRefsWhileLifting
<1>1. IInv => NoRefsWhileLifting
  BY DEF IInv, LiftInv, NoRefsWhileLifting
<1> QED BY <1>1, Invariance, PTL
=============================================================================
