---------------------------- MODULE DupReqProofs ----------------------------
(***************************************************************************)
(* Theorems about DupReq, for any number of requests and connections and   *)
(* any limits of the cache.  DupReqInvariant proves that Life is kept as   *)
(* long as the counters are right.  Here the counters are shown to be      *)
(* right as long as Life holds, so that the conjunction IInv is inductive; *)
(* the properties of DupReq and the refinement of ReplyCache follow.       *)
(***************************************************************************)
EXTENDS DupReqInvariant, FiniteSetTheorems

IInv == Life /\ CountsExact

-----------------------------------------------------------------------------
(* Counting.                                                               *)
Holders(e) == {r \in Requests : held[r] = e}
Retiring(e) == {r \in Requests : pc[r] = "retired" /\ ov[r] = e}
InTree(e) == IF e \in tree THEN 1 ELSE 0
Working == {r \in Requests : Active(r) /\ pc[r] # "recycle"}
Dropped == {r \in Requests : pc[r] = "dropped"}

LEMMA Finite ==
    /\ \A S \in SUBSET Requests : IsFiniteSet(S) /\ Cardinality(S) \in Nat
    /\ \A S \in SUBSET Xprts : IsFiniteSet(S) /\ Cardinality(S) \in Nat
  BY DupReqAssumption, FS_Subset, FS_CardinalityType, Zenon

LEMMA CountsNatural ==
    /\ \A e : Cardinality(Holders(e)) \in Nat /\ Cardinality(Retiring(e)) \in Nat
    /\ Cardinality(Working) \in Nat /\ Cardinality(Dropped) \in Nat
  BY Finite, Zenon DEF Holders, Retiring, Working, Dropped

\* One more, and one less.
LEMMA Added ==
    ASSUME NEW S \in SUBSET Requests, NEW x, x \notin S
    PROVE  Cardinality(S \cup {x}) = Cardinality(S) + 1
  BY Finite, FS_AddElement
LEMMA Removed ==
    ASSUME NEW S \in SUBSET Requests, NEW x \in S
    PROVE  Cardinality(S \ {x}) = Cardinality(S) - 1
  BY Finite, FS_RemoveElement
LEMMA NotEmpty ==
    ASSUME NEW S \in SUBSET Requests, NEW x \in S
    PROVE  Cardinality(S) >= 1
  BY Finite, FS_EmptySet

\* The references of the entries, with names for the sets that are counted.
LEMMA RefsDef ==
    RefsExact <=> \A e \in Requests :
        refcnt[e] = Cardinality(Holders(e)) + Cardinality(Retiring(e)) + InTree(e)
  BY Zenon DEF RefsExact, Holders, Retiring, InTree
LEMMA DrcDef ==
    DrcRefsExact <=>
        drcref = Cardinality(attached) + Cardinality(Working) + Cardinality(Dropped)
  BY Zenon DEF DrcRefsExact, Working, Dropped

\* The references of every entry but d are what they were, and those of d have
\* changed by n.
LEMMA RefsMoved ==
    ASSUME EntryTypes, RefsExact, NEW d \in Requests, NEW n \in Int,
           refcnt' = [refcnt EXCEPT ![d] = @ + n],
           \A e \in Requests \ {d} :
               /\ Holders(e)' = Holders(e) /\ Retiring(e)' = Retiring(e)
               /\ InTree(e)' = InTree(e),
           Cardinality(Holders(d)') + Cardinality(Retiring(d)') + InTree(d)'
             = Cardinality(Holders(d)) + Cardinality(Retiring(d)) + InTree(d) + n
    PROVE  RefsExact'
  <1>1. \A e \in Requests :
           refcnt[e] = Cardinality(Holders(e)) + Cardinality(Retiring(e)) + InTree(e)
    BY RefsDef, Zenon
  <1>2. \A e \in Requests :
           refcnt'[e] = Cardinality(Holders(e)') + Cardinality(Retiring(e)') + InTree(e)'
    <2>1. refcnt'[d] = Cardinality(Holders(d)') + Cardinality(Retiring(d)') + InTree(d)'
      BY <1>1, CountsNatural, Zenon DEF EntryTypes, InTree
    <2>2. \A e \in Requests \ {d} : refcnt'[e] = refcnt[e]
      BY Zenon DEF EntryTypes
    <2> QED BY <1>1, <2>1, <2>2, Zenon
  <1> QED BY <1>2, Zenon DEF RefsExact, Holders, Retiring, InTree

\* A step that leaves the references alone.
LEMMA RefsKept ==
    ASSUME RefsExact, UNCHANGED <<refcnt, held, tree>>,
           \A e \in Requests : Retiring(e)' = Retiring(e)
    PROVE  RefsExact'
  <1>1. \A e \in Requests :
           refcnt'[e] = Cardinality(Holders(e)') + Cardinality(Retiring(e)') + InTree(e)'
    BY RefsDef, Zenon DEF Holders, InTree
  <1> QED BY <1>1, Zenon DEF RefsExact, Holders, Retiring, InTree

\* The same for the DRC.
LEMMA DrcRefsKept ==
    ASSUME DrcRefsExact, Working' = Working, Dropped' = Dropped,
           UNCHANGED <<drcref, attached>>
    PROVE  DrcRefsExact'
  BY Zenon DEF DrcRefsExact, Working, Dropped

\* A request in the middle of its work goes on with it: the counters and what
\* they count are left alone.
LEMMA CountersKept ==
    ASSUME Types, CountsExact, NEW r \in Requests, Active(r),
           NEW l \in RequestLabels \ {"new", "retired"},
           pc[r] # "retired", pc' = [pc EXCEPT ![r] = l],
           \A q \in Requests \ {r} : ov'[q] = ov[q],
           UNCHANGED <<refcnt, held, tree, size, drcref, attached>>
    PROVE  CountsExact'
  <1>1. \A e \in Requests : Retiring(e)' = Retiring(e)
    BY Zenon DEF Retiring, Types, ThreadTypes, Actors
  <1>2. Working' = Working /\ Dropped' = Dropped
    BY DEF Working, Dropped, Active, Types, ThreadTypes, Actors, RequestLabels
  <1>3. RefsExact' /\ DrcRefsExact'
    BY <1>1, <1>2, RefsKept, DrcRefsKept, Zenon DEF CountsExact
  <1> QED BY <1>3, Zenon DEF CountsExact, SizeExact

\* The last reference to an entry.
LEMMA LastReference ==
    ASSUME IInv, NEW e \in Requests, refcnt[e] = 1
    PROVE  LastUse(e)
  <1>1. 1 = Cardinality(Holders(e)) + Cardinality(Retiring(e)) + InTree(e)
    BY RefsDef, Zenon DEF IInv, CountsExact
  <1>2. Holders(e) \in SUBSET Requests /\ Retiring(e) \in SUBSET Requests
    BY Zenon DEF Holders, Retiring
  <1>3. /\ Cardinality(Holders(e)) \in Nat /\ Cardinality(Retiring(e)) \in Nat
        /\ InTree(e) \in {0, 1} /\ (InTree(e) = 1 <=> e \in tree)
    BY CountsNatural DEF InTree
  <1>4. ASSUME NEW S \in SUBSET Requests, Cardinality(S) <= 1,
               NEW x \in S, NEW y \in S
        PROVE  x = y
    <2> SUFFICES ASSUME x # y PROVE FALSE
      OBVIOUS
    <2>1. Cardinality(S \ {x}) = Cardinality(S) - 1 /\ y \in S \ {x}
      BY Removed, Zenon
    <2>2. Cardinality(S \ {x}) >= 1
      BY <2>1, NotEmpty, Zenon
    <2> QED BY <2>1, <2>2, <1>4, Finite
  <1>5. ASSUME NEW r \in Holders(e)
        PROVE  e \notin tree /\ Retiring(e) = {} /\ \A q \in Holders(e) : q = r
    <2>1. Cardinality(Holders(e)) >= 1
      BY <1>2, NotEmpty, Zenon
    <2>2. Cardinality(Retiring(e)) = 0 /\ e \notin tree /\ Cardinality(Holders(e)) <= 1
      BY <2>1, <1>1, <1>3
    <2>3. Retiring(e) = {}
      BY <2>2, <1>2, NotEmpty
    <2> QED BY <2>2, <2>3, <1>2, <1>4, Zenon
  <1>6. ASSUME NEW r \in Retiring(e)
        PROVE  e \notin tree /\ Holders(e) = {} /\ \A q \in Retiring(e) : q = r
    <2>1. Cardinality(Retiring(e)) >= 1
      BY <1>2, NotEmpty, Zenon
    <2>2. Cardinality(Holders(e)) = 0 /\ e \notin tree /\ Cardinality(Retiring(e)) <= 1
      BY <2>1, <1>1, <1>3
    <2>3. Holders(e) = {}
      BY <2>2, <1>2, NotEmpty
    <2> QED BY <2>2, <2>3, <1>2, <1>4, Zenon
  <1>7. ASSUME e \in tree PROVE Holders(e) = {} /\ Retiring(e) = {}
    <2>1. Cardinality(Holders(e)) = 0 /\ Cardinality(Retiring(e)) = 0
      BY <1>7, <1>1, <1>3
    <2> QED BY <2>1, <1>2, NotEmpty
  <1> QED BY <1>5, <1>6, <1>7, Zenon DEF Holders, Retiring, LastUse, Retires

\* What the counters say.
LEMMA CountsTell == ASSUME IInv PROVE Counted
  <1>1. \A e \in Requests :
           refcnt[e] = Cardinality(Holders(e)) + Cardinality(Retiring(e)) + InTree(e)
    BY RefsDef, Zenon DEF IInv, CountsExact
  <1>2. drcref = Cardinality(attached) + Cardinality(Working) + Cardinality(Dropped)
    BY DrcDef, Zenon DEF IInv, CountsExact
  <1>3. Cardinality(attached) \in Nat /\ (attached # {} => Cardinality(attached) >= 1)
    <2>1. attached \in SUBSET Xprts
      BY Zenon DEF IInv, Life, Types, CacheTypes
    <2> QED BY <2>1, Finite, FS_EmptySet
  <1>4. \A e \in Requests : refcnt[e] = 1 => LastUse(e)
    BY LastReference, Zenon
  <1>5. ASSUME NEW e \in tree, \A q \in Requests : held[q] # e /\ ~Retires(q, e)
        PROVE  refcnt[e] = 1
    <2>1. e \in Requests
      BY Zenon DEF IInv, Life, Types, CacheTypes
    <2>2. Holders(e) = {} /\ Retiring(e) = {} /\ InTree(e) = 1
      BY <1>5, Zenon DEF Holders, Retiring, InTree, Retires
    <2> QED BY <1>1, <2>1, <2>2, FS_EmptySet
  <1>6. attached # {} => drcref >= 1
    BY <1>2, <1>3, CountsNatural
  <1>7. ASSUME NEW r \in Requests, Active(r)
        PROVE  drcref >= 2
    <2>1. XprtOf[r] \in attached /\ r \in Working /\ Working \in SUBSET Requests
      BY <1>7, Zenon DEF IInv, Life, DrcLife, Working, Types, ThreadTypes,
         RequestLabels
    <2>2. Cardinality(Working) >= 1
      BY <2>1, NotEmpty, Zenon
    <2> QED BY <1>2, <1>3, <2>1, <2>2, CountsNatural
  <1>8. ASSUME drcref = 0, NEW r \in Requests
        PROVE  pc[r] # "dropped"
    <2> SUFFICES ASSUME pc[r] = "dropped" PROVE FALSE
      OBVIOUS
    <2>1. r \in Dropped /\ Dropped \in SUBSET Requests
      BY Zenon DEF Dropped
    <2>2. Cardinality(Dropped) >= 1
      BY <2>1, NotEmpty, Zenon
    <2> QED BY <1>2, <1>3, <1>8, <2>2, CountsNatural
  <1> QED BY <1>4, <1>5, <1>6, <1>7, <1>8, Zenon DEF Counted

-----------------------------------------------------------------------------
(* Every step keeps the counters right.  The request in charge, and those   *)
(* that send a reply, leave them alone.                                     *)
LEMMA WorkCounts ==
    ASSUME IInv, NEW r \in Requests
    PROVE  Process(r) \/ Resume(r) \/ FinishLost(r) \/ Finish(r) \/ Enqueue(r)
           \/ RetireNothing(r) \/ DeleteQueued(r) => CountsExact'
  <1> USE DEF Goto, entries, cache, lifetime, locals, history, Active, RequestLabels
  <1>0. Types /\ CountsExact
    BY Zenon DEF IInv, Life
  <1>1. CASE ReplySent(r)
    BY <1>0, <1>1, CountersKept, Zenon DEF ReplySent
  <1>2. CASE ReplyFails(r)
    BY <1>0, <1>2, CountersKept, Zenon DEF ReplyFails
  <1>3. CASE Refuse(r)
    BY <1>0, <1>3, CountersKept, Zenon DEF Refuse
  <1>4. CASE SendCached(r)
    BY <1>0, <1>4, CountersKept, Zenon DEF SendCached
  <1>5. CASE ResumeReplied(r)
    BY <1>0, <1>5, CountersKept, Zenon DEF ResumeReplied
  <1>6. CASE ResumeRefused(r)
    BY <1>0, <1>6, CountersKept, Zenon DEF ResumeRefused
  <1>7. CASE ResumeLost(r)
    BY <1>0, <1>7, CountersKept, Zenon DEF ResumeLost
  <1>8. CASE FinishLost(r)
    BY <1>0, <1>8, CountersKept, Zenon DEF FinishLost
  <1>9. CASE Finish(r)
    BY <1>0, <1>9, CountersKept, Zenon DEF Finish
  <1>10. CASE DeleteQueued(r)
    BY <1>0, <1>10, CountersKept, Zenon DEF DeleteQueued
  <1>11. CASE Enqueue(r)
    <2>1. Again(r, queue', retwnd', 0)
      BY <1>11, Zenon DEF Enqueue
    <2>2. PICK o, k, l :
             /\ ov' = [ov EXCEPT ![r] = o] /\ cnt' = [cnt EXCEPT ![r] = k]
             /\ pc' = [pc EXCEPT ![r] = l] /\ l \in {"retire", "rele"}
      BY <2>1, Chosen, Zenon
    <2> QED BY <1>0, <1>11, <2>2, CountersKept, Zenon DEF Enqueue, Types, ThreadTypes
  <1>12. CASE RetireNothing(r)
    BY <1>0, <1>12, CountersKept, Zenon DEF RetireNothing, Types, ThreadTypes
  <1> QED BY <1>1, <1>2, <1>3, <1>4, <1>5, <1>6, <1>7, <1>8, <1>9, <1>10, <1>11,
             <1>12, Zenon DEF Process, Resume

\* A request that arrives takes a reference to the DRC, its connection another.
LEMMA ArriveCounts ==
    ASSUME IInv, NEW r \in Requests, Arrive(r)
    PROVE  CountsExact'
  <1>1. /\ pc[r] = "new" /\ pc' = [pc EXCEPT ![r] = "start"]
        /\ \/ drcref' = drcref + 1 /\ attached' = attached
           \/ /\ drcref' = drcref + 2 /\ attached' = attached \cup {XprtOf[r]}
              /\ XprtOf[r] \notin attached
        /\ UNCHANGED <<refcnt, held, tree, size, ov>>
    BY Zenon DEF Arrive, GetDrc, AttachDrc, Goto, entries, cache, locals
  <1>2. \A e \in Requests : Retiring(e)' = Retiring(e)
    BY <1>1, Zenon DEF Retiring, IInv, Life, Types, ThreadTypes, Actors
  <1>3. RefsExact' /\ SizeExact'
    BY <1>1, <1>2, RefsKept, Zenon DEF IInv, CountsExact, SizeExact
  <1>4. drcref = Cardinality(attached) + Cardinality(Working) + Cardinality(Dropped)
    BY DrcDef, Zenon DEF IInv, CountsExact
  <1>5. /\ Working' = Working \cup {r} /\ r \notin Working
        /\ Working \in SUBSET Requests /\ Dropped' = Dropped
    BY <1>1, Zenon DEF Working, Dropped, Active, IInv, Life, Types, ThreadTypes,
       Actors
  <1>6. Cardinality(Working') = Cardinality(Working) + 1
    BY <1>5, Added, Zenon
  <1>7. /\ Cardinality(attached) \in Nat
        /\ XprtOf[r] \notin attached =>
             Cardinality(attached \cup {XprtOf[r]}) = Cardinality(attached) + 1
    <2>1. IsFiniteSet(attached) /\ Cardinality(attached) \in Nat
      BY Finite, Zenon DEF IInv, Life, Types, CacheTypes
    <2> QED BY <2>1, FS_AddElement, Zenon
  <1>8. drcref' = Cardinality(attached') + Cardinality(Working') + Cardinality(Dropped')
    BY <1>1, <1>4, <1>5, <1>6, <1>7, CountsNatural, SMTT(30)
  <1>9. DrcRefsExact'
    BY <1>8, Zenon DEF DrcRefsExact, Working, Dropped
  <1> QED BY <1>3, <1>9, Zenon DEF CountsExact

\* nfs_dupreq_start: two references for a new entry, one for a duplicate, and
\* the reference to the DRC stays with a dropped one.
LEMMA StartCounts ==
    ASSUME IInv, NEW r \in Requests, Start(r)
    PROVE  CountsExact'
  <1>1. /\ pc[r] = "start" /\ r \notin tree
        /\ Holders(r) = {} /\ Retiring(r) = {} /\ \A e \in Requests : r \notin Holders(e)
        /\ held \in [Requests -> Requests \cup {NoEntry}]
    <2>1. pc[r] = "start"
      BY Zenon DEF Start, StartNew, StartQueued, StartDropped, StartExists, Lookup
    <2> QED BY <2>1, DupReqAssumption
      DEF IInv, Life, Types, ThreadTypes, Fresh, Held, Holding, Holders, Retiring
  <1>2. ASSUME NEW l \in RequestLabels \ {"new", "retired"}, pc' = [pc EXCEPT ![r] = l],
               UNCHANGED <<ov, drcref, attached>>
        PROVE  DrcRefsExact' /\ \A e \in Requests : Retiring(e)' = Retiring(e)
    <2>1. Working' = Working /\ Dropped' = Dropped
      BY <1>1, <1>2
      DEF Working, Dropped, Active, IInv, Life, Types, ThreadTypes, Actors,
          RequestLabels
    <2>2. \A e \in Requests : Retiring(e)' = Retiring(e)
      BY <1>1, <1>2, Zenon DEF Retiring, IInv, Life, Types, ThreadTypes, Actors
    <2> QED BY <1>2, <2>1, <2>2, DrcRefsKept, Zenon DEF IInv, CountsExact
  <1>3. CASE StartNew(r)
    <2>1. /\ tree' = tree \cup {r} /\ refcnt' = [refcnt EXCEPT ![r] = 2]
          /\ size' = size + 1 /\ held' = [held EXCEPT ![r] = r]
          /\ pc' = [pc EXCEPT ![r] = "execute"] /\ UNCHANGED <<ov, drcref, attached>>
      BY <1>3, Zenon DEF StartNew, Goto, lifetime, locals
    <2>2. DrcRefsExact' /\ \A e \in Requests : Retiring(e)' = Retiring(e)
      BY <1>2, <2>1, Zenon DEF RequestLabels
    <2>3. /\ Holders(r)' = {r} /\ InTree(r)' = 1 /\ InTree(r) = 0
          /\ \A e \in Requests \ {r} : Holders(e)' = Holders(e) /\ InTree(e)' = InTree(e)
      BY <1>1, <2>1, Zenon DEF Holders, InTree
    <2>4. Cardinality(Holders(r)) = 0 /\ Cardinality(Retiring(r)) = 0 /\ Cardinality({r}) = 1
      BY <1>1, FS_EmptySet, FS_Singleton, Zenon
    <2>5. refcnt' = [refcnt EXCEPT ![r] = @ + 2]
      <3>1. refcnt[r] = 0
        BY <2>3, <2>4, RefsDef DEF IInv, CountsExact
      <3> QED BY <2>1, <3>1 DEF IInv, Life, Types, EntryTypes
    <2>6. Cardinality(Holders(r)') + Cardinality(Retiring(r)') + InTree(r)'
            = Cardinality(Holders(r)) + Cardinality(Retiring(r)) + InTree(r) + 2
      BY <2>2, <2>3, <2>4
    <2>7. RefsExact'
      <3>1. EntryTypes /\ RefsExact /\ 2 \in Int
        BY DEF IInv, Life, Types, CountsExact
      <3>2. \A e \in Requests \ {r} :
              /\ Holders(e)' = Holders(e) /\ Retiring(e)' = Retiring(e)
              /\ InTree(e)' = InTree(e)
        BY <2>2, <2>3, Zenon
      <3> QED BY <2>5, <2>6, <3>1, <3>2, RefsMoved, Zenon
    <2>8. SizeExact'
      BY <1>1, <2>1, Added, Zenon DEF IInv, Life, Types, CacheTypes, CountsExact,
         SizeExact
    <2> QED BY <2>2, <2>7, <2>8, Zenon DEF CountsExact
  <1>4. CASE StartQueued(r) \/ StartExists(r)
    <2>1. PICK e \in tree, l \in {"suspended", "exists"} :
             /\ held' = [held EXCEPT ![r] = e] /\ refcnt' = [refcnt EXCEPT ![e] = @ + 1]
             /\ pc' = [pc EXCEPT ![r] = l]
             /\ UNCHANGED <<tree, size, ov, drcref, attached>>
      BY <1>4, Zenon DEF StartQueued, StartExists, Share, Goto, cache, lifetime,
         locals
    <2>2. DrcRefsExact' /\ \A f \in Requests : Retiring(f)' = Retiring(f)
      BY <1>2, <2>1, Zenon DEF RequestLabels
    <2>3. e \in Requests
      BY Zenon DEF IInv, Life, Types, CacheTypes
    <2>4. /\ Holders(e)' = Holders(e) \cup {r} /\ Holders(e) \in SUBSET Requests
          /\ \A f \in Requests \ {e} : Holders(f)' = Holders(f)
          /\ \A f \in Requests : InTree(f)' = InTree(f)
      BY <1>1, <2>1, <2>3, Zenon DEF Holders, InTree
    <2>5. Cardinality(Holders(e)') = Cardinality(Holders(e)) + 1
      BY <1>1, <2>3, <2>4, Added, Zenon
    <2>6. InTree(e) \in {0, 1} /\ InTree(e)' = InTree(e) /\ Retiring(e)' = Retiring(e)
      BY <2>2, <2>3, <2>4, Zenon DEF InTree
    <2>7. Cardinality(Holders(e)') + Cardinality(Retiring(e)') + InTree(e)'
            = Cardinality(Holders(e)) + Cardinality(Retiring(e)) + InTree(e) + 1
      BY <2>5, <2>6, CountsNatural
    <2>8. RefsExact'
      <3>1. EntryTypes /\ RefsExact /\ 1 \in Int
        BY DEF IInv, Life, Types, CountsExact
      <3>2. \A f \in Requests \ {e} :
              /\ Holders(f)' = Holders(f) /\ Retiring(f)' = Retiring(f)
              /\ InTree(f)' = InTree(f)
        BY <2>2, <2>4, Zenon
      <3> QED BY <2>1, <2>3, <2>7, <3>1, <3>2, RefsMoved, Zenon
    <2> QED BY <2>1, <2>2, <2>8, Zenon DEF IInv, CountsExact, SizeExact
  <1>5. CASE StartDropped(r)
    <2>1. /\ pc' = [pc EXCEPT ![r] = "dropped"]
          /\ UNCHANGED <<refcnt, held, tree, size, ov, drcref, attached>>
      BY <1>5, Zenon DEF StartDropped, Goto, entries, cache, lifetime, locals
    <2>2. \A e \in Requests : Retiring(e)' = Retiring(e)
      BY <1>1, <2>1, Zenon DEF Retiring, IInv, Life, Types, ThreadTypes, Actors
    <2>3. /\ Working' = Working \ {r} /\ r \in Working /\ Working \in SUBSET Requests
          /\ Dropped' = Dropped \cup {r} /\ r \notin Dropped /\ Dropped \in SUBSET Requests
      BY <1>1, <2>1 DEF Working, Dropped, Active, IInv, Life, Types, ThreadTypes,
         Actors
    <2>4. Cardinality(Working') = Cardinality(Working) - 1
      BY <2>3, Removed, Zenon
    <2>5. Cardinality(Dropped') = Cardinality(Dropped) + 1
      BY <2>3, Added, Zenon
    <2>6. drcref = Cardinality(attached) + Cardinality(Working) + Cardinality(Dropped)
      BY DrcDef, Zenon DEF IInv, CountsExact
    <2>7. Cardinality(attached) \in Nat
      BY Finite, Zenon DEF IInv, Life, Types, CacheTypes
    <2>8. drcref' = Cardinality(attached') + Cardinality(Working') + Cardinality(Dropped')
      BY <2>1, <2>4, <2>5, <2>6, <2>7, CountsNatural, SMTT(30)
    <2>9. DrcRefsExact'
      BY <2>8, Zenon DEF DrcRefsExact, Working, Dropped
    <2> QED BY <2>1, <2>2, <2>9, RefsKept, Zenon DEF IInv, CountsExact, SizeExact
  <1> QED BY <1>3, <1>4, <1>5, Zenon DEF Start

\* A retired entry: the reference of the tree passes to the thread, which
\* releases it.
LEMMA RetireCounts ==
    ASSUME IInv, NEW r \in Requests, Retire(r)
    PROVE  CountsExact'
  <1>0. PICK h : h = Head(queue)
    OBVIOUS
  <1>1. /\ pc[r] = "retire" /\ queue # <<>>
        /\ ov' = [ov EXCEPT ![r] = h] /\ tree' = tree \ {h} /\ size' = size - 1
        /\ pc' = [pc EXCEPT ![r] = "retired"]
        /\ UNCHANGED <<refcnt, held, drcref, attached>>
    BY <1>0, Zenon DEF Retire, AtHead, Goto, entries, lifetime
  <1>2. h \in tree /\ h \in Requests
    <2>1. queue \in Seq(Requests) /\ Distinct(queue) /\ Elems(queue) \subseteq tree
      BY Zenon DEF IInv, Life, Types, SeqTypes, Queued
    <2> QED BY <1>0, <1>1, <2>1, Beheaded, Zenon
  <1>3. /\ Retiring(h)' = Retiring(h) \cup {r} /\ r \notin Retiring(h)
        /\ Retiring(h) \in SUBSET Requests
        /\ \A e \in Requests \ {h} : Retiring(e)' = Retiring(e)
    BY <1>1, <1>2 DEF Retiring, IInv, Life, Types, ThreadTypes, Actors
  <1>4. /\ \A e \in Requests : Holders(e)' = Holders(e)
        /\ InTree(h) = 1 /\ InTree(h)' = 0
        /\ \A e \in Requests \ {h} : InTree(e)' = InTree(e)
    BY <1>1, <1>2, Zenon DEF Holders, InTree
  <1>5. Working' = Working /\ Dropped' = Dropped
    BY <1>1, Zenon DEF Working, Dropped, Active, IInv, Life, Types, ThreadTypes,
       Actors
  <1>6. Cardinality(Retiring(h)') = Cardinality(Retiring(h)) + 1
    BY <1>3, Added, Zenon
  <1>7. Cardinality(Holders(h)') + Cardinality(Retiring(h)') + InTree(h)'
          = Cardinality(Holders(h)) + Cardinality(Retiring(h)) + InTree(h) + 0
    BY <1>2, <1>4, <1>6, CountsNatural
  <1>8. RefsExact'
    <2>1. EntryTypes /\ RefsExact /\ 0 \in Int
      BY DEF IInv, Life, Types, CountsExact
    <2>2. \A e \in Requests \ {h} :
            /\ Holders(e)' = Holders(e) /\ Retiring(e)' = Retiring(e)
            /\ InTree(e)' = InTree(e)
      BY <1>3, <1>4, Zenon
    <2>3. refcnt' = [refcnt EXCEPT ![h] = @ + 0]
      BY <1>1, <1>2, <2>1 DEF EntryTypes
    <2> QED BY <1>2, <1>7, <2>1, <2>2, <2>3, RefsMoved, Zenon
  <1>9. SizeExact'
    BY <1>1, <1>2, Removed, Zenon DEF IInv, Life, Types, CacheTypes, CountsExact,
       SizeExact
  <1> QED BY <1>1, <1>5, <1>8, <1>9, DrcRefsKept, Zenon DEF IInv, CountsExact

LEMMA PutRetiredCounts ==
    ASSUME IInv, NEW r \in Requests, PutRetired(r)
    PROVE  CountsExact'
  <1>0. PICK h : h = ov[r]
    OBVIOUS
  <1>1. /\ pc[r] = "retired" /\ h \in Requests /\ EntryPut({h})
        /\ UNCHANGED <<held, tree, size, drcref, attached>>
    BY <1>0, Zenon DEF PutRetired, cache, lifetime, IInv, Life, Types, ThreadTypes
  <1>2. PICK o, l : /\ ov' = [ov EXCEPT ![r] = o] /\ pc' = [pc EXCEPT ![r] = l]
                    /\ l \in {"retire", "rele"}
    <2>1. Again(r, queue, retwnd, cnt[r] + 1) /\ cnt[r] + 1 \in Nat
      BY DupReqAssumption DEF PutRetired, IInv, Life, Types, ThreadTypes
    <2> QED BY <2>1, Chosen, Zenon
  <1>3. refcnt' = [refcnt EXCEPT ![h] = @ + (-1)]
    <2>1. refcnt' = [refcnt EXCEPT ![h] = @ - 1]
      BY <1>1, PutOne, Zenon DEF IInv, Life, Types
    <2> QED BY <1>1, <2>1, Zenon DEF IInv, Life, Types, EntryTypes
  <1>4. /\ Retiring(h)' = Retiring(h) \ {r} /\ r \in Retiring(h)
        /\ Retiring(h) \in SUBSET Requests
        /\ \A e \in Requests \ {h} : Retiring(e)' = Retiring(e)
    BY <1>0, <1>1, <1>2, Zenon DEF Retiring, IInv, Life, Types, ThreadTypes, Actors
  <1>5. \A e \in Requests : Holders(e)' = Holders(e) /\ InTree(e)' = InTree(e)
    BY <1>1, Zenon DEF Holders, InTree
  <1>6. Working' = Working /\ Dropped' = Dropped
    BY <1>1, <1>2, Zenon DEF Working, Dropped, Active, IInv, Life, Types,
       ThreadTypes, Actors
  <1>7. Cardinality(Retiring(h)') = Cardinality(Retiring(h)) - 1
    BY <1>4, Removed, Zenon
  <1>8. InTree(h) \in {0, 1} /\ InTree(h)' = InTree(h) /\ Holders(h)' = Holders(h)
    BY <1>1, <1>5, Zenon DEF InTree
  <1>9. Cardinality(Holders(h)') + Cardinality(Retiring(h)') + InTree(h)'
          = Cardinality(Holders(h)) + Cardinality(Retiring(h)) + InTree(h) + (-1)
    BY <1>7, <1>8, CountsNatural
  <1>10. RefsExact'
    <2>1. EntryTypes /\ RefsExact /\ -1 \in Int
      BY DEF IInv, Life, Types, CountsExact
    <2>2. \A e \in Requests \ {h} :
            /\ Holders(e)' = Holders(e) /\ Retiring(e)' = Retiring(e)
            /\ InTree(e)' = InTree(e)
      BY <1>4, <1>5, Zenon
    <2> QED BY <1>1, <1>3, <1>9, <2>1, <2>2, RefsMoved, Zenon
  <1> QED BY <1>1, <1>6, <1>10, DrcRefsKept, Zenon DEF IInv, CountsExact, SizeExact

\* A call that is forgotten.
LEMMA DeleteCounts ==
    ASSUME IInv, NEW r \in Requests, Delete(r)
    PROVE  CountsExact'
  <1>0. PICK h : h = held[r]
    OBVIOUS
  <1>1. /\ pc[r] = "delete" /\ tree' = tree \ {h} /\ size' = size - 1
        /\ refcnt' = [refcnt EXCEPT ![h] = @ - 1] /\ pc' = [pc EXCEPT ![r] = "rele"]
        /\ UNCHANGED <<held, ov, drcref, attached>>
    BY <1>0, Zenon DEF Delete, Goto, lifetime
  <1>2. h \in tree /\ h \in Requests
    BY <1>0, <1>1, Zenon DEF IInv, Life, Charge, Placed, Types, CacheTypes
  <1>3. \A e \in Requests : Holders(e)' = Holders(e) /\ Retiring(e)' = Retiring(e)
    BY <1>1, Zenon DEF Holders, Retiring, IInv, Life, Types, ThreadTypes, Actors
  <1>4. Working' = Working /\ Dropped' = Dropped
    BY <1>1, Zenon DEF Working, Dropped, Active, IInv, Life, Types, ThreadTypes,
       Actors
  <1>5. InTree(h) = 1 /\ InTree(h)' = 0 /\ \A e \in Requests \ {h} : InTree(e)' = InTree(e)
    BY <1>1, <1>2, Zenon DEF InTree
  <1>6. refcnt' = [refcnt EXCEPT ![h] = @ + (-1)]
    BY <1>1, <1>2, Zenon DEF IInv, Life, Types, EntryTypes
  <1>7. Holders(h)' = Holders(h) /\ Retiring(h)' = Retiring(h)
    BY <1>2, <1>3, Zenon
  <1>8. Cardinality(Holders(h)') + Cardinality(Retiring(h)') + InTree(h)'
          = Cardinality(Holders(h)) + Cardinality(Retiring(h)) + InTree(h) + (-1)
    BY <1>5, <1>7, CountsNatural
  <1>9. RefsExact'
    <2>1. EntryTypes /\ RefsExact /\ -1 \in Int
      BY DEF IInv, Life, Types, CountsExact
    <2>2. \A e \in Requests \ {h} :
            /\ Holders(e)' = Holders(e) /\ Retiring(e)' = Retiring(e)
            /\ InTree(e)' = InTree(e)
      BY <1>3, <1>5, Zenon
    <2> QED BY <1>2, <1>6, <1>8, <2>1, <2>2, RefsMoved, Zenon
  <1>10. SizeExact'
    BY <1>1, <1>2, Removed, Zenon DEF IInv, Life, Types, CacheTypes, CountsExact,
       SizeExact
  <1> QED BY <1>1, <1>4, <1>9, <1>10, DrcRefsKept, Zenon DEF IInv, CountsExact

\* nfs_dupreq_rele resumes the next duplicate, which has its own references.
LEMMA ReleCounts ==
    ASSUME IInv, NEW r \in Requests, Rele(r)
    PROVE  CountsExact'
  <1>1. /\ pc[r] = "rele" /\ held[r] \in Requests
        /\ UNCHANGED <<refcnt, held, tree, size, ov, drcref, attached>>
    BY Zenon DEF Rele, cache, lifetime, locals, IInv, Life, Held, Holding
  <1>2. CASE dupes[held[r]] = <<>>
    BY <1>1, <1>2, CountersKept, Zenon DEF Rele, Goto, IInv, Life, Active,
       RequestLabels
  <1>3. CASE dupes[held[r]] # <<>>
    <2>1. PICK d : /\ d = Head(dupes[held[r]])
                   /\ pc' = [pc EXCEPT ![r] = "put", ![d] = "resumed"]
      BY <1>3, Zenon DEF Rele
    <2>2. d \in Requests /\ pc[d] = "suspended"
      BY <1>1, <1>3, <2>1, NextDupe, Zenon DEF IInv
    <2>3. /\ \A e \in Requests : Retiring(e)' = Retiring(e)
          /\ Working' = Working /\ Dropped' = Dropped
      BY <1>1, <2>1, <2>2, Zenon
      DEF Retiring, Working, Dropped, Active, IInv, Life, Types, ThreadTypes, Actors
    <2> QED BY <1>1, <2>3, RefsKept, DrcRefsKept, Zenon DEF IInv, CountsExact,
               SizeExact
  <1> QED BY <1>2, <1>3, Zenon

\* A request releases its entry and the DRC.
LEMMA PutCounts ==
    ASSUME IInv, NEW r \in Requests, Put(r)
    PROVE  CountsExact'
  <1>0. PICK h : h = held[r]
    OBVIOUS
  <1>1. /\ pc[r] = "put" /\ h \in Requests /\ EntryPut({h})
        /\ held' = [held EXCEPT ![r] = NoEntry] /\ drcref' = drcref - 1
        /\ pc' = [pc EXCEPT ![r] = "done"]
        /\ UNCHANGED <<tree, size, ov, attached>>
    <2>1. pc[r] = "put" /\ drcref # 1
      BY CountsTell DEF Put, Counted, Active, IInv, Life, Types, CacheTypes
    <2> QED BY <1>0, <2>1, Zenon DEF Put, Goto, cache, locals, IInv, Life, Held,
               Holding
  <1>2. refcnt' = [refcnt EXCEPT ![h] = @ + (-1)]
    <2>1. refcnt' = [refcnt EXCEPT ![h] = @ - 1]
      BY <1>1, PutOne, Zenon DEF IInv, Life, Types
    <2> QED BY <1>1, <2>1, Zenon DEF IInv, Life, Types, EntryTypes
  <1>3. /\ Holders(h)' = Holders(h) \ {r} /\ r \in Holders(h)
        /\ Holders(h) \in SUBSET Requests
        /\ \A e \in Requests \ {h} : Holders(e)' = Holders(e)
    BY <1>0, <1>1, DupReqAssumption DEF Holders, IInv, Life, Types, ThreadTypes
  <1>4. \A e \in Requests : Retiring(e)' = Retiring(e) /\ InTree(e)' = InTree(e)
    BY <1>1, Zenon DEF Retiring, InTree, IInv, Life, Types, ThreadTypes, Actors
  <1>5. /\ Working' = Working \ {r} /\ r \in Working /\ Working \in SUBSET Requests
        /\ Dropped' = Dropped
    BY <1>1, Zenon DEF Working, Dropped, Active, IInv, Life, Types, ThreadTypes,
       Actors
  <1>6. Cardinality(Holders(h)') = Cardinality(Holders(h)) - 1
    BY <1>3, Removed, Zenon
  <1>7. InTree(h) \in {0, 1} /\ InTree(h)' = InTree(h) /\ Retiring(h)' = Retiring(h)
    BY <1>1, <1>4, Zenon DEF InTree
  <1>8. Cardinality(Holders(h)') + Cardinality(Retiring(h)') + InTree(h)'
          = Cardinality(Holders(h)) + Cardinality(Retiring(h)) + InTree(h) + (-1)
    BY <1>6, <1>7, CountsNatural, SMTT(30)
  <1>9. RefsExact'
    <2>1. EntryTypes /\ RefsExact /\ -1 \in Int
      BY DEF IInv, Life, Types, CountsExact
    <2>2. \A e \in Requests \ {h} :
            /\ Holders(e)' = Holders(e) /\ Retiring(e)' = Retiring(e)
            /\ InTree(e)' = InTree(e)
      BY <1>3, <1>4, Zenon
    <2> QED BY <1>1, <1>2, <1>8, <2>1, <2>2, RefsMoved, Zenon
  <1>10. drcref' = Cardinality(attached') + Cardinality(Working') + Cardinality(Dropped')
    <2>1. drcref = Cardinality(attached) + Cardinality(Working) + Cardinality(Dropped)
      BY DrcDef, Zenon DEF IInv, CountsExact
    <2>2. Cardinality(attached) \in Nat
      BY Finite, Zenon DEF IInv, Life, Types, CacheTypes
    <2>3. Cardinality(Working') = Cardinality(Working) - 1
      BY <1>5, Removed, Zenon
    <2> QED BY <1>1, <1>5, <2>1, <2>2, <2>3, CountsNatural, SMTT(30)
  <1>11. DrcRefsExact'
    BY <1>10, Zenon DEF DrcRefsExact, Working, Dropped
  <1> QED BY <1>1, <1>9, <1>11, Zenon DEF IInv, CountsExact, SizeExact

\* The connections, and the thread that frees the DRC.
LEMMA XprtCounts ==
    ASSUME IInv, NEW x \in Xprts, FreeXprt(x) \/ Recycle(x)
    PROVE  CountsExact'
  <1>1. /\ \/ /\ attached' = attached \ {x}
              /\ drcref' = IF x \in attached THEN drcref - 1 ELSE drcref
           \/ UNCHANGED <<attached, drcref>>
        /\ \E l : pc' = [pc EXCEPT ![x] = l]
        /\ UNCHANGED <<refcnt, held, tree, size, ov>>
    BY Zenon DEF FreeXprt, Recycle, Goto, entries, cache, locals
  <1>2. \A q \in Requests : pc'[q] = pc[q]
    BY <1>1, DupReqAssumption DEF IInv, Life, Types, ThreadTypes, Actors
  <1>3. /\ \A e \in Requests : Retiring(e)' = Retiring(e)
        /\ Working' = Working /\ Dropped' = Dropped
    BY <1>1, <1>2, Zenon DEF Retiring, Working, Dropped, Active
  <1>4. drcref' = Cardinality(attached') + Cardinality(Working') + Cardinality(Dropped')
    <2>1. drcref = Cardinality(attached) + Cardinality(Working) + Cardinality(Dropped)
      BY DrcDef, Zenon DEF IInv, CountsExact
    <2>2. IsFiniteSet(attached) /\ Cardinality(attached) \in Nat
      BY Finite, Zenon DEF IInv, Life, Types, CacheTypes
    <2>3. CASE x \in attached
      <3>1. Cardinality(attached \ {x}) = Cardinality(attached) - 1
        BY <2>2, <2>3, FS_RemoveElement, Zenon
      <3>2. \/ attached' = attached \ {x} /\ drcref' = drcref - 1
            \/ attached' = attached /\ drcref' = drcref
        BY <1>1, <2>3, Zenon
      <3>3. CASE attached' = attached \ {x} /\ drcref' = drcref - 1
        BY <1>3, <2>1, <2>2, <3>1, <3>3, CountsNatural, SMTT(30)
      <3>4. CASE attached' = attached /\ drcref' = drcref
        BY <1>3, <2>1, <3>4, Zenon
      <3> QED BY <3>2, <3>3, <3>4, Zenon
    <2>4. CASE x \notin attached
      <3>1. attached' = attached /\ drcref' = drcref
        BY <1>1, <2>4, Zenon
      <3> QED BY <1>3, <2>1, <3>1, Zenon
    <2> QED BY <2>3, <2>4, Zenon
  <1>5. DrcRefsExact'
    BY <1>4, Zenon DEF DrcRefsExact, Working, Dropped
  <1> QED BY <1>1, <1>3, <1>5, RefsKept, Zenon DEF IInv, CountsExact, SizeExact

LEMMA FreeExpiredCounts ==
    ASSUME IInv, FreeExpired
    PROVE  CountsExact'
  <1>1. /\ recycled /\ EntryPut(Elems(queue)) /\ tree' = {} /\ size' = 0
        /\ UNCHANGED <<drcref, attached, pc, held, ov>>
    BY Zenon DEF FreeExpired, Elems, locals
  <1>2. tree = Elems(queue) /\ \A e \in tree : refcnt[e] = 1
    BY <1>1, Idle, CountsTell, Zenon DEF IInv
  <1>3. \A e \in Requests : refcnt'[e] = refcnt[e] - InTree(e)
    BY <1>1, <1>2 DEF EntryPut, InTree, IInv, Life, Types, EntryTypes
  <1>4. \A e \in Requests : /\ Holders(e)' = Holders(e) /\ Retiring(e)' = Retiring(e)
                            /\ InTree(e)' = 0 /\ InTree(e) \in {0, 1}
    BY <1>1, Zenon DEF Holders, Retiring, InTree
  <1>5. \A e \in Requests :
           refcnt[e] = Cardinality(Holders(e)) + Cardinality(Retiring(e)) + InTree(e)
    BY RefsDef, Zenon DEF IInv, CountsExact
  <1>6. \A e \in Requests :
           refcnt'[e] = Cardinality(Holders(e)') + Cardinality(Retiring(e)') + InTree(e)'
    BY <1>3, <1>4, <1>5, CountsNatural
  <1>7. RefsExact'
    BY <1>6, Zenon DEF RefsExact, Holders, Retiring, InTree
  <1>8. Working' = Working /\ Dropped' = Dropped
    BY <1>1, Zenon DEF Working, Dropped, Active
  <1> QED BY <1>1, <1>7, <1>8, DrcRefsKept, FS_EmptySet, Zenon DEF IInv,
             CountsExact, SizeExact

LEMMA NextKeepsCounts ==
    ASSUME IInv, [Next]_vars
    PROVE  CountsExact'
  <1>1. ASSUME NEW r \in Requests, Arrive(r) \/ Step(r)
        PROVE  CountsExact'
    <2>1. ~Recycle(r)
      BY Zenon DEF Recycle, IInv, Life, Types, ThreadTypes, RequestLabels
    <2> QED BY <1>1, <2>1, ArriveCounts, StartCounts, WorkCounts, RetireCounts,
               PutRetiredCounts, DeleteCounts, ReleCounts, PutCounts, Zenon
          DEF Step, End, Release
  <1>2. ASSUME UNCHANGED <<refcnt, held, tree, size, ov, drcref, attached, pc>>
        PROVE  CountsExact'
    <2>1. /\ \A e \in Requests : Retiring(e)' = Retiring(e)
          /\ Working' = Working /\ Dropped' = Dropped
      BY <1>2, Zenon DEF Retiring, Working, Dropped, Active
    <2> QED BY <1>2, <2>1, RefsKept, DrcRefsKept, Zenon DEF IInv, CountsExact,
               SizeExact
  <1>3. ASSUME NEW r \in Requests, ExtendWindow(r)
        PROVE  CountsExact'
    BY <1>2, <1>3, Zenon DEF ExtendWindow, entries, lifetime, locals
  <1>4. CASE Next
    BY <1>1, <1>3, <1>4, XprtCounts, FreeExpiredCounts, Zenon DEF Next
  <1>5. CASE UNCHANGED vars
    BY <1>2, <1>5, Zenon DEF vars, entries, cache, lifetime, locals
  <1> QED BY <1>4, <1>5, Zenon

LEMMA InitIInv == Init => IInv
  <1> SUFFICES ASSUME Init PROVE IInv
    OBVIOUS
  <1>1. Life
    BY InitLife, Zenon
  <1>2. \A e \in Requests : refcnt[e] = 0 /\ Holders(e) = {} /\ Retiring(e) = {} /\ InTree(e) = 0
    BY DupReqAssumption, Zenon DEF Init, Holders, Retiring, InTree
  <1>3. Working = {} /\ Dropped = {}
    BY Zenon DEF Init, Working, Dropped, Active, Actors
  <1>4. Cardinality({}) = 0
    BY FS_EmptySet, Zenon
  <1>5. RefsExact
    BY <1>2, <1>4, RefsDef
  <1>6. SizeExact
    BY <1>4, Zenon DEF Init, SizeExact
  <1>7. DrcRefsExact
    BY <1>3, <1>4, DrcDef, SMTT(30) DEF Init
  <1> QED BY <1>1, <1>5, <1>6, <1>7, Zenon DEF IInv, CountsExact

LEMMA NextKeeps == IInv /\ [Next]_vars => IInv'
  <1> SUFFICES ASSUME IInv, [Next]_vars PROVE IInv'
    OBVIOUS
  <1>1. CountsExact'
    BY NextKeepsCounts, Zenon
  <1>2. Life'
    BY CountsTell, NextKeepsLife, Zenon DEF IInv
  <1> QED BY <1>1, <1>2, Zenon DEF IInv

LEMMA Inductive == Spec => []IInv
  BY InitIInv, NextKeeps, PTL DEF Spec

-----------------------------------------------------------------------------
\* The variables keep their types; no counter becomes negative.
THEOREM TypeCorrect == Spec => []TypeOK
  <1>1. ASSUME IInv PROVE TypeOK
    <2>1. \A e \in Requests : refcnt[e] \in Nat
      BY <1>1, RefsDef, CountsNatural DEF IInv, CountsExact, InTree
    <2>2. size \in Nat
      BY <1>1, Finite, Zenon DEF IInv, Life, Types, CacheTypes, CountsExact, SizeExact
    <2>3. drcref \in Nat
      BY <1>1, DrcDef, CountsNatural, Finite, SMTT(30) DEF IInv, Life, Types, CacheTypes,
         CountsExact
    <2> QED BY <1>1, <2>1, <2>2, <2>3, Zenon
      DEF IInv, Life, Types, EntryTypes, SeqTypes, CacheTypes, ThreadTypes, TypeOK
  <1> QED BY <1>1, Inductive, PTL

\* nfs_dupreq_finish, nfs_dupreq_delete and drc_resume hand an entry in progress
\* from one request to the next: exactly one is in charge.
THEOREM InChargeOnce == Spec => []OneInCharge
  <1>1. IInv => OneInCharge
    BY Zenon DEF IInv, Life, Charge
  <1> QED BY <1>1, Inductive, PTL

\* However often the reply is lost and a duplicate resumed, no call is carried
\* out twice.
THEOREM CarriedOutOnce == Spec => []ExecutedOnce
  <1>1. IInv => ExecutedOnce
    BY Zenon DEF IInv, Life, Fate, RequestFate, ExecutedOnce
  <1> QED BY <1>1, Inductive, PTL

\* A duplicate that drc_resume leaves without a reply has been answered.
THEOREM SilentlyAnswered == Spec => []SilentAnswered
  <1>1. ASSUME IInv PROVE SilentAnswered
    <2> SUFFICES ASSUME NEW r \in Requests, pc[r] = "resumed", rc[held[r]] = "OK"
                 PROVE  held[r] \in answered
      BY Zenon DEF SilentAnswered
    <2>1. held[r] \in tree \cup complete
      BY <1>1, Zenon DEF IInv, Life, Charge, Placed
    <2>2. held[r] \in complete
      BY <1>1, <2>1, Zenon DEF IInv, Life, Fate, RequestFate
    <2> QED BY <1>1, <2>2, Zenon DEF IInv, Life, Fate, CompleteFate
  <1> QED BY <1>1, Inductive, PTL

\* dupreq_entry_put and nfs_dupreq_put_drc free what nobody uses any more, once,
\* and drc->size is the size of the tree.
THEOREM CountersExact == Spec => []CountsExact
  <1>1. IInv => CountsExact
    BY Zenon DEF IInv
  <1> QED BY <1>1, Inductive, PTL

\* The assertions of drc_free_expired: what is in the recycle queue is idle.
THEOREM RecycledIsUnused == Spec => []RecycledUnused
  <1>1. ASSUME IInv PROVE RecycledUnused
    <2> SUFFICES ASSUME recycled
                 PROVE  /\ drc /\ drcref = 0
                        /\ \A a \in Actors : pc[a] # "recycle"
                        /\ extending = {} /\ tree = Elems(queue)
                        /\ \A e \in tree : refcnt[e] = 1
      BY Zenon DEF RecycledUnused, Elems
    <2>1. \A a \in Actors : pc[a] # "recycle"
      BY <1>1, Zenon DEF IInv, Life, DrcLife, Types, ThreadTypes, RequestLabels,
         Actors
    <2> QED BY <1>1, <2>1, Idle, CountsTell, Zenon DEF IInv
  <1> QED BY <1>1, Inductive, PTL

\* A suspended duplicate has a request that is going to resume it.
THEOREM NobodyForgotten == Spec => []SuspendedHasResumer
  <1>1. IInv => SuspendedHasResumer
    BY Zenon DEF IInv, Life
  <1> QED BY <1>1, Inductive, PTL

-----------------------------------------------------------------------------
(* The cache implements ReplyCache.                                        *)

\* What the client sees of a call that is in the tree.
LEMMA Known ==
    ASSUME OnePerKey, NEW e \in tree
    PROVE  /\ Entry(KeyOf[e]) = {e}
           /\ CallOf(KeyOf[e]) = IF e \in executed THEN "replied" ELSE "running"
  <1>1. Entry(KeyOf[e]) = {e}
    BY Zenon DEF OnePerKey, Entry
  <1> QED BY <1>1, Zenon DEF CallOf

\* Nothing happens to a call whose entry stays.
LEMMA SameCall ==
    ASSUME NEW k, Entry(k)' = Entry(k),
           \A e \in Entry(k) : e \in executed' <=> e \in executed
    PROVE  CallOf(k)' = CallOf(k)
  BY Zenon DEF CallOf

LEMMA CallsKept ==
    ASSUME UNCHANGED tree, \A e \in tree : e \in executed' <=> e \in executed
    PROVE  UNCHANGED [k \in Keys |-> CallOf(k)]
  <1>1. ASSUME NEW k \in Keys PROVE CallOf(k)' = CallOf(k)
    BY SameCall, Zenon DEF Entry
  <1> QED BY <1>1, Zenon

\* One call changes.
LEMMA CallMoved ==
    ASSUME NEW k \in Keys, NEW v, CallOf(k)' = v,
           \A j \in Keys \ {k} : CallOf(j)' = CallOf(j)
    PROVE  [j \in Keys |-> CallOf(j)]' = [[j \in Keys |-> CallOf(j)] EXCEPT ![k] = v]
  BY Zenon

LEMMA StartNewBegins ==
    ASSUME IInv, NEW r \in Requests, StartNew(r)
    PROVE  \E k \in Keys : RC!Begin(k)
  <1>1. PICK k : k = KeyOf[r] /\ k \in Keys
    BY Zenon DEF Keys
  <1>2. /\ tree' = tree \cup {r} /\ executed' = executed /\ pc[r] = "start"
        /\ \A e \in tree : KeyOf[e] # k
    BY <1>1, Zenon DEF StartNew, Lookup, Hit, history
  <1>3. r \notin executed
    BY <1>2, Zenon DEF IInv, Life, Fresh
  <1>4. CallOf(k) = "unknown"
    BY <1>2, Zenon DEF CallOf, Entry
  <1>5. CallOf(k)' = "running"
    <2>1. Entry(k)' = {r}
      BY <1>1, <1>2, Zenon DEF Entry
    <2> QED BY <1>2, <1>3, <2>1, Zenon DEF CallOf
  <1>6. ASSUME NEW j \in Keys \ {k} PROVE CallOf(j)' = CallOf(j)
    <2>1. Entry(j)' = Entry(j)
      BY <1>1, <1>2, Zenon DEF Entry
    <2> QED BY <1>2, <2>1, SameCall, Zenon
  <1>7. [j \in Keys |-> CallOf(j)]' = [[j \in Keys |-> CallOf(j)] EXCEPT ![k] = "running"]
    BY <1>1, <1>5, <1>6, CallMoved, Zenon
  <1> QED BY <1>1, <1>4, <1>7, Zenon DEF RC!Begin

LEMMA ReplyCarriesOut ==
    ASSUME IInv, NEW r \in Requests, ReplySent(r) \/ ReplyFails(r)
    PROVE  \E k \in Keys : RC!CarryOut(k)
  <1>1. PICK h : h = held[r]
    OBVIOUS
  <1>2. /\ pc[r] = "execute" /\ tree' = tree /\ executed' = executed \cup {h}
    BY <1>1, Zenon DEF ReplySent, ReplyFails, cache
  <1>3. h \in tree /\ h \notin executed /\ h \in Requests
    BY <1>1, <1>2, Zenon DEF IInv, Life, Charge, Placed, Fate, RequestFate, Types,
       CacheTypes
  <1>4. PICK k : k = KeyOf[h] /\ k \in Keys
    BY <1>3, Zenon DEF Keys
  <1>5. Entry(k) = {h} /\ CallOf(k) = "running"
    BY <1>3, <1>4, Known, Zenon DEF IInv, Life
  <1>6. CallOf(k)' = "replied"
    <2>1. Entry(k)' = {h}
      BY <1>2, <1>5, Zenon DEF Entry
    <2> QED BY <1>2, <2>1, Zenon DEF CallOf
  <1>7. ASSUME NEW j \in Keys \ {k} PROVE CallOf(j)' = CallOf(j)
    <2>1. Entry(j)' = Entry(j) /\ h \notin Entry(j)
      BY <1>2, <1>4, Zenon DEF Entry
    <2> QED BY <1>2, <2>1, SameCall, Zenon
  <1>8. [j \in Keys |-> CallOf(j)]' = [[j \in Keys |-> CallOf(j)] EXCEPT ![k] = "replied"]
    BY <1>4, <1>6, <1>7, CallMoved, Zenon
  <1> QED BY <1>4, <1>5, <1>8, Zenon DEF RC!CarryOut

\* Entries that leave the tree.
LEMMA Gone ==
    ASSUME IInv, NEW E \in SUBSET tree, tree' = tree \ E,
           \A e \in tree' : e \in executed' <=> e \in executed
    PROVE  \A k \in Keys :
             CallOf(k)' = IF k \in {KeyOf[e] : e \in E} THEN "unknown" ELSE CallOf(k)
  <1> SUFFICES ASSUME NEW k \in Keys
               PROVE  CallOf(k)' = IF k \in {KeyOf[e] : e \in E} THEN "unknown" ELSE CallOf(k)
    OBVIOUS
  <1>1. CASE k \in {KeyOf[e] : e \in E}
    <2>1. PICK e \in E : k = KeyOf[e]
      BY <1>1, Zenon
    <2>2. Entry(k)' = {}
      BY <2>1, Zenon DEF Entry, IInv, Life, OnePerKey
    <2> QED BY <1>1, <2>2, Zenon DEF CallOf
  <1>2. CASE k \notin {KeyOf[e] : e \in E}
    <2>1. Entry(k)' = Entry(k) /\ Entry(k) \subseteq tree'
      BY <1>2, Zenon DEF Entry
    <2>2. CallOf(k)' = CallOf(k)
      BY <2>1, SameCall, Zenon
    <2> QED BY <1>2, <2>2, Zenon
  <1> QED BY <1>1, <1>2, Zenon

LEMMA DeleteAbandons ==
    ASSUME IInv, NEW r \in Requests, Delete(r)
    PROVE  \E k \in Keys : RC!Abandon(k)
  <1>1. PICK h : h = held[r]
    OBVIOUS
  <1>2. pc[r] = "delete" /\ tree' = tree \ {h} /\ executed' = executed
    BY <1>1, Zenon DEF Delete, history
  <1>3. h \in tree /\ h \notin executed /\ h \in Requests
    BY <1>1, <1>2, Zenon DEF IInv, Life, Charge, Placed, Fate, RequestFate, Types,
       CacheTypes
  <1>4. PICK k : k = KeyOf[h] /\ k \in Keys
    BY <1>3, Zenon DEF Keys
  <1>5. CallOf(k) = "running"
    BY <1>3, <1>4, Known, Zenon DEF IInv, Life
  <1>6. \A j \in Keys : CallOf(j)' = IF j \in {KeyOf[e] : e \in {h}} THEN "unknown" ELSE CallOf(j)
    BY <1>2, <1>3, Gone, Zenon
  <1>7. [j \in Keys |-> CallOf(j)]' = [[j \in Keys |-> CallOf(j)] EXCEPT ![k] = "unknown"]
    BY <1>4, <1>6, CallMoved
  <1> QED BY <1>4, <1>5, <1>7, Zenon DEF RC!Abandon

\* What is retired or freed was carried out.
LEMMA GoneForgets ==
    ASSUME IInv, NEW E \in SUBSET tree, E \subseteq complete, tree' = tree \ E,
           \A e \in tree' : e \in executed' <=> e \in executed
    PROVE  \E ks \in SUBSET Keys : RC!Forget(ks)
  <1>1. PICK ks : ks = {KeyOf[e] : e \in E}
    BY Zenon
  <1>2. ks \in SUBSET Keys
    BY <1>1, Zenon DEF Keys, IInv, Life, Types, CacheTypes
  <1>3. ASSUME NEW k \in ks PROVE CallOf(k) = "replied"
    <2>1. PICK e \in E : k = KeyOf[e]
      BY <1>1, Zenon
    <2>2. e \in tree /\ e \in executed
      BY Zenon DEF IInv, Life, Fate, CompleteFate
    <2> QED BY <2>1, <2>2, Known, Zenon DEF IInv, Life
  <1>4. \A k \in Keys : CallOf(k)' = IF k \in ks THEN "unknown" ELSE CallOf(k)
    BY <1>1, Gone, Zenon
  <1> QED BY <1>2, <1>3, <1>4, Zenon DEF RC!Forget

LEMMA RetireForgets ==
    ASSUME IInv, NEW r \in Requests, Retire(r)
    PROVE  \E ks \in SUBSET Keys : RC!Forget(ks)
  <1>1. queue # <<>> /\ tree' = tree \ {Head(queue)} /\ executed' = executed
    BY Zenon DEF Retire, AtHead, history
  <1>2. Head(queue) \in tree \cap complete
    <2>1. queue \in Seq(Requests) /\ Distinct(queue) /\ Elems(queue) \subseteq tree \cap complete
      BY Zenon DEF IInv, Life, Types, SeqTypes, Queued
    <2> QED BY <1>1, <2>1, Beheaded, Zenon
  <1>3. PICK E \in SUBSET tree : E = {Head(queue)}
    BY <1>2, Zenon
  <1> QED BY <1>1, <1>2, <1>3, GoneForgets, Zenon

LEMMA FreeExpiredForgets ==
    ASSUME IInv, FreeExpired
    PROVE  \E ks \in SUBSET Keys : RC!Forget(ks)
  <1>1. recycled /\ tree' = {}
    BY Zenon DEF FreeExpired
  <1>2. tree \subseteq complete
    BY <1>1, Idle, CountsTell, Zenon DEF IInv
  <1>3. tree' = tree \ tree
    BY <1>1, Zenon
  <1> QED BY <1>1, <1>2, <1>3, GoneForgets, Zenon

\* The last reference to an entry is not that of the tree.
LEMMA PutsKeepCalls ==
    ASSUME IInv, NEW r \in Requests, PutRetired(r) \/ Put(r)
    PROVE  UNCHANGED [k \in Keys |-> CallOf(k)]
  <1>1. PICK h \in Requests : /\ EntryPut({h}) /\ UNCHANGED tree
                              /\ held[r] = h \/ Retires(r, h)
    BY Zenon DEF PutRetired, Put, cache, Retires, IInv, Life, Types, ThreadTypes,
       Held, Holding
  <1>2. refcnt[h] = 1 => h \notin tree
    BY <1>1, CountsTell, Zenon DEF Counted, LastUse
  <1>3. tree \in SUBSET Requests /\ EntryTypes
    BY Zenon DEF IInv, Life, Types, CacheTypes
  <1>4. Spared(tree)
    BY <1>1, <1>2, <1>3, SparesOthers, Zenon
  <1> QED BY <1>1, <1>4, CallsKept, Zenon DEF Spared

LEMMA InitialSimulates == Init => RC!Init
  BY Zenon DEF Init, RC!Init, CallOf, Entry

LEMMA NextSimulates ==
    IInv /\ [Next]_vars => [RC!Next]_[k \in Keys |-> CallOf(k)]
  <1> SUFFICES ASSUME IInv, [Next]_vars
               PROVE  RC!Next \/ UNCHANGED [k \in Keys |-> CallOf(k)]
    OBVIOUS
  <1>1. UNCHANGED <<tree, executed>> => UNCHANGED [k \in Keys |-> CallOf(k)]
    BY CallsKept, Zenon
  <1>2. ASSUME NEW r \in Requests, Arrive(r) \/ ExtendWindow(r) \/ Start(r)
        PROVE  RC!Next \/ UNCHANGED [k \in Keys |-> CallOf(k)]
    <2>1. StartNew(r) \/ UNCHANGED <<tree, executed>>
      BY <1>2, Zenon DEF Arrive, GetDrc, AttachDrc, ExtendWindow, Start, StartQueued,
                  StartDropped, StartExists, cache, history
    <2> QED BY <1>1, <2>1, StartNewBegins, Zenon DEF RC!Next
  <1>3. ASSUME NEW r \in Requests, Process(r) \/ Resume(r)
        PROVE  RC!Next \/ UNCHANGED [k \in Keys |-> CallOf(k)]
    <2>1. ReplySent(r) \/ ReplyFails(r) \/ UNCHANGED <<tree, executed>>
      BY <1>3, Zenon DEF Process, Refuse, SendCached, Resume, ResumeReplied,
         ResumeRefused,
                  ResumeLost, cache, history
    <2> QED BY <1>1, <2>1, ReplyCarriesOut, Zenon DEF RC!Next
  <1>4. ASSUME NEW r \in Requests, End(r)
        PROVE  RC!Next \/ UNCHANGED [k \in Keys |-> CallOf(k)]
    <2>1. Delete(r) \/ Retire(r) \/ PutRetired(r) \/ UNCHANGED <<tree, executed>>
      BY <1>4, Zenon DEF End, FinishLost, Finish, Enqueue, RetireNothing,
         DeleteQueued, cache,
                  history
    <2> QED BY <1>1, <2>1, DeleteAbandons, RetireForgets, PutsKeepCalls,
               Zenon DEF RC!Next
  <1>5. ASSUME NEW r \in Requests, Release(r)
        PROVE  RC!Next \/ UNCHANGED [k \in Keys |-> CallOf(k)]
    <2>1. Put(r) \/ UNCHANGED <<tree, executed>>
      BY <1>5, Zenon DEF Release, Rele, cache, history
    <2> QED BY <1>1, <2>1, PutsKeepCalls, Zenon
  <1>6. ASSUME NEW a, Recycle(a) \/ FreeXprt(a)
        PROVE  UNCHANGED [k \in Keys |-> CallOf(k)]
    <2>1. UNCHANGED <<tree, executed>>
      BY <1>6, Zenon DEF Recycle, FreeXprt, cache, history
    <2> QED BY <1>1, <2>1, Zenon
  <1>7. UNCHANGED vars => UNCHANGED <<tree, executed>>
    BY Zenon DEF vars, cache, history
  <1>8. CASE Next
    BY <1>2, <1>3, <1>4, <1>5, <1>6, <1>8, FreeExpiredForgets, Zenon DEF Next, Step,
       RC!Next
  <1> QED BY <1>1, <1>7, <1>8, Zenon

\* The duplicate request cache keeps the promise of ReplyCache: it forgets a call
\* in progress only if the call was not carried out.
THEOREM Implements == Spec => CacheKeepsPromise
  BY Inductive, InitialSimulates, NextSimulates, PTL DEF Spec, CacheKeepsPromise,
     RC!Spec
=============================================================================
