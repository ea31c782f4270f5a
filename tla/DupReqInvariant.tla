-------------------------- MODULE DupReqInvariant ---------------------------
(***************************************************************************)
(* Proofs about DupReq for any number of requests and connections and any  *)
(* limits of the cache.  Life follows an entry: no entry before            *)
(* nfs_dupreq_start makes one (Fresh), one request in charge of it while   *)
(* it is in progress (Charge), what that request knows of its fate (Fate), *)
(* queued once it is complete (Queued), and the duplicates that wait for   *)
(* it (Waiting).  DrcLife is about the DRC itself.  Every action keeps     *)
(* Life as long as the counters tell the truth (Counted), which            *)
(* DupReqProofs adds to make the invariant inductive.                      *)
(***************************************************************************)
EXTENDS DupReq, TLAPS

\* The labels at which a request has an entry (rq_u1).
Holding == {"execute", "finish", "delete", "enqueue", "retire", "retired",
            "exists", "suspended", "resumed", "rele", "put"}
Elems(s) == {s[i] : i \in DOMAIN s}
Distinct(s) == \A i, j \in DOMAIN s : s[i] = s[j] => i = j

EntryTypes ==
    /\ refcnt \in [Requests -> Int]
    /\ complete \subseteq Requests /\ rc \in [Requests -> Results]
    /\ dupe_cnt \in [Requests -> 0 .. MaxDupes]
    /\ executed \subseteq Requests /\ answered \subseteq Requests
SeqTypes ==
    /\ dupes \in [Requests -> Seq(Requests)] /\ \A e \in Requests : Distinct(dupes[e])
    /\ queue \in Seq(Requests) /\ Distinct(queue)
CacheTypes ==
    /\ tree \subseteq Requests /\ size \in Int /\ retwnd \in Nat
    /\ drcref \in Int /\ drc \in BOOLEAN /\ recycled \in BOOLEAN
    /\ attached \subseteq Xprts /\ dead \subseteq Xprts
ThreadTypes ==
    /\ pc \in [Actors -> Labels]
    /\ \A r \in Requests : pc[r] \in RequestLabels \cup {"done", "dropped"}
    /\ \A x \in Xprts : pc[x] \in {"open", "recycle", "done"}
    /\ held \in [Requests -> Requests \cup {NoEntry}]
    /\ result \in [Requests -> Results]
    /\ ov \in [Requests -> Requests \cup {NoEntry}]
    /\ \A r \in Requests : pc[r] \in {"retire", "retired"} => ov[r] \in Requests
    /\ cnt \in [Requests -> 0 .. MaxRetries]
    /\ extending \subseteq Requests
Types == EntryTypes /\ SeqTypes /\ CacheTypes /\ ThreadTypes

\* A request holds an entry with its own key, from nfs_dupreq_start to
\* nfs_dupreq_rele.
Held ==
    \A r \in Requests :
        IF pc[r] \in Holding THEN held[r] \in Requests /\ KeyOf[held[r]] = KeyOf[r]
        ELSE held[r] = NoEntry

\* Nothing is known of the entry of a request that has not come to StartNew.
Fresh ==
    \A r \in Requests : pc[r] \in {"new", "start"} =>
        /\ r \notin tree \cup complete \cup executed \cup answered
        /\ \A q \in Requests : held[q] # r /\ ov[q] # r

\* The tree has one entry for a key.
OnePerKey == \A e, f \in tree : KeyOf[e] = KeyOf[f] => e = f

\* A complete entry of the tree is in the queue, or one request is to put it
\* there.
Queued ==
    /\ Elems(queue) \subseteq tree \cap complete
    /\ \A e \in (tree \cap complete) \ Elems(queue) :
           \E r \in Requests : pc[r] = "enqueue" /\ held[r] = e
    /\ \A r \in Requests : pc[r] = "enqueue" =>
           /\ held[r] \in (tree \cap complete) \ Elems(queue)
           /\ \A q \in Requests : pc[q] = "enqueue" /\ held[q] = held[r] => q = r

\* The duplicates of an entry are the requests that are suspended on it.
Waiting ==
    \A e \in Requests :
        Elems(dupes[e]) = {r \in Requests : pc[r] = "suspended" /\ held[r] = e}

\* Where the entry of a request is.  An entry in progress is released by the
\* request in charge only when there is a duplicate to hand it over to.
Placed(r) ==
    /\ pc[r] \in {"execute", "finish", "delete"} => held[r] \in tree \ complete
    /\ pc[r] \in {"suspended", "resumed"} => held[r] \in tree \cup complete
    /\ pc[r] \in {"exists", "enqueue", "retire", "retired"} => held[r] \in complete
    /\ pc[r] = "rele" /\ held[r] \in tree \ complete => dupes[held[r]] # <<>>
Charge == OneInCharge /\ \A r \in Requests : Placed(r)

\* What a request knows of the fate of its call, and what a complete entry says
\* about it.
RequestFate(r) ==
    /\ pc[r] = "execute" => held[r] \notin executed
    /\ pc[r] = "delete" => held[r] \notin executed /\ result[r] = "REFUSED"
    /\ pc[r] = "finish" =>
         /\ held[r] \in executed /\ result[r] # "REFUSED"
         /\ result[r] = "OK" => held[r] \in answered
    /\ pc[r] \in {"rele", "resumed"} /\ held[r] \in tree \ complete =>
         \/ rc[held[r]] = "REFUSED" /\ held[r] \notin executed
         \/ rc[held[r]] = "XPRT_DIED" /\ held[r] \in executed
    /\ pc[r] \in {"suspended", "resumed"} /\ held[r] \in complete =>
         rc[held[r]] = "OK"
CompleteFate(e) ==
    e \in executed /\ rc[e] # "REFUSED" /\ (rc[e] = "OK" => e \in answered)
Fate ==
    (\A r \in Requests : RequestFate(r)) /\ (\A e \in complete : CompleteFate(e))

\* A request that is being served keeps its connection, which has a reference
\* to the DRC.  So it is a connection that drops the last one, and nobody can
\* attach to the DRC between that and its way to the recycle queue.
DrcLife ==
    /\ \A r \in Requests : Active(r) \/ r \in extending => XprtOf[r] \in attached
    /\ attached # {} => drc
    /\ recycled => drc /\ drcref = 0 /\ \A x \in Xprts : pc[x] # "recycle"
    /\ \A x \in Xprts : pc[x] = "recycle" =>
           /\ drc /\ drcref = 0
           /\ \A y \in Xprts : pc[y] = "recycle" => y = x

Life == /\ Types /\ Held /\ Fresh /\ OnePerKey /\ Queued /\ Waiting /\ Charge
        /\ Fate /\ SuspendedHasResumer /\ DrcLife

\* What the counters tell a thread that looks at them.  The last reference to an
\* entry: nobody else uses it, and it is the tree's, a request's or that of the
\* thread which has retired it.
Retires(r, e) == pc[r] = "retired" /\ ov[r] = e
LastUse(e) ==
    /\ \A r \in Requests : held[r] = e =>
         e \notin tree /\ \A q \in Requests : (held[q] = e => q = r) /\ ~Retires(q, e)
    /\ \A r \in Requests : Retires(r, e) =>
         e \notin tree /\ \A q \in Requests : (Retires(q, e) => q = r) /\ held[q] # e
    /\ e \in tree => \A q \in Requests : held[q] # e /\ ~Retires(q, e)
Counted ==
    /\ \A e \in Requests : refcnt[e] = 1 => LastUse(e)
    /\ \A e \in tree : (\A q \in Requests : held[q] # e /\ ~Retires(q, e)) => refcnt[e] = 1
    /\ attached # {} => drcref >= 1
    /\ \A r \in Requests : Active(r) => drcref >= 2
    /\ drcref = 0 => \A r \in Requests : pc[r] # "dropped"
-----------------------------------------------------------------------------
(* Sequences without repetitions: drc->dupreq_q and the duplicates.        *)

\* The positions of a sequence.
LEMMA Positions ==
    ASSUME NEW S, NEW s \in Seq(S)
    PROVE  /\ Len(s) \in Nat /\ DOMAIN s = 1 .. Len(s)
           /\ \A i \in DOMAIN s : s[i] \in S
  OBVIOUS

\* TAILQ_INSERT_TAIL
LEMMA Appended ==
    ASSUME NEW S, NEW s \in Seq(S), NEW x \in S, Distinct(s), x \notin Elems(s)
    PROVE  /\ Append(s, x) \in Seq(S) /\ Distinct(Append(s, x))
           /\ Elems(Append(s, x)) = Elems(s) \cup {x} /\ Append(s, x) # <<>>
  <1> DEFINE t == Append(s, x)
  <1>1. /\ t \in Seq(S) /\ Len(t) = Len(s) + 1 /\ Len(s) \in Nat
        /\ \A i \in 1 .. Len(s) : t[i] = s[i]
        /\ t[Len(s) + 1] = x
    OBVIOUS
  <1>2. DOMAIN t = 1 .. Len(s) + 1 /\ DOMAIN s = 1 .. Len(s)
    OBVIOUS
  <1> HIDE DEF t
  <1>3. Distinct(t)
    BY <1>1, <1>2 DEF Distinct, Elems
  <1>4. Elems(t) \subseteq Elems(s) \cup {x}
    BY <1>1, <1>2 DEF Elems
  <1>5. Elems(s) \cup {x} \subseteq Elems(t)
    <2>1. ASSUME NEW i \in DOMAIN s PROVE s[i] \in Elems(t)
      <3>1. i \in DOMAIN t /\ t[i] = s[i]
        BY <1>1
      <3> QED BY <3>1, Zenon DEF Elems
    <2> QED BY <2>1, <1>1 DEF Elems
  <1>6. t # <<>>
    BY <1>1
  <1> QED BY <1>3, <1>4, <1>5, <1>6 DEF t

\* TAILQ_FIRST and TAILQ_REMOVE
LEMMA Beheaded ==
    ASSUME NEW S, NEW s \in Seq(S), s # <<>>, Distinct(s)
    PROVE  /\ Head(s) \in S /\ Head(s) \in Elems(s)
           /\ Tail(s) \in Seq(S) /\ Distinct(Tail(s))
           /\ Elems(Tail(s)) = Elems(s) \ {Head(s)}
  <1> DEFINE t == Tail(s)
  <1>1. /\ t \in Seq(S) /\ Len(t) = Len(s) - 1 /\ Len(s) \in Nat \ {0}
        /\ \A i \in 1 .. Len(s) - 1 : t[i] = s[i + 1]
        /\ Head(s) = s[1]
    OBVIOUS
  <1>2. DOMAIN t = 1 .. Len(s) - 1 /\ DOMAIN s = 1 .. Len(s)
    OBVIOUS
  <1> HIDE DEF t
  <1>3. Distinct(t)
    <2> SUFFICES ASSUME NEW i \in DOMAIN t, NEW j \in DOMAIN t, t[i] = t[j]
                 PROVE  i = j
      BY Zenon DEF Distinct
    <2>1. i + 1 \in DOMAIN s /\ j + 1 \in DOMAIN s /\ s[i + 1] = s[j + 1]
      BY <1>1
    <2>2. i + 1 = j + 1
      BY <2>1, Zenon DEF Distinct
    <2> QED BY <2>2, <1>2
  <1>4. 1 \in DOMAIN s /\ Head(s) \in Elems(s) /\ Head(s) \in S
    BY Positions DEF Elems
  <1>5. ASSUME NEW i \in DOMAIN t PROVE t[i] \in Elems(s) \ {Head(s)}
    <2>1. i + 1 \in DOMAIN s /\ i + 1 # 1 /\ t[i] = s[i + 1]
      BY <1>1, <1>2
    <2> QED BY <2>1, <1>4 DEF Elems, Distinct
  <1>6. ASSUME NEW i \in DOMAIN s, s[i] # Head(s) PROVE s[i] \in Elems(t)
    <2>1. i - 1 \in DOMAIN t /\ t[i - 1] = s[i]
      BY <1>1, <1>6
    <2> QED BY <2>1, Zenon DEF Elems
  <1> QED BY <1>1, <1>3, <1>4, <1>5, <1>6 DEF t, Elems

LEMMA NoElems ==
    ASSUME NEW S, NEW s \in Seq(S)
    PROVE  s = <<>> <=> Elems(s) = {}
  <1>2. CASE s = <<>>
    BY <1>2 DEF Elems
  <1>3. CASE s # <<>>
    <2>1. 1 \in DOMAIN s
      BY <1>3
    <2> QED BY <2>1 DEF Elems
  <1> QED BY <1>2, <1>3, Zenon

LEMMA EmptyQueue == <<>> \in Seq(Requests) /\ Distinct(<<>>) /\ Elems(<<>>) = {}
  <1> QED BY DEF Distinct, Elems

-----------------------------------------------------------------------------
(* What the invariant says about the request in charge of an entry.        *)

\* All others that use the entry wait for it, or have released it.
LEMMA Alone ==
    ASSUME Types, Held, Charge, NEW r \in Requests,
           held[r] \in tree \ complete, InCharge(r, held[r])
    PROVE  \A q \in Requests \ {r} : held[q] = held[r] => pc[q] \in {"suspended", "put"}
  <1> SUFFICES ASSUME NEW q \in Requests \ {r}, held[q] = held[r]
               PROVE  pc[q] \in {"suspended", "put"}
    OBVIOUS
  <1>1. ~InCharge(q, held[r])
    BY Zenon DEF Charge, Placed, OneInCharge
  <1>2. pc[q] \in Holding
    BY DupReqAssumption, Zenon DEF Types, CacheTypes, Held
  <1> QED BY <1>1, <1>2, Zenon DEF InCharge, Holding, Charge, Placed

\* A request that another one is suspended on has an entry in the cache.
LEMMA NextDupe ==
    ASSUME Life, NEW e \in Requests, dupes[e] # <<>>
    PROVE  /\ Head(dupes[e]) \in Requests
           /\ pc[Head(dupes[e])] = "suspended" /\ held[Head(dupes[e])] = e
           /\ Elems(Tail(dupes[e])) = Elems(dupes[e]) \ {Head(dupes[e])}
           /\ Tail(dupes[e]) \in Seq(Requests) /\ Distinct(Tail(dupes[e]))
  <1>1. dupes[e] \in Seq(Requests) /\ Distinct(dupes[e])
    BY Zenon DEF Life, Types, SeqTypes
  <1>2. /\ Head(dupes[e]) \in Elems(dupes[e])
        /\ Elems(Tail(dupes[e])) = Elems(dupes[e]) \ {Head(dupes[e])}
        /\ Tail(dupes[e]) \in Seq(Requests) /\ Distinct(Tail(dupes[e]))
    BY <1>1, Beheaded, Zenon
  <1> QED BY <1>2, Zenon DEF Life, Waiting

\* Nobody is suspended on an entry without duplicates.
LEMMA NoDupes ==
    ASSUME Life, NEW e \in Requests, dupes[e] = <<>>
    PROVE  \A q \in Requests : ~(pc[q] = "suspended" /\ held[q] = e)
  <1>1. Elems(dupes[e]) = {}
    BY EmptyQueue, Zenon
  <1> QED BY <1>1, Zenon DEF Life, Waiting

-----------------------------------------------------------------------------
(* The DRC.                                                                *)

\* A DRC with a connection is in use.
LEMMA InUse ==
    ASSUME Life, Counted, attached # {}
    PROVE  ~recycled /\ drc /\ \A x \in Xprts : pc[x] # "recycle"
  BY DEF Life, Counted, DrcLife

\* A DRC in the recycle queue is idle.
LEMMA Idle ==
    ASSUME Life, Counted, recycled
    PROVE  /\ drc /\ drcref = 0 /\ attached = {} /\ extending = {}
           /\ \A r \in Requests : pc[r] \in {"new", "done"} /\ held[r] = NoEntry
           /\ tree = Elems(queue) /\ tree \subseteq complete
           /\ \A e \in tree : refcnt[e] = 1
  <1>1. drc /\ drcref = 0 /\ attached = {}
    BY DEF Life, DrcLife, Counted
  <1>2. extending = {} /\ \A r \in Requests : ~Active(r)
    BY <1>1, Zenon DEF Life, DrcLife, Types, ThreadTypes
  <1>3. \A r \in Requests : pc[r] \in {"new", "done"} /\ held[r] = NoEntry
    BY <1>1 DEF Active, Counted, Life, Held, Holding
  <1>4. tree \subseteq complete
    BY <1>3, Zenon DEF Life, Charge, Placed, OneInCharge, InCharge
  <1>5. tree = Elems(queue)
    BY <1>3, <1>4, Zenon DEF Life, Queued
  <1>6. \A e \in tree : refcnt[e] = 1
    BY <1>3, DupReqAssumption, Zenon DEF Counted, Retires, Life, Types, CacheTypes
  <1> QED BY <1>1, <1>2, <1>3, <1>4, <1>5, <1>6, Zenon

\* dupreq_entry_put of one entry: it goes away with the last reference, or only
\* the count changes.
LEMMA PutOne ==
    ASSUME EntryTypes, NEW h \in Requests, EntryPut({h})
    PROVE  /\ refcnt' = [refcnt EXCEPT ![h] = @ - 1]
           /\ refcnt[h] # 1 => UNCHANGED <<complete, rc, dupe_cnt, executed,
                                           answered>>
           /\ refcnt[h] = 1 =>
                /\ rc' = [rc EXCEPT ![h] = "OK"] /\ dupe_cnt' = [dupe_cnt EXCEPT ![h] = 0]
                /\ complete' = complete \ {h}
                /\ executed' = executed \ {h} /\ answered' = answered \ {h}
  <1>1. refcnt' = [refcnt EXCEPT ![h] = @ - 1]
    BY Zenon DEF EntryTypes, EntryPut
  <1>2. CASE refcnt[h] # 1
    BY <1>1, <1>2, Zenon DEF EntryTypes, EntryPut
  <1>3. CASE refcnt[h] = 1
    BY <1>3, Zenon DEF EntryTypes, EntryPut
  <1> QED BY <1>2, <1>3, Zenon

\* Freed entries are not in use any more.
Spared(U) ==
    /\ complete' \subseteq complete /\ executed' \subseteq executed
    /\ answered' \subseteq answered
    /\ \A f \in U \cup complete' :
         /\ rc'[f] = rc[f] /\ (f \in complete' <=> f \in complete)
         /\ f \in executed' <=> f \in executed
         /\ f \in answered' <=> f \in answered
LEMMA SparesOthers ==
    ASSUME EntryTypes, NEW h \in Requests, EntryPut({h}), NEW U \in SUBSET Requests,
           refcnt[h] = 1 => h \notin U
    PROVE  EntryTypes' /\ Spared(U)
  <1>1. CASE refcnt[h] # 1
    BY <1>1, PutOne DEF EntryTypes, Spared
  <1>2. CASE refcnt[h] = 1
    <2>1. EntryTypes'
      BY PutOne, DupReqAssumption DEF EntryTypes, Results
    <2>2. Spared(U)
      BY PutOne DEF EntryTypes, Spared
    <2> QED BY <2>1, <2>2, Zenon
  <1> QED BY <1>1, <1>2, Zenon

\* dq_again chooses the head of the queue, or is done.
LEMMA Chosen ==
    ASSUME NEW r \in Requests, NEW q, NEW w, NEW n \in Nat, Again(r, q, w, n)
    PROVE  \E o, k, l :
             /\ ov' = [ov EXCEPT ![r] = o] /\ cnt' = [cnt EXCEPT ![r] = k]
             /\ pc' = [pc EXCEPT ![r] = l] /\ k \in 0 .. MaxRetries
             /\ \/ l = "retire" /\ o = Head(q) /\ q # <<>>
                \/ l = "rele" /\ o = NoEntry
  <1> DEFINE more == n <= MaxRetries /\ ShouldRetire(size, w) /\ q # <<>>
  <1>1. CASE more
    <2>1. /\ ov' = [ov EXCEPT ![r] = Head(q)] /\ cnt' = [cnt EXCEPT ![r] = n]
          /\ pc' = [pc EXCEPT ![r] = "retire"] /\ n \in 0 .. MaxRetries /\ q # <<>>
      BY <1>1 DEF Again, Goto
    <2> QED BY <2>1, Zenon
  <1>2. CASE ~more
    <2>1. /\ ov' = [ov EXCEPT ![r] = NoEntry] /\ cnt' = [cnt EXCEPT ![r] = 0]
          /\ pc' = [pc EXCEPT ![r] = "rele"]
      BY <1>2, Zenon DEF Again, Goto
    <2>2. 0 \in 0 .. MaxRetries
      BY DupReqAssumption
    <2> QED BY <2>1, <2>2, Zenon
  <1> QED BY <1>1, <1>2, Zenon

\* dupreq_entry_get and dupreq_entry_put change a count by one.
LEMMA CountTyped ==
    ASSUME NEW f \in [Requests -> Int], NEW e \in Requests
    PROVE  /\ [f EXCEPT ![e] = @ + 1] \in [Requests -> Int]
           /\ [f EXCEPT ![e] = @ - 1] \in [Requests -> Int]
  OBVIOUS

\* An entry stays in the charge of one request as long as nobody takes it over.
LEMMA OneKept ==
    ASSUME OneInCharge,
           ASSUME NEW g \in tree' \ complete'
           PROVE  /\ g \in tree \ complete
                  /\ \A q \in Requests : InCharge(q, g)' <=> InCharge(q, g)
    PROVE  OneInCharge'
  BY Zenon DEF OneInCharge

\* A request keeps its place as long as its entry does.
LEMMA PlacedKept ==
    ASSUME NEW q \in Requests, Placed(q), pc'[q] = pc[q], held'[q] = held[q],
           pc[q] \in Holding => (held[q] \in tree' <=> held[q] \in tree),
           pc[q] \in Holding => (held[q] \in complete' <=> held[q] \in complete),
           pc[q] \in Holding => (dupes[held[q]] # <<>> => dupes'[held[q]] # <<>>)
    PROVE  Placed(q)'
  BY Zenon DEF Placed, Holding

\* A request with no entry yet stays unknown as long as nobody puts it anywhere.
LEMMA FreshKept ==
    ASSUME Fresh,
           \A q \in Requests : pc'[q] \in {"new", "start"} => pc[q] \in {"new", "start"},
           tree' \cup complete' \cup executed' \cup answered'
               \subseteq tree \cup complete \cup executed \cup answered,
           \A q \in Requests : held'[q] = held[q] \/ held'[q] \in tree \cup {NoEntry},
           \A q \in Requests : ov'[q] = ov[q] \/ ov'[q] \in tree \cup {NoEntry}
    PROVE  Fresh'
  BY DupReqAssumption DEF Fresh

\* The fate of a call is that of its entry, unless the request goes where nothing
\* is claimed about it.
LEMMA FateKept ==
    ASSUME Fate, UNCHANGED <<rc, complete, executed, answered>>,
           tree' \ complete' = tree \ complete,
           \A q \in Requests :
               \/ pc'[q] = pc[q] /\ held'[q] = held[q] /\ result'[q] = result[q]
               \/ pc'[q] \notin {"execute", "delete", "finish", "rele", "resumed", "suspended"}
               \/ pc'[q] = "rele" /\ held'[q] \in complete
    PROVE  Fate'
  <1>1. ASSUME NEW q \in Requests PROVE RequestFate(q)'
    <2>1. RequestFate(q)
      BY Zenon DEF Fate
    <2> QED BY <2>1, Zenon DEF RequestFate
  <1>2. \A e \in complete' : CompleteFate(e)'
    BY Zenon DEF Fate, CompleteFate
  <1> QED BY <1>1, <1>2, Zenon DEF Fate

\* What a request knows of its call stays true as long as its entry is left alone,
LEMMA RequestFateKept ==
    ASSUME NEW q \in Requests, RequestFate(q),
           pc'[q] = pc[q], held'[q] = held[q], result'[q] = result[q],
           pc[q] \in {"execute", "delete", "finish", "rele", "resumed"} =>
               /\ rc'[held[q]] = rc[held[q]]
               /\ held[q] \in executed' <=> held[q] \in executed
               /\ held[q] \in answered => held[q] \in answered'
               /\ held[q] \in tree' \ complete' => held[q] \in tree \ complete,
           pc[q] \in {"suspended", "resumed"} /\ held[q] \in complete' =>
               held[q] \in complete /\ rc'[held[q]] = rc[held[q]]
    PROVE  RequestFate(q)'
  <1>1. CASE pc[q] = "execute"
    BY <1>1, Zenon DEF RequestFate
  <1>2. CASE pc[q] = "delete"
    BY <1>2, Zenon DEF RequestFate
  <1>3. CASE pc[q] = "finish"
    BY <1>3, Zenon DEF RequestFate
  <1>4. CASE pc[q] = "rele"
    BY <1>4, Zenon DEF RequestFate
  <1>5. CASE pc[q] = "resumed"
    BY <1>5, Zenon DEF RequestFate
  <1>6. CASE pc[q] = "suspended"
    BY <1>6, Zenon DEF RequestFate
  <1>7. CASE pc[q] \notin {"execute", "delete", "finish", "rele", "resumed", "suspended"}
    BY <1>7, Zenon DEF RequestFate
  <1> QED BY <1>1, <1>2, <1>3, <1>4, <1>5, <1>6, <1>7, Zenon

\* and so does what a complete entry says.
LEMMA CompleteFateKept ==
    ASSUME Fate,
           \A e \in complete' : /\ e \in complete /\ rc'[e] = rc[e]
                                /\ e \in executed => e \in executed'
                                /\ e \in answered => e \in answered'
    PROVE  \A e \in complete' : CompleteFate(e)'
  BY Zenon DEF Fate, CompleteFate

\* A suspended request keeps its resumer, as long as no request lets an entry go
\* that others wait for.
LEMMA ResumerKept ==
    ASSUME SuspendedHasResumer,
           \A q \in Requests : pc'[q] = "suspended" =>
               pc[q] = "suspended" /\ held'[q] = held[q],
           \A q \in Requests : pc[q] \notin {"suspended", "put"} =>
               \/ held'[q] = held[q] /\ pc'[q] \notin {"suspended", "put"}
               \/ \A t \in Requests : pc[t] = "suspended" => held[t] # held[q]
    PROVE  SuspendedHasResumer'
  <1> SUFFICES ASSUME NEW t \in Requests, pc'[t] = "suspended"
               PROVE  \E q \in Requests : held'[q] = held'[t] /\ pc'[q] \notin {"suspended", "put"}
    BY Zenon DEF SuspendedHasResumer
  <1>1. PICK q \in Requests : held[q] = held[t] /\ pc[q] \notin {"suspended", "put"}
    BY Zenon DEF SuspendedHasResumer
  <1> QED BY <1>1, Zenon

\* The DRC is not concerned by what a request does while it is active.
LEMMA DrcKept ==
    ASSUME DrcLife, UNCHANGED <<attached, drc, drcref, recycled, extending>>,
           \A x \in Xprts : pc'[x] = pc[x],
           \A q \in Requests : Active(q)' => Active(q)
    PROVE  DrcLife'
  BY Zenon DEF DrcLife

-----------------------------------------------------------------------------
(* Steps that leave a part of the invariant alone.                         *)
LEMMA QueuedKept ==
    ASSUME Queued, UNCHANGED queue, tree' \cap complete' = tree \cap complete,
           \A q \in Requests :
               /\ pc'[q] = "enqueue" <=> pc[q] = "enqueue"
               /\ pc[q] = "enqueue" => held'[q] = held[q]
    PROVE  Queued'
  BY Zenon DEF Queued
LEMMA WaitingKept ==
    ASSUME Waiting, UNCHANGED dupes,
           \A q \in Requests :
               /\ pc'[q] = "suspended" <=> pc[q] = "suspended"
               /\ pc[q] = "suspended" => held'[q] = held[q]
    PROVE  Waiting'
  BY Zenon DEF Waiting

-----------------------------------------------------------------------------
(* Every step keeps the invariant.  First the request in charge.           *)

\* The call is carried out and the reply sent,
LEMMA ReplySentKeeps ==
    ASSUME Life, Counted, NEW r \in Requests, ReplySent(r)
    PROVE  Life'
  <1>1. /\ pc[r] = "execute"
        /\ pc' = [pc EXCEPT ![r] = "finish"]
        /\ result' = [result EXCEPT ![r] = "OK"]
        /\ executed' = executed \cup {held[r]}
        /\ answered' = answered \cup {held[r]}
        /\ UNCHANGED <<refcnt, complete, rc, dupes, dupe_cnt, tree, queue,
             size, retwnd, drc, drcref, recycled, attached, dead, held, ov,
             cnt, extending>>
    BY Zenon DEF ReplySent, Goto, entries, cache, lifetime
  <1> USE <1>1
  <1>m. /\ pc'[r] = "finish"
        /\ \A q \in Requests \ {r} : pc'[q] = pc[q]
        /\ \A x \in Xprts : pc'[x] = pc[x]
    BY DupReqAssumption, Zenon DEF Life, Types, ThreadTypes, Actors
  <1>2. held[r] \in Requests /\ KeyOf[held[r]] = KeyOf[r] /\ pc[r] \in Labels
    BY Zenon DEF Life, Types, ThreadTypes, Actors, Held, Holding
  <1>3. \A q \in Requests \ {r} : held[q] = held[r] => pc[q] \in {"suspended", "put"}
    <2>1. held[r] \in tree \ complete /\ InCharge(r, held[r])
      BY Zenon DEF Life, Charge, Placed, InCharge
    <2> QED BY <2>1, Alone, Zenon DEF Life
  <1>20a. EntryTypes'
    BY <1>2, Zenon DEF Life, Types, EntryTypes
  <1>20b. SeqTypes'
    BY Zenon DEF Life, Types, SeqTypes
  <1>20c. CacheTypes'
    BY Zenon DEF Life, Types, CacheTypes
  <1>20d. ThreadTypes'
    BY Zenon DEF Life, Types, ThreadTypes, Actors, Labels, RequestLabels, Results
  <1>21. Held'
    BY DupReqAssumption, <1>m, Zenon DEF Life, Held, Holding
  <1>22. Fresh'
    BY <1>m, Zenon DEF Life, Fresh
  <1>23. OnePerKey'
    BY Zenon DEF Life, OnePerKey
  <1>24. Queued'
    BY QueuedKept, <1>m, Zenon DEF Life
  <1>25. Waiting'
    BY WaitingKept, <1>m, Zenon DEF Life
  <1>26. Charge'
    <2>1. ASSUME NEW g \in tree' \ complete'
          PROVE  /\ g \in tree \ complete
                 /\ \A q \in Requests : InCharge(q, g)' <=> InCharge(q, g)
      BY <1>m, Zenon DEF InCharge
    <2>2. OneInCharge'
      BY <2>1, OneKept, Zenon DEF Life, Charge
    <2> QED BY <2>2, <1>m, Zenon DEF Life, Types, Charge, Placed
  <1>27. Fate'
    <2>1. RequestFate(r)'
      <3>1. result'[r] # "REFUSED" /\ (result'[r] = "OK" => held[r] \in answered')
        BY Zenon DEF Life, Types, ThreadTypes
      <3> QED BY <3>1, <1>m, Zenon DEF RequestFate
    <2>2. ASSUME NEW q \in Requests \ {r} PROVE RequestFate(q)'
      <3>1. RequestFate(q) /\ pc'[q] = pc[q] /\ held'[q] = held[q] /\ result'[q] = result[q]
        BY <1>m, Zenon DEF Life, Types, ThreadTypes, Fate
      <3>2. held[q] = held[r] => pc[q] \in {"suspended", "put"}
        BY <1>3, Zenon
      <3> QED BY <3>1, <3>2, RequestFateKept, Zenon
    <2>3. \A e \in complete' : CompleteFate(e)'
      BY CompleteFateKept, Zenon DEF Life
    <2> QED BY <2>1, <2>2, <2>3, Zenon DEF Fate
  <1>28. SuspendedHasResumer'
    BY <1>m, Zenon DEF Life, SuspendedHasResumer
  <1>29. DrcLife'
    BY <1>m, Zenon DEF Life, DrcLife, Active
  <1> QED BY <1>20a, <1>20b, <1>20c, <1>20d,
    <1>21, <1>22, <1>23, <1>24, <1>25, <1>26, <1>27, <1>28, <1>29, Zenon DEF Life,
                                                                             Types

\* or lost,
LEMMA ReplyFailsKeeps ==
    ASSUME Life, Counted, NEW r \in Requests, ReplyFails(r)
    PROVE  Life'
  <1>1. /\ pc[r] = "execute"
        /\ dead' = dead \cup {XprtOf[r]}
        /\ pc' = [pc EXCEPT ![r] = "finish"]
        /\ result' = [result EXCEPT ![r] = "XPRT_DIED"]
        /\ executed' = executed \cup {held[r]}
        /\ UNCHANGED <<refcnt, complete, rc, dupes, dupe_cnt, tree, queue,
             size, retwnd, drc, drcref, recycled, attached, held, ov, cnt,
             extending, answered>>
    BY Zenon DEF ReplyFails, Goto, entries, cache
  <1> USE <1>1
  <1>m. /\ pc'[r] = "finish"
        /\ \A q \in Requests \ {r} : pc'[q] = pc[q]
        /\ \A x \in Xprts : pc'[x] = pc[x]
    BY DupReqAssumption, Zenon DEF Life, Types, ThreadTypes, Actors
  <1>2. held[r] \in Requests /\ KeyOf[held[r]] = KeyOf[r] /\ pc[r] \in Labels
    BY Zenon DEF Life, Types, ThreadTypes, Actors, Held, Holding
  <1>3. \A q \in Requests \ {r} : held[q] = held[r] => pc[q] \in {"suspended", "put"}
    <2>1. held[r] \in tree \ complete /\ InCharge(r, held[r])
      BY Zenon DEF Life, Charge, Placed, InCharge
    <2> QED BY <2>1, Alone, Zenon DEF Life
  <1>20a. EntryTypes'
    BY <1>2, Zenon DEF Life, Types, EntryTypes
  <1>20b. SeqTypes'
    BY Zenon DEF Life, Types, SeqTypes
  <1>20c. CacheTypes'
    BY DupReqAssumption, Zenon DEF Life, Types, CacheTypes
  <1>20d. ThreadTypes'
    BY DupReqAssumption, Zenon
      DEF Life, Types, ThreadTypes, Actors, Labels, RequestLabels, Results
  <1>21. Held'
    BY DupReqAssumption, <1>m, Zenon DEF Life, Held, Holding
  <1>22. Fresh'
    BY <1>m, Zenon DEF Life, Fresh
  <1>23. OnePerKey'
    BY Zenon DEF Life, OnePerKey
  <1>24. Queued'
    BY QueuedKept, <1>m, Zenon DEF Life
  <1>25. Waiting'
    BY WaitingKept, <1>m, Zenon DEF Life
  <1>26. Charge'
    <2>1. ASSUME NEW g \in tree' \ complete'
          PROVE  /\ g \in tree \ complete
                 /\ \A q \in Requests : InCharge(q, g)' <=> InCharge(q, g)
      BY <1>m, Zenon DEF InCharge
    <2>2. OneInCharge'
      BY <2>1, OneKept, Zenon DEF Life, Charge
    <2> QED BY <2>2, <1>m, Zenon DEF Life, Charge, Placed
  <1>27. Fate'
    <2>1. RequestFate(r)'
      <3>1. result'[r] # "REFUSED" /\ (result'[r] = "OK" => held[r] \in answered')
        BY Zenon DEF Life, Types, ThreadTypes
      <3> QED BY <3>1, <1>m, Zenon DEF RequestFate
    <2>2. ASSUME NEW q \in Requests \ {r} PROVE RequestFate(q)'
      <3>1. RequestFate(q) /\ pc'[q] = pc[q] /\ held'[q] = held[q] /\ result'[q] = result[q]
        BY <1>m, Zenon DEF Life, Types, ThreadTypes, Fate
      <3>2. held[q] = held[r] => pc[q] \in {"suspended", "put"}
        BY <1>3, Zenon
      <3> QED BY <3>1, <3>2, RequestFateKept, Zenon
    <2>3. \A e \in complete' : CompleteFate(e)'
      BY CompleteFateKept, Zenon DEF Life
    <2> QED BY <2>1, <2>2, <2>3, Zenon DEF Fate
  <1>28. SuspendedHasResumer'
    BY <1>m, Zenon DEF Life, Types, SuspendedHasResumer
  <1>29. DrcLife'
    BY <1>m, Zenon DEF Life, DrcLife, Active
  <1> QED BY <1>20a, <1>20b, <1>20c, <1>20d,
    <1>21, <1>22, <1>23, <1>24, <1>25, <1>26, <1>27, <1>28, <1>29, Zenon DEF Life,
                                                                             Types

\* or the call is refused.
LEMMA RefuseKeeps ==
    ASSUME Life, Counted, NEW r \in Requests, Refuse(r)
    PROVE  Life'
  <1>1. /\ pc[r] = "execute"
        /\ pc' = [pc EXCEPT ![r] = "delete"]
        /\ result' = [result EXCEPT ![r] = "REFUSED"]
        /\ UNCHANGED <<refcnt, complete, rc, dupes, dupe_cnt, tree, queue,
             size, retwnd, drc, drcref, recycled, attached, dead, held, ov,
             cnt, extending, executed, answered>>
    BY Zenon DEF Refuse, Goto, entries, cache, lifetime, history
  <1> USE <1>1
  <1>m. /\ pc'[r] = "delete"
        /\ \A q \in Requests \ {r} : pc'[q] = pc[q]
        /\ \A x \in Xprts : pc'[x] = pc[x]
    BY DupReqAssumption, Zenon DEF Life, Types, ThreadTypes, Actors
  <1>2. held[r] \in Requests /\ KeyOf[held[r]] = KeyOf[r] /\ pc[r] \in Labels
    BY Zenon DEF Life, Types, ThreadTypes, Actors, Held, Holding
  <1>20a. EntryTypes'
    BY Zenon DEF Life, Types, EntryTypes
  <1>20b. SeqTypes'
    BY Zenon DEF Life, Types, SeqTypes
  <1>20c. CacheTypes'
    BY Zenon DEF Life, Types, CacheTypes
  <1>20d. ThreadTypes'
    BY <1>2, Zenon
      DEF Life, Types, ThreadTypes, Actors, Labels, RequestLabels, Results
  <1>21. Held'
    BY <1>m, Zenon DEF Life, Held, Holding
  <1>22. Fresh'
    BY <1>m, Zenon DEF Life, Fresh
  <1>23. OnePerKey'
    BY <1>2, Zenon DEF Life, OnePerKey
  <1>24. Queued'
    BY QueuedKept, <1>m, Zenon DEF Life
  <1>25. Waiting'
    BY WaitingKept, <1>m, Zenon DEF Life
  <1>26. Charge'
    <2>1. ASSUME NEW g \in tree' \ complete'
          PROVE  /\ g \in tree \ complete
                 /\ \A q \in Requests : InCharge(q, g)' <=> InCharge(q, g)
      BY <1>m, Zenon DEF InCharge
    <2>2. OneInCharge'
      BY <2>1, OneKept, Zenon DEF Life, Charge
    <2> QED BY <2>2, <1>m, Zenon DEF Life, Charge, Placed
  <1>27. Fate'
    <2>1. RequestFate(r)'
      <3>1. held[r] \notin executed
        BY Zenon DEF Life, Fate, RequestFate
      <3>2. result'[r] = "REFUSED"
        BY Zenon DEF Life, Types, ThreadTypes
      <3> QED BY <3>1, <3>2, <1>m, Zenon DEF RequestFate
    <2>2. ASSUME NEW q \in Requests \ {r} PROVE RequestFate(q)'
      <3>1. RequestFate(q) /\ pc'[q] = pc[q] /\ held'[q] = held[q] /\ result'[q] = result[q]
        BY <1>m, Zenon DEF Life, Types, ThreadTypes, Fate
      <3> QED BY <3>1, RequestFateKept, Zenon
    <2>3. \A e \in complete' : CompleteFate(e)'
      BY CompleteFateKept, Zenon DEF Life
    <2> QED BY <2>1, <2>2, <2>3, Zenon DEF Fate
  <1>28. SuspendedHasResumer'
    BY <1>m, Zenon DEF Life, SuspendedHasResumer
  <1>29. DrcLife'
    BY DupReqAssumption, Zenon
      DEF Life, Types, ThreadTypes, Actors, DrcLife, Active, RequestLabels
  <1> QED BY <1>20a, <1>20b, <1>20c, <1>20d,
    <1>21, <1>22, <1>23, <1>24, <1>25, <1>26, <1>27, <1>28, <1>29, Zenon DEF Life,
                                                                             Types

\* A lost reply is left to the duplicates,
LEMMA FinishLostKeeps ==
    ASSUME Life, Counted, NEW r \in Requests, FinishLost(r)
    PROVE  Life'
  <1>1. /\ pc[r] = "finish"
        /\ dupes[held[r]] # <<>> /\ result[r] = "XPRT_DIED"
        /\ rc' = [rc EXCEPT ![held[r]] = result[r]]
        /\ pc' = [pc EXCEPT ![r] = "rele"]
        /\ result' = [result EXCEPT ![r] = "OK"]
        /\ UNCHANGED <<refcnt, complete, dupes, dupe_cnt, tree, queue, size,
             retwnd, drc, drcref, recycled, attached, dead, held, ov, cnt,
             extending, executed, answered>>
    BY Zenon DEF FinishLost, Goto, cache, lifetime, history
  <1> USE <1>1
  <1>m. /\ pc'[r] = "rele"
        /\ \A q \in Requests \ {r} : pc'[q] = pc[q]
        /\ \A x \in Xprts : pc'[x] = pc[x]
    BY DupReqAssumption, Zenon DEF Life, Types, ThreadTypes, Actors
  <1>2. held[r] \in Requests /\ KeyOf[held[r]] = KeyOf[r] /\ pc[r] \in Labels
    BY Zenon DEF Life, Types, ThreadTypes, Actors, Held, Holding
  <1>3. \A q \in Requests \ {r} : held[q] = held[r] => pc[q] \in {"suspended", "put"}
    <2>1. held[r] \in tree \ complete /\ InCharge(r, held[r])
      BY Zenon DEF Life, Charge, Placed, InCharge
    <2> QED BY <2>1, Alone, Zenon DEF Life
  <1>20a. EntryTypes'
    BY <1>2, Zenon DEF Life, Types, EntryTypes, Results
  <1>20b. SeqTypes'
    BY Zenon DEF Life, Types, SeqTypes
  <1>20c. CacheTypes'
    BY Zenon DEF Life, Types, CacheTypes
  <1>20d. ThreadTypes'
    BY DupReqAssumption, Zenon
      DEF Life, Types, ThreadTypes, Actors, Labels, RequestLabels, Results
  <1>21. Held'
    BY DupReqAssumption, <1>m, Zenon DEF Life, Held, Holding
  <1>22. Fresh'
    BY <1>m, Zenon DEF Life, Fresh
  <1>23. OnePerKey'
    BY Zenon DEF Life, OnePerKey
  <1>24. Queued'
    BY QueuedKept, <1>m, Zenon DEF Life
  <1>25. Waiting'
    BY WaitingKept, <1>m, Zenon DEF Life
  <1>26. Charge'
    <2>1. ASSUME NEW g \in tree' \ complete'
          PROVE  /\ g \in tree \ complete
                 /\ \A q \in Requests : InCharge(q, g)' <=> InCharge(q, g)
      BY <1>m, Zenon DEF InCharge
    <2>2. OneInCharge'
      BY <2>1, OneKept, Zenon DEF Life, Charge
    <2> QED BY <2>2, <1>m, Zenon DEF Life, Types, Charge, Placed
  <1>27. Fate'
    <2>1. RequestFate(r)'
      <3>1. held[r] \in executed
        BY Zenon DEF Life, Fate, RequestFate
      <3>2. rc'[held[r]] = "XPRT_DIED" /\ held[r] \notin complete
        BY <1>2, Zenon DEF Life, Types, EntryTypes, Charge, Placed
      <3> QED BY <3>1, <3>2, <1>m, Zenon DEF RequestFate
    <2>2. ASSUME NEW q \in Requests \ {r} PROVE RequestFate(q)'
      <3>1. RequestFate(q) /\ pc'[q] = pc[q] /\ held'[q] = held[q] /\ result'[q] = result[q]
        BY <1>m, Zenon DEF Life, Types, ThreadTypes, Fate
      <3>2. held[q] = held[r] => pc[q] \in {"suspended", "put"}
        BY <1>3, Zenon
      <3>3. pc[q] \in Holding /\ held[q] # held[r] => rc'[held[q]] = rc[held[q]]
        BY Zenon DEF Life, Types, EntryTypes, Held
      <3>4. held[q] = held[r] => held[q] \notin complete'
        BY Zenon DEF Life, Charge, Placed
      <3> QED BY <3>1, <3>2, <3>3, <3>4, RequestFateKept, Zenon DEF Holding
    <2>3. \A e \in complete' : CompleteFate(e)'
      <3>1. \A e \in complete' : e # held[r] /\ e \in Requests
        BY Zenon DEF Life, Types, EntryTypes, CacheTypes, Charge, Placed
      <3>2. \A e \in complete' : rc'[e] = rc[e]
        BY <3>1, Zenon DEF Life, Types, EntryTypes
      <3> QED BY <3>1, <3>2, CompleteFateKept, Zenon DEF Life
    <2> QED BY <2>1, <2>2, <2>3, Zenon DEF Fate
  <1>28. SuspendedHasResumer'
    BY <1>m, ResumerKept, Zenon DEF Life
  <1>29. DrcLife'
    BY <1>m, Zenon DEF Life, DrcLife, Active
  <1> QED BY <1>20a, <1>20b, <1>20c, <1>20d,
    <1>21, <1>22, <1>23, <1>24, <1>25, <1>26, <1>27, <1>28, <1>29, Zenon DEF Life,
                                                                             Types

\* or the entry is complete: no one else has put it in the queue, and nobody
\* waits for a reply that was not sent.
LEMMA FinishKeeps ==
    ASSUME Life, Counted, NEW r \in Requests, Finish(r)
    PROVE  Life'
  <1>1. /\ pc[r] = "finish"
        /\ dupes[held[r]] = <<>> \/ result[r] # "XPRT_DIED"
        /\ complete' = complete \cup {held[r]}
        /\ rc' = [rc EXCEPT ![held[r]] = result[r]]
        /\ pc' = [pc EXCEPT ![r] = "enqueue"]
        /\ result' = [result EXCEPT ![r] = "OK"]
        /\ UNCHANGED <<refcnt, dupes, dupe_cnt, tree, queue, size, retwnd, drc,
             drcref, recycled, attached, dead, held, ov, cnt, extending,
             executed, answered>>
    BY Zenon DEF Finish, Goto, cache, lifetime, history
  <1> USE <1>1
  <1>m. /\ pc'[r] = "enqueue"
        /\ \A q \in Requests \ {r} : pc'[q] = pc[q]
        /\ \A x \in Xprts : pc'[x] = pc[x]
    BY DupReqAssumption, Zenon DEF Life, Types, ThreadTypes, Actors
  <1>2. held[r] \in Requests /\ KeyOf[held[r]] = KeyOf[r] /\ pc[r] \in Labels
    BY Zenon DEF Life, Types, ThreadTypes, Actors, Held, Holding
  <1>3. \A q \in Requests \ {r} : held[q] = held[r] => pc[q] \in {"suspended", "put"}
    <2>1. held[r] \in tree \ complete /\ InCharge(r, held[r])
      BY Zenon DEF Life, Charge, Placed, InCharge
    <2> QED BY <2>1, Alone, Zenon DEF Life
  <1>4. result[r] # "OK" => \A q \in Requests : ~(pc[q] = "suspended" /\ held[q] = held[r])
    BY <1>2, NoDupes, <1>m, Zenon DEF Life, Types, ThreadTypes, Results, Fate,
       RequestFate
  <1>5. held[r] \in tree \ complete /\ held[r] \notin Elems(queue)
    BY Zenon DEF Life, Charge, Placed, Queued
  <1>20a. EntryTypes'
    BY <1>2, Zenon DEF Life, Types, ThreadTypes, EntryTypes
  <1>20b. SeqTypes'
    BY <1>3, <1>4, <1>5, Zenon DEF Life, Types, SeqTypes
  <1>20c. CacheTypes'
    BY <1>3, Zenon DEF Life, Types, CacheTypes
  <1>20d. ThreadTypes'
    BY <1>3, <1>4, Zenon
      DEF Life, Types, ThreadTypes, Actors, Labels, RequestLabels, Results
  <1>21. Held'
    BY <1>3, <1>4, <1>m, Zenon DEF Life, Held, Holding
  <1>22. Fresh'
    BY <1>3, <1>4, <1>5, <1>m, Zenon DEF Life, Fresh
  <1>23. OnePerKey'
    BY <1>4, Zenon DEF Life, OnePerKey
  <1>24. Queued'
    BY <1>2, <1>3, <1>5 DEF Life, Types, ThreadTypes, Actors, Queued
  <1>25. Waiting'
    BY <1>2, <1>3, <1>5, WaitingKept, Zenon DEF Life, Types, ThreadTypes, Actors
  <1>26. Charge'
    <2>1. ASSUME NEW g \in tree' \ complete'
          PROVE  /\ g \in tree \ complete
                 /\ \A q \in Requests : InCharge(q, g)' <=> InCharge(q, g)
      BY <1>4, <1>5, <1>m, Zenon DEF InCharge
    <2>2. OneInCharge'
      BY <2>1, OneKept, Zenon DEF Life, Charge
    <2> QED BY <1>2, <1>3, <2>2, Zenon DEF Life, Types, ThreadTypes, Actors, Charge,
               Placed
  <1>27. Fate'
    <2>1. RequestFate(r)'
      BY <1>m, Zenon DEF RequestFate
    <2>2. ASSUME NEW q \in Requests \ {r} PROVE RequestFate(q)'
      <3>1. RequestFate(q) /\ pc'[q] = pc[q] /\ held'[q] = held[q] /\ result'[q] = result[q]
        BY <1>m, Zenon DEF Life, Types, ThreadTypes, Fate
      <3>2. held[q] = held[r] => pc[q] \in {"suspended", "put"}
        BY <1>3, Zenon
      <3>3. CASE pc[q] = "suspended" /\ held[q] = held[r]
        <4>1. rc'[held[q]] = "OK"
          BY <1>2, <1>4, <3>3, Zenon DEF Life, Types, EntryTypes
        <4> QED BY <3>1, <3>3, <4>1, Zenon DEF RequestFate
      <3>4. CASE ~(pc[q] = "suspended" /\ held[q] = held[r])
        <4>1. pc[q] \in Holding /\ held[q] # held[r] =>
                /\ rc'[held[q]] = rc[held[q]]
                /\ held[q] \in complete' => held[q] \in complete
          BY Zenon DEF Life, Types, EntryTypes, Held
        <4> QED BY <3>1, <3>2, <3>4, <4>1, RequestFateKept, Zenon DEF Holding
      <3> QED BY <3>3, <3>4, Zenon
    <2>3. \A e \in complete' : CompleteFate(e)'
      <3>1. CompleteFate(held[r])'
        <4>1. /\ held[r] \in executed /\ result[r] # "REFUSED"
              /\ result[r] = "OK" => held[r] \in answered
          BY Zenon DEF Life, Fate, RequestFate
        <4>2. rc'[held[r]] = result[r]
          BY <1>2, Zenon DEF Life, Types, EntryTypes
        <4> QED BY <4>1, <4>2, Zenon DEF CompleteFate
      <3>2. ASSUME NEW e \in complete', e # held[r] PROVE CompleteFate(e)'
        <4>1. e \in complete /\ e \in Requests /\ CompleteFate(e)
          BY <3>2, Zenon DEF Life, Types, CacheTypes, EntryTypes, Fate
        <4>2. rc'[e] = rc[e]
          BY <3>2, <4>1, Zenon DEF Life, Types, EntryTypes
        <4> QED BY <4>1, <4>2, Zenon DEF CompleteFate
      <3> QED BY <3>1, <3>2, Zenon
    <2> QED BY <2>1, <2>2, <2>3, Zenon DEF Fate
  <1>28. SuspendedHasResumer'
    BY <1>m, ResumerKept, Zenon DEF Life
  <1>29. DrcLife'
    BY <1>m, Zenon DEF Life, DrcLife, Active
  <1> QED BY <1>20a, <1>20b, <1>20c, <1>20d,
    <1>21, <1>22, <1>23, <1>24, <1>25, <1>26, <1>27, <1>28, <1>29, Zenon DEF Life,
                                                                             Types

\* A refused call is left to the duplicates.
LEMMA DeleteQueuedKeeps ==
    ASSUME Life, Counted, NEW r \in Requests, DeleteQueued(r)
    PROVE  Life'
  <1>1. /\ pc[r] = "delete"
        /\ dupes[held[r]] # <<>>
        /\ rc' = [rc EXCEPT ![held[r]] = result[r]]
        /\ pc' = [pc EXCEPT ![r] = "rele"]
        /\ result' = [result EXCEPT ![r] = "OK"]
        /\ UNCHANGED <<refcnt, complete, dupes, dupe_cnt, tree, queue, size,
             retwnd, drc, drcref, recycled, attached, dead, held, ov, cnt,
             extending, executed, answered>>
    BY Zenon DEF DeleteQueued, Goto, cache, lifetime, history
  <1> USE <1>1
  <1>m. /\ pc'[r] = "rele"
        /\ \A q \in Requests \ {r} : pc'[q] = pc[q]
        /\ \A x \in Xprts : pc'[x] = pc[x]
    BY DupReqAssumption, Zenon DEF Life, Types, ThreadTypes, Actors
  <1>2. held[r] \in Requests /\ KeyOf[held[r]] = KeyOf[r] /\ pc[r] \in Labels
    BY Zenon DEF Life, Types, ThreadTypes, Actors, Held, Holding
  <1>3. \A q \in Requests \ {r} : held[q] = held[r] => pc[q] \in {"suspended", "put"}
    <2>1. held[r] \in tree \ complete /\ InCharge(r, held[r])
      BY Zenon DEF Life, Charge, Placed, InCharge
    <2> QED BY <2>1, Alone, Zenon DEF Life
  <1>20a. EntryTypes'
    BY <1>2, Zenon DEF Life, Types, ThreadTypes, EntryTypes
  <1>20b. SeqTypes'
    BY Zenon DEF Life, Types, SeqTypes
  <1>20c. CacheTypes'
    BY <1>2, Zenon DEF Life, Types, CacheTypes
  <1>20d. ThreadTypes'
    BY Zenon DEF Life, Types, ThreadTypes, Actors, Labels, RequestLabels, Results
  <1>21. Held'
    BY <1>m, Zenon DEF Life, Held, Holding
  <1>22. Fresh'
    BY <1>3, <1>m, Zenon DEF Life, Fresh
  <1>23. OnePerKey'
    BY <1>3, Zenon DEF Life, OnePerKey
  <1>24. Queued'
    BY QueuedKept, <1>m, Zenon DEF Life
  <1>25. Waiting'
    BY <1>2, <1>3, WaitingKept, <1>m, Zenon DEF Life
  <1>26. Charge'
    <2>1. ASSUME NEW g \in tree' \ complete'
          PROVE  /\ g \in tree \ complete
                 /\ \A q \in Requests : InCharge(q, g)' <=> InCharge(q, g)
      BY <1>2, <1>m, Zenon DEF InCharge
    <2>2. OneInCharge'
      BY <2>1, OneKept, Zenon DEF Life, Charge
    <2> QED BY <1>2, <1>3, <2>2, <1>m, Zenon DEF Life, Charge, Placed
  <1>27. Fate'
    <2>1. RequestFate(r)'
      <3>1. held[r] \notin executed /\ result[r] = "REFUSED"
        BY Zenon DEF Life, Fate, RequestFate
      <3>2. rc'[held[r]] = "REFUSED"
        BY <1>2, <3>1, Zenon DEF Life, Types, EntryTypes
      <3> QED BY <3>1, <3>2, <1>m, Zenon DEF RequestFate
    <2>2. ASSUME NEW q \in Requests \ {r} PROVE RequestFate(q)'
      <3>1. RequestFate(q) /\ pc'[q] = pc[q] /\ held'[q] = held[q] /\ result'[q] = result[q]
        BY <1>m, Zenon DEF Life, Types, ThreadTypes, Fate
      <3>2. held[q] = held[r] => pc[q] \in {"suspended", "put"}
        BY <1>3, Zenon
      <3>3. pc[q] \in Holding /\ held[q] # held[r] => rc'[held[q]] = rc[held[q]]
        BY Zenon DEF Life, Types, EntryTypes, Held
      <3>4. held[q] = held[r] => held[q] \notin complete'
        BY Zenon DEF Life, Charge, Placed
      <3> QED BY <3>1, <3>2, <3>3, <3>4, RequestFateKept, Zenon DEF Holding
    <2>3. \A e \in complete' : CompleteFate(e)'
      <3>1. \A e \in complete' : e # held[r] /\ e \in Requests
        BY Zenon DEF Life, Types, EntryTypes, CacheTypes, Charge, Placed
      <3>2. \A e \in complete' : rc'[e] = rc[e]
        BY <3>1, Zenon DEF Life, Types, EntryTypes
      <3> QED BY <3>1, <3>2, CompleteFateKept, Zenon DEF Life
    <2> QED BY <2>1, <2>2, <2>3, Zenon DEF Fate
  <1>28. SuspendedHasResumer'
    BY <1>2, <1>3, <1>m, ZenonT(30) DEF Life, SuspendedHasResumer
  <1>29. DrcLife'
    BY <1>m, Zenon DEF Life, DrcLife, Active
  <1> QED BY <1>20a, <1>20b, <1>20c, <1>20d,
    <1>21, <1>22, <1>23, <1>24, <1>25, <1>26, <1>27, <1>28, <1>29, Zenon DEF Life,
                                                                             Types

\* A reply from the cache.
LEMMA SendCachedKeeps ==
    ASSUME Life, Counted, NEW r \in Requests, SendCached(r)
    PROVE  Life'
  <1>1. /\ pc[r] = "exists"
        /\ answered' = answered \/ answered' = answered \cup {held[r]}
        /\ pc' = [pc EXCEPT ![r] = "rele"]
        /\ UNCHANGED <<refcnt, complete, rc, dupes, dupe_cnt, tree, queue,
             size, retwnd, drc, drcref, recycled, attached, dead, held, result,
             ov, cnt, extending, executed>>
    BY Zenon DEF SendCached, Goto, entries, cache, lifetime, locals
  <1> USE <1>1
  <1>m. /\ pc'[r] = "rele"
        /\ \A q \in Requests \ {r} : pc'[q] = pc[q]
        /\ \A x \in Xprts : pc'[x] = pc[x]
    BY DupReqAssumption, Zenon DEF Life, Types, ThreadTypes, Actors
  <1>2. held[r] \in Requests /\ KeyOf[held[r]] = KeyOf[r] /\ pc[r] \in Labels
    BY Zenon DEF Life, Types, ThreadTypes, Actors, Held, Holding
  <1>3. held[r] \in complete
    BY Zenon DEF Life, Charge, Placed
  <1>20a. EntryTypes'
    BY <1>3, Zenon DEF Life, Types, EntryTypes
  <1>20b. SeqTypes'
    BY <1>3, Zenon DEF Life, Types, SeqTypes
  <1>20c. CacheTypes'
    BY DupReqAssumption, Zenon DEF Life, Types, CacheTypes
  <1>20d. ThreadTypes'
    BY DupReqAssumption, Zenon
      DEF Life, Types, ThreadTypes, Actors, Labels, RequestLabels
  <1>21. Held'
    BY DupReqAssumption, <1>m, Zenon DEF Life, Held, Holding
  <1>22. Fresh'
    BY DEF Life, Types, ThreadTypes, Fresh
  <1>23. OnePerKey'
    BY Zenon DEF Life, OnePerKey
  <1>24. Queued'
    BY QueuedKept, <1>m, Zenon DEF Life
  <1>25. Waiting'
    BY <1>2, WaitingKept, <1>m, Zenon DEF Life, Types, ThreadTypes
  <1>26. Charge'
    <2>1. ASSUME NEW g \in tree' \ complete'
          PROVE  /\ g \in tree \ complete
                 /\ \A q \in Requests : InCharge(q, g)' <=> InCharge(q, g)
      BY <1>3, <1>m, Zenon DEF InCharge
    <2>2. OneInCharge'
      BY <2>1, OneKept, Zenon DEF Life, Charge
    <2> QED BY <1>2, <2>2, <1>m, Zenon DEF Life, Types, ThreadTypes, Charge, Placed
  <1>27. Fate'
    <2>1. RequestFate(r)'
      BY <1>3, <1>m, Zenon DEF RequestFate
    <2>2. ASSUME NEW q \in Requests \ {r} PROVE RequestFate(q)'
      <3>1. RequestFate(q) /\ pc'[q] = pc[q] /\ held'[q] = held[q] /\ result'[q] = result[q]
        BY <1>m, Zenon DEF Life, Fate
      <3> QED BY <3>1, RequestFateKept, Zenon
    <2>3. \A e \in complete' : CompleteFate(e)'
      BY CompleteFateKept, Zenon DEF Life
    <2> QED BY <2>1, <2>2, <2>3, Zenon DEF Fate
  <1>28. SuspendedHasResumer'
    BY <1>3, <1>m, Zenon DEF Life, SuspendedHasResumer
  <1>29. DrcLife'
    BY <1>m, Zenon DEF Life, Types, DrcLife, Active
  <1> QED BY <1>20a, <1>20b, <1>20c, <1>20d,
    <1>21, <1>22, <1>23, <1>24, <1>25, <1>26, <1>27, <1>28, <1>29, Zenon DEF Life,
                                                                             Types

\* A resumed duplicate has nothing to do,
LEMMA ResumeRepliedKeeps ==
    ASSUME Life, Counted, NEW r \in Requests, ResumeReplied(r)
    PROVE  Life'
  <1>1. /\ pc[r] = "resumed"
        /\ rc[held[r]] = "OK"
        /\ pc' = [pc EXCEPT ![r] = "rele"]
        /\ UNCHANGED <<refcnt, complete, rc, dupes, dupe_cnt, tree, queue,
             size, retwnd, drc, drcref, recycled, attached, dead, held, result,
             ov, cnt, extending, executed, answered>>
    BY Zenon DEF ResumeReplied, Goto, entries, cache, lifetime, locals, history
  <1> USE <1>1
  <1>m. /\ pc'[r] = "rele"
        /\ \A q \in Requests \ {r} : pc'[q] = pc[q]
        /\ \A x \in Xprts : pc'[x] = pc[x]
    BY DupReqAssumption, Zenon DEF Life, Types, ThreadTypes, Actors
  <1>3. held[r] \in complete
    BY Zenon DEF Life, Charge, Placed, Fate, RequestFate
  <1>20a. EntryTypes'
    BY <1>3, Zenon DEF Life, Types, EntryTypes, Results
  <1>20b. SeqTypes'
    BY <1>3, Zenon DEF Life, Types, SeqTypes
  <1>20c. CacheTypes'
    BY <1>3, Zenon DEF Life, Types, CacheTypes
  <1>20d. ThreadTypes'
    BY <1>3, Zenon DEF Life, Types, ThreadTypes, Actors, Labels, RequestLabels
  <1>21. Held'
    BY <1>m, Zenon DEF Life, Held, Holding
  <1>22. Fresh'
    BY <1>m, Zenon DEF Life, Fresh
  <1>23. OnePerKey'
    BY Zenon DEF Life, OnePerKey
  <1>24. Queued'
    BY QueuedKept, <1>m, Zenon DEF Life
  <1>25. Waiting'
    BY WaitingKept, <1>m, Zenon DEF Life
  <1>26. Charge'
    <2>1. ASSUME NEW g \in tree' \ complete'
          PROVE  /\ g \in tree \ complete
                 /\ \A q \in Requests : InCharge(q, g)' <=> InCharge(q, g)
      BY <1>m, Zenon DEF InCharge
    <2>2. OneInCharge'
      BY <2>1, OneKept, Zenon DEF Life, Charge
    <2> QED BY <1>3, <2>2, <1>m, Zenon DEF Life, Charge, Placed
  <1>27. Fate'
    BY <1>3, <1>m, FateKept, Zenon DEF Life
  <1>28. SuspendedHasResumer'
    BY <1>3, <1>m, ZenonT(30) DEF Life, SuspendedHasResumer
  <1>29. DrcLife'
    BY <1>m, Zenon DEF Life, DrcLife, Active
  <1> QED BY <1>20a, <1>20b, <1>20c, <1>20d,
    <1>21, <1>22, <1>23, <1>24, <1>25, <1>26, <1>27, <1>28, <1>29, Zenon DEF Life,
                                                                             Types

\* or takes charge of the call,
LEMMA ResumeRefusedKeeps ==
    ASSUME Life, Counted, NEW r \in Requests, ResumeRefused(r)
    PROVE  Life'
  <1>1. /\ pc[r] = "resumed"
        /\ rc[held[r]] = "REFUSED"
        /\ pc' = [pc EXCEPT ![r] = "execute"]
        /\ UNCHANGED <<refcnt, complete, rc, dupes, dupe_cnt, tree, queue,
             size, retwnd, drc, drcref, recycled, attached, dead, held, result,
             ov, cnt, extending, executed, answered>>
    BY Zenon DEF ResumeRefused, Goto, entries, cache, lifetime, locals, history
  <1> USE <1>1
  <1>m. /\ pc'[r] = "execute"
        /\ \A q \in Requests \ {r} : pc'[q] = pc[q]
        /\ \A x \in Xprts : pc'[x] = pc[x]
    BY DupReqAssumption, Zenon DEF Life, Types, ThreadTypes, Actors
  <1>2. held[r] \in Requests /\ KeyOf[held[r]] = KeyOf[r] /\ pc[r] \in Labels
    BY Zenon DEF Life, Types, ThreadTypes, Actors, Held, Holding
  <1>3. held[r] \in tree \ complete
    BY Zenon DEF Life, Charge, Placed, Fate, CompleteFate
  <1>20a. EntryTypes'
    BY Zenon DEF Life, Types, EntryTypes
  <1>20b. SeqTypes'
    BY Zenon DEF Life, Types, SeqTypes
  <1>20c. CacheTypes'
    BY Zenon DEF Life, Types, CacheTypes
  <1>20d. ThreadTypes'
    BY <1>3, Zenon DEF Life, Types, ThreadTypes, Actors, Labels, RequestLabels
  <1>21. Held'
    BY <1>m, Zenon DEF Life, Held, Holding
  <1>22. Fresh'
    BY <1>m, Zenon DEF Life, Fresh
  <1>23. OnePerKey'
    BY Zenon DEF Life, OnePerKey
  <1>24. Queued'
    BY QueuedKept, <1>m, Zenon DEF Life
  <1>25. Waiting'
    BY WaitingKept, <1>m, Zenon DEF Life, Types
  <1>26. Charge'
    <2>1. ASSUME NEW g \in tree' \ complete'
          PROVE  /\ g \in tree \ complete
                 /\ \A q \in Requests : InCharge(q, g)' <=> InCharge(q, g)
      BY <1>m, Zenon DEF InCharge
    <2>2. OneInCharge'
      BY <2>1, OneKept, Zenon DEF Life, Charge
    <2> QED BY <1>3, <2>2, <1>m, Zenon DEF Life, Types, Charge, Placed
  <1>27. Fate'
    <2>1. RequestFate(r)'
      <3>1. held[r] \notin executed
        BY <1>3, Zenon DEF Life, Fate, RequestFate
      <3> QED BY <3>1, <1>m, Zenon DEF RequestFate
    <2>2. ASSUME NEW q \in Requests \ {r} PROVE RequestFate(q)'
      <3>1. RequestFate(q) /\ pc'[q] = pc[q] /\ held'[q] = held[q] /\ result'[q] = result[q]
        BY <1>m, Zenon DEF Life, Fate
      <3> QED BY <3>1, RequestFateKept, Zenon
    <2>3. \A e \in complete' : CompleteFate(e)'
      BY CompleteFateKept, Zenon DEF Life
    <2> QED BY <2>1, <2>2, <2>3, Zenon DEF Fate
  <1>28. SuspendedHasResumer'
    BY <1>m, ZenonT(30) DEF Life, SuspendedHasResumer
  <1>29. DrcLife'
    BY <1>2, <1>m, ZenonT(30) DEF Life, DrcLife, Active
  <1> QED BY <1>20a, <1>20b, <1>20c, <1>20d,
    <1>21, <1>22, <1>23, <1>24, <1>25, <1>26, <1>27, <1>28, <1>29, Zenon DEF Life,
                                                                             Types

\* or sends the reply that was lost.
LEMMA ResumeLostKeeps ==
    ASSUME Life, Counted, NEW r \in Requests, ResumeLost(r)
    PROVE  Life'
  <1>1. /\ pc[r] = "resumed"
        /\ rc[held[r]] = "XPRT_DIED"
        /\ \/ /\ answered' = answered \cup {held[r]}
              /\ result' = [result EXCEPT ![r] = "OK"]
           \/ answered' = answered /\ result' = [result EXCEPT ![r] = "XPRT_DIED"]
        /\ pc' = [pc EXCEPT ![r] = "finish"]
        /\ UNCHANGED <<refcnt, complete, rc, dupes, dupe_cnt, tree, queue,
             size, retwnd, drc, drcref, recycled, attached, dead, held, ov,
             cnt, extending, executed>>
    BY Zenon DEF ResumeLost, Goto, entries, cache, lifetime
  <1> USE <1>1
  <1>m. /\ pc'[r] = "finish"
        /\ \A q \in Requests \ {r} : pc'[q] = pc[q]
        /\ \A x \in Xprts : pc'[x] = pc[x]
    BY DupReqAssumption, Zenon DEF Life, Types, ThreadTypes, Actors
  <1>2. held[r] \in Requests /\ KeyOf[held[r]] = KeyOf[r] /\ pc[r] \in Labels
    BY Zenon DEF Life, Types, ThreadTypes, Actors, Held, Holding
  <1>3. held[r] \in tree \ complete
    BY Zenon DEF Life, Charge, Placed, Fate, RequestFate
  <1>20a. EntryTypes'
    BY <1>2, <1>3, Zenon DEF Life, Types, EntryTypes, Results
  <1>20b. SeqTypes'
    BY <1>3, Zenon DEF Life, Types, SeqTypes
  <1>20c. CacheTypes'
    BY <1>3, Zenon DEF Life, Types, CacheTypes
  <1>20d. ThreadTypes'
    BY <1>3, Zenon
      DEF Life, Types, ThreadTypes, Actors, Labels, RequestLabels, Results
  <1>21. Held'
    BY <1>m, Zenon DEF Life, Held, Holding
  <1>22. Fresh'
    BY <1>3 DEF Life, Fresh
  <1>23. OnePerKey'
    BY <1>2, <1>3, Zenon DEF Life, OnePerKey
  <1>24. Queued'
    BY QueuedKept, <1>m, Zenon DEF Life
  <1>25. Waiting'
    BY <1>3, WaitingKept, <1>m, Zenon DEF Life
  <1>26. Charge'
    <2>1. ASSUME NEW g \in tree' \ complete'
          PROVE  /\ g \in tree \ complete
                 /\ \A q \in Requests : InCharge(q, g)' <=> InCharge(q, g)
      BY <1>m, Zenon DEF InCharge
    <2>2. OneInCharge'
      BY <2>1, OneKept, Zenon DEF Life, Charge
    <2> QED BY <1>3, <2>2, <1>m, Zenon DEF Life, Types, Charge, Placed
  <1>27. Fate'
    <2>1. RequestFate(r)'
      <3>1. held[r] \in executed
        BY <1>3, Zenon DEF Life, Fate, RequestFate
      <3>2. result'[r] # "REFUSED" /\ (result'[r] = "OK" => held[r] \in answered')
        BY Zenon DEF Life, Types, ThreadTypes
      <3> QED BY <3>1, <3>2, <1>m, Zenon DEF RequestFate
    <2>2. ASSUME NEW q \in Requests \ {r} PROVE RequestFate(q)'
      <3>1. RequestFate(q) /\ pc'[q] = pc[q] /\ held'[q] = held[q] /\ result'[q] = result[q]
        BY <1>m, Zenon DEF Life, Types, ThreadTypes, Fate
      <3> QED BY <3>1, RequestFateKept, Zenon
    <2>3. \A e \in complete' : CompleteFate(e)'
      BY CompleteFateKept, Zenon DEF Life
    <2> QED BY <2>1, <2>2, <2>3, Zenon DEF Fate
  <1>28. SuspendedHasResumer'
    BY <1>m, ResumerKept, Zenon DEF Life
  <1>29. DrcLife'
    BY DupReqAssumption, <1>m, Zenon DEF Life, DrcLife, Active
  <1> QED BY <1>20a, <1>20b, <1>20c, <1>20d,
    <1>21, <1>22, <1>23, <1>24, <1>25, <1>26, <1>27, <1>28, <1>29, Zenon DEF Life,
                                                                             Types

-----------------------------------------------------------------------------
(* Arriving.                                                               *)

\* A request of a connection that has the DRC,
LEMMA GetDrcKeeps ==
    ASSUME Life, Counted, NEW r \in Requests, GetDrc(r)
    PROVE  Life'
  <1>1. /\ pc[r] = "new"
        /\ XprtOf[r] \in attached
        /\ drcref' = drcref + 1
        /\ pc' = [pc EXCEPT ![r] = "start"]
        /\ UNCHANGED <<refcnt, complete, rc, dupes, dupe_cnt, tree, queue,
             size, retwnd, drc, recycled, attached, dead, held, result, ov,
             cnt, extending, executed, answered>>
    BY Zenon DEF GetDrc, Goto, entries, cache, locals, history
  <1> USE <1>1
  <1>m. /\ pc'[r] = "start"
        /\ \A q \in Requests \ {r} : pc'[q] = pc[q]
        /\ \A x \in Xprts : pc'[x] = pc[x]
    BY DupReqAssumption, Zenon DEF Life, Types, ThreadTypes, Actors
  <1>2. drc /\ ~recycled /\ \A x \in Xprts : pc[x] # "recycle"
    BY InUse, Zenon
  <1>20a. EntryTypes'
    BY Zenon DEF Life, Types, ThreadTypes, EntryTypes
  <1>20b. SeqTypes'
    BY Zenon DEF Life, Types, SeqTypes
  <1>20c. CacheTypes'
    BY DEF Life, Types, CacheTypes
  <1>20d. ThreadTypes'
    BY <1>2, DupReqAssumption, Zenon
      DEF Life, Types, ThreadTypes, Actors, Labels, RequestLabels
  <1>21. Held'
    BY <1>2, DupReqAssumption, <1>m, Zenon DEF Life, Held, Holding
  <1>22. Fresh'
    BY <1>m, Zenon DEF Life, Fresh
  <1>23. OnePerKey'
    BY Zenon DEF Life, OnePerKey
  <1>24. Queued'
    BY <1>2, QueuedKept, <1>m, Zenon DEF Life
  <1>25. Waiting'
    BY <1>2, WaitingKept, <1>m, Zenon DEF Life
  <1>26. Charge'
    <2>1. ASSUME NEW g \in tree' \ complete'
          PROVE  /\ g \in tree \ complete
                 /\ \A q \in Requests : InCharge(q, g)' <=> InCharge(q, g)
      BY <1>m, Zenon DEF InCharge
    <2>2. OneInCharge'
      BY <2>1, OneKept, Zenon DEF Life, Charge
    <2> QED BY <2>2, <1>m, Zenon DEF Life, Types, Charge, Placed
  <1>27. Fate'
    BY FateKept, <1>m, Zenon DEF Life
  <1>28. SuspendedHasResumer'
    BY <1>m, Zenon DEF Life, Types, SuspendedHasResumer
  <1>29. DrcLife'
    BY <1>2, <1>m, Zenon DEF Life, DrcLife, Active
  <1> QED BY <1>20a, <1>20b, <1>20c, <1>20d,
    <1>21, <1>22, <1>23, <1>24, <1>25, <1>26, <1>27, <1>28, <1>29, Zenon DEF Life,
                                                                             Types

\* and the first one of a connection: nobody is about to recycle the DRC.
LEMMA AttachDrcKeeps ==
    ASSUME Life, Counted, NEW r \in Requests, AttachDrc(r)
    PROVE  Life'
  <1>1. /\ pc[r] = "new"
        /\ XprtOf[r] \in Xprts \ attached
        /\ ~(drc /\ drcref = 0 /\ ~recycled)
        /\ drc' = TRUE
        /\ drcref' = drcref + 2
        /\ recycled' = FALSE
        /\ attached' = attached \cup {XprtOf[r]}
        /\ pc' = [pc EXCEPT ![r] = "start"]
        /\ UNCHANGED <<refcnt, complete, rc, dupes, dupe_cnt, tree, queue,
             size, retwnd, dead, held, result, ov, cnt, extending, executed,
             answered>>
    BY DupReqAssumption, Zenon DEF AttachDrc, Goto, entries, cache, locals, history
  <1> USE <1>1
  <1>m. /\ pc'[r] = "start"
        /\ \A q \in Requests \ {r} : pc'[q] = pc[q]
        /\ \A x \in Xprts : pc'[x] = pc[x]
    BY DupReqAssumption, Zenon DEF Life, Types, ThreadTypes, Actors
  <1>2. \A x \in Xprts : pc[x] # "recycle"
    BY Zenon DEF Life, DrcLife
  <1>3. drc' \in BOOLEAN /\ recycled' \in BOOLEAN
    BY Zenon
  <1>20a. EntryTypes'
    BY Zenon DEF Life, Types, EntryTypes, Results
  <1>20b. SeqTypes'
    BY Zenon DEF Life, Types, SeqTypes
  <1>20c. CacheTypes'
    BY <1>3, DupReqAssumption DEF Life, Types, CacheTypes
  <1>20d. ThreadTypes'
    BY <1>2, DupReqAssumption, Zenon
      DEF Life, Types, ThreadTypes, Actors, Labels, RequestLabels, Results
  <1>21. Held'
    BY <1>2, DupReqAssumption, <1>m, Zenon DEF Life, Held, Holding
  <1>22. Fresh'
    BY <1>m, Zenon DEF Life, Fresh
  <1>23. OnePerKey'
    BY Zenon DEF Life, OnePerKey
  <1>24. Queued'
    BY QueuedKept, <1>m, Zenon DEF Life
  <1>25. Waiting'
    BY WaitingKept, <1>m, Zenon DEF Life
  <1>26. Charge'
    <2>1. ASSUME NEW g \in tree' \ complete'
          PROVE  /\ g \in tree \ complete
                 /\ \A q \in Requests : InCharge(q, g)' <=> InCharge(q, g)
      BY <1>m, Zenon DEF InCharge
    <2>2. OneInCharge'
      BY <2>1, OneKept, Zenon DEF Life, Charge
    <2> QED BY <2>2, <1>m, Zenon DEF Life, Types, Charge, Placed
  <1>27. Fate'
    BY FateKept, <1>m, Zenon DEF Life
  <1>28. SuspendedHasResumer'
    BY <1>m, Zenon DEF Life, Types, SuspendedHasResumer
  <1>29. DrcLife'
    BY <1>m, Zenon DEF Life, DrcLife, Active
  <1> QED BY <1>20a, <1>20b, <1>20c, <1>20d,
    <1>21, <1>22, <1>23, <1>24, <1>25, <1>26, <1>27, <1>28, <1>29, Zenon DEF Life,
                                                                             Types

\* The window of a client that repeats its requests.
LEMMA ExtendWindowKeeps ==
    ASSUME Life, Counted, NEW r \in Requests, ExtendWindow(r)
    PROVE  Life'
  <1>1. /\ retwnd' = IF retwnd = 0 THEN RetwndBias
                     ELSE IF retwnd < MaxSize THEN retwnd + 2 ELSE retwnd
        /\ extending' = extending \ {r}
        /\ UNCHANGED <<refcnt, complete, rc, dupes, dupe_cnt, tree, queue,
             size, drc, drcref, recycled, attached, dead, pc, held, result, ov,
             cnt, executed, answered>>
    BY Zenon DEF ExtendWindow, entries, lifetime, locals, history
  <1> USE <1>1
  <1>20a. EntryTypes'
    BY Zenon DEF Life, Types, EntryTypes, Results
  <1>20b. SeqTypes'
    BY Zenon DEF Life, Types, SeqTypes
  <1>20c. CacheTypes'
    BY DupReqAssumption DEF Life, Types, CacheTypes
  <1>20d. ThreadTypes'
    BY Zenon DEF Life, Types, ThreadTypes, Actors, Labels, RequestLabels
  <1>21. Held'
    BY Zenon DEF Life, Held, Holding
  <1>22. Fresh'
    BY Zenon DEF Life, Fresh
  <1>23. OnePerKey'
    BY Zenon DEF Life, OnePerKey
  <1>24. Queued'
    BY QueuedKept, Zenon DEF Life
  <1>25. Waiting'
    BY WaitingKept, Zenon DEF Life, Types
  <1>26. Charge'
    <2>1. ASSUME NEW g \in tree' \ complete'
          PROVE  /\ g \in tree \ complete
                 /\ \A q \in Requests : InCharge(q, g)' <=> InCharge(q, g)
      BY Zenon DEF InCharge
    <2>2. OneInCharge'
      BY <2>1, OneKept, Zenon DEF Life, Charge
    <2> QED BY <2>2, Zenon DEF Life, Types, ThreadTypes, Charge, Placed
  <1>27. Fate'
    BY Zenon DEF Life, Fate, RequestFate, CompleteFate
  <1>28. SuspendedHasResumer'
    BY Zenon DEF Life, SuspendedHasResumer
  <1>29. DrcLife'
    BY Zenon DEF Life, DrcLife, Active
  <1> QED BY <1>20a, <1>20b, <1>20c, <1>20d,
    <1>21, <1>22, <1>23, <1>24, <1>25, <1>26, <1>27, <1>28, <1>29, Zenon DEF Life,
                                                                             Types

\* nfs_dupreq_start: a request that is not in the tree is put in charge,
LEMMA StartNewKeeps ==
    ASSUME Life, Counted, NEW r \in Requests, StartNew(r)
    PROVE  Life'
  <1>1. /\ pc[r] = "start"
        /\ \A e \in tree : KeyOf[e] # KeyOf[r]
        /\ refcnt' = [refcnt EXCEPT ![r] = 2]
        /\ tree' = tree \cup {r}
        /\ size' = size + 1
        /\ pc' = [pc EXCEPT ![r] = "execute"]
        /\ held' = [held EXCEPT ![r] = r]
        /\ UNCHANGED <<complete, rc, dupes, dupe_cnt, queue, retwnd, drc,
             drcref, recycled, attached, dead, result, ov, cnt, extending,
             executed, answered>>
    BY Zenon DEF StartNew, Lookup, Hit, Goto, lifetime, locals, history
  <1> USE <1>1
  <1>m. /\ pc'[r] = "execute"
        /\ \A q \in Requests \ {r} : pc'[q] = pc[q]
        /\ \A x \in Xprts : pc'[x] = pc[x]
        /\ held'[r] = r /\ \A q \in Requests \ {r} : held'[q] = held[q]
    BY DupReqAssumption, Zenon DEF Life, Types, ThreadTypes, Actors
  <1>2. /\ r \notin tree \cup complete \cup executed \cup answered
        /\ \A q \in Requests : held[q] # r /\ ov[q] # r
        /\ \A q \in Requests : pc[q] = "suspended" => held[q] # held[r]
    <2>1. /\ r \notin tree \cup complete \cup executed \cup answered
          /\ \A q \in Requests : held[q] # r /\ ov[q] # r
      BY Zenon DEF Life, Fresh
    <2>2. held[r] = NoEntry /\ \A q \in Requests : pc[q] = "suspended" => held[q] \in Requests
      BY Zenon DEF Life, Held, Holding
    <2> QED BY <2>1, <2>2, DupReqAssumption, Zenon
  <1>20a. EntryTypes'
    BY DEF Life, Types, EntryTypes
  <1>20b. SeqTypes'
    BY <1>2, Zenon DEF Life, Types, SeqTypes
  <1>20c. CacheTypes'
    BY <1>2 DEF Life, Types, CacheTypes
  <1>20d. ThreadTypes'
    BY <1>2, DupReqAssumption, Zenon
      DEF Life, Types, ThreadTypes, Actors, Labels, RequestLabels, Results
  <1>21. Held'
    BY <1>2, DupReqAssumption
      DEF Life, Types, ThreadTypes, Actors, Held, Holding
  <1>22. Fresh'
    BY <1>2, Zenon DEF Life, Types, ThreadTypes, Actors, Fresh
  <1>23. OnePerKey'
    BY Zenon DEF Life, OnePerKey
  <1>24. Queued'
    BY <1>2, QueuedKept, <1>m, Zenon DEF Life
  <1>25. Waiting'
    BY WaitingKept, <1>m, Zenon DEF Life, Types
  <1>26. Charge'
    <2>1. \A q \in Requests : InCharge(q, r)' <=> q = r
      BY <1>2, Zenon DEF Life, Types, ThreadTypes, Actors, InCharge
    <2>2. ASSUME NEW e \in tree' \ complete', e # r
          PROVE  /\ e \in tree \ complete
                 /\ \A q \in Requests : InCharge(q, e)' <=> InCharge(q, e)
      BY <2>2, <1>m, Zenon DEF Life, Types, ThreadTypes, InCharge
    <2>3. OneInCharge'
      <3>1. ASSUME NEW e \in tree' \ complete'
            PROVE  \E p \in Requests : \A q \in Requests : InCharge(q, e)' <=> q = p
        <4>1. CASE e = r
          BY <2>1, <4>1, Zenon
        <4>2. CASE e # r
          <5>1. PICK p \in Requests : \A q \in Requests : InCharge(q, e) <=> q = p
            BY <2>2, <4>2, Zenon DEF Life, Charge, OneInCharge
          <5> QED BY <2>2, <4>2, <5>1, Zenon
        <4> QED BY <4>1, <4>2, Zenon
      <3> QED BY <3>1, Zenon DEF OneInCharge
    <2> QED BY <1>2, <2>3, Zenon DEF Life, Types, ThreadTypes, Actors, Charge, Placed
  <1>27. Fate'
    <2>1. RequestFate(r)'
      <3>1. r \notin executed'
        BY <1>2, Zenon
      <3>2. held'[r] \notin executed'
        <4> HIDE <1>1
        <4> QED BY <1>m, <3>1, Zenon
      <3> QED BY <3>2, <1>m, Zenon DEF RequestFate
    <2>2. ASSUME NEW q \in Requests \ {r} PROVE RequestFate(q)'
      <3>1. RequestFate(q) /\ pc'[q] = pc[q] /\ held'[q] = held[q] /\ result'[q] = result[q]
        BY <1>m, Zenon DEF Life, Types, ThreadTypes, Fate
      <3>2. held[q] # r
        BY <1>2, Zenon
      <3> QED BY <3>1, <3>2, RequestFateKept, Zenon
    <2>3. \A e \in complete' : CompleteFate(e)'
      BY CompleteFateKept, Zenon DEF Life
    <2> QED BY <2>1, <2>2, <2>3, Zenon DEF Fate
  <1>28. SuspendedHasResumer'
    BY <1>2, <1>m, ResumerKept, Zenon DEF Life
  <1>29. DrcLife'
    BY DupReqAssumption, <1>m, ZenonT(30) DEF Life, DrcLife, Active
  <1> QED BY <1>20a, <1>20b, <1>20c, <1>20d,
    <1>21, <1>22, <1>23, <1>24, <1>25, <1>26, <1>27, <1>28, <1>29, Zenon DEF Life,
                                                                             Types

\* a duplicate of one in progress waits for it,
LEMMA StartQueuedKeeps ==
    ASSUME Life, Counted, NEW r \in Requests, StartQueued(r)
    PROVE  Life'
  <1>0. PICK e \in tree \ complete :
           /\ e \in tree \ complete /\ pc[r] = "start"
           /\ KeyOf[e] = KeyOf[r] /\ dupe_cnt[e] < MaxDupes
           /\ refcnt' = [refcnt EXCEPT ![e] = @ + 1]
           /\ dupes' = [dupes EXCEPT ![e] = Append(@, r)]
           /\ dupe_cnt' = [dupe_cnt EXCEPT ![e] = @ + 1]
           /\ pc' = [pc EXCEPT ![r] = "suspended"]
           /\ held' = [held EXCEPT ![r] = e]
           /\ extending' = extending \cup {r}
           /\ UNCHANGED <<complete, rc, tree, queue, size, retwnd, drc, drcref,
                recycled, attached, dead, result, ov, cnt, executed, answered>>
    BY Zenon
      DEF StartQueued, Lookup, Hit, Share, Goto, cache, lifetime, locals,
          history
  <1> USE <1>0
  <1>m. /\ pc'[r] = "suspended"
        /\ \A q \in Requests \ {r} : pc'[q] = pc[q]
        /\ \A x \in Xprts : pc'[x] = pc[x]
        /\ held'[r] = e /\ \A q \in Requests \ {r} : held'[q] = held[q]
    BY DupReqAssumption, Zenon DEF Life, Types, ThreadTypes, Actors
  <1>2. /\ e \in Requests /\ e # r /\ XprtOf[r] \in attached
        /\ \A q \in Requests : held[q] # r /\ ov[q] # r
        /\ \A q \in Requests : pc[q] = "suspended" => held[q] # held[r]
    <2>1. e \in Requests /\ XprtOf[r] \in attached
      BY Zenon DEF Life, Types, CacheTypes, DrcLife, Active
    <2>2. r \notin tree /\ \A q \in Requests : held[q] # r /\ ov[q] # r
      BY Zenon DEF Life, Fresh
    <2>3. held[r] = NoEntry /\ \A q \in Requests : pc[q] = "suspended" => held[q] \in Requests
      BY Zenon DEF Life, Held, Holding
    <2> QED BY <2>1, <2>2, <2>3, DupReqAssumption, Zenon
  <1>3. /\ Append(dupes[e], r) \in Seq(Requests) /\ Distinct(Append(dupes[e], r))
        /\ Elems(Append(dupes[e], r)) = Elems(dupes[e]) \cup {r}
        /\ Append(dupes[e], r) # <<>>
    <2>1. dupes[e] \in Seq(Requests) /\ Distinct(dupes[e]) /\ r \notin Elems(dupes[e])
      BY <1>2, Zenon DEF Life, Types, SeqTypes, Waiting
    <2> QED BY <2>1, Appended, Zenon
  <1>20a. EntryTypes'
    <2>1. EntryTypes
      BY Zenon DEF Life, Types
    <2>2. refcnt' \in [Requests -> Int]
      BY <1>2, <2>1, CountTyped, Zenon DEF EntryTypes
    <2>3. dupe_cnt' \in [Requests -> 0 .. MaxDupes]
      BY <1>2, <2>1, DupReqAssumption DEF EntryTypes
    <2> QED BY <2>1, <2>2, <2>3, Zenon DEF EntryTypes
  <1>20b. SeqTypes'
    BY <1>2, <1>3, Zenon DEF Life, Types, SeqTypes
  <1>20c. CacheTypes'
    BY DupReqAssumption, Zenon DEF Life, Types, CacheTypes
  <1>20d. ThreadTypes'
    BY <1>2, Zenon DEF Life, Types, ThreadTypes, Actors, Labels, RequestLabels
  <1>21. Held'
    BY <1>2, <1>3, Zenon DEF Life, Types, ThreadTypes, Actors, Held, Holding
  <1>22. Fresh'
    BY DEF Life, Fresh
  <1>23. OnePerKey'
    BY Zenon DEF Life, OnePerKey
  <1>24. Queued'
    BY QueuedKept, <1>m, Zenon DEF Life, Types
  <1>25. Waiting'
    <2>1. ASSUME NEW f \in Requests \ {e}
          PROVE  Elems(dupes'[f]) = {q \in Requests : pc'[q] = "suspended" /\ held'[q] = f}
      BY ZenonT(30) DEF Life, Types, ThreadTypes, Actors, SeqTypes, Waiting
    <2>2. Elems(dupes'[e]) = {q \in Requests : pc'[q] = "suspended" /\ held'[q] = e}
      BY <1>2, <1>3 DEF Life, Types, ThreadTypes, Actors, SeqTypes, Waiting
    <2> QED BY <2>1, <2>2, Zenon DEF Waiting
  <1>26. Charge'
    <2>1. ASSUME NEW g \in tree' \ complete'
          PROVE  /\ g \in tree \ complete
                 /\ \A q \in Requests : InCharge(q, g)' <=> InCharge(q, g)
      BY <1>m, Zenon DEF InCharge
    <2>2. OneInCharge'
      BY <2>1, OneKept, Zenon DEF Life, Charge
    <2>3. ASSUME NEW q \in Requests \ {r} PROVE Placed(q)'
      <3>1. dupes'[e] # <<>> /\ \A f \in Requests \ {e} : dupes'[f] = dupes[f]
        BY <1>2, <1>3, Zenon DEF Life, Types, SeqTypes
      <3>2. Placed(q)
        BY Zenon DEF Life, Charge
      <3>3. pc[q] \in Holding => held[q] \in Requests
        BY Zenon DEF Life, Held
      <3>4. pc[q] \in Holding /\ dupes[held[q]] # <<>> => dupes'[held[q]] # <<>>
        BY <3>1, <3>3, Zenon
      <3> QED BY <1>m, <3>2, <3>4, PlacedKept, Zenon
    <2>4. Placed(r)'
      <3>1. e \in tree'
        BY Zenon
      <3>2. held'[r] \in tree' \cup complete'
        <4> HIDE <1>0
        <4> QED BY <1>m, <3>1, Zenon
      <3> QED BY <1>m, <3>2, Zenon DEF Placed
    <2> QED BY <2>2, <2>3, <2>4, Zenon DEF Charge
  <1>27. Fate'
    <2>1. RequestFate(r)'
      <3>1. e \notin complete'
        BY Zenon
      <3>2. held'[r] \notin complete'
        <4> HIDE <1>0
        <4> QED BY <1>m, <3>1, Zenon
      <3> QED BY <3>2, <1>m, Zenon DEF RequestFate
    <2>2. ASSUME NEW q \in Requests \ {r} PROVE RequestFate(q)'
      <3>1. RequestFate(q) /\ pc'[q] = pc[q] /\ held'[q] = held[q] /\ result'[q] = result[q]
        BY <1>m, Zenon DEF Life, Types, ThreadTypes, Fate
      <3> QED BY <3>1, RequestFateKept, Zenon
    <2>3. \A g \in complete' : CompleteFate(g)'
      BY CompleteFateKept, Zenon DEF Life
    <2> QED BY <2>1, <2>2, <2>3, Zenon DEF Fate
  <1>28. SuspendedHasResumer'
    <2>1. PICK p \in Requests : InCharge(p, e)
      BY Zenon DEF Life, Charge, Placed, OneInCharge
    <2>2. p # r /\ held'[p] = e /\ pc'[p] \notin {"suspended", "put"}
      BY <2>1, <1>m, Zenon DEF InCharge
    <2>3. ASSUME NEW q \in Requests \ {r}, pc[q] = "suspended"
          PROVE  \E s \in Requests : held'[s] = held'[q] /\ pc'[s] \notin {"suspended", "put"}
      <3>1. PICK s \in Requests : held[s] = held[q] /\ pc[s] \notin {"suspended", "put"}
        BY <2>3, Zenon DEF Life, SuspendedHasResumer
      <3>2. s # r
        BY <1>2, <2>3, <3>1, Zenon
      <3> QED BY <3>1, <3>2, <1>m, Zenon
    <2> QED BY <2>2, <2>3 DEF Life, Types, ThreadTypes, SuspendedHasResumer
  <1>29. DrcLife'
    BY <1>m, Zenon DEF Life, DrcLife, Active
  <1> QED BY <1>20a, <1>20b, <1>20c, <1>20d,
    <1>21, <1>22, <1>23, <1>24, <1>25, <1>26, <1>27, <1>28, <1>29, Zenon DEF Life,
                                                                             Types

\* or is dropped,
LEMMA StartDroppedKeeps ==
    ASSUME Life, Counted, NEW r \in Requests, StartDropped(r)
    PROVE  Life'
  <1>0. PICK e \in tree \ complete :
           /\ e \in tree \ complete /\ pc[r] = "start"
           /\ pc' = [pc EXCEPT ![r] = "dropped"]
           /\ UNCHANGED <<refcnt, complete, rc, dupes, dupe_cnt, tree, queue,
                size, retwnd, drc, drcref, recycled, attached, dead, held, result,
                ov, cnt, extending, executed, answered>>
    BY Zenon DEF StartDropped, Lookup, Goto, entries, cache, lifetime, locals, history
  <1> USE <1>0
  <1>m. /\ pc'[r] = "dropped"
        /\ \A q \in Requests \ {r} : pc'[q] = pc[q]
        /\ \A x \in Xprts : pc'[x] = pc[x]
    BY DupReqAssumption, Zenon DEF Life, Types, ThreadTypes, Actors
  <1>20a. EntryTypes'
    BY Zenon DEF Life, Types, EntryTypes
  <1>20b. SeqTypes'
    BY Zenon DEF Life, Types, SeqTypes
  <1>20c. CacheTypes'
    BY Zenon DEF Life, Types, CacheTypes
  <1>20d. ThreadTypes'
    BY Zenon DEF Life, Types, ThreadTypes, Actors, Labels
  <1>21. Held'
    BY <1>m, Zenon DEF Life, Held, Holding
  <1>22. Fresh'
    BY <1>m, Zenon DEF Life, Fresh
  <1>23. OnePerKey'
    BY Zenon DEF Life, OnePerKey
  <1>24. Queued'
    BY QueuedKept, <1>m, Zenon DEF Life
  <1>25. Waiting'
    BY WaitingKept, <1>m, Zenon DEF Life
  <1>26. Charge'
    <2>1. ASSUME NEW g \in tree' \ complete'
          PROVE  /\ g \in tree \ complete
                 /\ \A q \in Requests : InCharge(q, g)' <=> InCharge(q, g)
      BY <1>m, Zenon DEF InCharge
    <2>2. OneInCharge'
      BY <2>1, OneKept, Zenon DEF Life, Charge
    <2> QED BY <2>2, <1>m, Zenon DEF Life, Charge, Placed
  <1>27. Fate'
    BY FateKept, <1>m, Zenon DEF Life
  <1>28. SuspendedHasResumer'
    BY <1>m, Zenon DEF Life, SuspendedHasResumer
  <1>29. DrcLife'
    BY <1>m, Zenon DEF Life, DrcLife, Active
  <1> QED BY <1>20a, <1>20b, <1>20c, <1>20d,
    <1>21, <1>22, <1>23, <1>24, <1>25, <1>26, <1>27, <1>28, <1>29, Zenon DEF Life,
                                                                             Types

\* and the reply to one that is complete is sent again.
LEMMA StartExistsKeeps ==
    ASSUME Life, Counted, NEW r \in Requests, StartExists(r)
    PROVE  Life'
  <1>0. PICK e \in tree \cap complete :
           /\ e \in tree \cap complete /\ pc[r] = "start" /\ KeyOf[e] = KeyOf[r]
           /\ refcnt' = [refcnt EXCEPT ![e] = @ + 1]
           /\ pc' = [pc EXCEPT ![r] = "exists"]
           /\ held' = [held EXCEPT ![r] = e]
           /\ extending' = extending \cup {r}
           /\ UNCHANGED <<complete, rc, dupes, dupe_cnt, tree, queue, size,
                retwnd, drc, drcref, recycled, attached, dead, result, ov, cnt,
                executed, answered>>
    BY Zenon
      DEF StartExists, Lookup, Hit, Share, Goto, cache, lifetime, locals,
          history
  <1> USE <1>0
  <1>m. /\ pc'[r] = "exists"
        /\ \A q \in Requests \ {r} : pc'[q] = pc[q]
        /\ \A x \in Xprts : pc'[x] = pc[x]
        /\ held'[r] = e /\ \A q \in Requests \ {r} : held'[q] = held[q]
    BY DupReqAssumption, Zenon DEF Life, Types, ThreadTypes, Actors
  <1>2. /\ e \in Requests /\ e # r /\ XprtOf[r] \in attached
        /\ \A q \in Requests : held[q] # r /\ ov[q] # r
        /\ \A q \in Requests : pc[q] = "suspended" => held[q] # held[r]
    <2>1. e \in Requests /\ XprtOf[r] \in attached
      BY Zenon DEF Life, Types, CacheTypes, DrcLife, Active
    <2>2. r \notin tree /\ \A q \in Requests : held[q] # r /\ ov[q] # r
      BY Zenon DEF Life, Fresh
    <2>3. held[r] = NoEntry /\ \A q \in Requests : pc[q] = "suspended" => held[q] \in Requests
      BY Zenon DEF Life, Held, Holding
    <2> QED BY <2>1, <2>2, <2>3, DupReqAssumption, Zenon
  <1>20a. EntryTypes'
    BY DEF Life, Types, ThreadTypes, EntryTypes
  <1>20b. SeqTypes'
    BY Zenon DEF Life, Types, SeqTypes
  <1>20c. CacheTypes'
    BY DupReqAssumption, Zenon DEF Life, Types, CacheTypes
  <1>20d. ThreadTypes'
    BY <1>2, Zenon
      DEF Life, Types, ThreadTypes, Actors, Labels, RequestLabels, Results
  <1>21. Held'
    BY <1>2, Zenon DEF Life, Types, ThreadTypes, Actors, Held, Holding
  <1>22. Fresh'
    BY DEF Life, Fresh
  <1>23. OnePerKey'
    BY Zenon DEF Life, OnePerKey
  <1>24. Queued'
    BY QueuedKept, <1>m, Zenon DEF Life
  <1>25. Waiting'
    BY WaitingKept, <1>m, Zenon DEF Life
  <1>26. Charge'
    <2>1. ASSUME NEW g \in tree' \ complete'
          PROVE  /\ g \in tree \ complete
                 /\ \A q \in Requests : InCharge(q, g)' <=> InCharge(q, g)
      BY <1>m, Zenon DEF InCharge
    <2>2. OneInCharge'
      BY <2>1, OneKept, Zenon DEF Life, Charge
    <2> QED BY <2>2 DEF Life, Types, ThreadTypes, Charge, Placed
  <1>27. Fate'
    BY FateKept, <1>m, Zenon DEF Life
  <1>28. SuspendedHasResumer'
    BY <1>2, <1>m, ResumerKept, Zenon DEF Life
  <1>29. DrcLife'
    BY <1>m, ZenonT(30) DEF Life, DrcLife, Active
  <1> QED BY <1>20a, <1>20b, <1>20c, <1>20d,
    <1>21, <1>22, <1>23, <1>24, <1>25, <1>26, <1>27, <1>28, <1>29, Zenon DEF Life,
                                                                             Types

-----------------------------------------------------------------------------
(* The queue.                                                              *)

\* A complete entry goes to the end of the queue, and one may be chosen to be
\* retired.
LEMMA EnqueueKeeps ==
    ASSUME Life, Counted, NEW r \in Requests, Enqueue(r)
    PROVE  Life'
  <1>0. PICK o, n, l :
           /\ pc[r] = "enqueue"
           /\ (l = "retire" /\ o = Head(queue')) \/ (l = "rele" /\ o = NoEntry)
           /\ n \in 0 .. MaxRetries
           /\ queue' = Append(queue, held[r])
           /\ retwnd' = IF retwnd > 0 THEN retwnd - 1 ELSE retwnd
           /\ pc' = [pc EXCEPT ![r] = l]
           /\ ov' = [ov EXCEPT ![r] = o]
           /\ cnt' = [cnt EXCEPT ![r] = n]
           /\ UNCHANGED <<refcnt, complete, rc, dupes, dupe_cnt, tree, size, drc,
                drcref, recycled, attached, dead, held, result, extending,
                executed, answered>>
    <2>1. Again(r, queue', retwnd', 0)
      BY Zenon DEF Enqueue
    <2>2. /\ pc[r] = "enqueue" /\ queue' = Append(queue, held[r])
          /\ retwnd' = IF retwnd > 0 THEN retwnd - 1 ELSE retwnd
          /\ UNCHANGED <<entries, tree, size, lifetime, held, result, extending,
                         history>>
      BY Zenon DEF Enqueue
    <2>3. \E o, k, l :
             /\ ov' = [ov EXCEPT ![r] = o] /\ cnt' = [cnt EXCEPT ![r] = k]
             /\ pc' = [pc EXCEPT ![r] = l] /\ k \in 0 .. MaxRetries
             /\ \/ l = "retire" /\ o = Head(queue') /\ queue' # <<>>
                \/ l = "rele" /\ o = NoEntry
      BY <2>1, Chosen, Zenon
    <2> QED BY <2>2, <2>3, Zenon DEF entries, lifetime, history
  <1> USE <1>0
  <1>m. /\ pc'[r] = l
        /\ \A q \in Requests \ {r} : pc'[q] = pc[q]
        /\ \A x \in Xprts : pc'[x] = pc[x]
    BY DupReqAssumption, Zenon DEF Life, Types, ThreadTypes, Actors
  <1>2. held[r] \in Requests /\ KeyOf[held[r]] = KeyOf[r] /\ pc[r] \in Labels
    BY Zenon DEF Life, Types, ThreadTypes, Actors, Held, Holding
  <1>3. /\ held[r] \in (tree \cap complete) \ Elems(queue)
        /\ queue' \in Seq(Requests) /\ Distinct(queue') /\ queue' # <<>>
        /\ Elems(queue') = Elems(queue) \cup {held[r]}
    <2>1. held[r] \in (tree \cap complete) \ Elems(queue)
      BY Zenon DEF Life, Queued
    <2>2. queue \in Seq(Requests) /\ Distinct(queue)
      BY Zenon DEF Life, Types, SeqTypes
    <2> QED BY <1>2, <2>1, <2>2, Appended
  <1>4. l \in {"retire", "rele"} /\ (o = NoEntry \/ o \in tree) /\ (l = "retire" => o \in Requests)
    <2>1. Head(queue') \in Elems(queue') /\ Head(queue') \in Requests
      BY <1>3, Beheaded, Zenon
    <2>2. Elems(queue) \subseteq tree
      BY Zenon DEF Life, Queued
    <2> QED BY <1>3, <2>1, <2>2, Zenon
  <1>20a. EntryTypes'
    BY Zenon DEF Life, Types, ThreadTypes, EntryTypes, Results
  <1>20b. SeqTypes'
    BY <1>2, <1>3, Zenon DEF Life, Types, SeqTypes
  <1>20c. CacheTypes'
    BY <1>4 DEF Life, Types, CacheTypes
  <1>20d. ThreadTypes'
    BY <1>4, Zenon
      DEF Life, Types, ThreadTypes, Actors, Labels, RequestLabels, Results
  <1>21. Held'
    BY DupReqAssumption, <1>m, Zenon DEF Life, Held, Holding
  <1>22. Fresh'
    BY <1>4, DupReqAssumption DEF Life, Fresh
  <1>23. OnePerKey'
    BY Zenon DEF Life, OnePerKey
  <1>24. Queued'
    BY <1>3, <1>4 DEF Life, Types, ThreadTypes, Actors, Queued
  <1>25. Waiting'
    BY <1>4, WaitingKept, <1>m, Zenon DEF Life
  <1>26. Charge'
    <2>1. ASSUME NEW g \in tree' \ complete'
          PROVE  /\ g \in tree \ complete
                 /\ \A q \in Requests : InCharge(q, g)' <=> InCharge(q, g)
      BY <1>3, <1>m, Zenon DEF InCharge
    <2>2. OneInCharge'
      BY <2>1, OneKept, ZenonT(30) DEF Life, Charge
    <2> QED BY <1>4, <2>2, <1>m, Zenon DEF Life, Charge, Placed
  <1>27. Fate'
    BY <1>3, <1>4, <1>m, FateKept, Zenon DEF Life
  <1>28. SuspendedHasResumer'
    BY <1>m, Zenon DEF Life, SuspendedHasResumer
  <1>29. DrcLife'
    BY DupReqAssumption, Zenon
      DEF Life, Types, ThreadTypes, Actors, DrcLife, Active, RequestLabels
  <1> QED BY <1>20a, <1>20b, <1>20c, <1>20d,
    <1>21, <1>22, <1>23, <1>24, <1>25, <1>26, <1>27, <1>28, <1>29, Zenon DEF Life,
                                                                             Types

\* The entry at the head of the queue is taken out of the tree,
LEMMA RetireKeeps ==
    ASSUME Life, Counted, NEW r \in Requests, Retire(r)
    PROVE  Life'
  <1>1. /\ pc[r] = "retire" /\ queue # <<>>
        /\ tree' = tree \ {Head(queue)}
        /\ queue' = Tail(queue)
        /\ size' = size - 1
        /\ pc' = [pc EXCEPT ![r] = "retired"]
        /\ ov' = [ov EXCEPT ![r] = Head(queue)]
        /\ UNCHANGED <<refcnt, complete, rc, dupes, dupe_cnt, retwnd, drc,
             drcref, recycled, attached, dead, held, result, cnt, extending,
             executed, answered>>
    BY Zenon DEF Retire, AtHead, Goto, entries, lifetime, history
  <1> USE <1>1
  <1>m. /\ pc'[r] = "retired"
        /\ \A q \in Requests \ {r} : pc'[q] = pc[q]
        /\ \A x \in Xprts : pc'[x] = pc[x]
    BY DupReqAssumption, Zenon DEF Life, Types, ThreadTypes, Actors
  <1>2. held[r] \in Requests /\ KeyOf[held[r]] = KeyOf[r] /\ pc[r] \in Labels
    BY Zenon DEF Life, Types, ThreadTypes, Actors, Held, Holding
  <1>3. /\ Head(queue) \in Elems(queue) /\ Head(queue) \in tree \cap complete
        /\ Head(queue) \in Requests
        /\ queue' \in Seq(Requests) /\ Distinct(queue')
        /\ Elems(queue') = Elems(queue) \ {Head(queue)}
    <2>1. queue \in Seq(Requests) /\ Distinct(queue)
      BY Zenon DEF Life, Types, SeqTypes
    <2>2. Elems(queue) \subseteq tree \cap complete
      BY Zenon DEF Life, Queued
    <2> QED BY <2>1, <2>2, Beheaded, Zenon
  <1>20a. EntryTypes'
    BY Zenon DEF Life, Types, EntryTypes
  <1>20b. SeqTypes'
    BY <1>3, Zenon DEF Life, Types, SeqTypes
  <1>20c. CacheTypes'
    BY <1>2, DupReqAssumption DEF Life, Types, CacheTypes
  <1>20d. ThreadTypes'
    BY <1>3, DupReqAssumption, Zenon
      DEF Life, Types, ThreadTypes, Actors, Labels, RequestLabels, Results
  <1>21. Held'
    BY <1>3, DupReqAssumption, <1>m, Zenon DEF Life, Held, Holding
  <1>22. Fresh'
    BY <1>3, FreshKept, <1>m, Zenon DEF Life, Types, ThreadTypes
  <1>23. OnePerKey'
    BY Zenon DEF Life, OnePerKey
  <1>24. Queued'
    BY <1>3 DEF Life, Queued
  <1>25. Waiting'
    BY WaitingKept, <1>m, Zenon DEF Life, Types
  <1>26. Charge'
    <2>1. ASSUME NEW g \in tree' \ complete'
          PROVE  /\ g \in tree \ complete
                 /\ \A q \in Requests : InCharge(q, g)' <=> InCharge(q, g)
      BY <1>m, Zenon DEF InCharge
    <2>2. OneInCharge'
      BY <2>1, OneKept, Zenon DEF Life, Charge
    <2> QED BY <1>3, <2>2, <1>m, Zenon DEF Life, Types, Charge, Placed
  <1>27. Fate'
    BY <1>3, FateKept, <1>m, Zenon DEF Life
  <1>28. SuspendedHasResumer'
    BY <1>m, Zenon DEF Life, SuspendedHasResumer
  <1>29. DrcLife'
    BY <1>m, Zenon DEF Life, DrcLife, Active
  <1> QED BY <1>20a, <1>20b, <1>20c, <1>20d,
    <1>21, <1>22, <1>23, <1>24, <1>25, <1>26, <1>27, <1>28, <1>29, Zenon DEF Life,
                                                                             Types

\* or left alone.
LEMMA RetireNothingKeeps ==
    ASSUME Life, Counted, NEW r \in Requests, RetireNothing(r)
    PROVE  Life'
  <1>1. /\ pc[r] = "retire"
        /\ pc' = [pc EXCEPT ![r] = "rele"]
        /\ ov' = [ov EXCEPT ![r] = NoEntry]
        /\ cnt' = [cnt EXCEPT ![r] = 0]
        /\ UNCHANGED <<refcnt, complete, rc, dupes, dupe_cnt, tree, queue,
             size, retwnd, drc, drcref, recycled, attached, dead, held, result,
             extending, executed, answered>>
    BY Zenon DEF RetireNothing, Goto, entries, cache, lifetime, history
  <1> USE <1>1
  <1>m. /\ pc'[r] = "rele"
        /\ \A q \in Requests \ {r} : pc'[q] = pc[q]
        /\ \A x \in Xprts : pc'[x] = pc[x]
    BY DupReqAssumption, Zenon DEF Life, Types, ThreadTypes, Actors
  <1>2. held[r] \in Requests /\ KeyOf[held[r]] = KeyOf[r] /\ pc[r] \in Labels
    BY Zenon DEF Life, Types, ThreadTypes, Actors, Held, Holding
  <1>3. held[r] \in complete
    BY Zenon DEF Life, Charge, Placed
  <1>20a. EntryTypes'
    BY Zenon DEF Life, Types, EntryTypes
  <1>20b. SeqTypes'
    BY Zenon DEF Life, Types, SeqTypes
  <1>20c. CacheTypes'
    BY Zenon DEF Life, Types, CacheTypes
  <1>20d. ThreadTypes'
    BY DupReqAssumption
      DEF Life, Types, ThreadTypes, Actors, Labels, RequestLabels
  <1>21. Held'
    BY <1>2, <1>3, <1>m, Zenon DEF Life, Held, Holding
  <1>22. Fresh'
    BY DupReqAssumption DEF Life, Fresh
  <1>23. OnePerKey'
    BY <1>2, Zenon DEF Life, OnePerKey
  <1>24. Queued'
    BY <1>2, <1>3, QueuedKept, <1>m, Zenon DEF Life
  <1>25. Waiting'
    BY <1>2, <1>3, WaitingKept, <1>m, Zenon DEF Life
  <1>26. Charge'
    <2>1. ASSUME NEW g \in tree' \ complete'
          PROVE  /\ g \in tree \ complete
                 /\ \A q \in Requests : InCharge(q, g)' <=> InCharge(q, g)
      BY <1>2, <1>3, <1>m, Zenon DEF InCharge
    <2>2. OneInCharge'
      BY <2>1, OneKept, ZenonT(30) DEF Life, Charge
    <2> QED BY <1>2, <1>3, <2>2, <1>m, Zenon DEF Life, Types, Charge, Placed
  <1>27. Fate'
    BY <1>3, <1>m, FateKept, Zenon DEF Life
  <1>28. SuspendedHasResumer'
    BY <1>m, Zenon DEF Life, SuspendedHasResumer
  <1>29. DrcLife'
    BY <1>m, Zenon DEF Life, DrcLife, Active
  <1> QED BY <1>20a, <1>20b, <1>20c, <1>20d,
    <1>21, <1>22, <1>23, <1>24, <1>25, <1>26, <1>27, <1>28, <1>29, Zenon DEF Life,
                                                                             Types

\* The reference of the tree: if it was the last, nobody uses the entry.
LEMMA PutRetiredKeeps ==
    ASSUME Life, Counted, NEW r \in Requests, PutRetired(r)
    PROVE  Life'
  <1>0. PICK o, n, l :
           /\ pc[r] = "retired" /\ EntryPut({ov[r]})
           /\ (l = "retire" /\ o = Head(queue) /\ queue # <<>>) \/ (l = "rele" /\ o = NoEntry)
           /\ n \in 0 .. MaxRetries
           /\ pc' = [pc EXCEPT ![r] = l]
           /\ ov' = [ov EXCEPT ![r] = o]
           /\ cnt' = [cnt EXCEPT ![r] = n]
           /\ UNCHANGED <<dupes, tree, queue, size, retwnd, drc, drcref, recycled,
                attached, dead, held, result, extending>>
    <2>1. Again(r, queue, retwnd, cnt[r] + 1) /\ cnt[r] + 1 \in Nat
      BY DEF PutRetired, Life, Types, ThreadTypes
    <2>2. /\ pc[r] = "retired" /\ EntryPut({ov[r]})
          /\ UNCHANGED <<dupes, cache, lifetime, held, result, extending>>
      BY Zenon DEF PutRetired
    <2>3. \E o, k, l :
             /\ ov' = [ov EXCEPT ![r] = o] /\ cnt' = [cnt EXCEPT ![r] = k]
             /\ pc' = [pc EXCEPT ![r] = l] /\ k \in 0 .. MaxRetries
             /\ \/ l = "retire" /\ o = Head(queue) /\ queue # <<>>
                \/ l = "rele" /\ o = NoEntry
      BY <2>1, Chosen, Zenon
    <2> QED BY <2>2, <2>3, Zenon DEF cache, lifetime
  <1> USE <1>0
  <1>m. /\ pc'[r] = l
        /\ \A q \in Requests \ {r} : pc'[q] = pc[q]
        /\ \A x \in Xprts : pc'[x] = pc[x]
    BY DupReqAssumption, Zenon DEF Life, Types, ThreadTypes, Actors
  <1>2. /\ ov[r] \in Requests /\ held[r] \in Requests
        /\ KeyOf[held[r]] = KeyOf[r] /\ pc[r] \in Labels
    BY Zenon DEF Life, Types, ThreadTypes, Actors, Held, Holding
  <1>3. EntryTypes' /\ Spared(tree \cup {held[q] : q \in {p \in Requests : held[p] # NoEntry}})
    <2> DEFINE U == tree \cup {held[q] : q \in {p \in Requests : held[p] # NoEntry}}
    <2>1. U \in SUBSET Requests
      <3>1. tree \subseteq Requests /\ held \in [Requests -> Requests \cup {NoEntry}]
        BY Zenon DEF Life, Types, CacheTypes, ThreadTypes
      <3> QED BY <3>1, Zenon
    <2>2. refcnt[ov[r]] = 1 => ov[r] \notin U
      BY <1>2 DEF Counted, LastUse, Retires
    <2> HIDE DEF U
    <2>3. EntryTypes' /\ Spared(U)
      BY <1>2, <2>1, <2>2, SparesOthers, Zenon DEF Life, Types
    <2> QED BY <2>3, Zenon DEF U
  <1>4. /\ tree' \cap complete' = tree \cap complete /\ tree' \ complete' = tree \ complete
        /\ complete' \subseteq complete /\ executed' \subseteq executed
        /\ answered' \subseteq answered
        /\ \A q \in Requests : held[q] # NoEntry =>
             /\ rc'[held[q]] = rc[held[q]]
             /\ held[q] \in complete' <=> held[q] \in complete
             /\ held[q] \in executed' <=> held[q] \in executed
             /\ held[q] \in answered' <=> held[q] \in answered
        /\ \A f \in complete' : /\ rc'[f] = rc[f]
                                /\ f \in executed' <=> f \in executed
                                /\ f \in answered' <=> f \in answered
    BY <1>3, Zenon DEF Spared
  <1>5. l \in {"retire", "rele"} /\ (o = NoEntry \/ o \in tree) /\ (l = "retire" => o \in Requests)
    <2>1. queue \in Seq(Requests) /\ Distinct(queue) /\ Elems(queue) \subseteq tree
      BY Zenon DEF Life, Types, SeqTypes, Queued
    <2>2. queue # <<>> => Head(queue) \in Elems(queue) /\ Head(queue) \in Requests
      BY <2>1, Beheaded, Zenon
    <2> QED BY <2>1, <2>2, Zenon
  <1>6. held[r] \in complete /\ held[r] \in complete'
    BY <1>2, <1>4, DupReqAssumption, Zenon DEF Life, Charge, Placed
  <1>20a. EntryTypes'
    BY <1>3, Zenon DEF Life, Types, ThreadTypes, EntryTypes, Results
  <1>20b. SeqTypes'
    BY <1>2, <1>4, <1>5, <1>6, Zenon DEF Life, Types, SeqTypes
  <1>20c. CacheTypes'
    BY <1>4, <1>5, <1>6, Zenon DEF Life, Types, CacheTypes
  <1>20d. ThreadTypes'
    BY <1>3, <1>5, Zenon
      DEF Life, Types, ThreadTypes, Actors, Labels, RequestLabels, Results
  <1>21. Held'
    BY <1>6, DupReqAssumption, <1>m, Zenon DEF Life, Held, Holding
  <1>22. Fresh'
    BY <1>4, <1>5, FreshKept, <1>m, Zenon DEF Life, Types, ThreadTypes
  <1>23. OnePerKey'
    BY <1>2, <1>5, Zenon DEF Life, OnePerKey
  <1>24. Queued'
    BY <1>4, <1>5, QueuedKept, Zenon DEF Life, Types, ThreadTypes, Actors
  <1>25. Waiting'
    BY <1>5, <1>6, WaitingKept, Zenon DEF Life, Types, ThreadTypes, Actors
  <1>26. Charge'
    <2>1. ASSUME NEW g \in tree' \ complete'
          PROVE  /\ g \in tree \ complete
                 /\ \A q \in Requests : InCharge(q, g)' <=> InCharge(q, g)
      BY <1>4, <1>5, <1>6, <1>m, Zenon DEF InCharge
    <2>2. OneInCharge'
      BY <2>1, OneKept, Zenon DEF Life, Charge
    <2>3. \A q \in Requests : pc[q] \in Holding => held[q] # NoEntry
      BY DupReqAssumption, Zenon DEF Life, Held
    <2>4. Charge
      BY Zenon DEF Life
    <2>5. ASSUME NEW q \in Requests \ {r} PROVE Placed(q)'
      BY <1>4, <1>m, <2>3, <2>4, PlacedKept, Zenon DEF Charge
    <2>6. Placed(r)'
      BY <1>5, <1>6, <1>m, Zenon DEF Placed
    <2> QED BY <2>2, <2>5, <2>6, Zenon DEF Charge
  <1>27. Fate'
    <2>1. RequestFate(r)'
      BY <1>2, <1>5, <1>6, <1>m, Zenon DEF RequestFate
    <2>2. ASSUME NEW q \in Requests \ {r} PROVE RequestFate(q)'
      <3>1. pc'[q] = pc[q] /\ held'[q] = held[q] /\ result'[q] = result[q] /\ tree' = tree
        BY <1>m, Zenon
      <3>2. pc[q] \in Holding => held[q] # NoEntry
        BY DupReqAssumption, Zenon DEF Life, Held
      <3>3. RequestFate(q)
        BY Zenon DEF Life, Fate
      <3> QED BY <1>4, <3>1, <3>2, <3>3, Zenon DEF RequestFate, Holding
    <2>3. \A e \in complete' : CompleteFate(e)'
      BY <1>2, <1>4, <1>5, Zenon DEF Life, Fate, CompleteFate
    <2> QED BY <2>1, <2>2, <2>3, Zenon DEF Fate
  <1>28. SuspendedHasResumer'
    BY <1>5, <1>m, Zenon DEF Life, Types, SuspendedHasResumer
  <1>29. DrcLife'
    BY <1>5, DrcKept, <1>m, Zenon DEF Life, Active
  <1> QED BY <1>20a, <1>20b, <1>20c, <1>20d,
    <1>21, <1>22, <1>23, <1>24, <1>25, <1>26, <1>27, <1>28, <1>29, Zenon DEF Life,
                                                                             Types

\* A call that was refused, and that nobody repeats, is forgotten.
LEMMA DeleteKeeps ==
    ASSUME Life, Counted, NEW r \in Requests, Delete(r)
    PROVE  Life'
  <1>1. /\ pc[r] = "delete" /\ dupes[held[r]] = <<>>
        /\ refcnt' = [refcnt EXCEPT ![held[r]] = @ - 1]
        /\ tree' = tree \ {held[r]}
        /\ size' = size - 1
        /\ pc' = [pc EXCEPT ![r] = "rele"]
        /\ result' = [result EXCEPT ![r] = "OK"]
        /\ UNCHANGED <<complete, rc, dupes, dupe_cnt, queue, retwnd, drc,
             drcref, recycled, attached, dead, held, ov, cnt, extending,
             executed, answered>>
    BY Zenon DEF Delete, Goto, lifetime, history
  <1> USE <1>1
  <1>m. /\ pc'[r] = "rele"
        /\ \A q \in Requests \ {r} : pc'[q] = pc[q]
        /\ \A x \in Xprts : pc'[x] = pc[x]
    BY DupReqAssumption, Zenon DEF Life, Types, ThreadTypes, Actors
  <1>2. held[r] \in Requests /\ KeyOf[held[r]] = KeyOf[r] /\ pc[r] \in Labels
    BY Zenon DEF Life, Types, ThreadTypes, Actors, Held, Holding
  <1>3. \A q \in Requests \ {r} : held[q] = held[r] => pc[q] \in {"suspended", "put"}
    <2>1. held[r] \in tree \ complete /\ InCharge(r, held[r])
      BY Zenon DEF Life, Charge, Placed, InCharge
    <2> QED BY <2>1, Alone, Zenon DEF Life
  <1>4. /\ held[r] \in tree \ complete
        /\ \A q \in Requests : ~(pc[q] = "suspended" /\ held[q] = held[r])
    BY <1>2, NoDupes, Zenon DEF Life, Charge, Placed
  <1>20a. EntryTypes'
    BY <1>2, CountTyped, Zenon DEF Life, Types, EntryTypes
  <1>20b. SeqTypes'
    BY <1>3, <1>4, ZenonT(30) DEF Life, Types, SeqTypes
  <1>20c. CacheTypes'
    BY <1>3, <1>4 DEF Life, Types, CacheTypes
  <1>20d. ThreadTypes'
    BY Zenon DEF Life, Types, ThreadTypes, Actors, Labels, RequestLabels, Results
  <1>21. Held'
    BY <1>m, Zenon DEF Life, Held, Holding
  <1>22. Fresh'
    BY <1>m, Zenon DEF Life, Fresh
  <1>23. OnePerKey'
    BY <1>3, Zenon DEF Life, OnePerKey
  <1>24. Queued'
    BY <1>3, <1>4, QueuedKept, <1>m, Zenon DEF Life
  <1>25. Waiting'
    BY <1>3, WaitingKept, Zenon DEF Life, Types, ThreadTypes, Actors
  <1>26. Charge'
    <2>1. ASSUME NEW g \in tree' \ complete'
          PROVE  /\ g \in tree \ complete
                 /\ \A q \in Requests : InCharge(q, g)' <=> InCharge(q, g)
      BY <1>4, <1>m, Zenon DEF Life, Types, InCharge
    <2>2. OneInCharge'
      BY <2>1, OneKept, ZenonT(30) DEF Life, Charge
    <2> QED BY <1>3, <1>4, <2>2, Zenon DEF Life, Types, ThreadTypes, Actors, Charge,
               Placed
  <1>27. Fate'
    <2>1. RequestFate(r)'
      <3>1. held[r] \notin tree'
        BY Zenon
      <3> QED BY <3>1, <1>m, Zenon DEF RequestFate
    <2>2. ASSUME NEW q \in Requests \ {r} PROVE RequestFate(q)'
      <3>1. RequestFate(q) /\ pc'[q] = pc[q] /\ held'[q] = held[q] /\ result'[q] = result[q]
        BY <1>m, Zenon DEF Life, Types, ThreadTypes, Fate
      <3> QED BY <3>1, RequestFateKept, Zenon
    <2>3. \A e \in complete' : CompleteFate(e)'
      BY CompleteFateKept, Zenon DEF Life
    <2> QED BY <2>1, <2>2, <2>3, Zenon DEF Fate
  <1>28. SuspendedHasResumer'
    BY <1>4, <1>m, ResumerKept, Zenon DEF Life
  <1>29. DrcLife'
    BY <1>m, Zenon DEF Life, Types, DrcLife, Active
  <1> QED BY <1>20a, <1>20b, <1>20c, <1>20d,
    <1>21, <1>22, <1>23, <1>24, <1>25, <1>26, <1>27, <1>28, <1>29, Zenon DEF Life,
                                                                             Types

-----------------------------------------------------------------------------
(* Releasing the entry.                                                    *)

\* An entry without duplicates is not in progress any more;
LEMMA ReleLastKeeps ==
    ASSUME Life, Counted, NEW r \in Requests, Rele(r), dupes[held[r]] = <<>>
    PROVE  Life'
  <1>1. /\ pc[r] = "rele"
        /\ pc' = [pc EXCEPT ![r] = "put"]
        /\ UNCHANGED <<refcnt, complete, rc, dupes, dupe_cnt, tree, queue,
             size, retwnd, drc, drcref, recycled, attached, dead, held, result,
             ov, cnt, extending, executed, answered>>
    BY Zenon DEF Rele, Goto, cache, lifetime, locals, history
  <1> USE <1>1
  <1>m. /\ pc'[r] = "put"
        /\ \A q \in Requests \ {r} : pc'[q] = pc[q]
        /\ \A x \in Xprts : pc'[x] = pc[x]
    BY DupReqAssumption, Zenon DEF Life, Types, ThreadTypes, Actors
  <1>2. held[r] \in Requests /\ KeyOf[held[r]] = KeyOf[r] /\ pc[r] \in Labels
    BY Zenon DEF Life, Types, ThreadTypes, Actors, Held, Holding
  <1>3. /\ held[r] \notin tree \ complete
        /\ \A q \in Requests : ~(pc[q] = "suspended" /\ held[q] = held[r])
    BY <1>2, NoDupes, Zenon DEF Life, Charge, Placed
  <1>20a. EntryTypes'
    BY Zenon DEF Life, Types, EntryTypes
  <1>20b. SeqTypes'
    BY Zenon DEF Life, Types, SeqTypes
  <1>20c. CacheTypes'
    BY <1>2, Zenon DEF Life, Types, CacheTypes
  <1>20d. ThreadTypes'
    BY <1>2, Zenon DEF Life, Types, ThreadTypes, Actors, Labels, RequestLabels
  <1>21. Held'
    BY <1>2, <1>m, Zenon DEF Life, Held, Holding
  <1>22. Fresh'
    BY <1>m, Zenon DEF Life, Fresh
  <1>23. OnePerKey'
    BY Zenon DEF Life, OnePerKey
  <1>24. Queued'
    BY QueuedKept, <1>m, Zenon DEF Life
  <1>25. Waiting'
    BY WaitingKept, <1>m, Zenon DEF Life
  <1>26. Charge'
    <2>1. ASSUME NEW g \in tree' \ complete'
          PROVE  /\ g \in tree \ complete
                 /\ \A q \in Requests : InCharge(q, g)' <=> InCharge(q, g)
      BY <1>3, <1>m, Zenon DEF InCharge
    <2>2. OneInCharge'
      BY <2>1, OneKept, Zenon DEF Life, Charge
    <2> QED BY <2>2, <1>m, Zenon DEF Life, Types, Charge, Placed
  <1>27. Fate'
    BY FateKept, <1>m, Zenon DEF Life
  <1>28. SuspendedHasResumer'
    BY <1>3, <1>m, Zenon DEF Life, SuspendedHasResumer
  <1>29. DrcLife'
    BY <1>m, Zenon DEF Life, DrcLife, Active
  <1> QED BY <1>20a, <1>20b, <1>20c, <1>20d,
    <1>21, <1>22, <1>23, <1>24, <1>25, <1>26, <1>27, <1>28, <1>29, Zenon DEF Life,
                                                                             Types

\* otherwise the next duplicate takes over: it is in charge if the entry is in
\* progress, and knows its fate.
LEMMA ReleNextKeeps ==
    ASSUME Life, Counted, NEW r \in Requests, Rele(r), dupes[held[r]] # <<>>
    PROVE  Life'
  <1>0. PICK d :
           /\ d = Head(dupes[held[r]]) /\ pc[r] = "rele"
           /\ dupes' = [dupes EXCEPT ![held[r]] = Tail(@)]
           /\ pc' = [pc EXCEPT ![r] = "put", ![d] = "resumed"]
           /\ UNCHANGED <<refcnt, complete, rc, dupe_cnt, tree, queue, size,
                retwnd, drc, drcref, recycled, attached, dead, held, result, ov,
                cnt, extending, executed, answered>>
    BY Zenon DEF Rele, cache, lifetime, locals, history
  <1> USE <1>0
  <1>2. held[r] \in Requests /\ KeyOf[held[r]] = KeyOf[r] /\ pc[r] \in Labels
    BY Zenon DEF Life, Types, ThreadTypes, Actors, Held, Holding
  <1>3. /\ d \in Requests /\ d # r /\ pc[d] = "suspended" /\ held[d] = held[r]
        /\ Elems(Tail(dupes[held[r]])) = Elems(dupes[held[r]]) \ {d}
        /\ Tail(dupes[held[r]]) \in Seq(Requests) /\ Distinct(Tail(dupes[held[r]]))
    BY <1>2, NextDupe, Zenon
  <1>4. /\ pc' \in [Actors -> Labels] /\ pc'[r] = "put" /\ pc'[d] = "resumed"
        /\ \A q \in Actors \ {r, d} : pc'[q] = pc[q]
    BY <1>3, Zenon DEF Life, Types, ThreadTypes, Actors, Labels, RequestLabels
  <1>m. /\ pc'[r] = "put" /\ pc'[d] = "resumed"
        /\ \A q \in Requests \ {r, d} : pc'[q] = pc[q]
        /\ \A x \in Xprts : pc'[x] = pc[x]
    BY <1>3, <1>4, DupReqAssumption, ZenonT(30) DEF Actors
  <1>20a. EntryTypes'
    BY <1>2, Zenon DEF Life, Types, EntryTypes
  <1>20b. SeqTypes'
    BY <1>2, <1>3, Zenon DEF Life, Types, SeqTypes
  <1>20c. CacheTypes'
    BY <1>4, Zenon DEF Life, Types, CacheTypes
  <1>20d. ThreadTypes'
    BY <1>2, <1>3, <1>4, DupReqAssumption, Zenon
      DEF Life, Types, ThreadTypes, Actors, Labels, RequestLabels, Results
  <1>21. Held'
    BY <1>2, <1>3, <1>m, ZenonT(30) DEF Life, Held, Holding
  <1>22. Fresh'
    BY <1>3, FreshKept, <1>m, Zenon DEF Life
  <1>23. OnePerKey'
    BY <1>2, <1>4, Zenon DEF Life, OnePerKey
  <1>24. Queued'
    BY <1>2, <1>3, <1>4, QueuedKept, Zenon DEF Life, Actors
  <1>25. Waiting'
    <2>1. ASSUME NEW f \in Requests \ {held[r]}
          PROVE  Elems(dupes'[f]) = {q \in Requests : pc'[q] = "suspended" /\ held'[q] = f}
      <3>1. \A q \in Requests : pc'[q] = "suspended" /\ held'[q] = f
                               <=> pc[q] = "suspended" /\ held[q] = f
        BY <1>3, <1>4, ZenonT(30) DEF Actors
      <3>2. dupes'[f] = dupes[f]
        BY Zenon DEF Life, Types, SeqTypes
      <3>3. Elems(dupes[f]) = {q \in Requests : pc[q] = "suspended" /\ held[q] = f}
        BY Zenon DEF Life, Waiting
      <3> QED BY <3>1, <3>2, <3>3, Zenon
    <2>2. Elems(dupes'[held[r]]) = {q \in Requests : pc'[q] = "suspended" /\ held'[q] = held[r]}
      BY <1>2, <1>3, <1>4, Zenon DEF Life, Types, Actors, SeqTypes, Waiting
    <2> QED BY <2>1, <2>2, Zenon DEF Waiting
  <1>26. Charge'
    <2>1. ASSUME NEW e \in tree' \ complete', e # held[r]
          PROVE  /\ e \in tree \ complete
                 /\ \A q \in Requests : InCharge(q, e)' <=> InCharge(q, e)
      BY <1>3, <1>4, <2>1, Zenon DEF Actors, InCharge
    <2>2. ASSUME NEW e \in tree' \ complete', e = held[r]
          PROVE  \A q \in Requests : InCharge(q, e)' <=> q = d
      <3>1. \A q \in Requests \ {r} : held[q] = e => pc[q] \in {"suspended", "put"}
        BY <2>2, Alone, Zenon DEF Life, InCharge
      <3> QED BY <1>3, <1>4, <2>2, <3>1, Zenon DEF Actors, InCharge
    <2>3. OneInCharge'
      <3>1. ASSUME NEW e \in tree' \ complete'
            PROVE  \E p \in Requests : \A q \in Requests : InCharge(q, e)' <=> q = p
        <4>1. CASE e = held[r]
          BY <1>3, <2>2, <4>1, Zenon
        <4>2. CASE e # held[r]
          <5>1. PICK p \in Requests : \A q \in Requests : InCharge(q, e) <=> q = p
            BY <2>1, <4>2, Zenon DEF Life, Charge, OneInCharge
          <5> QED BY <2>1, <4>2, <5>1, Zenon
        <4> QED BY <4>1, <4>2, Zenon
      <3> QED BY <3>1, Zenon DEF OneInCharge
    <2>4. ASSUME NEW q \in Requests, pc'[q] = "rele", held'[q] \in tree' \ complete'
          PROVE  dupes'[held'[q]] # <<>>
      <3>1. q # r /\ q # d /\ pc[q] = "rele" /\ held[q] \in tree \ complete
        BY <1>4, <2>4, Zenon DEF Actors
      <3>2. held[q] # held[r]
        BY <2>2, <2>4, <1>4, Zenon DEF InCharge
      <3> QED BY <3>1, <3>2 DEF Life, Charge, Placed
    <2> QED BY <1>3, <1>4, <2>3, <2>4, Zenon DEF Life, Actors, Charge, Placed
  <1>27. Fate'
    <2>1. RequestFate(r)' /\ RequestFate(d)'
      <3>1. RequestFate(r) /\ RequestFate(d)
        BY <1>3, Zenon DEF Life, Fate
      <3>2. RequestFate(r)'
        BY <1>m, Zenon DEF RequestFate
      <3>3. RequestFate(d)'
        BY <1>3, <1>m, <3>1, Zenon DEF RequestFate
      <3> QED BY <3>2, <3>3, Zenon
    <2>2. ASSUME NEW q \in Requests \ {r, d} PROVE RequestFate(q)'
      BY <1>4, Zenon DEF Life, Actors, Fate, RequestFate
    <2>3. \A e \in complete' : CompleteFate(e)'
      BY Zenon DEF Life, Fate, CompleteFate
    <2> QED BY <2>1, <2>2, <2>3, Zenon DEF Fate
  <1>28. SuspendedHasResumer'
    <2> SUFFICES ASSUME NEW q \in Requests, pc'[q] = "suspended"
                 PROVE  \E s \in Requests :
                            held[s] = held[q] /\ pc'[s] \notin {"suspended", "put"}
      BY Zenon DEF SuspendedHasResumer
    <2>1. PICK s \in Requests : held[s] = held[q] /\ pc[s] \notin {"suspended", "put"}
      BY <1>4, Zenon DEF Life, Actors, SuspendedHasResumer
    <2>2. CASE s = r
      BY <2>1, <2>2, <1>3, <1>4, Zenon
    <2>3. CASE s # r
      BY <2>1, <1>3, <1>4 DEF Actors
    <2> QED BY <2>2, <2>3, Zenon
  <1>29. DrcLife'
    <2>1. \A x \in Xprts : pc'[x] = pc[x]
      BY <1>3, <1>4, DupReqAssumption, <1>m, Zenon DEF Actors
    <2>2. \A q \in Requests : Active(q)' => Active(q)
      BY <1>3, <1>4, Zenon DEF Actors, Active
    <2> QED BY <2>1, <2>2, Zenon DEF Life, DrcLife
  <1> QED BY <1>20a, <1>20b, <1>20c, <1>20d,
    <1>21, <1>22, <1>23, <1>24, <1>25, <1>26, <1>27, <1>28, <1>29, Zenon DEF Life,
                                                                             Types

\* A request that is done is never the last user of the DRC: its connection is
\* still there.
LEMMA PutKeeps ==
    ASSUME Life, Counted, NEW r \in Requests, Put(r)
    PROVE  Life'
  <1>1. /\ pc[r] = "put" /\ EntryPut({held[r]})
        /\ drcref' = drcref - 1
        /\ pc' = [pc EXCEPT ![r] = "done"]
        /\ held' = [held EXCEPT ![r] = NoEntry]
        /\ UNCHANGED <<dupes, tree, queue, size, retwnd, drc, recycled,
             attached, dead, result, ov, cnt, extending>>
    <2>1. drcref # 1 /\ pc[r] = "put"
      <3>1. pc[r] = "put"
        BY Zenon DEF Put
      <3>2. drcref >= 2
        BY <3>1, Zenon DEF Counted, Active
      <3> QED BY <3>1, <3>2
    <2> QED BY <2>1, Zenon DEF Put, Goto, cache, locals
  <1> USE <1>1
  <1>m. /\ pc'[r] = "done"
        /\ \A q \in Requests \ {r} : pc'[q] = pc[q]
        /\ \A x \in Xprts : pc'[x] = pc[x]
        /\ held'[r] = NoEntry /\ \A q \in Requests \ {r} : held'[q] = held[q]
    BY DupReqAssumption, Zenon DEF Life, Types, ThreadTypes, Actors
  <1>2. held[r] \in Requests /\ KeyOf[held[r]] = KeyOf[r] /\ pc[r] \in Labels
    BY Zenon DEF Life, Types, ThreadTypes, Actors, Held, Holding
  <1>3. EntryTypes' /\ Spared(tree \cup {held[q] : q \in {p \in Requests \ {r} : held[p] # NoEntry}})
    <2> DEFINE U == tree \cup {held[q] : q \in {p \in Requests \ {r} : held[p] # NoEntry}}
    <2>1. U \in SUBSET Requests
      <3>1. tree \subseteq Requests /\ held \in [Requests -> Requests \cup {NoEntry}]
        BY Zenon DEF Life, Types, CacheTypes, ThreadTypes
      <3> QED BY <3>1, Zenon
    <2>2. refcnt[held[r]] = 1 => held[r] \notin U
      BY <1>2 DEF Counted, LastUse
    <2> HIDE DEF U
    <2>3. EntryTypes' /\ Spared(U)
      BY <1>2, <2>1, <2>2, SparesOthers, Zenon DEF Life, Types
    <2> QED BY <2>3, Zenon DEF U
  <1>4. /\ tree' \cap complete' = tree \cap complete /\ tree' \ complete' = tree \ complete
        /\ complete' \subseteq complete /\ executed' \subseteq executed
        /\ answered' \subseteq answered
        /\ \A q \in Requests \ {r} : held[q] # NoEntry =>
             /\ rc'[held[q]] = rc[held[q]]
             /\ held[q] \in complete' <=> held[q] \in complete
             /\ held[q] \in executed' <=> held[q] \in executed
             /\ held[q] \in answered' <=> held[q] \in answered
        /\ \A f \in complete' : /\ rc'[f] = rc[f]
                                /\ f \in executed' <=> f \in executed
                                /\ f \in answered' <=> f \in answered
    BY <1>3, Zenon DEF Spared
  <1>5. drc /\ ~recycled /\ \A x \in Xprts : pc[x] # "recycle"
    BY InUse, Zenon DEF Life, DrcLife, Active
  <1>20a. EntryTypes'
    BY <1>3, Zenon
  <1>20b. SeqTypes'
    BY <1>2, <1>4, <1>5, ZenonT(30) DEF Life, Types, SeqTypes
  <1>20c. CacheTypes'
    BY <1>2, <1>4, <1>5 DEF Life, Types, CacheTypes
  <1>20d. ThreadTypes'
    BY <1>2, Zenon
      DEF Life, Types, ThreadTypes, Actors, Labels, RequestLabels, Results
  <1>21. Held'
    BY Zenon DEF Life, Types, ThreadTypes, Actors, Held, Holding
  <1>22. Fresh'
    BY <1>4, FreshKept, <1>m, Zenon DEF Life
  <1>23. OnePerKey'
    BY <1>4, Zenon DEF Life, OnePerKey
  <1>24. Queued'
    BY <1>4, QueuedKept, <1>m, Zenon DEF Life
  <1>25. Waiting'
    BY <1>5, WaitingKept, <1>m, Zenon DEF Life, Types
  <1>26. Charge'
    <2>1. ASSUME NEW g \in tree' \ complete'
          PROVE  /\ g \in tree \ complete
                 /\ \A q \in Requests : InCharge(q, g)' <=> InCharge(q, g)
      BY <1>4, <1>5, <1>m, Zenon DEF InCharge
    <2>2. OneInCharge'
      BY <2>1, OneKept, Zenon DEF Life, Charge
    <2>3. \A q \in Requests : pc[q] \in Holding => held[q] # NoEntry
      BY DupReqAssumption, Zenon DEF Life, Held
    <2>4. Charge
      BY Zenon DEF Life
    <2>5. ASSUME NEW q \in Requests \ {r} PROVE Placed(q)'
      BY <1>4, <1>m, <2>3, <2>4, PlacedKept, Zenon DEF Charge
    <2>6. Placed(r)'
      BY <1>m, Zenon DEF Placed
    <2> QED BY <2>2, <2>5, <2>6, Zenon DEF Charge
  <1>27. Fate'
    <2>1. RequestFate(r)'
      BY <1>2, <1>4, <1>5, <1>m, Zenon DEF Life, RequestFate, Charge, Placed
    <2>2. ASSUME NEW q \in Requests \ {r} PROVE RequestFate(q)'
      <3>2. pc[q] \in Holding => held[q] # NoEntry
        BY DupReqAssumption, Zenon DEF Life, Held
      <3>3. RequestFate(q)
        BY Zenon DEF Life, Fate
      <3> QED BY <1>4, <3>2, <3>3, <1>m, Zenon DEF RequestFate, Holding
    <2>3. \A e \in complete' : CompleteFate(e)'
      BY <1>4, Zenon DEF Life, Fate, CompleteFate
    <2> QED BY <2>1, <2>2, <2>3, Zenon DEF Fate
  <1>28. SuspendedHasResumer'
    <2> SUFFICES ASSUME NEW q \in Requests, pc'[q] = "suspended"
                 PROVE  \E t \in Requests :
                            held'[t] = held'[q] /\ pc'[t] \notin {"suspended", "put"}
      BY Zenon DEF SuspendedHasResumer
    <2>1. q # r /\ pc[q] = "suspended" /\ held'[q] = held[q]
      BY <1>m, Zenon
    <2>2. PICK t \in Requests : held[t] = held[q] /\ pc[t] \notin {"suspended", "put"}
      BY <2>1, Zenon DEF Life, SuspendedHasResumer
    <2> QED BY <1>m, <2>1, <2>2, ZenonT(30)
  <1>29. DrcLife'
    BY <1>5, Zenon DEF Life, Types, ThreadTypes, Actors, DrcLife, Active
  <1> QED BY <1>20a, <1>20b, <1>20c, <1>20d,
    <1>21, <1>22, <1>23, <1>24, <1>25, <1>26, <1>27, <1>28, <1>29, Zenon DEF Life,
                                                                             Types

-----------------------------------------------------------------------------
(* The DRC.                                                                *)

\* Whoever dropped the last reference puts the DRC in the recycle queue.
LEMMA RecycleKeeps ==
    ASSUME Life, Counted, NEW x \in Actors, Recycle(x)
    PROVE  Life'
  <1>1. /\ pc[x] = "recycle" /\ x \in Xprts /\ drcref = 0 /\ drc
        /\ recycled' /\ recycled' \in BOOLEAN
        /\ pc' = [pc EXCEPT ![x] = "done"]
        /\ UNCHANGED <<refcnt, complete, rc, dupes, dupe_cnt, tree, queue,
             size, retwnd, drc, drcref, attached, dead, held, result, ov, cnt,
             extending, executed, answered>>
    <2>1. pc[x] = "recycle" /\ x \in Xprts
      BY Zenon DEF Recycle, Life, Types, ThreadTypes, Actors, RequestLabels
    <2>2. drcref = 0 /\ drc
      BY <2>1, Zenon DEF Life, DrcLife
    <2>3. recycled' = (recycled \/ drcref = 0)
      BY Zenon DEF Recycle
    <2>4. recycled' /\ recycled' \in BOOLEAN
      BY <2>2, <2>3, Zenon
    <2> QED BY <2>1, <2>2, <2>4, Zenon DEF Recycle, Goto, entries, cache, locals,
               history
  <1> USE <1>1
  <1>m. /\ pc'[x] = "done"
        /\ \A q \in Requests : pc'[q] = pc[q]
        /\ \A y \in Xprts \ {x} : pc'[y] = pc[y]
    BY DupReqAssumption, Zenon DEF Life, Types, ThreadTypes, Actors
  <1>2. /\ pc' \in [Actors -> Labels] /\ \A q \in Requests : pc'[q] = pc[q]
        /\ pc'[x] \in {"open", "recycle", "done"} /\ \A y \in Xprts \ {x} : pc'[y] = pc[y]
    BY DupReqAssumption, <1>m, Zenon DEF Life, Types, ThreadTypes, Labels
  <1>20a. EntryTypes'
    BY Zenon DEF Life, Types, EntryTypes
  <1>20b. SeqTypes'
    BY Zenon DEF Life, Types, SeqTypes
  <1>20c. CacheTypes'
    BY Zenon DEF Life, Types, CacheTypes
  <1>20d. ThreadTypes'
    BY <1>m, Zenon DEF Life, Types, ThreadTypes, Labels, Results
  <1>21. Held'
    BY <1>2, Zenon DEF Life, Actors, Held, Holding
  <1>22. Fresh'
    BY <1>m, Zenon DEF Life, Fresh
  <1>23. OnePerKey'
    BY Zenon DEF Life, OnePerKey
  <1>24. Queued'
    BY QueuedKept, <1>m, Zenon DEF Life
  <1>25. Waiting'
    BY WaitingKept, <1>m, Zenon DEF Life
  <1>26. Charge'
    <2>1. ASSUME NEW g \in tree' \ complete'
          PROVE  /\ g \in tree \ complete
                 /\ \A q \in Requests : InCharge(q, g)' <=> InCharge(q, g)
      BY <1>m, Zenon DEF Actors, InCharge
    <2>2. OneInCharge'
      BY <2>1, OneKept, Zenon DEF Life, Charge
    <2> QED BY <2>2, <1>m, Zenon DEF Life, Charge, Placed
  <1>27. Fate'
    BY FateKept, <1>m, Zenon DEF Life
  <1>28. SuspendedHasResumer'
    BY <1>m, Zenon DEF Life, Actors, SuspendedHasResumer
  <1>29. DrcLife'
    BY <1>m, Zenon DEF Life, Types, ThreadTypes, DrcLife, Active
  <1> QED BY <1>20a, <1>20b, <1>20c, <1>20d,
    <1>21, <1>22, <1>23, <1>24, <1>25, <1>26, <1>27, <1>28, <1>29, Zenon DEF Life,
                                                                             Types

\* A connection without requests goes away.
LEMMA FreeXprtKeeps ==
    ASSUME Life, Counted, NEW x \in Xprts, FreeXprt(x)
    PROVE  Life'
  <1>0. PICK l :
           /\ pc[x] = "open" /\ l \in {"recycle", "done"}
           /\ \A q \in Requests : XprtOf[q] = x => ~Active(q) /\ q \notin extending
           /\ l = "recycle" => x \in attached /\ drcref = 1
           /\ drcref' = IF x \in attached THEN drcref - 1 ELSE drcref
           /\ attached' = attached \ {x}
           /\ dead' = dead \cup {x}
           /\ pc' = [pc EXCEPT ![x] = l]
           /\ UNCHANGED <<refcnt, complete, rc, dupes, dupe_cnt, tree, queue,
                size, retwnd, drc, recycled, held, result, ov, cnt, extending,
                executed, answered>>
    BY Zenon DEF FreeXprt, Goto, entries, cache, locals, history
  <1> USE <1>0
  <1>m. /\ pc'[x] = l
        /\ \A q \in Requests : pc'[q] = pc[q]
        /\ \A y \in Xprts \ {x} : pc'[y] = pc[y]
    BY DupReqAssumption, Zenon DEF Life, Types, ThreadTypes, Actors
  <1>2. /\ pc' \in [Actors -> Labels] /\ \A q \in Requests : pc'[q] = pc[q]
        /\ pc'[x] \in {"open", "recycle", "done"} /\ \A y \in Xprts \ {x} : pc'[y] = pc[y]
    BY DupReqAssumption, Zenon DEF Life, Types, ThreadTypes, Actors, Labels
  <1>20a. EntryTypes'
    BY Zenon DEF Life, Types, EntryTypes, Results
  <1>20b. SeqTypes'
    BY Zenon DEF Life, Types, SeqTypes
  <1>20c. CacheTypes'
    BY DupReqAssumption DEF Life, Types, CacheTypes
  <1>20d. ThreadTypes'
    BY <1>2, DupReqAssumption, Zenon
      DEF Life, Types, ThreadTypes, Labels, RequestLabels, Results
  <1>21. Held'
    BY <1>2, Zenon DEF Life, Actors, Held, Holding
  <1>22. Fresh'
    BY <1>m, Zenon DEF Life, Fresh
  <1>23. OnePerKey'
    BY Zenon DEF Life, OnePerKey
  <1>24. Queued'
    BY QueuedKept, <1>m, Zenon DEF Life
  <1>25. Waiting'
    BY <1>2, WaitingKept, Zenon DEF Life
  <1>26. Charge'
    <2>1. ASSUME NEW g \in tree' \ complete'
          PROVE  /\ g \in tree \ complete
                 /\ \A q \in Requests : InCharge(q, g)' <=> InCharge(q, g)
      BY <1>2, Zenon DEF InCharge
    <2>2. OneInCharge'
      BY <2>1, OneKept, Zenon DEF Life, Charge
    <2> QED BY <1>2, <2>2, Zenon DEF Life, Charge, Placed
  <1>27. Fate'
    BY FateKept, <1>m, Zenon DEF Life
  <1>28. SuspendedHasResumer'
    BY <1>m, Zenon DEF Life, SuspendedHasResumer
  <1>29. DrcLife'
    <2>1. \A q \in Requests : Active(q)' \/ q \in extending' => XprtOf[q] \in attached'
      BY <1>m, Zenon DEF Life, DrcLife, Active
    <2>2. pc'[x] = l
      BY Zenon DEF Life, Types, ThreadTypes, Actors
    <2>3. CASE x \in attached
      <3>1. ~recycled /\ drc /\ \A y \in Xprts : pc[y] # "recycle"
        BY <2>3, InUse, Zenon
      <3> QED BY <2>1, <3>1 DEF DrcLife
    <2>4. CASE x \notin attached
      BY <2>1, <2>2, <2>4, <1>m, Zenon DEF Life, DrcLife
    <2> QED BY <2>3, <2>4, Zenon
  <1> QED BY <1>20a, <1>20b, <1>20c, <1>20d,
    <1>21, <1>22, <1>23, <1>24, <1>25, <1>26, <1>27, <1>28, <1>29, Zenon DEF Life,
                                                                             Types

\* An expired DRC is freed with all its entries.
LEMMA FreeExpiredKeeps ==
    ASSUME Life, Counted, FreeExpired
    PROVE  Life'
  <1>1. /\ recycled /\ EntryPut(Elems(queue))
        /\ tree' = {}
        /\ queue' = <<>>
        /\ size' = 0
        /\ retwnd' = 0
        /\ drc' = FALSE
        /\ recycled' = FALSE
        /\ UNCHANGED <<dupes, drcref, attached, dead, pc, held, result, ov,
             cnt, extending>>
    BY Zenon DEF FreeExpired, Elems, locals
  <1> USE <1>1
  <1>2. /\ drcref = 0 /\ attached = {} /\ extending = {}
        /\ \A q \in Requests : pc[q] \in {"new", "done"} /\ held[q] = NoEntry
        /\ tree = Elems(queue) /\ tree \subseteq complete /\ \A e \in tree : refcnt[e] = 1
    BY Idle, Zenon
  <1>3. /\ EntryTypes' /\ complete' \subseteq complete \ tree
        /\ executed' \subseteq executed /\ answered' \subseteq answered
        /\ \A f \in complete' : /\ rc'[f] = rc[f]
                                /\ f \in executed' <=> f \in executed
                                /\ f \in answered' <=> f \in answered
    <2>1. EntryTypes
      BY Zenon DEF Life, Types
    <2>2. EntryTypes'
      BY <1>2, <2>1, DupReqAssumption DEF EntryTypes, EntryPut, Results
    <2> QED BY <1>2, <2>1, <2>2, Zenon DEF EntryTypes, EntryPut
  <1>4. drc' \in BOOLEAN /\ recycled' \in BOOLEAN
    BY Zenon
  <1>20a. SeqTypes'
    BY EmptyQueue, Zenon DEF Life, Types, SeqTypes
  <1>20b. CacheTypes'
    BY <1>4 DEF Life, Types, CacheTypes
  <1>20c. ThreadTypes'
    BY Zenon DEF Life, Types, ThreadTypes
  <1>21. Held'
    BY <1>3, DupReqAssumption, Zenon DEF Life, Held, Holding
  <1>22. Fresh'
    BY <1>2, <1>3, Zenon DEF Life, Fresh
  <1>23. OnePerKey'
    BY <1>2, <1>4, Zenon DEF OnePerKey
  <1>24. Queued'
    BY <1>2, EmptyQueue, Zenon DEF Queued
  <1>25. Waiting'
    BY <1>4, WaitingKept, Zenon DEF Life
  <1>26. Charge'
    <2>2. OneInCharge'
      BY Zenon DEF OneInCharge
    <2> QED BY <1>2, <1>4, <2>2, Zenon DEF Charge, Placed
  <1>27. Fate'
    <2>1. \A q \in Requests : RequestFate(q)'
      BY <1>2, Zenon DEF RequestFate
    <2>2. \A e \in complete' : CompleteFate(e)'
      BY <1>3, Zenon DEF Life, Fate, CompleteFate
    <2> QED BY <2>1, <2>2, Zenon DEF Fate
  <1>28. SuspendedHasResumer'
    BY <1>2, Zenon DEF SuspendedHasResumer
  <1>29. DrcLife'
    BY <1>2, Zenon
      DEF Life, Types, ThreadTypes, Actors, DrcLife, Active, RequestLabels
  <1> QED BY <1>3, <1>20a, <1>20b, <1>20c,
    <1>21, <1>22, <1>23, <1>24, <1>25, <1>26, <1>27, <1>28, <1>29, Zenon DEF Life,
                                                                             Types
-----------------------------------------------------------------------------
LEMMA StutteringKeeps ==
    ASSUME Life, UNCHANGED vars
    PROVE  Life'
  <1>1. UNCHANGED <<refcnt, complete, rc, dupes, dupe_cnt, tree, queue, size,
          retwnd, drc, drcref, recycled, attached, dead, pc, held, result, ov,
          cnt, extending, executed, answered>>
    BY Zenon DEF vars, entries, cache, lifetime, locals, history
  <1>2. Types' /\ Held' /\ Fresh' /\ OnePerKey'
    BY <1>1, ZenonT(30) DEF Life, Types, EntryTypes, SeqTypes, CacheTypes,
       ThreadTypes,
       Held,
         Fresh, OnePerKey
  <1>3. Queued' /\ Waiting' /\ Charge'
    <2>1. Queued' /\ Waiting'
      BY <1>1, QueuedKept, WaitingKept, Zenon DEF Life
    <2>2. OneInCharge'
      <3>1. ASSUME NEW g \in tree' \ complete'
            PROVE  /\ g \in tree \ complete
                   /\ \A q \in Requests : InCharge(q, g)' <=> InCharge(q, g)
        BY <1>1, Zenon DEF InCharge
      <3> QED BY <3>1, OneKept, Zenon DEF Life, Charge
    <2>3. \A r \in Requests : Placed(r)'
      BY <1>1, Zenon DEF Life, Charge, Placed
    <2> QED BY <2>1, <2>2, <2>3, Zenon DEF Charge
  <1>4. Fate' /\ SuspendedHasResumer' /\ DrcLife'
    BY <1>1, Zenon DEF Life, Fate, RequestFate, CompleteFate, SuspendedHasResumer,
       DrcLife,
         Active
  <1> QED BY <1>2, <1>3, <1>4, Zenon DEF Life

\* At first no request has arrived, and there is no DRC.
LEMMA InitLife == Init => Life
  <1> SUFFICES ASSUME Init PROVE Life
    OBVIOUS
  <1> USE DupReqAssumption DEF Init
  <1>1. /\ \A r \in Requests : pc[r] = "new"
        /\ \A x \in Xprts : pc[x] = "open"
    BY Zenon DEF Actors
  <1>2. EntryTypes /\ CacheTypes
    <2>1. EntryTypes
      BY DEF EntryTypes, Results
    <2>2. drc \in BOOLEAN /\ recycled \in BOOLEAN
      BY Zenon
    <2>3. CacheTypes
      BY <2>2 DEF CacheTypes
    <2> QED BY <2>1, <2>3, Zenon
  <1>3. SeqTypes
    BY EmptyQueue, Zenon DEF SeqTypes
  <1>4. ThreadTypes
    BY DEF ThreadTypes, Actors, Labels, RequestLabels, Results
  <1>5. Held /\ Fresh /\ OnePerKey
    BY <1>1, Zenon DEF Held, Holding, Fresh, OnePerKey
  <1>6. Queued
    BY <1>1, EmptyQueue, Zenon DEF Queued
  <1>7. Waiting
    BY EmptyQueue, Zenon DEF Waiting
  <1>8. Charge /\ Fate /\ SuspendedHasResumer
    BY <1>1, Zenon
      DEF Charge, Placed, OneInCharge, Fate, RequestFate, SuspendedHasResumer
  <1>9. DrcLife
    BY <1>1, Zenon DEF DrcLife, Active
  <1> QED BY <1>2, <1>3, <1>4, <1>5, <1>6, <1>7, <1>8, <1>9, Zenon DEF Life, Types

\* While the counters are right, every step keeps the invariant.
LEMMA NextKeepsLife ==
    ASSUME Life, Counted, [Next]_vars
    PROVE  Life'
  <1>1. ASSUME NEW r \in Requests, Arrive(r) \/ ExtendWindow(r) \/ Start(r)
        PROVE  Life'
    BY <1>1, GetDrcKeeps, AttachDrcKeeps, ExtendWindowKeeps, StartNewKeeps,
       StartQueuedKeeps, StartDroppedKeeps, StartExistsKeeps, Zenon DEF Arrive, Start
  <1>2. ASSUME NEW r \in Requests, Process(r) \/ Resume(r)
        PROVE  Life'
    BY <1>2, ReplySentKeeps, ReplyFailsKeeps, RefuseKeeps, SendCachedKeeps,
       ResumeRepliedKeeps, ResumeRefusedKeeps, ResumeLostKeeps, Zenon DEF Process,
                                                                          Resume
  <1>3. ASSUME NEW r \in Requests, End(r)
        PROVE  Life'
    BY <1>3, FinishLostKeeps, FinishKeeps, EnqueueKeeps, RetireKeeps,
       RetireNothingKeeps, PutRetiredKeeps, DeleteQueuedKeeps, DeleteKeeps, Zenon DEF End
  <1>4. ASSUME NEW r \in Requests, Release(r)
        PROVE  Life'
    BY <1>4, ReleLastKeeps, ReleNextKeeps, PutKeeps, Zenon DEF Release
  <1>5. ASSUME NEW a \in Actors, Recycle(a)
        PROVE  Life'
    BY <1>5, RecycleKeeps, Zenon
  <1>6. ASSUME NEW x \in Xprts, FreeXprt(x)
        PROVE  Life'
    BY <1>6, FreeXprtKeeps, Zenon
  <1>7. ASSUME NEW r \in Requests, Arrive(r) \/ ExtendWindow(r) \/ Step(r)
        PROVE  Life'
    BY <1>1, <1>2, <1>3, <1>4, <1>5, <1>7, Zenon DEF Step, Actors
  <1>8. ASSUME NEW x \in Xprts, FreeXprt(x) \/ Recycle(x)
        PROVE  Life'
    BY <1>5, <1>6, <1>8, Zenon DEF Actors
  <1>9. CASE Next
    BY <1>7, <1>8, <1>9, FreeExpiredKeeps, Zenon DEF Next
  <1> QED BY <1>9, StutteringKeeps, Zenon
=============================================================================
