------------------------- MODULE ClientLeaseProofs --------------------------
(***************************************************************************)
(* Theorems about ClientLease, for any number of clients and workers.      *)
(*                                                                         *)
(* That a lease is honoured when the client is expired rests on what has   *)
(* happened since a thread, under cid_mutex, found the lease to have run   *)
(* out.  From then on the client id is condemned (Lapsed): only a client   *)
(* that comes back can reserve or renew its lease, no reservation of it is *)
(* left to be released (ReservationsExact), and it is not freed and used   *)
(* for another client, because the thread, or the list, keeps a reference  *)
(* (RefsExact).  The two locks that are held from step to step have one    *)
(* owner each (Locking), so that the hash table and the list change in the *)
(* hands of one thread.                                                    *)
(***************************************************************************)
EXTENDS ClientLease, FiniteSetTheorems, TLAPS

ThreadTypes ==
    /\ pc \in [Threads -> Labels]
    /\ cid \in [Threads -> Clients \cup {None}]
    /\ victim \in [Threads -> Clients \cup {None}]
    /\ conflicted \in [Threads -> Clients \cup {None}]

ClientTypes ==
    /\ confirmed \subseteq Clients /\ hashed \subseteq Clients
    /\ marked \subseteq Clients /\ revived \subseteq Clients
    /\ reservations \in [Clients -> Int]
    /\ age \in [Clients -> 0 .. MaxAlive]
    /\ refcount \in [Clients -> Int]

LockTypes ==
    /\ listlock \in Threads \cup {None}
    /\ crmutex \in [Clients -> Threads \cup {None}]

ListTypes == list \in Seq(Clients) /\ num \in Int

Types == ThreadTypes /\ ClientTypes /\ LockTypes /\ ListTypes

\* nfs_client_id_expire, with cr_mutex and on the way to it.
Owning == {"expire", "link", "unhash", "unlock"}
Expiring == Owning \cup {"lock", "delete"}
Reaping == Owning \cup {"lock", "delete", "reap", "reaping"}

\* The locals of a thread at each label.
Locals ==
    /\ \A w \in Workers :
         /\ pc[w] \notin {"scan", "link"}
         /\ cid[w] = None <=> pc[w] = "idle"
         /\ pc[w] \in {"reap", "reaping", "delete"} => conflicted[w] # None
         /\ conflicted[w] # None => pc[w] \in Reaping
    /\ pc[Reaper] \in Reaping \cup {"scan"}
    /\ pc[Reaper] = "scan" => cid[Reaper] = None
    /\ pc[Reaper] \in {"link"} => listlock # Reaper
    /\ conflicted[Reaper] = None
    /\ \A t \in Threads : victim[t] # None <=> pc[t] \in Expiring
    /\ victim[Reaper] # None /\ listlock # Reaper => victim[Reaper] = cid[Reaper]

\* Who owns the lock of the list and cr_mutex.
Locking ==
    /\ \A t \in Threads :
         /\ pc[t] \in {"reaping", "delete"} => listlock = t
         /\ listlock = t => pc[t] \in Reaping \ {"reap", "link"}
         /\ pc[t] \in Owning => crmutex[victim[t]] = t
    /\ \A w \in Workers :
         /\ pc[w] \in Owning \cup {"lock"} => (listlock = w <=> conflicted[w] # None)
         /\ pc[w] \in {"session", "sessionunlist"} => crmutex[cid[w]] = w

\* The client the reaper found is not marked until it marks it.
Scanned ==
    /\ pc[Reaper] = "link" => victim[Reaper] \in marked
    /\ \/ pc[Reaper] = "link"
       \/ pc[Reaper] = "unlock" /\ listlock # Reaper
       \/ cid[Reaper] \notin marked

\* The client that is expired for reap_expired_client_list stays in the list.
ReapedListed ==
    \A t \in Threads : listlock = t /\ victim[t] # None => victim[t] \in Listed

\* The workers with a reservation for c.
Holders(c) == {w \in Workers : cid[w] = c /\ (pc[w] = "work" \/ conflicted[w] # None)}

ReservationsExact == \A c \in Clients : reservations[c] = Cardinality(Holders(c))

\* The client that is removed from the hash table is no longer confirmed.
Hashing ==
    /\ confirmed \subseteq hashed
    /\ \A t \in Threads : pc[t] = "unhash" => victim[t] \in hashed \ confirmed

\* Thread t has found the lease of c to have run out, and has not expired it yet.
Condemned(t, c) ==
    \/ victim[t] = c /\ pc[t] \in {"lock", "expire"}
    \/ /\ t = Reaper /\ cid[t] = c
       /\ pc[t] \in {"reap", "reaping", "delete"} \/ listlock = t

Lapsed ==
    \A t \in Threads, c \in Clients :
        Condemned(t, c) /\ c \in confirmed \ revived =>
            reservations[c] = 0 /\ age[c] >= Lifetime

IInv == /\ Types /\ Locals /\ Locking /\ Scanned /\ ParkedOnce /\ ReapedListed
        /\ RefsExact /\ ReservationsExact /\ Hashing /\ Lapsed
-----------------------------------------------------------------------------
(* The list of expired clients.                                            *)

\* The positions of a sequence.
LEMMA Positions ==
    ASSUME NEW S, NEW s \in Seq(S)
    PROVE  /\ Len(s) \in Nat /\ DOMAIN s = 1 .. Len(s)
           /\ \A i \in DOMAIN s : s[i] \in S
  OBVIOUS

\* A part of a sequence.
LEMMA Cut ==
    ASSUME NEW S, NEW s \in Seq(S), NEW m \in 1 .. Len(s) + 1, NEW n \in 0 .. Len(s),
           m <= n + 1
    PROVE  /\ SubSeq(s, m, n) \in Seq(S) /\ Len(SubSeq(s, m, n)) = n - m + 1
           /\ \A k \in 1 .. n - m + 1 : SubSeq(s, m, n)[k] = s[m + k - 1]
  OBVIOUS

\* The rest of a sequence.
LEMMA Rest ==
    ASSUME NEW S, NEW s \in Seq(S), NEW n \in 0 .. Len(s)
    PROVE  /\ SubSeq(s, n + 1, Len(s)) \in Seq(S)
           /\ Len(SubSeq(s, n + 1, Len(s))) = Len(s) - n
           /\ \A k \in 1 .. Len(s) - n : SubSeq(s, n + 1, Len(s))[k] = s[n + k]
  <1>1. Len(s) \in Nat
    BY Positions, Zenon
  <1> QED BY <1>1, Cut

\* A sequence without its element i.
LEMMA RemovedAt ==
    ASSUME NEW S, NEW s \in Seq(S), NEW i \in 1 .. Len(s)
    PROVE  LET r == SubSeq(s, 1, i - 1) \o SubSeq(s, i + 1, Len(s)) IN
           /\ r \in Seq(S) /\ Len(r) = Len(s) - 1
           /\ \A k \in 1 .. Len(s) - 1 : r[k] = IF k < i THEN s[k] ELSE s[k + 1]
  <1> DEFINE a == SubSeq(s, 1, i - 1)
             b == SubSeq(s, i + 1, Len(s))
             r == a \o b
  <1>0. Len(s) \in Nat
    BY Positions, Zenon
  <1>1. a \in Seq(S) /\ Len(a) = i - 1 /\ \A k \in 1 .. i - 1 : a[k] = s[k]
    BY <1>0, Cut
  <1>2. b \in Seq(S) /\ Len(b) = Len(s) - i
        /\ \A k \in 1 .. Len(s) - i : b[k] = s[i + k]
    BY <1>0, Cut
  <1> HIDE DEF a, b
  <1>3. /\ r \in Seq(S) /\ Len(r) = Len(a) + Len(b)
        /\ \A k \in 1 .. Len(a) : r[k] = a[k]
        /\ \A k \in 1 .. Len(b) : r[Len(a) + k] = b[k]
    <2>1. a \in Seq(S) /\ b \in Seq(S)
      BY <1>1, <1>2, Zenon
    <2> QED BY ONLY <2>1
  <1> HIDE DEF r
  <1>4. Len(r) = Len(s) - 1
    BY <1>0, <1>1, <1>2, <1>3
  <1>5. ASSUME NEW k \in 1 .. Len(s) - 1
        PROVE  r[k] = IF k < i THEN s[k] ELSE s[k + 1]
    <2>1. CASE k < i
      BY <2>1, <1>0, <1>1, <1>3
    <2>2. CASE ~(k < i)
      <3>1. k - (i - 1) \in 1 .. Len(b) /\ Len(a) + (k - (i - 1)) = k
        BY <2>2, <1>0, <1>1, <1>2
      <3>2. r[k] = b[k - (i - 1)]
        BY <3>1, <1>3, Zenon
      <3> QED BY <2>2, <3>1, <3>2, <1>0, <1>2
    <2> QED BY <2>1, <2>2, Zenon
  <1> QED BY <1>3, <1>4, <1>5, Zenon DEF r, a, b

\* x between the sequences a and b.
LEMMA InsertedBetween ==
    ASSUME NEW S, NEW a \in Seq(S), NEW b \in Seq(S), NEW x \in S,
           NEW t, t = (a \o <<x>>) \o b
    PROVE  /\ t \in Seq(S) /\ Len(t) = Len(a) + 1 + Len(b)
           /\ \A k \in 1 .. Len(a) : t[k] = a[k]
           /\ t[Len(a) + 1] = x
           /\ \A k \in 1 .. Len(b) : t[Len(a) + 1 + k] = b[k]
  OBVIOUS

Distinct == \A i, j \in DOMAIN list : list[i] = list[j] => i = j

\* Taking a client off leaves the others in the list, once each.
LEMMA TakenOff ==
    ASSUME Types, ParkedOnce, NEW d \in Clients, TakeOff(d)
    PROVE  /\ list' \in Seq(Clients) /\ Distinct' /\ d \in Listed
           /\ Listed' = Listed \ {d} /\ num' = Cardinality(marked')
           /\ marked' = marked \ {d} /\ d \in marked /\ num' \in Int /\ Ref(d, -1)
  <1>1. PICK i \in DOMAIN list :
           list[i] = d /\ list' = SubSeq(list, 1, i - 1) \o SubSeq(list, i + 1, Len(list))
    BY Zenon DEF TakeOff
  <1>0. list \in Seq(Clients) /\ Distinct
    BY Zenon DEF Types, ListTypes, ParkedOnce, Distinct
  <1>2. /\ i \in 1 .. Len(list) /\ list \in Seq(Clients) /\ Distinct
        /\ Len(list) \in Nat /\ DOMAIN list = 1 .. Len(list)
    BY <1>0, <1>1, Positions, Zenon
  <1>3. /\ list' \in Seq(Clients) /\ Len(list') = Len(list) - 1
        /\ \A k \in 1 .. Len(list') :
             list'[k] = IF k < i THEN list[k] ELSE list[k + 1]
    BY <1>1, <1>2, RemovedAt, Zenon
  <1>11. DOMAIN list' = 1 .. Len(list') /\ Len(list') \in Nat
    BY <1>3, Positions, Zenon
  <1>4. Distinct'
    <2>1. SUFFICES ASSUME NEW j \in 1 .. Len(list'), NEW k \in 1 .. Len(list'),
                          list'[j] = list'[k]
                   PROVE  j = k
      BY <1>11, Zenon DEF Distinct
    <2> DEFINE f(x) == IF x < i THEN x ELSE x + 1
    <2>2. f(j) \in DOMAIN list /\ f(k) \in DOMAIN list /\ list[f(j)] = list[f(k)]
      BY <2>1, <1>2, <1>3
    <2>3. f(j) = f(k)
      BY <2>2, <1>2, Zenon DEF Distinct
    <2> QED BY <2>3, <1>2
  <1>5. d \in Listed /\ d \in marked
    BY <1>1, Zenon DEF Listed, ParkedOnce
  <1>6. ASSUME NEW e \in Listed' PROVE e \in Listed \ {d}
    <2>1. PICK k \in 1 .. Len(list') : list'[k] = e
      BY <1>11, Zenon DEF Listed
    <2> DEFINE m == IF k < i THEN k ELSE k + 1
    <2>2. m \in DOMAIN list /\ list[m] = e /\ m # i
      BY <2>1, <1>2, <1>3
    <2> QED BY <2>2, <1>1, <1>2, Zenon DEF Listed, Distinct
  <1>7. ASSUME NEW e \in Listed, e # d PROVE e \in Listed'
    <2>1. PICK k \in 1 .. Len(list) : list[k] = e
      BY <1>2, Zenon DEF Listed
    <2>2. CASE k < i
      <3>1. k \in 1 .. Len(list') /\ list'[k] = e
        BY <2>1, <2>2, <1>2, <1>3
      <3> QED BY <3>1, <1>3 DEF Listed
    <2>3. CASE k > i
      <3>1. k - 1 \in 1 .. Len(list') /\ list'[k - 1] = e
        BY <2>1, <2>3, <1>2, <1>3
      <3> QED BY <3>1, <1>3 DEF Listed
    <2> QED BY <2>1, <2>2, <2>3, <1>1, <1>2, <1>7
  <1>8. marked' = marked \ {d} /\ num' = num - 1 /\ Ref(d, -1)
    BY Zenon DEF TakeOff
  <1>9. IsFiniteSet(marked) /\ num = Cardinality(marked)
    BY ClientLeaseAssumption, FS_Subset, Zenon DEF Types, ClientTypes, ParkedOnce
  <1>10. num' = Cardinality(marked') /\ num' \in Int
    BY <1>5, <1>8, <1>9, FS_RemoveElement, FS_CardinalityType
  <1> QED BY <1>3, <1>4, <1>5, <1>6, <1>7, <1>8, <1>10, Zenon

\* Link inserts a client that is not in the list.
LEMMA Linked ==
    ASSUME Types, ParkedOnce, victim[Reaper] \in Clients, Link
    PROVE  /\ list' \in Seq(Clients) /\ Distinct'
           /\ Listed' = Listed \cup {victim[Reaper]}
  <1> DEFINE c == victim[Reaper]
  <1>1. PICK n \in 0 .. Len(list) :
           list' = SubSeq(list, 1, n) \o <<c>> \o SubSeq(list, n + 1, Len(list))
    BY Zenon DEF Link
  <1>2. /\ list \in Seq(Clients) /\ Distinct /\ c \in Clients /\ c \notin Listed
        /\ Len(list) \in Nat /\ DOMAIN list = 1 .. Len(list)
    BY Positions, Zenon DEF Types, ListTypes, ParkedOnce, Distinct, Link
  <1> HIDE DEF c
  <1>3. /\ list' \in Seq(Clients) /\ Len(list') = Len(list) + 1
        /\ \A k \in 1 .. Len(list') :
             list'[k] = IF k <= n THEN list[k] ELSE IF k = n + 1 THEN c ELSE list[k - 1]
    <2> DEFINE a == SubSeq(list, 1, n)
               b == SubSeq(list, n + 1, Len(list))
    <2>1. a \in Seq(Clients) /\ Len(a) = n /\ \A k \in 1 .. n : a[k] = list[k]
      BY ONLY <1>2, n \in 0 .. Len(list)
    <2>4. b \in Seq(Clients) /\ Len(b) = Len(list) - n
          /\ \A k \in 1 .. Len(list) - n : b[k] = list[n + k]
      BY ONLY <1>2, n \in 0 .. Len(list), Rest, Zenon
    <2>2. list' = (a \o <<c>>) \o b
      BY <1>1, Zenon
    <2> HIDE DEF a, b
    <2>3. /\ list' \in Seq(Clients) /\ Len(list') = Len(a) + 1 + Len(b)
          /\ \A k \in 1 .. Len(a) : list'[k] = a[k]
          /\ list'[Len(a) + 1] = c
          /\ \A k \in 1 .. Len(b) : list'[Len(a) + 1 + k] = b[k]
      <3>1. a \in Seq(Clients) /\ b \in Seq(Clients) /\ c \in Clients
        BY <2>1, <2>4, <1>2, Zenon
      <3> QED BY ONLY <3>1, <2>2, InsertedBetween, SMTT(30)
    <2>5. Len(list') = Len(list) + 1
      BY ONLY <1>2, <2>1, <2>3, <2>4
    <2>6. ASSUME NEW k \in 1 .. Len(list')
          PROVE  list'[k] = IF k <= n THEN list[k]
                            ELSE IF k = n + 1 THEN c ELSE list[k - 1]
      <3>1. CASE k <= n
        BY ONLY <3>1, <2>1, <2>3, k \in 1 .. Len(list'), <2>5, <1>2,
           n \in 0 .. Len(list)
      <3>2. CASE k = n + 1
        BY ONLY <3>2, <2>1, <2>3, <1>2, n \in 0 .. Len(list)
      <3>3. CASE k > n + 1
        <4>1. k - (n + 1) \in 1 .. Len(b) /\ Len(a) + 1 + (k - (n + 1)) = k
          BY ONLY <3>3, <2>1, <2>4, <2>5, <1>2, n \in 0 .. Len(list),
             k \in 1 .. Len(list')
        <4>2. list'[k] = b[k - (n + 1)]
          BY ONLY <4>1, <2>3, Zenon
        <4>3. b[k - (n + 1)] = list[k - 1]
          BY ONLY <4>1, <2>4, <1>2, n \in 0 .. Len(list), k \in 1 .. Len(list'), <2>5
        <4>4. ~(k <= n) /\ k # n + 1
          BY ONLY <3>3, n \in 0 .. Len(list), k \in 1 .. Len(list'), <1>2, <2>5
        <4> QED BY ONLY <4>2, <4>3, <4>4, Zenon
      <3> QED BY ONLY <3>1, <3>2, <3>3, n \in 0 .. Len(list), k \in 1 .. Len(list'),
                 <1>2, <2>5
    <2> QED BY ONLY <2>3, <2>5, <2>6, Zenon
  <1>4. DOMAIN list' = 1 .. Len(list') /\ Len(list') \in Nat
    BY <1>3, Positions, Zenon
  <1>5. Distinct'
    <2>1. SUFFICES ASSUME NEW j \in 1 .. Len(list'), NEW k \in 1 .. Len(list'),
                          list'[j] = list'[k]
                   PROVE  j = k
      BY <1>4, Zenon DEF Distinct
    <2> DEFINE f(x) == IF x <= n THEN x ELSE x - 1
    <2>2. \A x \in 1 .. Len(list') :
             x # n + 1 => f(x) \in DOMAIN list /\ list[f(x)] = list'[x] /\ list'[x] # c
      <3> SUFFICES ASSUME NEW x \in 1 .. Len(list'), x # n + 1
                   PROVE  f(x) \in DOMAIN list /\ list[f(x)] = list'[x] /\ list'[x] # c
        OBVIOUS
      <3>1. f(x) \in 1 .. Len(list) /\ list[f(x)] = list'[x]
        BY <1>2, <1>3
      <3> QED BY <3>1, <1>2, Zenon DEF Listed
    <2>3. list'[n + 1] = c
      BY <1>2, <1>3
    <2>4. (j = n + 1) <=> (k = n + 1)
      BY <2>1, <2>2, <2>3
    <2>5. CASE j # n + 1
      <3>1. f(j) = f(k)
        BY <2>1, <2>2, <2>4, <2>5, <1>2, Zenon DEF Distinct
      <3> QED BY <3>1, <2>4, <2>5
    <2> QED BY <2>4, <2>5, Zenon
  <1>6. Listed' \subseteq Listed \cup {c}
    BY <1>2, <1>3, <1>4 DEF Listed
  <1>7. c \in Listed'
    <2>1. n + 1 \in DOMAIN list' /\ list'[n + 1] = c
      BY <1>2, <1>3, <1>4
    <2> QED BY <2>1, Zenon DEF Listed
  <1>8. ASSUME NEW e \in Listed PROVE e \in Listed'
    <2>1. PICK k \in 1 .. Len(list) : list[k] = e
      BY <1>2, Zenon DEF Listed
    <2>2. CASE k <= n
      <3>1. k \in DOMAIN list' /\ list'[k] = e
        BY <2>1, <2>2, <1>2, <1>3, <1>4
      <3> QED BY <3>1, Zenon DEF Listed
    <2>3. CASE k > n
      <3>1. k + 1 \in DOMAIN list' /\ list'[k + 1] = e
        BY <2>1, <2>3, <1>2, <1>3, <1>4
      <3> QED BY <3>1, Zenon DEF Listed
    <2> QED BY <2>2, <2>3
  <1> QED BY <1>3, <1>5, <1>6, <1>7, <1>8, Zenon DEF c

-----------------------------------------------------------------------------
(* References.                                                             *)

\* Clients and threads are finitely many.
LEMMA FiniteReferences ==
    \A c : IsFiniteSet(Users(c)) /\ IsFiniteSet(Callers(c)) /\ IsFiniteSet(Holders(c))
  <1>1. IsFiniteSet(Threads)
    BY ClientLeaseAssumption, FS_AddElement, Zenon DEF Threads
  <1>2. \A c : Users(c) \subseteq Threads /\ Callers(c) \subseteq Threads
              /\ Holders(c) \subseteq Threads
    BY Zenon DEF Users, Callers, Holders, Threads
  <1> QED BY <1>1, <1>2, FS_Subset, Zenon

\* So their counts are natural numbers.
LEMMA CountsAreNatural ==
    \A c : /\ Cardinality(Users(c)) \in Nat /\ Cardinality(Callers(c)) \in Nat
           /\ Cardinality(Holders(c)) \in Nat
  BY FiniteReferences, FS_CardinalityType, Zenon

\* Counting one more,
LEMMA Added ==
    ASSUME NEW S, IsFiniteSet(S), NEW x, x \notin S
    PROVE  Cardinality(S \cup {x}) = Cardinality(S) + 1
  BY FS_AddElement, Zenon

\* and one less.
LEMMA Removed ==
    ASSUME NEW S, IsFiniteSet(S), NEW x, x \in S
    PROVE  Cardinality(S \ {x}) = Cardinality(S) - 1
  BY FS_RemoveElement, Zenon

\* Steps that leave the references alone.
LEMMA RefsKept ==
    ASSUME RefsExact, UNCHANGED <<refcount, cid, hashed, marked>>,
           \A c \in Clients : Callers(c)' = Callers(c)
    PROVE  RefsExact'
  <1>1. \A c \in Clients : Users(c)' = Users(c)
    BY Zenon DEF Users
  <1> QED BY <1>1, Zenon DEF RefsExact

\* The references of one client change.
LEMMA RefsChanged ==
    ASSUME Types, RefsExact, NEW d \in Clients, NEW n \in Int, Ref(d, n),
           \A c \in Clients \ {d} :
               /\ Users(c)' = Users(c) /\ Callers(c)' = Callers(c)
               /\ c \in hashed' <=> c \in hashed
               /\ c \in marked' <=> c \in marked,
           Cardinality(Users(d)') + Cardinality(Callers(d)')
             + (IF d \in hashed' THEN 1 ELSE 0) + (IF d \in marked' THEN 1 ELSE 0)
           = Cardinality(Users(d)) + Cardinality(Callers(d))
             + (IF d \in hashed THEN 1 ELSE 0) + (IF d \in marked THEN 1 ELSE 0) + n
    PROVE  RefsExact'
  <1>1. refcount'[d] = refcount[d] + n
    BY Zenon DEF Types, ClientTypes, Ref
  <1>2. \A c \in Clients \ {d} : refcount'[c] = refcount[c]
    BY Zenon DEF Types, ClientTypes, Ref
  <1> QED BY <1>1, <1>2, CountsAreNatural, Zenon DEF RefsExact

\* Reference counts stay integers.
LEMMA RefTyped ==
    ASSUME Types, NEW d \in Clients, NEW n \in Int, Ref(d, n)
    PROVE  refcount' \in [Clients -> Int]
  BY DEF Types, ClientTypes, Ref

\* A thread takes a reference to work with (nfs_client_id_get_confirmed),
LEMMA UserAdded ==
    ASSUME Types, RefsExact, NEW d \in Clients, NEW t \in Threads, Ref(d, 1),
           cid[t] = None, cid' = [cid EXCEPT ![t] = d],
           UNCHANGED <<hashed, marked, victim, listlock>>
    PROVE  RefsExact'
  <1> USE ClientLeaseAssumption
  <1>1. \A c \in Clients : Callers(c)' = Callers(c)
    BY Zenon DEF Callers
  <1>2. \A c \in Clients \ {d} : Users(c)' = Users(c)
    BY Zenon DEF Users, Types, ThreadTypes
  <1>3. Users(d)' = Users(d) \cup {t} /\ t \notin Users(d)
    BY DEF Users, Types, ThreadTypes
  <1>4. Cardinality(Users(d)') = Cardinality(Users(d)) + 1
    BY <1>3, FiniteReferences, Added, Zenon
  <1> QED BY <1>1, <1>2, <1>4, CountsAreNatural, RefsChanged

\* and releases it (dec_client_id_ref).
LEMMA UserRemoved ==
    ASSUME Types, RefsExact, NEW d \in Clients, NEW t \in Threads, Ref(d, -1),
           cid[t] = d, cid' = [cid EXCEPT ![t] = None],
           UNCHANGED <<hashed, marked>>, \A c \in Clients : Callers(c)' = Callers(c)
    PROVE  RefsExact'
  <1> USE ClientLeaseAssumption
  <1>2. \A c \in Clients \ {d} : Users(c)' = Users(c)
    BY Zenon DEF Users, Types, ThreadTypes
  <1>3. Users(d)' = Users(d) \ {t} /\ t \in Users(d)
    BY Zenon DEF Users, Types, ThreadTypes
  <1>4. Cardinality(Users(d)') = Cardinality(Users(d)) - 1
    BY <1>3, FiniteReferences, Removed, Zenon
  <1> QED BY <1>2, <1>4, CountsAreNatural, RefsChanged

\* The list gives up its reference.
LEMMA UnmarkedRefs ==
    ASSUME Types, ParkedOnce, RefsExact, NEW d \in Clients, TakeOff(d),
           UNCHANGED <<cid, hashed>>, \A c \in Clients : Callers(c)' = Callers(c)
    PROVE  RefsExact'
  <1>1. \A c \in Clients : Users(c)' = Users(c)
    BY Zenon DEF Users
  <1>2. marked' = marked \ {d} /\ d \in marked /\ Ref(d, -1)
    BY TakenOff, Zenon
  <1> QED BY <1>1, <1>2, CountsAreNatural, RefsChanged

\* Nobody has a client id whose references are gone.
LEMMA Unreferenced ==
    ASSUME IInv, NEW d \in Clients, refcount[d] = 0
    PROVE  /\ d \notin hashed /\ d \notin marked /\ d \notin confirmed
           /\ Users(d) = {} /\ Callers(d) = {}
           /\ \A t \in Threads : cid[t] # d /\ victim[t] # d
  <1> USE ClientLeaseAssumption
  <1>1. /\ d \notin hashed /\ d \notin marked
        /\ Cardinality(Users(d)) = 0 /\ Cardinality(Callers(d)) = 0
    BY CountsAreNatural DEF IInv, RefsExact
  <1>2. Users(d) = {} /\ Callers(d) = {}
    BY <1>1, FiniteReferences, FS_EmptySet, Zenon
  <1>3. \A t \in Threads : cid[t] # d
    BY <1>2, Zenon DEF Users
  <1>4. ASSUME NEW t \in Threads PROVE victim[t] # d
    <2>1. CASE listlock = t
      BY <2>1, <1>1, Zenon DEF IInv, ReapedListed, ParkedOnce
    <2>2. CASE listlock # t /\ t \in Workers
      BY <2>2, <1>2, Zenon DEF Callers
    <2>3. CASE listlock # t /\ t = Reaper
      BY <2>3, <1>3, Zenon DEF IInv, Locals, Threads
    <2> QED BY <2>1, <2>2, <2>3, Zenon DEF Threads
  <1> QED BY <1>1, <1>2, <1>3, <1>4, Zenon DEF IInv, Hashing

\* Steps that leave the reservations alone.
LEMMA ReservationsKept ==
    ASSUME ReservationsExact, UNCHANGED reservations,
           \A c \in Clients : Holders(c)' = Holders(c)
    PROVE  ReservationsExact'
  BY Zenon DEF ReservationsExact

\* A step that leaves the list and the reaper's link alone.
LEMMA ParkedKept ==
    ASSUME ParkedOnce, UNCHANGED <<list, marked, num>>,
           \/ pc[Reaper] # "link" /\ pc'[Reaper] # "link"
           \/ pc'[Reaper] = pc[Reaper] /\ victim'[Reaper] = victim[Reaper]
    PROVE  ParkedOnce'
  <1>1. /\ num' = num /\ marked' = marked /\ list' = list /\ Listed' = Listed
    BY Zenon DEF Listed
  <1>2. {c \in Clients : pc'[Reaper] = "link" /\ c = victim'[Reaper]}
        = {c \in Clients : pc[Reaper] = "link" /\ c = victim[Reaper]}
    BY Zenon
  <1> QED BY <1>1, <1>2, Zenon DEF ParkedOnce

\* A client that is expired with the lock of the list stays in it.
LEMMA ReapedKept ==
    ASSUME ReapedListed, UNCHANGED list,
           ASSUME NEW t \in Threads, listlock' = t, victim'[t] # None
           PROVE  listlock = t /\ victim'[t] = victim[t]
    PROVE  ReapedListed'
  BY ZenonT(30) DEF ReapedListed, Listed

-----------------------------------------------------------------------------
(* Time, new clients, compounds and RENEW preserve the invariant.  One      *)
(* lemma per action, with a step per conjunct.                              *)

\* Time passes for everyone.
LEMMA TickPreserves ==
    ASSUME IInv, Tick
    PROVE  IInv'
  <1> USE ClientLeaseAssumption DEF Threads, Tick, Goto
  <1>1. Types'
      BY DEF IInv, Types, ThreadTypes, ClientTypes, LockTypes, ListTypes,
      Labels, Ref, lease, parked, locks, locals
  <1>2. Locals'
      BY Zenon DEF IInv, Types, ThreadTypes, Locals, lease, parked, locks, locals,
      Owning, Expiring, Reaping
  <1>3. Locking'
      BY Zenon DEF IInv, Types, ThreadTypes, LockTypes, Locals, Locking, lease,
      parked, locks, locals, Owning, Expiring, Reaping
  <1>4. Scanned'
      BY Zenon DEF IInv, Types, ThreadTypes, Locals, Locking, Scanned, lease,
      parked, locks, locals, Owning, Expiring, Reaping
  <1>5. ParkedOnce'
      BY ParkedKept, Zenon DEF IInv, Types, ThreadTypes, Locals, Locking, Owning,
         Expiring, Reaping, parked, locals
  <1>6. ReapedListed'
      BY ReapedKept, Zenon DEF IInv, Types, ThreadTypes, Locals, Locking, Owning,
         Expiring, Reaping, parked, locks, locals
  <1>7. RefsExact'
    <2>1. \A c \in Clients : Callers(c)' = Callers(c)
      BY Zenon DEF Callers, locks, locals
    <2> QED BY <2>1, RefsKept, Zenon DEF IInv, lease, parked, locals
  <1>8. ReservationsExact'
    <2>1. \A c \in Clients : Holders(c)' = Holders(c)
      BY Zenon DEF IInv, Types, ThreadTypes, Locals, Holders, locals, Owning,
         Expiring, Reaping
    <2> QED BY <2>1, ReservationsKept, Zenon DEF IInv, lease
  <1>9. Hashing'
      BY Zenon DEF IInv, Types, ThreadTypes, Hashing, lease, parked, locks, locals
  <1>10. Lapsed'
      BY DEF IInv, Types, ClientTypes, Lapsed, Condemned, locks, locals
  <1> QED BY <1>1, <1>2, <1>3, <1>4, <1>5, <1>6, <1>7, <1>8, <1>9, <1>10,
             Zenon DEF IInv

\* Nobody is left with the old client id.
LEMMA NewClientPreserves ==
    ASSUME IInv, NEW d \in Clients, NewClient(d)
    PROVE  IInv'
  <1> USE ClientLeaseAssumption DEF Threads, NewClient, Goto
  <1>a. /\ d \notin hashed /\ d \notin marked /\ d \notin confirmed
        /\ \A t \in Threads : cid[t] # d /\ victim[t] # d
    BY Unreferenced, Zenon DEF NewClient
  <1>1. Types'
      BY <1>a DEF IInv, Types, ThreadTypes, ClientTypes, LockTypes,
      ListTypes, Labels, Ref, lease, parked, locks, locals
  <1>2. Locals'
      BY Zenon DEF IInv, Types, ThreadTypes, Locals, lease, parked, locks, locals,
      Owning, Expiring, Reaping
  <1>3. Locking'
      BY Zenon DEF IInv, Types, ThreadTypes, LockTypes, Locals, Locking, lease,
      parked, locks, locals, Owning, Expiring, Reaping
  <1>4. Scanned'
      BY Zenon DEF IInv, Types, ThreadTypes, Locals, Locking, Scanned, lease,
      parked, locks, locals, Owning, Expiring, Reaping
  <1>5. ParkedOnce'
      BY ParkedKept, Zenon DEF IInv, Types, ThreadTypes, Locals, Locking, Owning,
         Expiring, Reaping, parked, locals
  <1>6. ReapedListed'
      BY ReapedKept, Zenon DEF IInv, Types, ThreadTypes, Locals, Locking, Owning,
         Expiring, Reaping, parked, locks, locals
  <1>7. RefsExact'
    <2>1. \A c \in Clients : Callers(c)' = Callers(c) /\ Users(c)' = Users(c)
      BY Zenon DEF Callers, Users, locks, locals
    <2> QED BY <1>a, <2>1, CountsAreNatural, RefsChanged DEF IInv, parked
  <1>8. ReservationsExact'
    <2>1. \A c \in Clients : Holders(c)' = Holders(c)
      BY Zenon DEF Holders, locals
    <2>2. Holders(d) = {}
      BY <1>a, Zenon DEF Holders
    <2> QED BY <2>1, <2>2, FS_EmptySet, Zenon DEF IInv, Types, ThreadTypes,
               ClientTypes, ReservationsExact
  <1>9. Hashing'
      BY <1>a, Zenon DEF IInv, Types, ThreadTypes, ClientTypes, Hashing, locals
  <1>10. Lapsed'
      BY <1>a, ZenonT(30) DEF IInv, Types, ThreadTypes, ClientTypes, Lapsed,
         Condemned,
      locks, locals
  <1> QED BY <1>1, <1>2, <1>3, <1>4, <1>5, <1>6, <1>7, <1>8, <1>9, <1>10,
             Zenon DEF IInv

\* A worker takes a reference.
LEMMA GetConfirmedPreserves ==
    ASSUME IInv, NEW w \in Workers, NEW d \in Clients, GetConfirmed(w, d)
    PROVE  IInv'
  <1> USE ClientLeaseAssumption DEF Threads, Goto
  <1>b. PICK l \in {"reserve", "record"} :
           /\ pc[w] = "idle" /\ Ref(d, 1) /\ cid' = [cid EXCEPT ![w] = d]
           /\ pc' = [pc EXCEPT ![w] = l]
           /\ UNCHANGED <<lease, parked, locks, victim, conflicted, revived>>
    BY Zenon DEF GetConfirmed
  <1>1. Types'
      BY <1>b DEF IInv, Types, ThreadTypes, ClientTypes, LockTypes,
      ListTypes, Labels, Ref, lease, parked, locks, locals
  <1>2. Locals'
      BY <1>b, Zenon DEF IInv, Types, ThreadTypes, Locals, lease, parked, locks,
      locals, Owning, Expiring, Reaping
  <1>3. Locking'
      BY <1>b, ZenonT(30) DEF IInv, Types, ThreadTypes, LockTypes, Locals, Locking,
      lease, parked, locks, locals, Owning, Expiring, Reaping
  <1>4. Scanned'
      BY <1>b, Zenon DEF IInv, Types, ThreadTypes, Locals, Locking, Scanned, lease,
      parked, locks, locals, Owning, Expiring, Reaping
  <1>5. ParkedOnce'
      BY <1>b, ParkedKept, Zenon DEF IInv, Types, ThreadTypes, Locals, Locking,
         Owning, Expiring, Reaping, parked, locals
  <1>6. ReapedListed'
      BY <1>b, ReapedKept, Zenon DEF IInv, Types, ThreadTypes, Locals, Locking,
         Owning, Expiring, Reaping, parked, locks, locals
  <1>7. RefsExact'
      BY <1>b, UserAdded, Zenon DEF IInv, Locals, lease, parked, locks
  <1>8. ReservationsExact'
    <2>1. \A c \in Clients : Holders(c)' = Holders(c)
      BY <1>b, Zenon DEF IInv, Types, ThreadTypes, Locals, Holders, locals, Owning,
         Expiring, Reaping
    <2> QED BY <1>b, <2>1, ReservationsKept, Zenon DEF IInv, lease
  <1>9. Hashing'
      BY <1>b, Zenon DEF IInv, Types, ThreadTypes, Hashing, lease, parked, locks,
      locals
  <1>10. Lapsed'
      BY <1>b, Zenon DEF IInv, Types, ThreadTypes, Lapsed, Condemned, lease, parked,
      locks, locals
  <1> QED BY <1>1, <1>2, <1>3, <1>4, <1>5, <1>6, <1>7, <1>8, <1>9, <1>10,
             Zenon DEF IInv

\* A condemned client that reserves its lease is revived.
LEMMA ReservePreserves ==
    ASSUME IInv, NEW w \in Workers, Reserve(w)
    PROVE  IInv'
  <1> USE ClientLeaseAssumption DEF Threads, Reserve, Goto
  <1>a. cid[w] \in Clients
    BY Zenon DEF IInv, Types, ThreadTypes, Locals, Owning, Expiring
  <1>1. Types'
      BY <1>a DEF IInv, Types, ThreadTypes, ClientTypes, LockTypes,
      ListTypes, Labels, parked, locks, locals, Revive
  <1>2. Locals'
      BY Zenon DEF IInv, Types, ThreadTypes, Locals, lease, parked, locks, locals,
      Owning, Expiring, Reaping
  <1>3. Locking'
      BY Zenon DEF IInv, Types, ThreadTypes, LockTypes, Locals, Locking, lease,
      parked, locks, locals, Owning, Expiring, Reaping
  <1>4. Scanned'
      BY SMTT(20) DEF IInv, Types, ThreadTypes, Locals, Locking, Scanned, lease,
      parked, locks, locals, Owning, Expiring, Reaping
  <1>5. ParkedOnce'
      BY ParkedKept, Zenon DEF IInv, Types, ThreadTypes, Locals, Locking, Owning,
         Expiring, Reaping, parked, locals
  <1>6. ReapedListed'
      BY ReapedKept, Zenon DEF IInv, Types, ThreadTypes, Locals, Locking, Owning,
         Expiring, Reaping, parked, locks, locals
  <1>7. RefsExact'
    <2>1. \A c \in Clients : Callers(c)' = Callers(c)
      BY SMTT(20) DEF Callers, locks, locals
    <2> QED BY <2>1, RefsKept, Zenon DEF IInv, lease, parked, locals
  <1>8. ReservationsExact'
    <2>1. Holders(cid[w])' = Holders(cid[w]) \cup {w} /\ w \notin Holders(cid[w])
      BY <1>a DEF IInv, Types, ThreadTypes, Locals, Holders, locals, Owning, Reaping
    <2>2. \A c \in Clients \ {cid[w]} : Holders(c)' = Holders(c)
      BY Zenon DEF IInv, Types, ThreadTypes, Locals, Holders, locals, Owning, Reaping
    <2>3. Cardinality(Holders(cid[w])') = Cardinality(Holders(cid[w])) + 1
      BY <2>1, FiniteReferences, Added, Zenon
    <2> QED BY <1>a, <2>2, <2>3, Zenon DEF IInv, Types, ClientTypes,
               ReservationsExact, locals
  <1>9. Hashing'
      BY Zenon DEF IInv, Types, ThreadTypes, Hashing, lease, parked, locks, locals
  <1>10. Lapsed'
    <2>1. ASSUME NEW t \in Threads, NEW c \in Clients, Condemned(t, c)',
                 c \in confirmed' \ revived'
          PROVE  reservations'[c] = 0 /\ age'[c] >= Lifetime
      <3>1. Condemned(t, c) /\ c \in confirmed \ revived
        BY <2>1, SMTT(30) DEF IInv, Types, ThreadTypes, Condemned, locks, locals,
           Revive
      <3>2. reservations[c] = 0 /\ age[c] >= Lifetime
        BY <3>1, SMTT(20) DEF IInv, Lapsed
      <3>3. c # cid[w]
        BY <2>1, <3>2, Zenon DEF Revive
      <3> QED BY <3>2, <3>3, Zenon DEF IInv, Types, ClientTypes
    <2> QED BY <2>1, Zenon DEF Lapsed
  <1> QED BY <1>1, <1>2, <1>3, <1>4, <1>5, <1>6, <1>7, <1>8, <1>9, <1>10,
             Zenon DEF IInv

\* So is one that renews it.
LEMMA RenewPreserves ==
    ASSUME IInv, NEW w \in Workers, Renew(w)
    PROVE  IInv'
  <1> USE ClientLeaseAssumption DEF Threads, Renew, UpdateLease, Goto
  <1>a. cid[w] \in Clients
    BY Zenon DEF IInv, Types, ThreadTypes, Locals, Owning, Expiring
  <1>1. Types'
      BY <1>a DEF IInv, Types, ThreadTypes, ClientTypes, LockTypes,
      ListTypes, Labels, parked, locks, locals, Revive
  <1>2. Locals'
      BY ZenonT(30) DEF IInv, Types, ThreadTypes, Locals, lease, parked, locks,
         locals,
      Owning, Expiring, Reaping
  <1>3. Locking'
      BY DEF IInv, Types, ThreadTypes, LockTypes, Locals, Locking, lease,
      parked, locks, locals, Owning, Expiring, Reaping
  <1>4. Scanned'
      BY SMTT(20) DEF IInv, Types, ThreadTypes, Locals, Locking, Scanned, lease,
      parked, locks, locals, Owning, Expiring, Reaping
  <1>5. ParkedOnce'
      BY ParkedKept, Zenon DEF IInv, Types, ThreadTypes, Locals, Locking, Owning,
         Expiring, Reaping, parked, locals
  <1>6. ReapedListed'
      BY ReapedKept, Zenon DEF IInv, Types, ThreadTypes, Locals, Locking, Owning,
         Expiring, Reaping, parked, locks, locals
  <1>7. RefsExact'
    <2>1. \A c \in Clients : Callers(c)' = Callers(c)
      BY Zenon DEF Callers, locks, locals
    <2> QED BY <2>1, RefsKept, SMTT(20) DEF IInv, lease, parked, locals
  <1>8. ReservationsExact'
    <2>1. \A c \in Clients : Holders(c)' = Holders(c)
      BY Zenon DEF IInv, Types, ThreadTypes, Locals, Locking, Holders, locals,
         Owning, Expiring, Reaping
    <2>2. UNCHANGED reservations
      BY <1>a DEF IInv, Types, ClientTypes
    <2> QED BY <2>1, <2>2, ReservationsKept, Zenon DEF IInv
  <1>9. Hashing'
      BY Zenon DEF IInv, Types, ThreadTypes, Hashing, lease, parked, locks, locals
  <1>10. Lapsed'
    <2>1. ASSUME NEW t \in Threads, NEW c \in Clients, Condemned(t, c)',
                 c \in confirmed' \ revived'
          PROVE  reservations'[c] = 0 /\ age'[c] >= Lifetime
      <3>1. Condemned(t, c) /\ c \in confirmed \ revived
        BY <2>1, Zenon DEF IInv, Types, ThreadTypes, Condemned, locks, locals, Revive
      <3>2. reservations[c] = 0 /\ age[c] >= Lifetime
        BY <3>1, Zenon DEF IInv, Lapsed
      <3>3. c # cid[w]
        BY <2>1, <3>2, Zenon DEF Revive
      <3> QED BY <3>2, <3>3, Zenon DEF IInv, Types, ClientTypes
    <2> QED BY <2>1, Zenon DEF Lapsed
  <1> QED BY <1>1, <1>2, <1>3, <1>4, <1>5, <1>6, <1>7, <1>8, <1>9, <1>10,
             Zenon DEF IInv

\* The lease of the victim has run out.
LEMMA ReserveFailsPreserves ==
    ASSUME IInv, NEW w \in Workers, ReserveFails(w)
    PROVE  IInv'
  <1> USE ClientLeaseAssumption DEF Threads, ReserveFails, Goto
  <1>a. cid[w] \in Clients
    BY Zenon DEF IInv, Types, ThreadTypes, Locals, Owning, Expiring
  <1>1. Types'
      BY <1>a DEF IInv, Types, ThreadTypes, ClientTypes, LockTypes,
      ListTypes, Labels, Ref, lease, parked, locks, locals
  <1>2. Locals'
      BY Zenon DEF IInv, Types, ThreadTypes, Locals, lease, parked, locks, locals,
      Owning, Expiring, Reaping
  <1>3. Locking'
      BY SMTT(30) DEF IInv, Types, ThreadTypes, LockTypes, Locals, Locking, lease,
      parked, locks, locals, Owning, Expiring, Reaping
  <1>4. Scanned'
      BY SMTT(20) DEF IInv, Types, ThreadTypes, Locals, Locking, Scanned, lease,
      parked, locks, locals, Owning, Expiring, Reaping
  <1>5. ParkedOnce'
      BY ParkedKept, Zenon DEF IInv, Types, ThreadTypes, Locals, Locking, Owning,
         Expiring, Reaping, parked, locals
  <1>6. ReapedListed'
      BY ReapedKept, ZenonT(30) DEF IInv, Types, ThreadTypes, Locals, Locking, Owning,
         Expiring, Reaping, parked, locks, locals
  <1>7. RefsExact'
    <2>1. Callers(cid[w])' = Callers(cid[w]) \cup {w} /\ w \notin Callers(cid[w])
      BY <1>a DEF IInv, Types, ThreadTypes, Locals, Locking, Callers, locks, Owning,
         Expiring, Reaping
    <2>2. \A c \in Clients \ {cid[w]} : Callers(c)' = Callers(c)
      BY Zenon DEF IInv, Types, ThreadTypes, Locals, Callers, locks, Expiring, Owning
    <2>3. \A c \in Clients : Users(c)' = Users(c)
      BY Zenon DEF Users
    <2>4. Cardinality(Callers(cid[w])') = Cardinality(Callers(cid[w])) + 1
      BY <2>1, FiniteReferences, Added, Zenon
    <2>5. /\ hashed' = hashed /\ marked' = marked /\ cid' = cid
          /\ Ref(cid[w], 1) /\ Types /\ RefsExact
      BY Zenon DEF IInv, lease, parked
    <2> HIDE DEF ReserveFails
    <2>6. \A c \in Clients \ {cid[w]} :
             /\ Users(c)' = Users(c) /\ Callers(c)' = Callers(c)
             /\ c \in hashed' <=> c \in hashed
             /\ c \in marked' <=> c \in marked
      BY <2>2, <2>3, <2>5, Zenon
    <2>7. PICK d \in Clients : d = cid[w]
      BY <1>a, Zenon
    <2>8. /\ Cardinality(Users(d)') = Cardinality(Users(d))
          /\ Cardinality(Callers(d)') = Cardinality(Callers(d)) + 1
      BY <2>3, <2>4, <2>5, <2>7, Zenon
    <2>9. Cardinality(Users(d)') + Cardinality(Callers(d)')
            + (IF d \in hashed' THEN 1 ELSE 0) + (IF d \in marked' THEN 1 ELSE 0)
          = Cardinality(Users(d)) + Cardinality(Callers(d))
            + (IF d \in hashed THEN 1 ELSE 0) + (IF d \in marked THEN 1 ELSE 0) + 1
      BY <2>5, <2>8, CountsAreNatural
    <2> QED BY <2>5, <2>6, <2>7, <2>9, RefsChanged, SMTT(30)
  <1>8. ReservationsExact'
    <2>1. \A c \in Clients : Holders(c)' = Holders(c)
      BY Zenon DEF IInv, Types, ThreadTypes, Locals, Holders, locals, Owning,
         Expiring, Reaping
    <2> QED BY <2>1, ReservationsKept, Zenon DEF IInv, lease
  <1>9. Hashing'
      BY Zenon DEF IInv, Types, ThreadTypes, Hashing, lease, parked, locks, locals
  <1>10. Lapsed'
    <2>1. cid[w] \in confirmed => reservations[cid[w]] = 0 /\ age[cid[w]] >= Lifetime
      BY <1>a, CountsAreNatural DEF IInv, Types, ThreadTypes, ClientTypes,
         ReservationsExact, Valid
    <2> QED BY <1>a, <2>1, Zenon DEF IInv, Types, ThreadTypes, ClientTypes, Lapsed,
               Condemned, lease, locks
  <1> QED BY <1>1, <1>2, <1>3, <1>4, <1>5, <1>6, <1>7, <1>8, <1>9, <1>10,
             Zenon DEF IInv

\* The reservation is kept.
LEMMA ConflictPreserves ==
    ASSUME IInv, NEW w \in Workers, NEW d \in Clients, Conflict(w, d)
    PROVE  IInv'
  <1> USE ClientLeaseAssumption DEF Threads, Conflict, Goto
  <1>1. Types'
      BY Zenon DEF IInv, Types, ThreadTypes, ClientTypes, LockTypes, ListTypes,
      Labels, Ref, lease, parked, locks, locals
  <1>2. Locals'
      BY Zenon DEF IInv, Types, ThreadTypes, Locals, lease, parked, locks, locals,
      Owning, Expiring, Reaping
  <1>3. Locking'
      BY DEF IInv, Types, ThreadTypes, LockTypes, Locals, Locking, lease,
      parked, locks, locals, Owning, Expiring, Reaping
  <1>4. Scanned'
      BY Zenon DEF IInv, Types, ThreadTypes, Locals, Locking, Scanned, lease,
      parked, locks, locals, Owning, Expiring, Reaping
  <1>5. ParkedOnce'
      BY ParkedKept, Zenon DEF IInv, Types, ThreadTypes, Locals, Locking, Owning,
         Expiring, Reaping, parked, locals
  <1>6. ReapedListed'
      BY ReapedKept, Zenon DEF IInv, Types, ThreadTypes, Locals, Locking, Owning,
         Expiring, Reaping, parked, locks, locals
  <1>7. RefsExact'
    <2>1. \A c \in Clients : Callers(c)' = Callers(c)
      BY Zenon DEF Callers, locks, locals
    <2> QED BY <2>1, RefsKept, Zenon DEF IInv, lease, parked, locals
  <1>8. ReservationsExact'
    <2>1. \A c \in Clients : Holders(c)' = Holders(c)
      BY Zenon DEF IInv, Types, ThreadTypes, Locals, Holders, locals, Owning,
         Expiring, Reaping
    <2> QED BY <2>1, ReservationsKept, Zenon DEF IInv, lease
  <1>9. Hashing'
      BY Zenon DEF IInv, Types, ThreadTypes, Hashing, lease, parked, locks, locals
  <1>10. Lapsed'
      BY SMTT(20) DEF IInv, Types, ThreadTypes, Lapsed, Condemned, lease, parked,
      locks, locals
  <1> QED BY <1>1, <1>2, <1>3, <1>4, <1>5, <1>6, <1>7, <1>8, <1>9, <1>10,
             Zenon DEF IInv

\* Releasing a reservation renews no lease that has run out.
LEMMA EndCompoundPreserves ==
    ASSUME IInv, NEW w \in Workers, EndCompound(w)
    PROVE  IInv'
  <1> USE ClientLeaseAssumption DEF Threads, EndCompound, UpdateLease, Goto
  <1>a. cid[w] \in Clients
    BY Zenon DEF IInv, Types, ThreadTypes, Locals, Owning, Expiring
  <1>1. Types'
      BY <1>a DEF IInv, Types, ThreadTypes, ClientTypes, LockTypes,
      ListTypes, Labels, parked, locks, locals
  <1>2. Locals'
      BY Zenon DEF IInv, Types, ThreadTypes, Locals, lease, parked, locks, locals,
      Owning, Expiring, Reaping
  <1>3. Locking'
      BY Zenon DEF IInv, Types, ThreadTypes, LockTypes, Locals, Locking, lease,
      parked, locks, locals, Owning, Expiring, Reaping
  <1>4. Scanned'
      BY SMTT(20) DEF IInv, Types, ThreadTypes, Locals, Locking, Scanned, lease,
      parked, locks, locals, Owning, Expiring, Reaping
  <1>5. ParkedOnce'
      BY ParkedKept, Zenon DEF IInv, Types, ThreadTypes, Locals, Locking, Owning,
         Expiring, Reaping, parked, locals
  <1>6. ReapedListed'
      BY ReapedKept, Zenon DEF IInv, Types, ThreadTypes, Locals, Locking, Owning,
         Expiring, Reaping, parked, locks, locals
  <1>7. RefsExact'
    <2>1. \A c \in Clients : Callers(c)' = Callers(c)
      BY Zenon DEF Callers, locks, locals
    <2> QED BY <2>1, RefsKept, Zenon DEF IInv, lease, parked, locals
  <1>8. ReservationsExact'
    <2>1. Holders(cid[w])' = Holders(cid[w]) \ {w} /\ w \in Holders(cid[w])
      BY <1>a, Zenon DEF IInv, Types, ThreadTypes, Locals, Holders, locals, Owning,
         Reaping
    <2>2. \A c \in Clients \ {cid[w]} : Holders(c)' = Holders(c)
      BY SMTT(20) DEF IInv, Types, ThreadTypes, Locals, Holders, locals, Owning,
         Reaping
    <2>3. Cardinality(Holders(cid[w])') = Cardinality(Holders(cid[w])) - 1
      BY <2>1, FiniteReferences, Removed, Zenon
    <2> QED BY <1>a, <2>2, <2>3, Zenon DEF IInv, Types, ClientTypes,
               ReservationsExact, locals
  <1>9. Hashing'
      BY Zenon DEF IInv, Types, ThreadTypes, Hashing, lease, parked, locks, locals
  <1>10. Lapsed'
    <2>1. ASSUME NEW t \in Threads, NEW c \in Clients, Condemned(t, c)',
                 c \in confirmed' \ revived'
          PROVE  reservations'[c] = 0 /\ age'[c] >= Lifetime
      <3>1. Condemned(t, c) /\ c \in confirmed \ revived
        BY <2>1, Zenon DEF IInv, Types, ThreadTypes, Condemned, locks, locals, Revive
      <3>2. reservations[c] = 0 /\ age[c] >= Lifetime
        BY <3>1, SMTT(20) DEF IInv, Lapsed
      <3>3. c # cid[w]
        <4>1. w \in Holders(cid[w])
          BY <1>a, SMTT(20) DEF IInv, Types, ThreadTypes, Locals, Holders
        <4>2. Cardinality(Holders(cid[w])) # 0
          BY <4>1, FiniteReferences, FS_EmptySet, Zenon
        <4> QED BY <4>2, <3>2, <1>a, Zenon DEF IInv, ReservationsExact
      <3> QED BY <3>2, <3>3, Zenon DEF IInv, Types, ClientTypes
    <2> QED BY <2>1, Zenon DEF Lapsed
  <1> QED BY <1>1, <1>2, <1>3, <1>4, <1>5, <1>6, <1>7, <1>8, <1>9, <1>10,
             Zenon DEF IInv

\* The reference of the worker.
LEMMA PutPreserves ==
    ASSUME IInv, NEW w \in Workers, Put(w)
    PROVE  IInv'
  <1> USE ClientLeaseAssumption DEF Threads, Put, Goto
  <1>a. cid[w] \in Clients
    BY Zenon DEF IInv, Types, ThreadTypes, Locals, Owning, Expiring
  <1>1. Types'
      BY <1>a DEF IInv, Types, ThreadTypes, ClientTypes, LockTypes,
      ListTypes, Labels, Ref, lease, parked, locks, locals
  <1>2. Locals'
      BY Zenon DEF IInv, Types, ThreadTypes, Locals, lease, parked, locks, locals,
      Owning, Expiring, Reaping
  <1>3. Locking'
      BY ZenonT(30) DEF IInv, Types, ThreadTypes, LockTypes, Locals, Locking, lease,
      parked, locks, locals, Owning, Expiring, Reaping
  <1>4. Scanned'
      BY SMTT(20) DEF IInv, Types, ThreadTypes, Locals, Locking, Scanned, lease,
      parked, locks, locals, Owning, Expiring, Reaping
  <1>5. ParkedOnce'
      BY ParkedKept, Zenon DEF IInv, Types, ThreadTypes, Locals, Locking, Owning,
         Expiring, Reaping, parked, locals
  <1>6. ReapedListed'
      BY ReapedKept, Zenon DEF IInv, Types, ThreadTypes, Locals, Locking, Owning,
         Expiring, Reaping, parked, locks, locals
  <1>7. RefsExact'
    <2>1. \A c \in Clients : Callers(c)' = Callers(c)
      BY Zenon DEF IInv, Types, ThreadTypes, Locals, Locking, Callers, locks,
         locals, Owning, Expiring, Reaping
    <2> QED BY <1>a, <2>1, UserRemoved, Zenon DEF IInv, lease, parked
  <1>8. ReservationsExact'
    <2>1. \A c \in Clients : Holders(c)' = Holders(c)
      BY Zenon DEF IInv, Types, ThreadTypes, Locals, Holders, locals, Owning,
         Expiring, Reaping
    <2> QED BY <2>1, ReservationsKept, Zenon DEF IInv, lease
  <1>9. Hashing'
      BY Zenon DEF IInv, Types, ThreadTypes, Hashing, lease, parked, locks, locals
  <1>10. Lapsed'
      BY Zenon DEF IInv, Types, ThreadTypes, Lapsed, Condemned, lease, parked,
      locks, locals
  <1> QED BY <1>1, <1>2, <1>3, <1>4, <1>5, <1>6, <1>7, <1>8, <1>9, <1>10,
             Zenon DEF IInv

-----------------------------------------------------------------------------
(* nfs_client_id_expire and the list of expired clients.                   *)

\* The client is taken off the list if it is there.
LEMMA UnlistPreserves ==
    ASSUME IInv, NEW w \in Workers, Unlist(w)
    PROVE  IInv'
  <1> USE ClientLeaseAssumption DEF Threads, Unlist, Goto
  <1>a. cid[w] \in Clients
    BY Zenon DEF IInv, Types, ThreadTypes, Locals, Owning, Expiring
  <1>b. \/ /\ TakeOff(cid[w]) /\ cid[w] \in marked /\ Ref(cid[w], -1)
           /\ list' \in Seq(Clients) /\ Distinct' /\ num' \in Int
           /\ Listed' = Listed \ {cid[w]} /\ num' = Cardinality(marked')
           /\ marked' = marked \ {cid[w]} /\ cid[w] \in Listed
        \/ UNCHANGED <<list, marked, num, refcount, Listed, Distinct>>
    BY <1>a, TakenOff, Zenon DEF IInv, RemoveFromList, parked, Listed, Distinct
  <1>1. Types'
    <2>1. Types
      BY Zenon DEF IInv
    <2>2. CASE TakeOff(cid[w])
      <3>1. list' \in Seq(Clients) /\ marked' = marked \ {cid[w]} /\ num' \in Int
            /\ Ref(cid[w], -1)
        BY <1>a, <2>1, <2>2, TakenOff, Zenon DEF IInv
      <3>2. refcount' \in [Clients -> Int]
        BY <1>a, <2>1, <3>1, RefTyped
      <3> QED BY <1>a, <2>1, <3>1, <3>2, Zenon DEF Types, ThreadTypes, ClientTypes,
                 LockTypes, ListTypes, Labels, lease, locks, locals
    <2>3. CASE UNCHANGED <<list, marked, num, refcount>>
      BY <1>a, <2>1, <2>3, Zenon DEF Types, ThreadTypes, ClientTypes, LockTypes,
         ListTypes, Labels, lease, locks, locals
    <2> QED BY <1>b, <2>2, <2>3, Zenon
  <1>2. Locals'
      BY Zenon DEF IInv, Types, ThreadTypes, Locals, lease, parked, locks, locals,
      Owning, Expiring, Reaping
  <1>3. Locking'
      BY Zenon DEF IInv, Types, ThreadTypes, LockTypes, Locals, Locking, lease,
      parked, locks, locals, Owning, Expiring, Reaping
  <1>4. Scanned'
      BY <1>b, Zenon DEF IInv, Types, ThreadTypes, Locals, Scanned, ParkedOnce,
      locks, locals
  <1>5. ParkedOnce'
      BY <1>b, Zenon DEF IInv, Types, ThreadTypes, ClientTypes, Locals, ParkedOnce,
      Distinct, locals
  <1>6. ReapedListed'
      BY <1>b, Zenon DEF IInv, Types, ThreadTypes, Locking, ReapedListed, locks,
      locals
  <1>7. RefsExact'
    <2>1. \A c \in Clients : Callers(c)' = Callers(c)
      BY Zenon DEF IInv, Types, ThreadTypes, Locals, Locking, Callers, locks,
         locals, Owning, Expiring, Reaping
    <2> QED BY <1>a, <1>b, <2>1, UnmarkedRefs, RefsKept, Zenon DEF IInv, lease, locals
  <1>8. ReservationsExact'
    <2>1. \A c \in Clients : Holders(c)' = Holders(c)
      BY Zenon DEF IInv, Types, ThreadTypes, Locals, Holders, locals, Owning,
         Expiring, Reaping
    <2> QED BY <2>1, ReservationsKept, Zenon DEF IInv, lease
  <1>9. Hashing'
      BY Zenon DEF IInv, Types, ThreadTypes, Hashing, lease, parked, locks, locals
  <1>10. Lapsed'
      BY Zenon DEF IInv, Types, ThreadTypes, Lapsed, Condemned, lease, parked,
      locks, locals
  <1> QED BY <1>1, <1>2, <1>3, <1>4, <1>5, <1>6, <1>7, <1>8, <1>9, <1>10,
             Zenon DEF IInv

\* cr_mutex is free.
LEMMA LockForSessionPreserves ==
    ASSUME IInv, NEW w \in Workers, LockForSession(w)
    PROVE  IInv'
  <1> USE ClientLeaseAssumption DEF Threads, LockForSession, Goto
  <1>a. cid[w] \in Clients
    BY Zenon DEF IInv, Types, ThreadTypes, Locals, Owning, Expiring
  <1>1. Types'
      BY <1>a, Zenon DEF IInv, Types, ThreadTypes, ClientTypes, LockTypes,
      ListTypes, Labels, Ref, lease, parked, locks, locals
  <1>2. Locals'
      BY Zenon DEF IInv, Types, ThreadTypes, Locals, lease, parked, locks, locals,
      Owning, Expiring, Reaping
  <1>3. Locking'
      BY DEF IInv, Types, ThreadTypes, LockTypes, Locals, Locking, lease,
      parked, locks, locals, Owning, Expiring, Reaping
  <1>4. Scanned'
      BY Zenon DEF IInv, Types, ThreadTypes, Locals, Locking, Scanned, lease,
      parked, locks, locals, Owning, Expiring, Reaping
  <1>5. ParkedOnce'
      BY ParkedKept, Zenon DEF IInv, Types, ThreadTypes, Locals, Locking, Owning,
         Expiring, Reaping, parked, locals
  <1>6. ReapedListed'
      BY ReapedKept, Zenon DEF IInv, Types, ThreadTypes, Locals, Locking, Owning,
         Expiring, Reaping, parked, locks, locals
  <1>7. RefsExact'
    <2>1. \A c \in Clients : Callers(c)' = Callers(c)
      BY Zenon DEF Callers, locks, locals
    <2> QED BY <2>1, RefsKept, Zenon DEF IInv, lease, parked, locals
  <1>8. ReservationsExact'
    <2>1. \A c \in Clients : Holders(c)' = Holders(c)
      BY Zenon DEF IInv, Types, ThreadTypes, Locals, Holders, locals, Owning,
         Expiring, Reaping
    <2> QED BY <2>1, ReservationsKept, Zenon DEF IInv, lease
  <1>9. Hashing'
      BY Zenon DEF IInv, Types, ThreadTypes, Hashing, lease, parked, locks, locals
  <1>10. Lapsed'
      BY Zenon DEF IInv, Types, ThreadTypes, Lapsed, Condemned, lease, parked,
      locks, locals
  <1> QED BY <1>1, <1>2, <1>3, <1>4, <1>5, <1>6, <1>7, <1>8, <1>9, <1>10,
             Zenon DEF IInv

\* The lease of a condemned client is renewed: it is revived.
LEMMA CreateSessionPreserves ==
    ASSUME IInv, NEW w \in Workers, CreateSession(w)
    PROVE  IInv'
  <1> USE ClientLeaseAssumption DEF Threads, CreateSession, Goto
  <1>a. cid[w] \in Clients
    BY Zenon DEF IInv, Types, ThreadTypes, Locals, Owning, Expiring
  <1>1. Types'
    <2>1. ThreadTypes' /\ ListTypes'
      BY Zenon DEF IInv, Types, ThreadTypes, ListTypes, Labels, parked, locals
    <2>2. ClientTypes'
      BY <1>a DEF IInv, Types, ClientTypes, parked, Revive
    <2>3. LockTypes'
      BY <1>a, Zenon DEF IInv, Types, LockTypes
    <2> QED BY <2>1, <2>2, <2>3, Zenon DEF Types
  <1>2. Locals'
      BY SMTT(30) DEF IInv, Types, ThreadTypes, Locals, lease, parked, locks, locals,
      Owning, Expiring, Reaping
  <1>3. Locking'
      BY SMTT(30) DEF IInv, Types, ThreadTypes, LockTypes, Locals, Locking, lease,
      parked, locks, locals, Owning, Expiring, Reaping
  <1>4. Scanned'
      BY DEF IInv, Types, ThreadTypes, Locals, Locking, Scanned, lease,
      parked, locks, locals, Owning, Expiring, Reaping
  <1>5. ParkedOnce'
      BY ParkedKept, Zenon DEF IInv, Types, ThreadTypes, Locals, Locking, Owning,
         Expiring, Reaping, parked, locals
  <1>6. ReapedListed'
      BY ReapedKept, Zenon DEF IInv, Types, ThreadTypes, Locals, Locking, Owning,
         Expiring, Reaping, parked, locks, locals
  <1>7. RefsExact'
    <2>1. \A c \in Clients : Callers(c)' = Callers(c)
      BY Zenon DEF Callers, locks, locals
    <2> QED BY <2>1, RefsKept, Zenon DEF IInv, lease, parked, locals
  <1>8. ReservationsExact'
    <2>1. \A c \in Clients : Holders(c)' = Holders(c)
      BY DEF IInv, Types, ThreadTypes, Locals, Holders, locals, Owning, Expiring,
         Reaping
    <2> QED BY <2>1, ReservationsKept, Zenon DEF IInv, lease
  <1>9. Hashing'
      BY Zenon DEF IInv, Types, ThreadTypes, Hashing, lease, parked, locks, locals
  <1>10. Lapsed'
    <2>1. ASSUME NEW t \in Threads, NEW c \in Clients, Condemned(t, c)',
                 c \in confirmed' \ revived'
          PROVE  reservations'[c] = 0 /\ age'[c] >= Lifetime
      <3>1. Condemned(t, c) /\ c \in confirmed \ revived
        BY <2>1, Zenon DEF IInv, Types, ThreadTypes, Condemned, locks, locals, Revive
      <3>2. reservations[c] = 0 /\ age[c] >= Lifetime
        BY <3>1, Zenon DEF IInv, Lapsed
      <3>3. c # cid[w]
        BY <2>1, <3>2, Zenon DEF Revive
      <3> QED BY <3>2, <3>3, Zenon DEF IInv, Types, ClientTypes
    <2> QED BY <2>1, Zenon DEF Lapsed
  <1> QED BY <1>1, <1>2, <1>3, <1>4, <1>5, <1>6, <1>7, <1>8, <1>9, <1>10,
             Zenon DEF IInv

\* The client is taken off the list if it is there.
LEMMA UnlistForSessionPreserves ==
    ASSUME IInv, NEW w \in Workers, UnlistForSession(w)
    PROVE  IInv'
  <1> USE ClientLeaseAssumption DEF Threads, UnlistForSession, Goto
  <1>a. cid[w] \in Clients
    BY Zenon DEF IInv, Types, ThreadTypes, Locals, Owning, Expiring
  <1>b. \/ /\ TakeOff(cid[w]) /\ cid[w] \in marked /\ Ref(cid[w], -1)
           /\ list' \in Seq(Clients) /\ Distinct' /\ num' \in Int
           /\ Listed' = Listed \ {cid[w]} /\ num' = Cardinality(marked')
           /\ marked' = marked \ {cid[w]} /\ cid[w] \in Listed
        \/ UNCHANGED <<list, marked, num, refcount, Listed, Distinct>>
    BY <1>a, TakenOff, Zenon DEF IInv, RemoveFromList, parked, Listed, Distinct
  <1>1. Types'
    <2>1. Types
      BY Zenon DEF IInv
    <2>2. CASE TakeOff(cid[w])
      <3>1. list' \in Seq(Clients) /\ marked' = marked \ {cid[w]} /\ num' \in Int
            /\ Ref(cid[w], -1)
        BY <1>a, <2>1, <2>2, TakenOff, Zenon DEF IInv
      <3>2. refcount' \in [Clients -> Int]
        BY <1>a, <2>1, <3>1, RefTyped
      <3> QED BY <1>a, <2>1, <3>1, <3>2, Zenon DEF Types, ThreadTypes, ClientTypes,
                 LockTypes, ListTypes, Labels, lease, locks, locals
    <2>3. CASE UNCHANGED <<list, marked, num, refcount>>
      BY <1>a, <2>1, <2>3, Zenon DEF Types, ThreadTypes, ClientTypes, LockTypes,
         ListTypes, Labels, lease, locks, locals
    <2> QED BY <1>b, <2>2, <2>3, Zenon
  <1>2. Locals'
      BY Zenon DEF IInv, Types, ThreadTypes, Locals, lease, parked, locks, locals,
      Owning, Expiring, Reaping
  <1>3. Locking'
      BY DEF IInv, Types, ThreadTypes, LockTypes, Locals, Locking, lease,
      parked, locks, locals, Owning, Expiring, Reaping
  <1>4. Scanned'
      BY <1>b, Zenon DEF IInv, Types, ThreadTypes, Locals, Scanned, ParkedOnce,
      locks, locals
  <1>5. ParkedOnce'
      BY <1>b, Zenon DEF IInv, Types, ThreadTypes, ClientTypes, Locals, ParkedOnce,
      Distinct, locals
  <1>6. ReapedListed'
      BY <1>b, Zenon DEF IInv, Types, ThreadTypes, Locking, ReapedListed, locks,
      locals
  <1>7. RefsExact'
    <2>1. \A c \in Clients : Callers(c)' = Callers(c)
      BY Zenon DEF IInv, Types, ThreadTypes, Locals, Locking, Callers, locks,
         locals, Owning, Expiring, Reaping
    <2> QED BY <1>a, <1>b, <2>1, UnmarkedRefs, RefsKept, Zenon DEF IInv, lease, locals
  <1>8. ReservationsExact'
    <2>1. \A c \in Clients : Holders(c)' = Holders(c)
      BY Zenon DEF IInv, Types, ThreadTypes, Locals, Holders, locals, Owning,
         Expiring, Reaping
    <2> QED BY <2>1, ReservationsKept, Zenon DEF IInv, lease
  <1>9. Hashing'
      BY Zenon DEF IInv, Types, ThreadTypes, Hashing, lease, parked, locks, locals
  <1>10. Lapsed'
      BY Zenon DEF IInv, Types, ThreadTypes, Lapsed, Condemned, lease, parked,
      locks, locals
  <1> QED BY <1>1, <1>2, <1>3, <1>4, <1>5, <1>6, <1>7, <1>8, <1>9, <1>10,
             Zenon DEF IInv

\* cr_mutex is free.
LEMMA LockRecordPreserves ==
    ASSUME IInv, NEW t \in Threads, LockRecord(t)
    PROVE  IInv'
  <1> USE ClientLeaseAssumption DEF Threads, LockRecord, Goto
  <1>1. Types'
      BY Zenon DEF IInv, Types, ThreadTypes, ClientTypes, LockTypes, ListTypes,
      Labels, Ref, lease, parked, locks, locals
  <1>2. Locals'
      BY Zenon DEF IInv, Types, ThreadTypes, Locals, lease, parked, locks, locals,
      Owning, Expiring, Reaping
  <1>3. Locking'
      BY DEF IInv, Types, ThreadTypes, LockTypes, Locals, Locking, lease,
      parked, locks, locals, Owning, Expiring, Reaping
  <1>4. Scanned'
      BY Zenon DEF IInv, Types, ThreadTypes, Locals, Locking, Scanned, lease,
      parked, locks, locals, Owning, Expiring, Reaping
  <1>5. ParkedOnce'
      BY ParkedKept, Zenon DEF IInv, Types, ThreadTypes, Locals, Locking, Owning,
         Expiring, Reaping, parked, locals
  <1>6. ReapedListed'
      BY ReapedKept, Zenon DEF IInv, Types, ThreadTypes, Locals, Locking, Owning,
         Expiring, Reaping, parked, locks, locals
  <1>7. RefsExact'
    <2>1. \A c \in Clients : Callers(c)' = Callers(c)
      BY Zenon DEF Callers, locks, locals
    <2> QED BY <2>1, RefsKept, Zenon DEF IInv, lease, parked, locals
  <1>8. ReservationsExact'
    <2>1. \A c \in Clients : Holders(c)' = Holders(c)
      BY Zenon DEF IInv, Types, ThreadTypes, Locals, Holders, locals, Owning,
         Expiring, Reaping
    <2> QED BY <2>1, ReservationsKept, Zenon DEF IInv, lease
  <1>9. Hashing'
      BY Zenon DEF IInv, Types, ThreadTypes, Hashing, lease, parked, locks, locals
  <1>10. Lapsed'
      BY Zenon DEF IInv, Types, ThreadTypes, Lapsed, Condemned, lease, parked,
      locks, locals
  <1> QED BY <1>1, <1>2, <1>3, <1>4, <1>5, <1>6, <1>7, <1>8, <1>9, <1>10,
             Zenon DEF IInv

\* Somebody else was faster.
LEMMA AlreadyExpiredPreserves ==
    ASSUME IInv, NEW t \in Threads, AlreadyExpired(t)
    PROVE  IInv'
  <1> USE ClientLeaseAssumption DEF Threads, AlreadyExpired, Goto
  <1>1. Types'
      BY Zenon DEF IInv, Types, ThreadTypes, ClientTypes, LockTypes, ListTypes,
      Labels, Ref, lease, parked, locks, locals
  <1>2. Locals'
      BY Zenon DEF IInv, Types, ThreadTypes, Locals, lease, parked, locks, locals,
      Owning, Expiring, Reaping
  <1>3. Locking'
      BY Zenon DEF IInv, Types, ThreadTypes, LockTypes, Locals, Locking, lease,
      parked, locks, locals, Owning, Expiring, Reaping
  <1>4. Scanned'
      BY Zenon DEF IInv, Types, ThreadTypes, Locals, Locking, Scanned, lease,
      parked, locks, locals, Owning, Expiring, Reaping
  <1>5. ParkedOnce'
      BY ParkedKept, Zenon DEF IInv, Types, ThreadTypes, Locals, Locking, Owning,
         Expiring, Reaping, parked, locals
  <1>6. ReapedListed'
      BY ReapedKept, Zenon DEF IInv, Types, ThreadTypes, Locals, Locking, Owning,
         Expiring, Reaping, parked, locks, locals
  <1>7. RefsExact'
    <2>1. \A c \in Clients : Callers(c)' = Callers(c)
      BY Zenon DEF Callers, locks, locals
    <2> QED BY <2>1, RefsKept, Zenon DEF IInv, lease, parked, locals
  <1>8. ReservationsExact'
    <2>1. \A c \in Clients : Holders(c)' = Holders(c)
      BY Zenon DEF IInv, Types, ThreadTypes, Locals, Holders, locals, Owning,
         Expiring, Reaping
    <2> QED BY <2>1, ReservationsKept, Zenon DEF IInv, lease
  <1>9. Hashing'
      BY Zenon DEF IInv, Types, ThreadTypes, Hashing, lease, parked, locks, locals
  <1>10. Lapsed'
      BY Zenon DEF IInv, Types, ThreadTypes, Lapsed, Condemned, lease, parked,
      locks, locals
  <1> QED BY <1>1, <1>2, <1>3, <1>4, <1>5, <1>6, <1>7, <1>8, <1>9, <1>10,
             Zenon DEF IInv

\* The client found by the reaper is not marked yet.
LEMMA ParkPreserves ==
    ASSUME IInv, Park
    PROVE  IInv'
  <1> USE ClientLeaseAssumption DEF Threads, Park, Goto
  <1>a. victim[Reaper] \in Clients
    BY Zenon DEF IInv, Types, ThreadTypes, Locals, Owning, Expiring
  <1>b. victim[Reaper] \notin marked
    BY Zenon DEF IInv, Locals, Scanned, Expiring, Owning
  <1>1. Types'
      BY <1>a DEF IInv, Types, ThreadTypes, ClientTypes, LockTypes,
      ListTypes, Labels, Ref, lease, parked, locks, locals
  <1>2. Locals'
      BY Zenon DEF IInv, Types, ThreadTypes, Locals, lease, parked, locks, locals,
      Owning, Expiring, Reaping
  <1>3. Locking'
      BY ZenonT(30) DEF IInv, Types, ThreadTypes, LockTypes, Locals, Locking, lease,
      parked, locks, locals, Owning, Expiring, Reaping
  <1>4. Scanned'
      BY Zenon DEF IInv, Types, ThreadTypes, Locals, Locking, Scanned, lease,
      parked, locks, locals, Owning, Expiring, Reaping
  <1>5. ParkedOnce'
    <2>1. IsFiniteSet(marked) /\ num = Cardinality(marked)
      BY FS_Subset, Zenon DEF IInv, Types, ThreadTypes, ClientTypes, ParkedOnce
    <2>2. num' = Cardinality(marked')
      BY <1>b, <2>1, Added, Zenon
    <2> QED BY <1>a, <1>b, <2>2 DEF IInv, Types, ThreadTypes, ClientTypes,
               ParkedOnce, Listed, locals
  <1>6. ReapedListed'
      BY ReapedKept, Zenon DEF IInv, Types, ThreadTypes, Locals, Locking, Owning,
         Expiring, Reaping, parked, locks, locals
  <1>7. RefsExact'
    <2>1. \A c \in Clients : Callers(c)' = Callers(c) /\ Users(c)' = Users(c)
      BY Zenon DEF Callers, Users, locks, locals
    <2> QED BY <1>a, <1>b, <2>1, CountsAreNatural, RefsChanged DEF IInv, lease
  <1>8. ReservationsExact'
    <2>1. \A c \in Clients : Holders(c)' = Holders(c)
      BY Zenon DEF IInv, Types, ThreadTypes, Locals, Holders, locals, Owning,
         Expiring, Reaping
    <2> QED BY <2>1, ReservationsKept, Zenon DEF IInv, lease
  <1>9. Hashing'
      BY Zenon DEF IInv, Types, ThreadTypes, Hashing, lease, parked, locks, locals
  <1>10. Lapsed'
      BY Zenon DEF IInv, Types, ThreadTypes, Lapsed, Condemned, lease, parked,
      locks, locals
  <1> QED BY <1>1, <1>2, <1>3, <1>4, <1>5, <1>6, <1>7, <1>8, <1>9, <1>10,
             Zenon DEF IInv

\* The client is inserted once.
LEMMA LinkPreserves ==
    ASSUME IInv, Link
    PROVE  IInv'
  <1> USE ClientLeaseAssumption DEF Threads, Goto
  <1>c. /\ pc[Reaper] = "link" /\ listlock = None /\ pc' = [pc EXCEPT ![Reaper] = "unlock"]
        /\ UNCHANGED <<lease, refcount, marked, num, locks, locals, revived>>
    BY Zenon DEF Link
  <1>a. victim[Reaper] \in Clients
    BY <1>c, Zenon DEF IInv, Types, ThreadTypes, Locals, Owning, Expiring
  <1>b. /\ list' \in Seq(Clients) /\ Distinct'
        /\ Listed' = Listed \cup {victim[Reaper]}
    BY <1>a, Linked, Zenon DEF IInv
  <1>1. Types'
    <2>1. list' \in Seq(Clients)
      BY ONLY <1>b, Zenon
    <2> QED BY <2>1, <1>c, Zenon DEF IInv, Types, ThreadTypes, ClientTypes,
               LockTypes, ListTypes, Labels, lease, locks, locals
  <1>2. Locals'
      BY <1>c DEF IInv, Types, ThreadTypes, Locals, Locking, locks, locals,
      Owning, Expiring, Reaping
  <1>3. Locking'
      BY <1>c, ZenonT(30) DEF IInv, Types, ThreadTypes, Locals, Locking, locks,
         locals,
      Owning, Expiring, Reaping
  <1>4. Scanned'
      BY <1>c, Zenon DEF IInv, Types, ThreadTypes, Locals, Locking, Scanned, locks,
      locals
  <1>5. ParkedOnce'
      BY <1>a, <1>b, <1>c DEF IInv, Types, ThreadTypes, Scanned, ParkedOnce,
      Distinct, locals
  <1>6. ReapedListed'
      BY <1>b, <1>c, Zenon DEF IInv, Types, ThreadTypes, ReapedListed, locks, locals
  <1>7. RefsExact'
    <2>1. \A c \in Clients : Callers(c)' = Callers(c)
      BY <1>c DEF IInv, Types, ThreadTypes, Locals, Locking, Callers, locks, locals,
         Owning, Expiring, Reaping
    <2> QED BY <2>1, <1>c, RefsKept, Zenon DEF IInv, lease, locals
  <1>8. ReservationsExact'
    <2>1. \A c \in Clients : Holders(c)' = Holders(c)
      BY <1>c, Zenon DEF IInv, Types, ThreadTypes, Holders, locals
    <2> QED BY <2>1, <1>c, ReservationsKept, Zenon DEF IInv, lease
  <1>9. Hashing'
      BY <1>c, ZenonT(30) DEF IInv, Types, ThreadTypes, ClientTypes, Hashing, lease,
      locals
  <1>10. Lapsed'
      BY <1>c DEF IInv, Types, ThreadTypes, ClientTypes, Locals, Locking,
      Lapsed, Condemned, lease, locks, locals
  <1> QED BY <1>1, <1>2, <1>3, <1>4, <1>5, <1>6, <1>7, <1>8, <1>9, <1>10,
             Zenon DEF IInv

\* The client is in the hash table, and no longer confirmed.
LEMMA ExpirePreserves ==
    ASSUME IInv, NEW t \in Threads, Expire(t)
    PROVE  IInv'
  <1> USE ClientLeaseAssumption DEF Threads, Expire, Goto
  <1>1. Types'
      BY Zenon DEF IInv, Types, ThreadTypes, ClientTypes, LockTypes, ListTypes,
      Labels, Ref, lease, parked, locks, locals
  <1>2. Locals'
      BY Zenon DEF IInv, Types, ThreadTypes, Locals, lease, parked, locks, locals,
      Owning, Expiring, Reaping
  <1>3. Locking'
      BY ZenonT(30) DEF IInv, Types, ThreadTypes, LockTypes, Locals, Locking, lease,
      parked, locks, locals, Owning, Expiring, Reaping
  <1>4. Scanned'
      BY Zenon DEF IInv, Types, ThreadTypes, Locals, Locking, Scanned, lease,
      parked, locks, locals, Owning, Expiring, Reaping
  <1>5. ParkedOnce'
      BY ParkedKept, Zenon DEF IInv, Types, ThreadTypes, Locals, Locking, Owning,
         Expiring, Reaping, parked, locals
  <1>6. ReapedListed'
      BY ReapedKept, Zenon DEF IInv, Types, ThreadTypes, Locals, Locking, Owning,
         Expiring, Reaping, parked, locks, locals
  <1>7. RefsExact'
    <2>1. \A c \in Clients : Callers(c)' = Callers(c)
      BY Zenon DEF Callers, locks, locals
    <2> QED BY <2>1, RefsKept, Zenon DEF IInv, lease, parked, locals
  <1>8. ReservationsExact'
    <2>1. \A c \in Clients : Holders(c)' = Holders(c)
      BY Zenon DEF IInv, Types, ThreadTypes, Locals, Holders, locals, Owning,
         Expiring, Reaping
    <2> QED BY <2>1, ReservationsKept, Zenon DEF IInv, lease
  <1>9. Hashing'
      BY Zenon DEF IInv, Types, ThreadTypes, Hashing, lease, parked, locks, locals
  <1>10. Lapsed'
      BY Zenon DEF IInv, Types, ThreadTypes, Lapsed, Condemned, lease, parked,
      locks, locals
  <1> QED BY <1>1, <1>2, <1>3, <1>4, <1>5, <1>6, <1>7, <1>8, <1>9, <1>10,
             ZenonT(30) DEF IInv

\* cr_mutex keeps others from the hash table.
LEMMA UnhashPreserves ==
    ASSUME IInv, NEW t \in Threads, Unhash(t)
    PROVE  IInv'
  <1> USE ClientLeaseAssumption DEF Threads, Unhash, Goto
  <1>a. victim[t] \in Clients
    BY Zenon DEF IInv, Types, ThreadTypes, Locals, Owning, Expiring
  <1>1. Types'
      BY <1>a, SMTT(30) DEF IInv, Types, ThreadTypes, ClientTypes, LockTypes,
      ListTypes, Labels, Ref, lease, parked, locks, locals
  <1>2. Locals'
      BY Zenon DEF IInv, Types, ThreadTypes, Locals, lease, parked, locks, locals,
      Owning, Expiring, Reaping
  <1>3. Locking'
      BY Zenon DEF IInv, Types, ThreadTypes, LockTypes, Locals, Locking, lease,
      parked, locks, locals, Owning, Expiring, Reaping
  <1>4. Scanned'
      BY Zenon DEF IInv, Types, ThreadTypes, Locals, Locking, Scanned, lease,
      parked, locks, locals, Owning, Expiring, Reaping
  <1>5. ParkedOnce'
      BY ParkedKept, Zenon DEF IInv, Types, ThreadTypes, Locals, Locking, Owning,
         Expiring, Reaping, parked, locals
  <1>6. ReapedListed'
      BY ReapedKept, Zenon DEF IInv, Types, ThreadTypes, Locals, Locking, Owning,
         Expiring, Reaping, parked, locks, locals
  <1>7. RefsExact'
    <2>1. \A c \in Clients : Callers(c)' = Callers(c) /\ Users(c)' = Users(c)
      BY Zenon DEF Callers, Users, locks, locals
    <2>2. victim[t] \in hashed
      BY Zenon DEF IInv, Hashing
    <2> QED BY <1>a, <2>1, <2>2, CountsAreNatural, RefsChanged DEF IInv, parked
  <1>8. ReservationsExact'
    <2>1. \A c \in Clients : Holders(c)' = Holders(c)
      BY Zenon DEF IInv, Types, ThreadTypes, Locals, Holders, locals, Owning,
         Expiring, Reaping
    <2> QED BY <2>1, ReservationsKept, Zenon DEF IInv, lease
  <1>9. Hashing'
      BY DEF IInv, Types, ThreadTypes, Locking, Hashing, locks, locals,
      Owning
  <1>10. Lapsed'
      BY Zenon DEF IInv, Types, ThreadTypes, Lapsed, Condemned, lease, parked,
      locks, locals
  <1> QED BY <1>1, <1>2, <1>3, <1>4, <1>5, <1>6, <1>7, <1>8, <1>9, <1>10,
             Zenon DEF IInv

\* The reference that was taken for the call.
LEMMA UnlockRecordPreserves ==
    ASSUME IInv, NEW t \in Threads, UnlockRecord(t)
    PROVE  IInv'
  <1> USE ClientLeaseAssumption DEF Threads, UnlockRecord, Goto
  <1>a. victim[t] \in Clients
    BY Zenon DEF IInv, Types, ThreadTypes, Locals, Owning, Expiring
  <1>1. Types'
      BY <1>a, SMTT(30) DEF IInv, Types, ThreadTypes, ClientTypes, LockTypes,
      ListTypes, Labels, Ref, lease, parked, locks, locals
  <1>2. Locals'
    <2>1. CASE listlock = t
      BY <2>1, SMTT(30) DEF IInv, Types, ThreadTypes, Locals, Locking, Owning,
         Expiring, Reaping
    <2>2. CASE listlock # t /\ t = Reaper
      BY <2>2, SMTT(30) DEF IInv, Types, ThreadTypes, Locals, Locking, Owning,
         Expiring, Reaping
    <2>3. CASE listlock # t /\ t # Reaper
      BY <2>3, SMTT(30) DEF IInv, Types, ThreadTypes, Locals, Locking, Owning,
         Expiring, Reaping
    <2> QED BY <2>1, <2>2, <2>3, Zenon
  <1>3. Locking'
      BY DEF IInv, Types, ThreadTypes, LockTypes, Locals, Locking, lease,
      parked, locks, locals, Owning, Expiring, Reaping
  <1>4. Scanned'
    <2>1. CASE listlock = t
      BY <2>1, Zenon DEF IInv, Types, ThreadTypes, Scanned, parked
    <2>2. CASE listlock # t
      BY <2>2 DEF IInv, Types, ThreadTypes, ClientTypes, Scanned, parked
    <2> QED BY <2>1, <2>2, Zenon
  <1>5. ParkedOnce'
    <2>1. CASE t = Reaper
      <3>1. pc[Reaper] # "link" /\ pc'[Reaper] # "link"
        BY <2>1, Zenon DEF IInv, Types, ThreadTypes
      <3> QED BY <3>1, ParkedKept, Zenon DEF IInv, parked
    <2>2. CASE t # Reaper
      <3>1. pc'[Reaper] = pc[Reaper] /\ victim'[Reaper] = victim[Reaper]
        BY <2>2, Zenon DEF IInv, Types, ThreadTypes
      <3> QED BY <3>1, ParkedKept, Zenon DEF IInv, parked
    <2> QED BY <2>1, <2>2, Zenon
  <1>6. ReapedListed'
      BY ReapedKept, ZenonT(30) DEF IInv, Types, ThreadTypes, Locals, Locking, Owning,
         Expiring, Reaping, parked, locks, locals
  <1>7. RefsExact'
    <2>1. CASE listlock = t
      <3>1. \A c \in Clients : Callers(c)' = Callers(c)
        BY <2>1, Zenon DEF Callers
      <3> QED BY <2>1, <3>1, RefsKept, Zenon DEF IInv, lease, parked
    <2>2. CASE listlock # t /\ t = Reaper
      <3>1. \A c \in Clients : Callers(c)' = Callers(c)
        BY <2>2 DEF IInv, Types, ThreadTypes, Callers
      <3>2. cid[t] = victim[t]
        BY <1>a, <2>2, Zenon DEF IInv, Locals
      <3> QED BY <1>a, <2>2, <3>1, <3>2, UserRemoved, Zenon DEF IInv, lease, parked
    <2>3. CASE listlock # t /\ t # Reaper
      <3>0. PICK e \in Clients : e = victim[t]
        BY <1>a, Zenon
      <3>1. Callers(e)' = Callers(e) \ {t} /\ t \in Callers(e)
        BY <3>0, <2>3, Zenon DEF IInv, Types, ThreadTypes, Callers
      <3>2. \A c \in Clients \ {e} : Callers(c)' = Callers(c)
        BY <3>0, <2>3, Zenon DEF IInv, Types, ThreadTypes, Callers
      <3>3. \A c \in Clients : Users(c)' = Users(c)
        BY <2>3, Zenon DEF Users
      <3>4. Cardinality(Callers(e)') = Cardinality(Callers(e)) - 1
        BY <3>1, FiniteReferences, Removed, Zenon
      <3>5. Ref(e, -1) /\ UNCHANGED <<hashed, marked>>
        BY <3>0, <2>3, Zenon DEF lease, parked
      <3> QED BY <3>2, <3>3, <3>4, <3>5, CountsAreNatural, RefsChanged
             DEF IInv
    <2> QED BY <2>1, <2>2, <2>3, Zenon
  <1>8. ReservationsExact'
    <2>1. \A c \in Clients : Holders(c)' = Holders(c)
      BY DEF IInv, Types, ThreadTypes, Locals, Holders, locals, Owning, Expiring,
         Reaping
    <2> QED BY <2>1, ReservationsKept, ZenonT(30) DEF IInv, lease
  <1>9. Hashing'
      BY ZenonT(30) DEF IInv, Types, ThreadTypes, Hashing, lease, parked, locks,
         locals
  <1>10. Lapsed'
      BY DEF IInv, Types, ThreadTypes, Lapsed, Condemned, lease, parked,
      locks, locals
  <1> QED BY <1>1, <1>2, <1>3, <1>4, <1>5, <1>6, <1>7, <1>8, <1>9, <1>10,
             Zenon DEF IInv
-----------------------------------------------------------------------------
(* The reaper.                                                             *)

\* The caller goes on.
LEMMA ReapNothingPreserves ==
    ASSUME IInv, NEW t \in Threads, ReapNothing(t)
    PROVE  IInv'
  <1> USE ClientLeaseAssumption DEF Threads, ReapNothing, Reaped, Goto
  <1>1. Types'
      BY Zenon DEF IInv, Types, ThreadTypes, ClientTypes, LockTypes, ListTypes,
      Labels, Ref, lease, parked, locks, locals
  <1>2. Locals'
      BY SMTT(30) DEF IInv, Types, ThreadTypes, Locals, lease, parked, locks, locals,
      Owning, Expiring, Reaping
  <1>3. Locking'
      BY DEF IInv, Types, ThreadTypes, LockTypes, Locals, Locking, lease,
      parked, locks, locals, Owning, Expiring, Reaping
  <1>4. Scanned'
      BY Zenon DEF IInv, Types, ThreadTypes, Locals, Locking, Scanned, lease,
      parked, locks, locals, Owning, Expiring, Reaping
  <1>5. ParkedOnce'
      BY ParkedKept, Zenon DEF IInv, Types, ThreadTypes, Locals, Locking, Owning,
         Expiring, Reaping, parked, locals
  <1>6. ReapedListed'
      BY ReapedKept, Zenon DEF IInv, Types, ThreadTypes, Locals, Locking, Owning,
         Expiring, Reaping, parked, locks, locals
  <1>7. RefsExact'
    <2>1. \A c \in Clients : Callers(c)' = Callers(c)
      BY DEF Callers, locks, locals
    <2> QED BY <2>1, RefsKept, Zenon DEF IInv, lease, parked, locals
  <1>8. ReservationsExact'
    <2>1. \A c \in Clients : Holders(c)' = Holders(c)
      BY DEF IInv, Types, ThreadTypes, Locals, Holders, locals, Owning, Expiring,
         Reaping
    <2> QED BY <2>1, ReservationsKept, Zenon DEF IInv, lease
  <1>9. Hashing'
      BY Zenon DEF IInv, Types, ThreadTypes, Hashing, lease, parked, locks, locals
  <1>10. Lapsed'
      BY Zenon DEF IInv, Types, ThreadTypes, Lapsed, Condemned, lease, parked,
      locks, locals
  <1> QED BY <1>1, <1>2, <1>3, <1>4, <1>5, <1>6, <1>7, <1>8, <1>9, <1>10,
             Zenon DEF IInv

\* The lock of the list is taken.
LEMMA ReapBeginPreserves ==
    ASSUME IInv, NEW t \in Threads, ReapBegin(t)
    PROVE  IInv'
  <1> USE ClientLeaseAssumption DEF Threads, ReapBegin, Goto
  <1>1. Types'
      BY Zenon DEF IInv, Types, ThreadTypes, ClientTypes, LockTypes, ListTypes,
      Labels, Ref, lease, parked, locks, locals
  <1>2. Locals'
      BY Zenon DEF IInv, Types, ThreadTypes, Locals, lease, parked, locks, locals,
      Owning, Expiring, Reaping
  <1>3. Locking'
      BY DEF IInv, Types, ThreadTypes, LockTypes, Locals, Locking, lease,
      parked, locks, locals, Owning, Expiring, Reaping
  <1>4. Scanned'
      BY Zenon DEF IInv, Types, ThreadTypes, Locals, Locking, Scanned, lease,
      parked, locks, locals, Owning, Expiring, Reaping
  <1>5. ParkedOnce'
      BY ParkedKept, Zenon DEF IInv, Types, ThreadTypes, Locals, Locking, Owning,
         Expiring, Reaping, parked, locals
  <1>6. ReapedListed'
      BY ReapedKept, ZenonT(30) DEF IInv, Types, ThreadTypes, Locals, Locking, Owning,
         Expiring, Reaping, parked, locks, locals
  <1>7. RefsExact'
    <2>1. \A c \in Clients : Callers(c)' = Callers(c)
      BY DEF IInv, Types, ThreadTypes, Locals, Locking, Callers, locks, locals,
         Expiring, Owning
    <2> QED BY <2>1, RefsKept, Zenon DEF IInv, lease, parked, locals
  <1>8. ReservationsExact'
    <2>1. \A c \in Clients : Holders(c)' = Holders(c)
      BY Zenon DEF IInv, Types, ThreadTypes, Locals, Holders, locals, Owning,
         Expiring, Reaping
    <2> QED BY <2>1, ReservationsKept, Zenon DEF IInv, lease
  <1>9. Hashing'
      BY Zenon DEF IInv, Types, ThreadTypes, Hashing, lease, parked, locks, locals
  <1>10. Lapsed'
      BY Zenon DEF IInv, Types, ThreadTypes, Lapsed, Condemned, lease, parked,
      locks, locals
  <1> QED BY <1>1, <1>2, <1>3, <1>4, <1>5, <1>6, <1>7, <1>8, <1>9, <1>10,
             Zenon DEF IInv

\* A client that is active again is taken off the list.
LEMMA ReapValidPreserves ==
    ASSUME IInv, NEW t \in Threads, NEW d \in Clients, ReapValid(t, d)
    PROVE  IInv'
  <1> USE ClientLeaseAssumption DEF Threads, Goto
  <1>a. pc[t] = "reaping" /\ UNCHANGED <<lease, locks, pc, locals, revived>>
    BY Zenon DEF ReapValid
  <1>b. d \in Clients /\ TakeOff(d)
    BY Zenon DEF ReapValid
  <1>c. /\ list' \in Seq(Clients) /\ Distinct' /\ num' \in Int
        /\ Listed' = Listed \ {d} /\ num' = Cardinality(marked')
        /\ marked' = marked \ {d} /\ d \in Listed /\ Ref(d, -1)
    BY <1>b, TakenOff, Zenon DEF IInv
  <1>d. pc[Reaper] = "link" => victim[Reaper] \notin Listed
    BY Zenon DEF IInv, ParkedOnce, ClientTypes, Types, ThreadTypes
  <1>1. Types'
    <2>1. refcount' \in [Clients -> Int]
      BY <1>b, <1>c, RefTyped DEF IInv
    <2>2. list' \in Seq(Clients) /\ marked' \subseteq Clients /\ num' \in Int
      BY <1>c, Zenon DEF IInv, Types, ClientTypes
    <2> QED BY <2>1, <2>2, <1>a, Zenon DEF IInv, Types, ThreadTypes, ClientTypes,
               LockTypes, ListTypes, Labels, lease, locks, locals
  <1>2. Locals'
      BY <1>a, Zenon DEF IInv, Types, ThreadTypes, Locals, Locking, lease, locks,
      locals, Owning, Expiring, Reaping
  <1>3. Locking'
      BY <1>a, Zenon DEF IInv, Types, ThreadTypes, Locals, Locking, lease, locks,
      locals, Owning, Expiring, Reaping
  <1>4. Scanned'
      BY <1>c, <1>d, <1>a, Zenon DEF IInv, Types, ThreadTypes, Locals, Locking,
      Scanned, locks, locals
  <1>5. ParkedOnce'
      BY <1>c, <1>a, Zenon DEF IInv, Types, ThreadTypes, ClientTypes, Locals,
      Locking, ParkedOnce, Distinct, locals
  <1>6. ReapedListed'
      BY <1>c, <1>a, Zenon DEF IInv, Types, ThreadTypes, Locals, Locking,
      ReapedListed, locks, locals, Expiring, Owning
  <1>7. RefsExact'
    <2>1. \A c \in Clients : Callers(c)' = Callers(c)
      BY <1>a, Zenon DEF IInv, Types, ThreadTypes, Locals, Locking, Callers, locks,
         locals
    <2> QED BY <1>b, <1>a, <2>1, UnmarkedRefs, Zenon DEF IInv, lease, locals
  <1>8. ReservationsExact'
    <2>1. \A c \in Clients : Holders(c)' = Holders(c)
      BY <1>a, Zenon DEF IInv, Types, ThreadTypes, Locals, Locking, Holders, locals
    <2> QED BY <2>1, <1>a, ReservationsKept, Zenon DEF IInv, lease
  <1>9. Hashing'
      BY <1>a, ZenonT(30) DEF IInv, Types, ThreadTypes, ClientTypes, Hashing, lease,
      locals
  <1>10. Lapsed'
      BY <1>a DEF IInv, Types, ThreadTypes, ClientTypes, Locals, Locking,
      Lapsed, Condemned, lease, locks, locals
  <1> QED BY <1>1, <1>2, <1>3, <1>4, <1>5, <1>6, <1>7, <1>8, <1>9, <1>10,
             Zenon DEF IInv

\* A client whose lease has run out is expired.
LEMMA ReapExpiredPreserves ==
    ASSUME IInv, NEW t \in Threads, NEW d \in Clients, ReapExpired(t, d)
    PROVE  IInv'
  <1> USE ClientLeaseAssumption DEF Threads, ReapExpired, ToReap, Goto
  <1>1. Types'
      BY ZenonT(30) DEF IInv, Types, ThreadTypes, ClientTypes, LockTypes, ListTypes,
      Labels, Ref, lease, parked, locks, locals
  <1>2. Locals'
      BY ZenonT(30) DEF IInv, Types, ThreadTypes, Locals, Locking, locks, locals,
      Owning, Expiring, Reaping
  <1>3. Locking'
      BY DEF IInv, Types, ThreadTypes, LockTypes, Locals, Locking, lease,
      parked, locks, locals, Owning, Expiring, Reaping
  <1>4. Scanned'
      BY Zenon DEF IInv, Types, ThreadTypes, Locals, Locking, Scanned, lease,
      parked, locks, locals, Owning, Expiring, Reaping
  <1>5. ParkedOnce'
      BY ParkedKept, ZenonT(30) DEF IInv, Types, ThreadTypes, Locals, Locking, Owning,
         Expiring, Reaping, parked, locals
  <1>6. ReapedListed'
      BY DEF IInv, Types, ThreadTypes, Locals, Locking, ReapedListed, Listed,
      lease, parked, locks, locals, Owning, Expiring, Reaping
  <1>7. RefsExact'
    <2>1. \A c \in Clients : Callers(c)' = Callers(c)
      BY DEF IInv, Types, ThreadTypes, Locals, Locking, Callers, locks, locals,
         Expiring, Owning
    <2> QED BY <2>1, RefsKept, ZenonT(30) DEF IInv, lease, parked, locals
  <1>8. ReservationsExact'
    <2>1. \A c \in Clients : Holders(c)' = Holders(c)
      BY Zenon DEF IInv, Types, ThreadTypes, Locals, Holders, locals, Owning,
         Expiring, Reaping
    <2> QED BY <2>1, ReservationsKept, Zenon DEF IInv, lease
  <1>9. Hashing'
      BY ZenonT(30) DEF IInv, Types, ThreadTypes, Hashing, lease, parked, locks,
         locals
  <1>10. Lapsed'
    <2>1. d \in confirmed => reservations[d] = 0 /\ age[d] >= Lifetime
      BY CountsAreNatural DEF IInv, Types, ThreadTypes, ClientTypes,
         ReservationsExact, Valid
    <2> QED BY <2>1, SMTT(30) DEF IInv, Types, ThreadTypes, ClientTypes, Locals,
               Locking,
               Lapsed, Condemned, lease, locks
  <1> QED BY <1>1, <1>2, <1>3, <1>4, <1>5, <1>6, <1>7, <1>8, <1>9, <1>10,
             Zenon DEF IInv

\* It is taken off the list afterwards.
LEMMA ReapDeletePreserves ==
    ASSUME IInv, NEW t \in Threads, ReapDelete(t)
    PROVE  IInv'
  <1> USE ClientLeaseAssumption DEF Threads, Goto
  <1>a. /\ pc[t] = "delete" /\ victim' = [victim EXCEPT ![t] = None]
        /\ pc' = [pc EXCEPT ![t] = "reaping"]
        /\ UNCHANGED <<lease, locks, cid, conflicted, revived>>
    BY Zenon DEF ReapDelete
  <1>b. victim[t] \in Clients /\ TakeOff(victim[t])
    BY Zenon DEF IInv, Types, ThreadTypes, Locals, Expiring, ReapDelete
  <1>c. /\ list' \in Seq(Clients) /\ Distinct' /\ num' \in Int
        /\ Listed' = Listed \ {victim[t]} /\ num' = Cardinality(marked')
        /\ marked' = marked \ {victim[t]} /\ victim[t] \in Listed /\ Ref(victim[t], -1)
    BY <1>b, TakenOff, Zenon DEF IInv
  <1>d. pc[Reaper] = "link" => victim[Reaper] \notin Listed
    BY Zenon DEF IInv, ParkedOnce, ClientTypes, Types, ThreadTypes
  <1>1. Types'
    <2>1. refcount' \in [Clients -> Int]
      BY <1>b, <1>c, RefTyped DEF IInv
    <2>2. list' \in Seq(Clients) /\ marked' \subseteq Clients /\ num' \in Int
      BY <1>c, Zenon DEF IInv, Types, ClientTypes
    <2> QED BY <2>1, <2>2, <1>a, ZenonT(30) DEF IInv, Types, ThreadTypes, ClientTypes,
               LockTypes, ListTypes, Labels, lease, locks, locals
  <1>2. Locals'
      BY <1>a, ZenonT(30) DEF IInv, Types, ThreadTypes, Locals, Locking, lease, locks,
      locals, Owning, Expiring, Reaping
  <1>3. Locking'
      BY <1>a, ZenonT(30) DEF IInv, Types, ThreadTypes, Locals, Locking, lease, locks,
      locals, Owning, Expiring, Reaping
  <1>4. Scanned'
      BY <1>c, <1>d, <1>a, Zenon DEF IInv, Types, ThreadTypes, Locals, Locking,
      Scanned, locks, locals
  <1>5. ParkedOnce'
      BY <1>c, <1>a, Zenon DEF IInv, Types, ThreadTypes, ClientTypes, Locals,
      Locking, ParkedOnce, Distinct, locals
  <1>6. ReapedListed'
      BY <1>c, <1>a, Zenon DEF IInv, Types, ThreadTypes, Locals, Locking,
      ReapedListed, locks, locals, Expiring, Owning
  <1>7. RefsExact'
    <2>1. \A c \in Clients : Callers(c)' = Callers(c)
      BY <1>a, Zenon DEF IInv, Types, ThreadTypes, Locals, Locking, Callers, locks,
         locals
    <2> QED BY <1>b, <1>a, <2>1, UnmarkedRefs, Zenon DEF IInv, lease, locals
  <1>8. ReservationsExact'
    <2>1. \A c \in Clients : Holders(c)' = Holders(c)
      BY <1>a, Zenon DEF IInv, Types, ThreadTypes, Locals, Locking, Holders, locals
    <2> QED BY <2>1, <1>a, ReservationsKept, Zenon DEF IInv, lease
  <1>9. Hashing'
      BY <1>a, ZenonT(30) DEF IInv, Types, ThreadTypes, ClientTypes, Hashing, lease,
      locals
  <1>10. Lapsed'
      BY <1>a DEF IInv, Types, ThreadTypes, ClientTypes, Locals, Locking,
      Lapsed, Condemned, lease, locks, locals
  <1> QED BY <1>1, <1>2, <1>3, <1>4, <1>5, <1>6, <1>7, <1>8, <1>9, <1>10,
             Zenon DEF IInv

\* The lock of the list is released.
LEMMA ReapEndPreserves ==
    ASSUME IInv, NEW t \in Threads, ReapEnd(t)
    PROVE  IInv'
  <1> USE ClientLeaseAssumption DEF Threads, ReapEnd, Reaped, Goto
  <1>1. Types'
      BY Zenon DEF IInv, Types, ThreadTypes, ClientTypes, LockTypes, ListTypes,
      Labels, Ref, lease, parked, locks, locals
  <1>2. Locals'
    <2>1. CASE t = Reaper
      BY <2>1 DEF IInv, Types, ThreadTypes, Locals, Locking, Owning, Expiring, Reaping
    <2>2. CASE t # Reaper
      BY <2>2, ZenonT(30) DEF IInv, Types, ThreadTypes, Locals, Locking, Owning,
         Expiring, Reaping
    <2> QED BY <2>1, <2>2, ZenonT(30)
  <1>3. Locking'
      BY DEF IInv, Types, ThreadTypes, LockTypes, Locals, Locking, lease,
      parked, locks, locals, Owning, Expiring, Reaping
  <1>4. Scanned'
      BY Zenon DEF IInv, Types, ThreadTypes, Locals, Locking, Scanned, lease,
      parked, locks, locals, Owning, Expiring, Reaping
  <1>5. ParkedOnce'
      BY ParkedKept, Zenon DEF IInv, Types, ThreadTypes, Locals, Locking, Owning,
         Expiring, Reaping, parked, locals
  <1>6. ReapedListed'
      BY Zenon DEF IInv, Types, ThreadTypes, Locals, Locking, ReapedListed, Listed,
      lease, parked, locks, locals, Owning, Expiring, Reaping
  <1>7. RefsExact'
    <2>1. \A c \in Clients : Callers(c)' = Callers(c)
      BY DEF IInv, Types, ThreadTypes, Locals, Locking, Callers, locks, locals,
         Expiring, Owning
    <2> QED BY <2>1, RefsKept, ZenonT(30) DEF IInv, lease, parked, locals
  <1>8. ReservationsExact'
    <2>1. \A c \in Clients : Holders(c)' = Holders(c)
      BY DEF IInv, Types, ThreadTypes, Locals, Holders, locals, Owning, Expiring,
         Reaping
    <2> QED BY <2>1, ReservationsKept, Zenon DEF IInv, lease
  <1>9. Hashing'
      BY Zenon DEF IInv, Types, ThreadTypes, Hashing, lease, parked, locks, locals
  <1>10. Lapsed'
      BY Zenon DEF IInv, Types, ThreadTypes, Lapsed, Condemned, lease, parked,
      locks, locals
  <1> QED BY <1>1, <1>2, <1>3, <1>4, <1>5, <1>6, <1>7, <1>8, <1>9, <1>10,
             Zenon DEF IInv

\* Nothing is found.
LEMMA ScanBucketPreserves ==
    ASSUME IInv, ScanBucket
    PROVE  IInv'
  <1> USE ClientLeaseAssumption DEF Threads, ScanBucket, Goto
  <1>1. Types'
      BY Zenon DEF IInv, Types, ThreadTypes, ClientTypes, LockTypes, ListTypes,
      Labels, Ref, lease, parked, locks, locals
  <1>2. Locals'
      BY Zenon DEF IInv, Types, ThreadTypes, Locals, lease, parked, locks, locals,
      Owning, Expiring, Reaping
  <1>3. Locking'
      BY Zenon DEF IInv, Types, ThreadTypes, LockTypes, Locals, Locking, lease,
      parked, locks, locals, Owning, Expiring, Reaping
  <1>4. Scanned'
      BY Zenon DEF IInv, Types, ThreadTypes, Locals, Locking, Scanned, lease,
      parked, locks, locals, Owning, Expiring, Reaping
  <1>5. ParkedOnce'
      BY ParkedKept, Zenon DEF IInv, Types, ThreadTypes, Locals, Locking, Owning,
         Expiring, Reaping, parked, locals
  <1>6. ReapedListed'
      BY ReapedKept, Zenon DEF IInv, Types, ThreadTypes, Locals, Locking, Owning,
         Expiring, Reaping, parked, locks, locals
  <1>7. RefsExact'
    <2>1. \A c \in Clients : Callers(c)' = Callers(c)
      BY Zenon DEF Callers, locks, locals
    <2> QED BY <2>1, RefsKept, Zenon DEF IInv, lease, parked, locals
  <1>8. ReservationsExact'
    <2>1. \A c \in Clients : Holders(c)' = Holders(c)
      BY Zenon DEF IInv, Types, ThreadTypes, Locals, Holders, locals, Owning,
         Expiring, Reaping
    <2> QED BY <2>1, ReservationsKept, Zenon DEF IInv, lease
  <1>9. Hashing'
      BY ZenonT(30) DEF IInv, Types, ThreadTypes, Hashing, lease, parked, locks,
         locals
  <1>10. Lapsed'
    <2>1. pc[Reaper] = "scan" /\ pc'[Reaper] = "reap" /\ cid[Reaper] = None
      BY Zenon DEF IInv, Types, ThreadTypes, Locals
    <2>2. \A t \in Threads \ {Reaper} : pc'[t] = pc[t]
      BY Zenon DEF IInv, Types, ThreadTypes
    <2>3. \A c \in Clients : ~Condemned(Reaper, c)'
      BY <2>1, Zenon DEF IInv, Locals, Condemned, locals
    <2>4. \A t \in Threads \ {Reaper}, c \in Clients : Condemned(t, c)' => Condemned(t, c)
      BY <2>2, Zenon DEF Condemned, locals
    <2> QED BY <2>3, <2>4, Zenon DEF IInv, Lapsed, lease
  <1> QED BY <1>1, <1>2, <1>3, <1>4, <1>5, <1>6, <1>7, <1>8, <1>9, <1>10,
             Zenon DEF IInv

\* The lease of the client found has run out.
LEMMA ScanFoundPreserves ==
    ASSUME IInv, NEW d \in Clients, ScanFound(d)
    PROVE  IInv'
  <1> USE ClientLeaseAssumption DEF Threads, ScanFound, Goto
  <1>1. Types'
      BY DEF IInv, Types, ThreadTypes, ClientTypes, LockTypes, ListTypes,
      Labels, Ref, lease, parked, locks, locals
  <1>2. Locals'
      BY Zenon DEF IInv, Types, ThreadTypes, Locals, lease, parked, locks, locals,
      Owning, Expiring, Reaping
  <1>3. Locking'
      BY Zenon DEF IInv, Types, ThreadTypes, LockTypes, Locals, Locking, lease,
      parked, locks, locals, Owning, Expiring, Reaping
  <1>4. Scanned'
      BY Zenon DEF IInv, Types, ThreadTypes, Scanned, parked
  <1>5. ParkedOnce'
      BY ParkedKept, Zenon DEF IInv, Types, ThreadTypes, Locals, Locking, Owning,
         Expiring, Reaping, parked, locals
  <1>6. ReapedListed'
      BY ReapedKept, Zenon DEF IInv, Types, ThreadTypes, Locals, Locking, Owning,
         Expiring, Reaping, parked, locks, locals
  <1>7. RefsExact'
      BY UserAdded, Zenon DEF IInv, Locals, lease, parked, locks
  <1>8. ReservationsExact'
    <2>1. \A c \in Clients : Holders(c)' = Holders(c)
      BY Zenon DEF IInv, Types, ThreadTypes, Locals, Holders, locals, Owning,
         Expiring, Reaping
    <2> QED BY <2>1, ReservationsKept, Zenon DEF IInv, lease
  <1>9. Hashing'
      BY Zenon DEF IInv, Types, ThreadTypes, Hashing, lease, parked, locks, locals
  <1>10. Lapsed'
    <2>1. d \in confirmed => reservations[d] = 0 /\ age[d] >= Lifetime
      BY CountsAreNatural DEF IInv, Types, ThreadTypes, ClientTypes,
         ReservationsExact, Valid
    <2>2. ASSUME NEW t \in Threads, NEW c \in Clients, Condemned(t, c)'
          PROVE  c = d \/ Condemned(t, c)
      BY <2>2, Zenon DEF IInv, Types, ThreadTypes, Condemned, locks
    <2> QED BY <2>1, <2>2, Zenon DEF IInv, Lapsed, lease
  <1> QED BY <1>1, <1>2, <1>3, <1>4, <1>5, <1>6, <1>7, <1>8, <1>9, <1>10,
             Zenon DEF IInv

-----------------------------------------------------------------------------
\* A step that changes nothing.
LEMMA StutteringPreserves ==
    ASSUME IInv, UNCHANGED vars
    PROVE  IInv'
  <1> USE DEF vars, lease, parked, locks, locals
  <1>1. Types'
    BY Zenon DEF IInv, Types, ThreadTypes, ClientTypes, LockTypes, ListTypes
  <1>2. Locals' /\ Locking'
    BY Zenon DEF IInv, Locals, Locking
  <1>5. Scanned' /\ ReapedListed'
    BY Zenon DEF IInv, Scanned, ReapedListed, Listed
  <1>6. ParkedOnce'
    BY Zenon DEF IInv, ParkedOnce, Listed
  <1>7. Hashing' /\ Lapsed'
    BY Zenon DEF IInv, Hashing, Lapsed, Condemned
  <1>3. RefsExact'
    <2>1. \A c \in Clients : Callers(c)' = Callers(c)
      BY Zenon DEF Callers
    <2> QED BY <2>1, RefsKept, Zenon DEF IInv
  <1>4. ReservationsExact'
    <2>1. \A c \in Clients : Holders(c)' = Holders(c)
      BY Zenon DEF Holders
    <2> QED BY <2>1, ReservationsKept, Zenon DEF IInv
  <1> QED BY <1>1, <1>2, <1>3, <1>4, <1>5, <1>6, <1>7, Zenon DEF IInv

\* All clients are confirmed, and nobody works.
LEMMA InitEstablishes ==
    ASSUME Init
    PROVE  IInv
  <1> USE ClientLeaseAssumption DEF Init, Threads
  <1>1. Types
    BY DEF Types, ThreadTypes, ClientTypes, LockTypes, ListTypes, Labels
  <1>2. Locals /\ Locking /\ Scanned
    BY Zenon DEF Locals, Locking, Scanned, Owning, Expiring, Reaping
  <1>3. Cardinality({}) = 0
    BY FS_EmptySet, Zenon
  <1>4. ParkedOnce /\ ReapedListed
    BY <1>3 DEF ParkedOnce, ReapedListed, Listed
  <1>5. \A c \in Clients : Users(c) = {} /\ Callers(c) = {} /\ Holders(c) = {}
    BY Zenon DEF Users, Callers, Holders
  <1>6. RefsExact /\ ReservationsExact
    <2>1. \A c \in Clients : /\ Cardinality(Users(c)) = 0
                             /\ Cardinality(Callers(c)) = 0
                             /\ Cardinality(Holders(c)) = 0
      BY <1>3, <1>5, Zenon
    <2> QED BY <2>1 DEF RefsExact, ReservationsExact
  <1>7. Hashing /\ Lapsed
    BY Zenon DEF Hashing, Lapsed, Condemned
  <1> QED BY <1>1, <1>2, <1>4, <1>6, <1>7, Zenon DEF IInv

\* Every step.
LEMMA NextPreserves ==
    ASSUME IInv, [Next]_vars
    PROVE  IInv'
  <1>1. CASE UNCHANGED vars
    BY <1>1, StutteringPreserves, Zenon
  <1>2. ASSUME NEW w \in Workers, Compound(w) PROVE IInv'
    BY <1>2, ReservePreserves, RenewPreserves, ReserveFailsPreserves,
       EndCompoundPreserves, UnlistPreserves, PutPreserves, Zenon DEF Compound
  <1>3. ASSUME NEW w \in Workers, Session(w) PROVE IInv'
    BY <1>3, LockForSessionPreserves, CreateSessionPreserves,
       UnlistForSessionPreserves, Zenon DEF Session
  <1>4. ASSUME NEW t \in Threads, ExpireStep(t) PROVE IInv'
    BY <1>4, LockRecordPreserves, AlreadyExpiredPreserves, ExpirePreserves,
       UnhashPreserves, UnlockRecordPreserves, Zenon DEF ExpireStep
  <1>5. ASSUME NEW t \in Threads, ReapStep(t) PROVE IInv'
    BY <1>5, ReapNothingPreserves, ReapBeginPreserves, ReapValidPreserves,
       ReapExpiredPreserves, ReapDeletePreserves, ReapEndPreserves, Zenon DEF ReapStep
  <1>6. ASSUME NEW w \in Workers, NEW c \in Clients,
               GetConfirmed(w, c) \/ Conflict(w, c)
        PROVE  IInv'
    BY <1>6, GetConfirmedPreserves, ConflictPreserves, Zenon
  <1>7. ASSUME NEW c \in Clients, NewClient(c) \/ ScanFound(c) PROVE IInv'
    BY <1>7, NewClientPreserves, ScanFoundPreserves, Zenon
  <1>8. CASE Tick \/ Park \/ Link \/ ScanBucket
    BY <1>8, TickPreserves, ParkPreserves, LinkPreserves, ScanBucketPreserves, Zenon
  <1>9. Workers \subseteq Threads /\ Reaper \in Threads
    BY Zenon DEF Threads
  <1> QED BY <1>1, <1>2, <1>3, <1>4, <1>5, <1>6, <1>7, <1>8, <1>9, Zenon
          DEF Next, WorkerStep, ReaperStep

\* The invariant.
LEMMA Inductive == Spec => []IInv
  BY InitEstablishes, NextPreserves, PTL DEF Spec

\* Counts are not negative.
LEMMA Typed == ASSUME IInv PROVE TypeOK
  <1>1. \A c \in Clients : reservations[c] \in Nat /\ refcount[c] \in Nat
    BY CountsAreNatural DEF IInv, ReservationsExact, RefsExact
  <1>2. reservations \in [Clients -> Nat] /\ refcount \in [Clients -> Nat]
    BY <1>1, Zenon DEF IInv, Types, ClientTypes
  <1>3. num \in Nat
    BY ClientLeaseAssumption, FS_Subset, FS_CardinalityType, Zenon
       DEF IInv, Types, ClientTypes, ParkedOnce
  <1> QED BY <1>2, <1>3, Zenon
          DEF IInv, Types, ThreadTypes, ClientTypes, LockTypes, ListTypes, TypeOK
-----------------------------------------------------------------------------
\* Reference counts, the count of expired clients and the reservations are
\* never negative, and every thread is at a point of the code.
THEOREM TypeCorrect == Spec => []TypeOK
  BY Inductive, Typed, PTL

\* A client is in the list of expired clients once, and exactly while it is
\* marked and counted.
THEOREM ParkingOnce == Spec => []ParkedOnce
  <1>1. IInv => ParkedOnce
    BY Zenon DEF IInv
  <1> QED BY <1>1, Inductive, PTL

\* The reference count of a client id (inc_client_id_ref, dec_client_id_ref)
\* is the number of those that have it.
THEOREM ReferencesExact == Spec => []RefsExact
  <1>1. IInv => RefsExact
    BY Zenon DEF IInv
  <1> QED BY <1>1, Inductive, PTL

\* nfs_client_id_expire finds the client id in the hash table.
THEOREM UnhashingFinds == Spec => []UnhashFinds
  <1>1. IInv => UnhashFinds
    BY Zenon DEF IInv, Hashing, UnhashFinds
  <1> QED BY <1>1, Inductive, PTL

\* No client is expired that has its lease reserved or renewed, unless it came
\* back after the lease had run out.
THEOREM LeasesHonoured == Spec => []LeaseHonoured
  <1>1. IInv => LeaseHonoured
    BY Zenon DEF IInv, Types, ClientTypes, Lapsed, Condemned, LeaseHonoured
  <1> QED BY <1>1, Inductive, PTL
=============================================================================
