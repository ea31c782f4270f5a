------------------------- MODULE GraceClusterProofs -------------------------
(***************************************************************************)
(* Proofs about GraceCluster for any number of servers, clients and        *)
(* failures.  A server needs the grace period from the moment it joins it  *)
(* until it lifts its own record, and while one server does, the epochs    *)
(* stand still and nobody can leave; that is what keeps the records to     *)
(* reclaim from.                                                           *)
(***************************************************************************)
EXTENDS GraceCluster, FiniteSetTheorems, TLAPS

Need(n) == DB!NEED \in obj.flags[n]
Enforces(n) == DB!ENFORCING \in obj.flags[n]

\* Stages of a server that has not read its clients' records yet, and of one
\* that leaves the grace period.
Unjoined == {"down", "enforce", "join"}
Booting == Unjoined \cup {"create", "read"}
Leaving == {"off", "remove", "clear"}

\* The types; every server is a member of the cluster.
DatabaseTypes ==
    obj \in [cur : Nat, rec : Nat, flags : [Nodes -> SUBSET DB!Flags]]

ServerTypes ==
    /\ stage \in [Nodes -> Stages]
    /\ exported \subseteq Nodes /\ active \subseteq Nodes /\ change_req \subseteq active
    /\ recov_oid \in [Nodes -> Epochs \cup {0}]
    /\ old_oid \in [Nodes -> Epochs \cup {0}]
    /\ failures \in 0 .. MaxFailures

ClientTypes ==
    /\ recdb \in [Epochs -> [Nodes -> SUBSET Clients]]
    /\ live \in [Nodes -> SUBSET Clients] /\ pend \in [Nodes -> SUBSET Clients]
    /\ snap \in [Nodes -> SUBSET Clients] /\ clid_list \in [Nodes -> SUBSET Clients]
    /\ held \in [Nodes -> SUBSET Clients] /\ lost \in [Nodes -> SUBSET Clients]
    /\ \A n \in Nodes : pend[n] \cup held[n] \subseteq live[n]
    /\ \A n \in Nodes : pend[n] \cap held[n] = {}

\* A grace period is in effect exactly while some server needs it, and its
\* recovery epoch is the one before the current epoch.
Period ==
    /\ obj.rec # 0 <=> \E n \in Nodes : Need(n)
    /\ obj.cur >= FirstEpoch
    /\ obj.rec # 0 => obj.rec >= FirstEpoch /\ obj.cur = obj.rec + 1

\* The servers that may yet declare an epoch: those that have gone down and
\* have neither joined a grace period since nor asked for one on the way out.
Owing == {n \in Nodes : stage[n] \in Unjoined /\ ~Need(n)}

\* Every epoch is owed to a failure.
Starts == obj.cur + Cardinality(Owing) <= FirstEpoch + failures

\* Where a server is when its records in the database say that it needs the
\* grace period or enforces it, when it serves clients and when it is active.
Places ==
    \A n \in Nodes :
        /\ n \in exported => stage[n] \notin Booting
        /\ stage[n] \in {"down", "copy", "begin"} => n \notin active
        /\ stage[n] \in {"enforce", "join", "create", "read", "flag"} \cup Leaving
             => n \in active
        /\ stage[n] \in {"copy", "begin"} => old_oid[n] # 0
        /\ n \in active /\ stage[n] \notin {"enforce", "join", "clear"}
             => old_oid[n] # 0
        /\ Need(n) => stage[n] \in Booting \/ (stage[n] = "idle" /\ n \in active)
        /\ Enforces(n) => \/ stage[n] \in Booting
                          \/ stage[n] \in {"idle", "flag", "off"} /\ n \in active
        /\ stage[n] \in {"create", "read"}
             => Need(n) /\ recov_oid[n] = obj.cur /\ old_oid[n] = obj.rec

\* Before the first failure nothing happens but that clients come and get
\* state, after they have been recorded.
Calm ==
    failures = 0 =>
        /\ obj.rec = 0
        /\ exported = Nodes /\ active = {}
        /\ \A n \in Nodes :
             /\ stage[n] = "idle" /\ lost[n] = {} /\ recov_oid[n] = FirstEpoch
             /\ live[n] \subseteq pend[n] \cup recdb[FirstEpoch][n]

\* The only server that has ever failed, and what is true of the others: they
\* take part in the grace period but do not need it, and cannot leave it before
\* the failed one has lifted it.
Failed(f) ==
    /\ \A n \in Nodes \ {f} :
         n \in exported /\ stage[n] \notin Booting /\ ~Need(n) /\ lost[n] = {}
    /\ stage[f] \in Booting => lost[f] \subseteq recdb[FirstEpoch][f]
    /\ stage[f] \notin Booting => lost[f] \subseteq clid_list[f]
    /\ lost[f] # {} => stage[f] \in Booting \/ Need(f)
    /\ stage[f] \in Unjoined /\ obj.rec = 0
         => \A n \in Nodes \ {f} : stage[n] = "idle" /\ n \notin active
    /\ obj.rec # 0 => \A n \in Nodes : stage[n] \notin Leaving
    /\ obj.rec # 0 /\ f \in exported => \A n \in Nodes : Enforces(n)

OneFailure == failures = 1 => \E f \in Nodes : Failed(f)

IInv == /\ DatabaseTypes /\ ServerTypes /\ ClientTypes /\ Period /\ Starts
        /\ Places /\ Calm /\ OneFailure
-----------------------------------------------------------------------------
(* Counting the servers that may yet declare an epoch.                     *)

\* A set of servers has a size, and a subset is not larger.
LEMMA Fewer ==
    ASSUME NEW S \in SUBSET Nodes, NEW T \in SUBSET S
    PROVE  /\ Cardinality(S) \in Nat /\ Cardinality(T) \in Nat
           /\ Cardinality(T) <= Cardinality(S)
  <1>1. IsFiniteSet(S)
    BY ClusterAssumption, FS_Subset, Zenon
  <1> QED BY <1>1, FS_Subset, FS_CardinalityType, Zenon

\* One server leaves the set.
LEMMA OneFewer ==
    ASSUME NEW S \in SUBSET Nodes, NEW n \in S, NEW T \in SUBSET (S \ {n})
    PROVE  Cardinality(T) + 1 <= Cardinality(S)
  <1>1. IsFiniteSet(S)
    BY ClusterAssumption, FS_Subset, Zenon
  <1>2. Cardinality(S \ {n}) = Cardinality(S) - 1
    BY <1>1, FS_RemoveElement, Zenon
  <1>3. Cardinality(T) <= Cardinality(S \ {n}) /\ Cardinality(T) \in Nat
    BY Fewer, Zenon
  <1>4. Cardinality(S) \in Nat
    BY Fewer, Zenon
  <1> QED BY <1>2, <1>3, <1>4

\* At most one server enters it.
LEMMA OneMore ==
    ASSUME NEW S \in SUBSET Nodes, NEW n \in Nodes, NEW T \in SUBSET (S \cup {n})
    PROVE  Cardinality(T) <= Cardinality(S) + 1
  <1>1. IsFiniteSet(S)
    BY ClusterAssumption, FS_Subset, Zenon
  <1>2. Cardinality(S \cup {n}) \in {Cardinality(S), Cardinality(S) + 1}
    BY <1>1, FS_AddElement, Zenon
  <1>3. /\ Cardinality(T) <= Cardinality(S \cup {n}) /\ Cardinality(T) \in Nat
        /\ Cardinality(S \cup {n}) \in Nat
    BY Fewer, Zenon
  <1>4. Cardinality(S) \in Nat
    BY Fewer, Zenon
  <1> QED BY <1>2, <1>3, <1>4

\* The bound on the epochs is kept by a step that declares none and adds no
\* server to those that may.
LEMMA StartsKept ==
    ASSUME DatabaseTypes, ServerTypes, Starts, Owing' \subseteq Owing,
           obj'.cur = obj.cur, failures' = failures
    PROVE  Starts'
  <1>1. /\ Cardinality(Owing) \in Nat /\ Cardinality(Owing') \in Nat
        /\ Cardinality(Owing') <= Cardinality(Owing)
    BY Fewer, Zenon DEF Owing
  <1> QED BY <1>1, ClusterAssumption DEF Starts, DatabaseTypes, ServerTypes,
             FirstEpoch

\* No epoch is ever declared beyond the last one of the recovery databases.
LEMMA EpochsSuffice ==
    ASSUME DatabaseTypes, ServerTypes, Period, Starts
    PROVE  obj.cur \in Epochs /\ (obj.rec # 0 => obj.rec \in Epochs)
  <1>1. Cardinality(Owing) \in Nat
    BY Fewer, Zenon DEF Owing
  <1> QED BY <1>1, ClusterAssumption
      DEF Starts, DatabaseTypes, ServerTypes, Period, Epochs, FirstEpoch

-----------------------------------------------------------------------------
(* What the commands of the grace database do to the records.              *)

\* Enforce on one server sets its flag and nothing else.
LEMMA EnforceEffect ==
    ASSUME DatabaseTypes, NEW n \in Nodes, DB!Enforce({n})
    PROVE  /\ DatabaseTypes' /\ obj'.cur = obj.cur /\ obj'.rec = obj.rec
           /\ \A m \in Nodes : /\ Need(m)' <=> Need(m)
                               /\ Enforces(m)' <=> Enforces(m) \/ m = n
  <1>1. obj' = [obj EXCEPT !.flags = [obj.flags EXCEPT ![n] = @ \cup {DB!ENFORCING}]]
    BY Zenon DEF DatabaseTypes, DB!Enforce, DB!SetFlags, DB!Members
  <1> QED BY <1>1, Zenon DEF DatabaseTypes, Need, Enforces, DB!Flags, DB!NEED, DB!ENFORCING

\* NoEnforce on one server clears its flag and nothing else.
LEMMA NoEnforceEffect ==
    ASSUME DatabaseTypes, NEW n \in Nodes, DB!NoEnforce({n})
    PROVE  /\ DatabaseTypes' /\ obj'.cur = obj.cur /\ obj'.rec = obj.rec
           /\ \A m \in Nodes : /\ Need(m)' <=> Need(m)
                               /\ Enforces(m)' <=> Enforces(m) /\ m # n
  <1>1. obj' = [obj EXCEPT !.flags = [obj.flags EXCEPT ![n] = @ \ {DB!ENFORCING}]]
    BY Zenon DEF DatabaseTypes, DB!NoEnforce, DB!SetFlags, DB!Members
  <1> QED BY <1>1, Zenon DEF DatabaseTypes, Need, Enforces, DB!Flags, DB!NEED, DB!ENFORCING

\* The server needs the grace period, the one in effect or a new one.
LEMMA JoinEffect ==
    ASSUME DatabaseTypes, NEW n \in Nodes, DB!Join({n}) \/ DB!Start({n})
    PROVE  /\ DatabaseTypes'
           /\ IF obj.rec = 0 THEN obj'.rec = obj.cur /\ obj'.cur = obj.cur + 1
                             ELSE obj'.rec = obj.rec /\ obj'.cur = obj.cur
           /\ \A m \in Nodes : /\ Need(m)' <=> Need(m) \/ m = n
                               /\ Enforces(m)' <=> Enforces(m) \/ m = n
  <1>1. CASE DB!Join({n})
    <2>1. obj' = [obj EXCEPT !.flags = [obj.flags EXCEPT ![n] = DB!Flags]] /\ obj.rec # 0
      BY <1>1, Zenon DEF DatabaseTypes, DB!Join, DB!SetFlags, DB!Members
    <2> QED BY <2>1, Zenon DEF DatabaseTypes, Need, Enforces, DB!Flags, DB!NEED, DB!ENFORCING
  <1>2. CASE DB!Start({n})
    <2> DEFINE o == [obj EXCEPT !.flags = [obj.flags EXCEPT ![n] = DB!Flags]]
    <2>0. /\ o \in [cur : Nat, rec : Nat, flags : [Nodes -> SUBSET DB!Flags]]
          /\ o.flags = [obj.flags EXCEPT ![n] = DB!Flags]
          /\ DB!SetFlags(obj, [m \in {n} |-> DB!Flags]) = o
      BY Zenon DEF DatabaseTypes, DB!SetFlags, DB!Members
    <2>a. /\ obj.rec = 0
          /\ obj' = [o EXCEPT !.rec = obj.cur, !.cur = obj.cur + 1]
      BY <1>2, <2>0, Zenon DEF DB!Start
    <2> HIDE DEF o
    <2>1. /\ obj.rec = 0 /\ obj'.rec = obj.cur /\ obj'.cur = obj.cur + 1
          /\ obj'.flags = [obj.flags EXCEPT ![n] = DB!Flags]
          /\ obj' \in [cur : Nat, rec : Nat, flags : [Nodes -> SUBSET DB!Flags]]
      <3>1. obj' = [cur |-> obj.cur + 1, rec |-> obj.cur, flags |-> o.flags]
        BY <2>0, <2>a, Zenon
      <3> QED BY <2>0, <2>a, <3>1 DEF DatabaseTypes
    <2> QED BY <2>1 DEF DatabaseTypes, Need, Enforces, DB!Flags, DB!NEED, DB!ENFORCING
  <1> QED BY <1>1, <1>2, Zenon

\* The server does not need it any more, and it ends if nobody does.
LEMMA LiftEffect ==
    ASSUME DatabaseTypes, NEW n \in Nodes, DB!Lift({n})
    PROVE  /\ DatabaseTypes' /\ obj'.cur = obj.cur
           /\ \A m \in Nodes : /\ Need(m)' <=> Need(m) /\ m # n
                               /\ Enforces(m)' <=> Enforces(m)
           /\ IF \E m \in Nodes : Need(m)' THEN obj'.rec = obj.rec ELSE obj'.rec = 0
  <1> DEFINE o == [obj EXCEPT !.flags = [obj.flags EXCEPT ![n] = @ \ {DB!NEED}]]
  <1>1. /\ o \in [cur : Nat, rec : Nat, flags : [Nodes -> SUBSET DB!Flags]]
        /\ o.cur = obj.cur /\ o.rec = obj.rec
        /\ o.flags = [obj.flags EXCEPT ![n] = @ \ {DB!NEED}]
        /\ DB!SetFlags(obj, [m \in {n} |-> obj.flags[m] \ {DB!NEED}]) = o
    BY Zenon DEF DatabaseTypes, DB!SetFlags, DB!Members
  <1>2. obj' = DB!EndIfUnneeded(o)
    BY <1>1, Zenon DEF DB!Lift
  <1> HIDE DEF o
  <1>3. DB!With(o, DB!NEED) = {m \in Nodes : DB!NEED \in o.flags[m]}
    BY <1>1, Zenon DEF DB!With, DB!Members
  <1>4. /\ obj'.cur = o.cur /\ obj'.flags = o.flags
        /\ obj'.rec = IF DB!With(o, DB!NEED) = {} THEN 0 ELSE o.rec
        /\ obj' \in [cur : Nat, rec : Nat, flags : [Nodes -> SUBSET DB!Flags]]
    BY <1>1, <1>2, Zenon DEF DB!EndIfUnneeded
  <1>5. \A m \in Nodes : /\ Need(m)' <=> Need(m) /\ m # n
                         /\ Enforces(m)' <=> Enforces(m)
                         /\ Need(m)' <=> m \in DB!With(o, DB!NEED)
    BY <1>1, <1>3, <1>4 DEF DatabaseTypes, Need, Enforces, DB!Flags, DB!NEED,
       DB!ENFORCING
  <1> QED BY <1>1, <1>3, <1>4, <1>5, Zenon DEF DatabaseTypes

\* Which servers need and enforce the grace period, by the database.
LEMMA Records ==
    ASSUME DatabaseTypes
    PROVE  /\ DB!Members(obj) = Nodes
           /\ DB!With(obj, DB!NEED) = {m \in Nodes : Need(m)}
           /\ DB!With(obj, DB!ENFORCING) = {m \in Nodes : Enforces(m)}
           /\ AllEnforcing <=> \A m \in Nodes : Enforces(m)
  BY Zenon DEF DatabaseTypes, DB!With, DB!Members, Need, Enforces, AllEnforcing

-----------------------------------------------------------------------------
(* Steps that leave a part of the system alone.                            *)

\* The grace database.
LEMMA SameDatabase ==
    ASSUME IInv, obj' = obj
    PROVE  /\ DatabaseTypes' /\ Period'
           /\ \A m \in Nodes : (Need(m)' <=> Need(m)) /\ (Enforces(m)' <=> Enforces(m))
  <1>1. \A m \in Nodes : (Need(m)' <=> Need(m)) /\ (Enforces(m)' <=> Enforces(m))
    BY Zenon DEF Need, Enforces
  <1> QED BY <1>1, Zenon DEF IInv, DatabaseTypes, Period

\* The servers and the database.
LEMMA SameServers ==
    ASSUME IInv, UNCHANGED <<obj, stage, exported, active, change_req, recov_oid,
                             old_oid,
                            failures>>
    PROVE  DatabaseTypes' /\ ServerTypes' /\ Period' /\ Starts' /\ Places'
  <1>1. /\ DatabaseTypes' /\ Period'
        /\ \A m \in Nodes : (Need(m)' <=> Need(m)) /\ (Enforces(m)' <=> Enforces(m))
    BY SameDatabase, Zenon
  <1>2. ServerTypes'
    BY Zenon DEF IInv, ServerTypes
  <1>3. Starts'
    <2>1. Owing' \subseteq Owing
      BY <1>1, Zenon DEF Owing
    <2> QED BY <2>1, StartsKept, Zenon DEF IInv
  <1>4. Places'
    BY <1>1, Zenon DEF IInv, Places
  <1> QED BY <1>1, <1>2, <1>3, <1>4, Zenon

-----------------------------------------------------------------------------
(* Startup.                                                                *)

\* The local grace period starts.
LEMMA BootKeeps ==
    ASSUME IInv, NEW n \in Nodes, Boot(n)
    PROVE  IInv'
  <1>1. /\ stage[n] = "down"
        /\ stage' = [stage EXCEPT ![n] = "enforce"]
        /\ active' = active \cup {n}
        /\ UNCHANGED <<obj, exported, change_req, recov_oid, old_oid, recdb, live,
                       pend, snap, clid_list, held, lost, failures>>
    BY Zenon DEF Boot, At, Goto, local, clients
  <1> USE <1>1
  <1>2. /\ DatabaseTypes' /\ Period'
        /\ \A m \in Nodes : (Need(m)' <=> Need(m)) /\ (Enforces(m)' <=> Enforces(m))
    BY SameDatabase, Zenon
  <1>12. ServerTypes'
    BY <1>2, Zenon DEF IInv, ServerTypes, Stages
  <1>13. ClientTypes'
    BY <1>2, Zenon DEF IInv, ClientTypes
  <1>15. Starts'
    <2>1. Owing' \subseteq Owing
      BY <1>2, Zenon DEF IInv, ServerTypes, Owing, Unjoined
    <2> QED BY <2>1, <1>2, StartsKept, Zenon DEF IInv
  <1>16. Places'
    BY <1>2, Zenon DEF IInv, ServerTypes, Places, Booting, Unjoined, Leaving
  <1>17. Calm'
    BY <1>2, Zenon DEF IInv, ServerTypes, ClientTypes, Calm
  <1>18. OneFailure'
    <2> SUFFICES ASSUME failures' = 1 PROVE \E f \in Nodes : Failed(f)'
      BY Zenon DEF OneFailure
    <2>1. PICK f \in Nodes : Failed(f)
      BY Zenon DEF IInv, OneFailure
    <2>2. Failed(f)'
      BY <1>2, <2>1
        DEF IInv, ServerTypes, ClientTypes, Period, Places, Failed, Booting,
            Unjoined, Leaving
    <2> QED BY <2>2, Zenon
  <1> QED BY <1>2, <1>12, <1>13, <1>15, <1>16, <1>17, <1>18, Zenon DEF IInv

\* ENFORCING is set before the records are loaded.
LEMMA BootEnforceKeeps ==
    ASSUME IInv, NEW n \in Nodes, BootEnforce(n)
    PROVE  IInv'
  <1>1. /\ stage[n] = "enforce"
        /\ stage' = [stage EXCEPT ![n] = "join"]
        /\ DB!Enforce({n})
        /\ UNCHANGED <<exported, active, change_req, recov_oid, old_oid, recdb,
                       live, pend, snap, clid_list, held, lost, failures>>
    BY Zenon DEF BootEnforce, At, Goto, local, clients
  <1> USE <1>1
  <1>2. /\ DatabaseTypes' /\ obj'.cur = obj.cur /\ obj'.rec = obj.rec
        /\ \A m \in Nodes : /\ Need(m)' <=> Need(m)
                            /\ Enforces(m)' <=> Enforces(m) \/ m = n
    BY EnforceEffect, Zenon DEF IInv
  <1>11. DatabaseTypes'
    BY <1>2, Zenon
  <1>12. ServerTypes'
    BY <1>2, Zenon DEF IInv, ServerTypes, Stages
  <1>13. ClientTypes'
    BY <1>2, Zenon DEF IInv, ClientTypes
  <1>14. Period'
    BY <1>2, Zenon DEF IInv, Period
  <1>15. Starts'
    <2>1. Owing' \subseteq Owing
      BY <1>2, Zenon DEF IInv, ServerTypes, Owing, Unjoined
    <2> QED BY <2>1, <1>2, StartsKept, Zenon DEF IInv
  <1>16. Places'
    BY <1>2, Zenon DEF IInv, ServerTypes, Places, Booting, Unjoined, Leaving
  <1>17. Calm'
    BY <1>2, Zenon DEF IInv, ServerTypes, ClientTypes, Calm
  <1>18. OneFailure'
    <2> SUFFICES ASSUME failures' = 1 PROVE \E f \in Nodes : Failed(f)'
      BY Zenon DEF OneFailure
    <2>1. PICK f \in Nodes : Failed(f)
      BY Zenon DEF IInv, OneFailure
    <2>2. Failed(f)'
      BY <1>2, <2>1
        DEF IInv, ServerTypes, ClientTypes, Period, Places, Failed, Booting,
            Unjoined, Leaving
    <2> QED BY <2>2, Zenon
  <1> QED BY <1>2, <1>11, <1>12, <1>13, <1>14, <1>15, <1>16, <1>17, <1>18, Zenon DEF IInv

\* The new recovery database is not the one to read from.
LEMMA BootCreateKeeps ==
    ASSUME IInv, NEW n \in Nodes, BootCreate(n)
    PROVE  IInv'
  <1>1. /\ stage[n] = "create"
        /\ stage' = [stage EXCEPT ![n] = "read"]
        /\ recdb' = [recdb EXCEPT ![recov_oid[n]][n] = {}]
        /\ UNCHANGED <<obj, exported, active, change_req, recov_oid, old_oid, live,
                       pend, snap, clid_list, held, lost, failures>>
    BY Zenon DEF BootCreate, At, Goto, local, clients
  <1> USE <1>1
  <1>2. /\ DatabaseTypes' /\ Period'
        /\ \A m \in Nodes : (Need(m)' <=> Need(m)) /\ (Enforces(m)' <=> Enforces(m))
    BY SameDatabase, Zenon
  <1>3. Need(n) /\ recov_oid[n] = obj.cur /\ obj.cur # FirstEpoch
    BY DEF IInv, Places, Period, DatabaseTypes, FirstEpoch
  <1>12. ServerTypes'
    BY <1>2, <1>3, Zenon DEF IInv, ServerTypes, Stages
  <1>13. ClientTypes'
    BY <1>2, <1>3, Zenon DEF IInv, ClientTypes
  <1>15. Starts'
    <2>1. Owing' \subseteq Owing
      BY <1>2, <1>3, Zenon DEF IInv, ServerTypes, Owing, Unjoined
    <2> QED BY <2>1, <1>2, <1>3, StartsKept, Zenon DEF IInv
  <1>16. Places'
    BY <1>2, <1>3, Zenon DEF IInv, ServerTypes, Places, Booting, Unjoined, Leaving
  <1>17. Calm'
    BY <1>2, <1>3, Zenon DEF IInv, ServerTypes, ClientTypes, Calm
  <1>18. OneFailure'
    <2> SUFFICES ASSUME failures' = 1 PROVE \E f \in Nodes : Failed(f)'
      BY Zenon DEF OneFailure
    <2>1. PICK f \in Nodes : Failed(f)
      BY Zenon DEF IInv, OneFailure
    <2>2. Failed(f)'
      BY <1>2, <1>3, <2>1
        DEF IInv, ServerTypes, ClientTypes, Period, Places, Failed, Booting,
            Unjoined, Leaving
    <2> QED BY <2>2, Zenon
  <1> QED BY <1>2, <1>12, <1>13, <1>15, <1>16, <1>17, <1>18, Zenon DEF IInv

\* The clients recorded for the recovery epoch may reclaim.
LEMMA BootReadKeeps ==
    ASSUME IInv, NEW n \in Nodes, BootRead(n)
    PROVE  IInv'
  <1>1. /\ stage[n] = "read"
        /\ stage' = [stage EXCEPT ![n] = "idle"]
        /\ clid_list' = [clid_list EXCEPT ![n] = recdb[old_oid[n]][n]]
        /\ UNCHANGED <<obj, exported, active, change_req, recov_oid, old_oid, recdb,
                       live, pend, snap, held, lost, failures>>
    BY Zenon DEF BootRead, At, Goto, local, clients
  <1> USE <1>1
  <1>2. /\ DatabaseTypes' /\ Period'
        /\ \A m \in Nodes : (Need(m)' <=> Need(m)) /\ (Enforces(m)' <=> Enforces(m))
    BY SameDatabase, Zenon
  <1>3. Need(n) /\ old_oid[n] = obj.rec /\ obj.rec # 0 /\ old_oid[n] \in Epochs
    BY Zenon DEF IInv, Places, Period, ServerTypes
  <1>4. failures = 1 => old_oid[n] = FirstEpoch
    <2>1. Cardinality(Owing) \in Nat
      BY Fewer, Zenon DEF Owing
    <2> QED BY <2>1, <1>3 DEF IInv, Starts, Period, DatabaseTypes, FirstEpoch
  <1>12. ServerTypes'
    BY <1>2, <1>3, <1>4, Zenon DEF IInv, ServerTypes, Stages
  <1>13. ClientTypes'
    BY <1>2, <1>3, <1>4 DEF IInv, ClientTypes
  <1>15. Starts'
    <2>1. Owing' \subseteq Owing
      BY <1>2, <1>3, <1>4, Zenon DEF IInv, ServerTypes, Owing, Unjoined
    <2> QED BY <2>1, <1>2, <1>3, <1>4, StartsKept, Zenon DEF IInv
  <1>16. Places'
    BY <1>2, <1>3, <1>4, Zenon DEF IInv, ServerTypes, Places, Booting, Unjoined, Leaving
  <1>17. Calm'
    BY <1>2, <1>3, <1>4, Zenon DEF IInv, ServerTypes, ClientTypes, Calm
  <1>18. OneFailure'
    <2> SUFFICES ASSUME failures' = 1 PROVE \E f \in Nodes : Failed(f)'
      BY Zenon DEF OneFailure
    <2>1. PICK f \in Nodes : Failed(f)
      BY Zenon DEF IInv, OneFailure
    <2>2. Failed(f)'
      BY <1>2, <1>3, <1>4, <2>1
        DEF IInv, ServerTypes, ClientTypes, Period, Places, Failed, Booting,
            Unjoined, Leaving
    <2> QED BY <2>2, Zenon
  <1> QED BY <1>2, <1>12, <1>13, <1>15, <1>16, <1>17, <1>18, Zenon DEF IInv

\* Exports are loaded once all servers enforce the grace period.
LEMMA ReadExportsKeeps ==
    ASSUME IInv, NEW n \in Nodes, ReadExports(n)
    PROVE  IInv'
  <1>1. /\ stage[n] = "idle"
        /\ n \notin exported
        /\ n \in active => AllEnforcing
        /\ exported' = exported \cup {n}
        /\ UNCHANGED <<obj, stage, active, change_req, recov_oid, old_oid, recdb,
                       live, pend, snap, clid_list, held, lost, failures>>
    BY Zenon DEF ReadExports, At, Goto, local, clients
  <1> USE <1>1
  <1>2. /\ DatabaseTypes' /\ Period'
        /\ \A m \in Nodes : (Need(m)' <=> Need(m)) /\ (Enforces(m)' <=> Enforces(m))
    BY SameDatabase, Zenon
  <1>3. n \in active => \A m \in Nodes : Enforces(m)
    BY Records, Zenon DEF IInv
  <1>12. ServerTypes'
    BY <1>2, <1>3, Zenon DEF IInv, ServerTypes, Stages
  <1>13. ClientTypes'
    BY <1>2, <1>3, Zenon DEF IInv, ClientTypes
  <1>15. Starts'
    <2>1. Owing' \subseteq Owing
      BY <1>2, <1>3, Zenon DEF IInv, ServerTypes, Owing, Unjoined
    <2> QED BY <2>1, <1>2, <1>3, StartsKept, Zenon DEF IInv
  <1>16. Places'
    BY <1>2, <1>3, Zenon DEF IInv, ServerTypes, Places, Booting, Unjoined, Leaving
  <1>17. Calm'
    BY <1>2, <1>3, Zenon DEF IInv, ServerTypes, ClientTypes, Calm
  <1>18. OneFailure'
    <2> SUFFICES ASSUME failures' = 1 PROVE \E f \in Nodes : Failed(f)'
      BY Zenon DEF OneFailure
    <2>1. PICK f \in Nodes : Failed(f)
      BY Zenon DEF IInv, OneFailure
    <2>2. Failed(f)'
      BY <1>2, <1>3, <2>1
        DEF IInv, ServerTypes, ClientTypes, Period, Places, Failed, Booting,
            Unjoined, Leaving
    <2> QED BY <2>2, Zenon
  <1> QED BY <1>2, <1>12, <1>13, <1>15, <1>16, <1>17, <1>18, Zenon DEF IInv

-----------------------------------------------------------------------------
(* The reaper notices a grace period.                                      *)

\* A server that has left the grace period takes part in a new one.
LEMMA NoticeGraceKeeps ==
    ASSUME IInv, NEW n \in Nodes, NoticeGrace(n)
    PROVE  IInv'
  <1>1. /\ stage[n] = "idle"
        /\ n \in exported
        /\ n \notin active
        /\ obj.rec # 0
        /\ stage' = [stage EXCEPT ![n] = "copy"]
        /\ recov_oid' = [recov_oid EXCEPT ![n] = obj.cur]
        /\ old_oid' = [old_oid EXCEPT ![n] = obj.rec]
        /\ snap' = [snap EXCEPT ![n] = live[n]]
        /\ UNCHANGED <<obj, exported, active, change_req, recdb, live, pend,
                       clid_list, held, lost, failures>>
    BY Zenon DEF NoticeGrace, At, Goto, local, clients
  <1> USE <1>1
  <1>2. /\ DatabaseTypes' /\ Period'
        /\ \A m \in Nodes : (Need(m)' <=> Need(m)) /\ (Enforces(m)' <=> Enforces(m))
    BY SameDatabase, Zenon
  <1>3. obj.cur \in Epochs /\ obj.rec \in Epochs
    BY EpochsSuffice, Zenon DEF IInv
  <1>12. ServerTypes'
    BY <1>2, <1>3, Zenon DEF IInv, ServerTypes, Stages
  <1>13. ClientTypes'
    BY <1>2, <1>3, Zenon DEF IInv, ClientTypes
  <1>15. Starts'
    <2>1. Owing' \subseteq Owing
      BY <1>2, <1>3, Zenon DEF IInv, ServerTypes, Owing, Unjoined
    <2> QED BY <2>1, <1>2, <1>3, StartsKept, Zenon DEF IInv
  <1>16. Places'
    BY <1>2, <1>3, Zenon DEF IInv, ServerTypes, Places, Booting, Unjoined, Leaving
  <1>17. Calm'
    BY <1>2, <1>3, Zenon DEF IInv, ServerTypes, ClientTypes, Calm
  <1>18. OneFailure'
    <2> SUFFICES ASSUME failures' = 1 PROVE \E f \in Nodes : Failed(f)'
      BY Zenon DEF OneFailure
    <2>1. PICK f \in Nodes : Failed(f)
      BY Zenon DEF IInv, OneFailure
    <2>2. Failed(f)'
      BY <1>2, <1>3, <2>1
        DEF IInv, ServerTypes, ClientTypes, Period, Places, Failed, Booting,
            Unjoined, Leaving
    <2> QED BY <2>2, Zenon
  <1> QED BY <1>2, <1>12, <1>13, <1>15, <1>16, <1>17, <1>18, Zenon DEF IInv

\* Its clients are recorded under the new epoch.
LEMMA CopyClientsKeeps ==
    ASSUME IInv, NEW n \in Nodes, CopyClients(n)
    PROVE  IInv'
  <1>1. /\ stage[n] = "copy"
        /\ stage' = [stage EXCEPT ![n] = "begin"]
        /\ recdb' = [recdb EXCEPT ![recov_oid[n]][n] = snap[n]]
        /\ snap' = [snap EXCEPT ![n] = {}]
        /\ UNCHANGED <<obj, exported, active, change_req, recov_oid, old_oid, live,
                       pend, clid_list, held, lost, failures>>
    BY Zenon DEF CopyClients, At, Goto, local, clients
  <1> USE <1>1
  <1>2. /\ DatabaseTypes' /\ Period'
        /\ \A m \in Nodes : (Need(m)' <=> Need(m)) /\ (Enforces(m)' <=> Enforces(m))
    BY SameDatabase, Zenon
  <1>12. ServerTypes'
    BY <1>2, Zenon DEF IInv, ServerTypes, Stages
  <1>13. ClientTypes'
    BY <1>2, Zenon DEF IInv, ClientTypes
  <1>15. Starts'
    <2>1. Owing' \subseteq Owing
      BY <1>2, Zenon DEF IInv, ServerTypes, Owing, Unjoined
    <2> QED BY <2>1, <1>2, StartsKept, Zenon DEF IInv
  <1>16. Places'
    BY <1>2, Zenon DEF IInv, ServerTypes, Places, Booting, Unjoined, Leaving
  <1>17. Calm'
    BY <1>2, Zenon DEF IInv, ServerTypes, ClientTypes, Calm
  <1>18. OneFailure'
    <2> SUFFICES ASSUME failures' = 1 PROVE \E f \in Nodes : Failed(f)'
      BY Zenon DEF OneFailure
    <2>1. PICK f \in Nodes : Failed(f)
      BY Zenon DEF IInv, OneFailure
    <2>2. Failed(f)'
      BY <1>2, <2>1
        DEF IInv, ServerTypes, ClientTypes, Period, Places, Failed, Booting,
            Unjoined, Leaving
    <2> QED BY <2>2, Zenon
  <1> QED BY <1>2, <1>12, <1>13, <1>15, <1>16, <1>17, <1>18, Zenon DEF IInv

\* The grace period cannot start yet.
LEMMA BeginRefusedKeeps ==
    ASSUME IInv, NEW n \in Nodes, BeginRefused(n)
    PROVE  IInv'
  <1>1. /\ stage[n] = "begin"
        /\ stage' = [stage EXCEPT ![n] = "idle"]
        /\ UNCHANGED <<obj, exported, active, change_req, recov_oid, old_oid, recdb,
                       live, pend, snap, clid_list, held, lost, failures>>
    BY Zenon DEF BeginRefused, At, Goto, local, clients
  <1> USE <1>1
  <1>2. /\ DatabaseTypes' /\ Period'
        /\ \A m \in Nodes : (Need(m)' <=> Need(m)) /\ (Enforces(m)' <=> Enforces(m))
    BY SameDatabase, Zenon
  <1>12. ServerTypes'
    BY <1>2, Zenon DEF IInv, ServerTypes, Stages
  <1>13. ClientTypes'
    BY <1>2, Zenon DEF IInv, ClientTypes
  <1>15. Starts'
    <2>1. Owing' \subseteq Owing
      BY <1>2, Zenon DEF IInv, ServerTypes, Owing, Unjoined
    <2> QED BY <2>1, <1>2, StartsKept, Zenon DEF IInv
  <1>16. Places'
    BY <1>2, Zenon DEF IInv, ServerTypes, Places, Booting, Unjoined, Leaving
  <1>17. Calm'
    BY <1>2, Zenon DEF IInv, ServerTypes, ClientTypes, Calm
  <1>18. OneFailure'
    <2> SUFFICES ASSUME failures' = 1 PROVE \E f \in Nodes : Failed(f)'
      BY Zenon DEF OneFailure
    <2>1. PICK f \in Nodes : Failed(f)
      BY Zenon DEF IInv, OneFailure
    <2>2. Failed(f)'
      BY <1>2, <2>1
        DEF IInv, ServerTypes, ClientTypes, Period, Places, Failed, Booting,
            Unjoined, Leaving
    <2> QED BY <2>2, Zenon
  <1> QED BY <1>2, <1>12, <1>13, <1>15, <1>16, <1>17, <1>18, Zenon DEF IInv

\* ACTIVE is set ...
LEMMA BeginGraceKeeps ==
    ASSUME IInv, NEW n \in Nodes, BeginGrace(n)
    PROVE  IInv'
  <1>1. /\ stage[n] = "begin"
        /\ stage' = [stage EXCEPT ![n] = "flag"]
        /\ active' = active \cup {n}
        /\ UNCHANGED <<obj, exported, change_req, recov_oid, old_oid, recdb, live,
                       pend, snap, clid_list, held, lost, failures>>
    BY Zenon DEF BeginGrace, At, Goto, local, clients
  <1> USE <1>1
  <1>2. /\ DatabaseTypes' /\ Period'
        /\ \A m \in Nodes : (Need(m)' <=> Need(m)) /\ (Enforces(m)' <=> Enforces(m))
    BY SameDatabase, Zenon
  <1>12. ServerTypes'
    BY <1>2, Zenon DEF IInv, ServerTypes, Stages
  <1>13. ClientTypes'
    BY <1>2, Zenon DEF IInv, ClientTypes
  <1>15. Starts'
    <2>1. Owing' \subseteq Owing
      BY <1>2, Zenon DEF IInv, ServerTypes, Owing, Unjoined
    <2> QED BY <2>1, <1>2, StartsKept, Zenon DEF IInv
  <1>16. Places'
    BY <1>2, Zenon DEF IInv, ServerTypes, Places, Booting, Unjoined, Leaving
  <1>17. Calm'
    BY <1>2, Zenon DEF IInv, ServerTypes, ClientTypes, Calm
  <1>18. OneFailure'
    <2> SUFFICES ASSUME failures' = 1 PROVE \E f \in Nodes : Failed(f)'
      BY Zenon DEF OneFailure
    <2>1. PICK f \in Nodes : Failed(f)
      BY Zenon DEF IInv, OneFailure
    <2>2. Failed(f)'
      BY <1>2, <2>1
        DEF IInv, ServerTypes, ClientTypes, Period, Places, Failed, Booting,
            Unjoined, Leaving
    <2> QED BY <2>2, Zenon
  <1> QED BY <1>2, <1>12, <1>13, <1>15, <1>16, <1>17, <1>18, Zenon DEF IInv

\* ... before ENFORCING.
LEMMA FlagEnforcingKeeps ==
    ASSUME IInv, NEW n \in Nodes, FlagEnforcing(n)
    PROVE  IInv'
  <1>1. /\ stage[n] = "flag"
        /\ stage' = [stage EXCEPT ![n] = "idle"]
        /\ DB!Enforce({n})
        /\ UNCHANGED <<exported, active, change_req, recov_oid, old_oid, recdb,
                       live, pend, snap, clid_list, held, lost, failures>>
    BY Zenon DEF FlagEnforcing, At, Goto, local, clients
  <1> USE <1>1
  <1>2. /\ DatabaseTypes' /\ obj'.cur = obj.cur /\ obj'.rec = obj.rec
        /\ \A m \in Nodes : /\ Need(m)' <=> Need(m)
                            /\ Enforces(m)' <=> Enforces(m) \/ m = n
    BY EnforceEffect, Zenon DEF IInv
  <1>11. DatabaseTypes'
    BY <1>2, Zenon
  <1>12. ServerTypes'
    BY <1>2, Zenon DEF IInv, ServerTypes, Stages
  <1>13. ClientTypes'
    BY <1>2, Zenon DEF IInv, ClientTypes
  <1>14. Period'
    BY <1>2, Zenon DEF IInv, Period
  <1>15. Starts'
    <2>1. Owing' \subseteq Owing
      BY <1>2, Zenon DEF IInv, ServerTypes, Owing, Unjoined
    <2> QED BY <2>1, <1>2, StartsKept, Zenon DEF IInv
  <1>16. Places'
    BY <1>2, Zenon DEF IInv, ServerTypes, Places, Booting, Unjoined, Leaving
  <1>17. Calm'
    BY <1>2, Zenon DEF IInv, ServerTypes, ClientTypes, Calm
  <1>18. OneFailure'
    <2> SUFFICES ASSUME failures' = 1 PROVE \E f \in Nodes : Failed(f)'
      BY Zenon DEF OneFailure
    <2>1. PICK f \in Nodes : Failed(f)
      BY Zenon DEF IInv, OneFailure
    <2>2. Failed(f)'
      BY <1>2, <2>1
        DEF IInv, ServerTypes, ClientTypes, Period, Places, Failed, Booting,
            Unjoined, Leaving
    <2> QED BY <2>2, Zenon
  <1> QED BY <1>2, <1>11, <1>12, <1>13, <1>14, <1>15, <1>16, <1>17, <1>18, Zenon DEF IInv

-----------------------------------------------------------------------------
(* The end of the grace period.                                            *)

\* No more reclaims are admitted.
LEMMA LiftPendingKeeps ==
    ASSUME IInv, NEW n \in Nodes, LiftPending(n)
    PROVE  IInv'
  <1>1. /\ stage[n] = "idle"
        /\ n \in active \ change_req
        /\ change_req' = change_req \cup {n}
        /\ UNCHANGED <<obj, stage, exported, active, recov_oid, old_oid, recdb,
                       live, pend, snap, clid_list, held, lost, failures>>
    BY Zenon DEF LiftPending, At, Goto, local, clients
  <1> USE <1>1
  <1>2. /\ DatabaseTypes' /\ Period'
        /\ \A m \in Nodes : (Need(m)' <=> Need(m)) /\ (Enforces(m)' <=> Enforces(m))
    BY SameDatabase, Zenon
  <1>12. ServerTypes'
    BY <1>2, Zenon DEF IInv, ServerTypes, Stages
  <1>13. ClientTypes'
    BY <1>2, Zenon DEF IInv, ClientTypes
  <1>15. Starts'
    <2>1. Owing' \subseteq Owing
      BY <1>2, Zenon DEF IInv, ServerTypes, Owing, Unjoined
    <2> QED BY <2>1, <1>2, StartsKept, Zenon DEF IInv
  <1>16. Places'
    BY <1>2, Zenon DEF IInv, ServerTypes, Places, Booting, Unjoined, Leaving
  <1>17. Calm'
    BY <1>2, Zenon DEF IInv, ServerTypes, ClientTypes, Calm
  <1>18. OneFailure'
    <2> SUFFICES ASSUME failures' = 1 PROVE \E f \in Nodes : Failed(f)'
      BY Zenon DEF OneFailure
    <2>1. PICK f \in Nodes : Failed(f)
      BY Zenon DEF IInv, OneFailure
    <2>2. Failed(f)'
      BY <1>2, <2>1, Zenon
        DEF IInv, ServerTypes, ClientTypes, Period, Places, Failed, Booting,
            Unjoined, Leaving
    <2> QED BY <2>2, Zenon
  <1> QED BY <1>2, <1>12, <1>13, <1>15, <1>16, <1>17, <1>18, Zenon DEF IInv

\* ENFORCING is cleared, since a server that leaves has a recovery epoch.
LEMMA EndEnforcingKeeps ==
    ASSUME IInv, NEW n \in Nodes, EndEnforcing(n)
    PROVE  IInv'
  <1>1. /\ stage[n] = "off"
        /\ stage' = [stage EXCEPT ![n] = IF old_oid[n] = 0 THEN "clear" ELSE "remove"]
        /\ IF old_oid[n] = 0 THEN UNCHANGED obj ELSE DB!NoEnforce({n})
        /\ UNCHANGED <<exported, active, change_req, recov_oid, old_oid, recdb,
                       live, pend, snap, clid_list, held, lost, failures>>
    BY Zenon DEF EndEnforcing, At, Goto, local, clients
  <1> USE <1>1
  <1>2. /\ old_oid[n] # 0 /\ DatabaseTypes' /\ obj'.cur = obj.cur /\ obj'.rec = obj.rec
        /\ \A m \in Nodes : /\ Need(m)' <=> Need(m)
                            /\ Enforces(m)' <=> Enforces(m) /\ m # n
    <2>1. old_oid[n] # 0
      BY Zenon DEF IInv, Places, Leaving
    <2> QED BY <2>1, NoEnforceEffect, Zenon DEF IInv
  <1>11. DatabaseTypes'
    BY <1>2, Zenon
  <1>12. ServerTypes'
    BY <1>2, Zenon DEF IInv, ServerTypes, Stages
  <1>13. ClientTypes'
    BY <1>2, Zenon DEF IInv, ClientTypes
  <1>14. Period'
    BY <1>2, Zenon DEF IInv, Period
  <1>15. Starts'
    <2>1. Owing' \subseteq Owing
      BY <1>2, Zenon DEF IInv, ServerTypes, Owing, Unjoined
    <2> QED BY <2>1, <1>2, StartsKept, Zenon DEF IInv
  <1>16. Places'
    BY <1>2, Zenon DEF IInv, ServerTypes, Places, Booting, Unjoined, Leaving
  <1>17. Calm'
    BY <1>2, Zenon DEF IInv, ServerTypes, ClientTypes, Calm
  <1>18. OneFailure'
    <2> SUFFICES ASSUME failures' = 1 PROVE \E f \in Nodes : Failed(f)'
      BY Zenon DEF OneFailure
    <2>1. PICK f \in Nodes : Failed(f)
      BY Zenon DEF IInv, OneFailure
    <2>2. Failed(f)'
      BY <1>2, <2>1
        DEF IInv, ServerTypes, ClientTypes, Period, Places, Failed, Booting,
            Unjoined, Leaving
    <2> QED BY <2>2, Zenon
  <1> QED BY <1>2, <1>11, <1>12, <1>13, <1>14, <1>15, <1>16, <1>17, <1>18, Zenon DEF IInv

\* Nobody needs the records that are removed.
LEMMA RemoveOldKeeps ==
    ASSUME IInv, NEW n \in Nodes, RemoveOld(n)
    PROVE  IInv'
  <1>1. /\ stage[n] = "remove"
        /\ stage' = [stage EXCEPT ![n] = "clear"]
        /\ recdb' = [recdb EXCEPT ![old_oid[n]][n] = {}]
        /\ old_oid' = [old_oid EXCEPT ![n] = 0]
        /\ UNCHANGED <<obj, exported, active, change_req, recov_oid, live, pend,
                       snap, clid_list, held, lost, failures>>
    BY Zenon DEF RemoveOld, At, Goto, local, clients
  <1> USE <1>1
  <1>2. /\ DatabaseTypes' /\ Period'
        /\ \A m \in Nodes : (Need(m)' <=> Need(m)) /\ (Enforces(m)' <=> Enforces(m))
    BY SameDatabase, Zenon
  <1>12. ServerTypes'
    BY <1>2, Zenon DEF IInv, ServerTypes, Stages
  <1>13. ClientTypes'
    BY <1>2, Zenon DEF IInv, ClientTypes
  <1>15. Starts'
    <2>1. Owing' \subseteq Owing
      BY <1>2, Zenon DEF IInv, ServerTypes, Owing, Unjoined
    <2> QED BY <2>1, <1>2, StartsKept, Zenon DEF IInv
  <1>16. Places'
    BY <1>2, Zenon DEF IInv, ServerTypes, Places, Booting, Unjoined, Leaving
  <1>17. Calm'
    BY <1>2, Zenon DEF IInv, ServerTypes, ClientTypes, Calm
  <1>18. OneFailure'
    <2> SUFFICES ASSUME failures' = 1 PROVE \E f \in Nodes : Failed(f)'
      BY Zenon DEF OneFailure
    <2>1. PICK f \in Nodes : Failed(f)
      BY Zenon DEF IInv, OneFailure
    <2>2. Failed(f)'
      BY <1>2, <2>1
        DEF IInv, ServerTypes, ClientTypes, Period, Places, Failed, Booting,
            Unjoined, Leaving
    <2> QED BY <2>2, Zenon
  <1> QED BY <1>2, <1>12, <1>13, <1>15, <1>16, <1>17, <1>18, Zenon DEF IInv

\* ACTIVE is cleared after ENFORCING.
LEMMA ClearActiveKeeps ==
    ASSUME IInv, NEW n \in Nodes, ClearActive(n)
    PROVE  IInv'
  <1>1. /\ stage[n] = "clear"
        /\ stage' = [stage EXCEPT ![n] = "idle"]
        /\ active' = active \ {n}
        /\ change_req' = change_req \ {n}
        /\ UNCHANGED <<obj, exported, recov_oid, old_oid, recdb, live, pend, snap,
                       clid_list, held, lost, failures>>
    BY Zenon DEF ClearActive, At, Goto, local, clients
  <1> USE <1>1
  <1>2. /\ DatabaseTypes' /\ Period'
        /\ \A m \in Nodes : (Need(m)' <=> Need(m)) /\ (Enforces(m)' <=> Enforces(m))
    BY SameDatabase, Zenon
  <1>12. ServerTypes'
    BY <1>2, Zenon DEF IInv, ServerTypes, Stages
  <1>13. ClientTypes'
    BY <1>2, Zenon DEF IInv, ClientTypes
  <1>15. Starts'
    <2>1. Owing' \subseteq Owing
      BY <1>2, Zenon DEF IInv, ServerTypes, Owing, Unjoined
    <2> QED BY <2>1, <1>2, StartsKept, Zenon DEF IInv
  <1>16. Places'
    BY <1>2 DEF IInv, ServerTypes, Places, Booting, Unjoined, Leaving
  <1>17. Calm'
    BY <1>2, Zenon DEF IInv, ServerTypes, ClientTypes, Calm
  <1>18. OneFailure'
    <2> SUFFICES ASSUME failures' = 1 PROVE \E f \in Nodes : Failed(f)'
      BY Zenon DEF OneFailure
    <2>1. PICK f \in Nodes : Failed(f)
      BY Zenon DEF IInv, OneFailure
    <2>2. Failed(f)'
      BY <1>2, <2>1
        DEF IInv, ServerTypes, ClientTypes, Period, Places, Failed, Booting,
            Unjoined, Leaving
    <2> QED BY <2>2, Zenon
  <1> QED BY <1>2, <1>12, <1>13, <1>15, <1>16, <1>17, <1>18, Zenon DEF IInv

-----------------------------------------------------------------------------
(* Clients.                                                                *)

\* A new client is not recorded yet.
LEMMA ConfirmKeeps ==
    ASSUME IInv, NEW n \in Nodes, NEW c \in Clients, Confirm(n, c)
    PROVE  IInv'
  <1>1. /\ n \in exported
        /\ c \notin live[n]
        /\ live' = [live EXCEPT ![n] = @ \cup {c}]
        /\ pend' = [pend EXCEPT ![n] = @ \cup {c}]
        /\ UNCHANGED <<obj, stage, exported, active, change_req, recov_oid, old_oid,
                       recdb, snap, clid_list, held, lost, failures>>
    BY Zenon DEF Confirm, At, Goto, local, clients
  <1> USE <1>1
  <1>2. DatabaseTypes' /\ ServerTypes' /\ Period' /\ Starts' /\ Places'
    BY SameServers, Zenon
  <1>2a. \A m \in Nodes : (Need(m)' <=> Need(m)) /\ (Enforces(m)' <=> Enforces(m))
    BY SameDatabase, Zenon
  <1>13. ClientTypes'
    BY <1>2 DEF IInv, ClientTypes
  <1>17. Calm'
    BY <1>2, Zenon DEF IInv, ServerTypes, ClientTypes, Calm
  <1>18. OneFailure'
    <2> SUFFICES ASSUME failures' = 1 PROVE \E f \in Nodes : Failed(f)'
      BY Zenon DEF OneFailure
    <2>1. PICK f \in Nodes : Failed(f)
      BY Zenon DEF IInv, OneFailure
    <2>2. Failed(f)'
      BY <1>2a, <2>1, Zenon
        DEF IInv, ServerTypes, ClientTypes, Period, Places, Failed, Booting,
            Unjoined, Leaving
    <2> QED BY <2>2, Zenon
  <1> QED BY <1>2, <1>13, <1>17, <1>18, Zenon DEF IInv

\* It is recorded under the epoch of its server ...
LEMMA AddClidKeeps ==
    ASSUME IInv, NEW n \in Nodes, NEW c \in Clients, AddClid(n, c)
    PROVE  IInv'
  <1>1. /\ c \in pend[n]
        /\ recdb' = [recdb EXCEPT ![recov_oid[n]][n] = @ \cup {c}]
        /\ pend' = [pend EXCEPT ![n] = @ \ {c}]
        /\ UNCHANGED <<obj, stage, exported, active, change_req, recov_oid, old_oid,
                       live, snap, clid_list, held, lost, failures>>
    BY Zenon DEF AddClid, At, Goto, local, clients
  <1> USE <1>1
  <1>2. DatabaseTypes' /\ ServerTypes' /\ Period' /\ Starts' /\ Places'
    BY SameServers, Zenon
  <1>3. /\ recdb' \in [Epochs -> [Nodes -> SUBSET Clients]]
        /\ \A e \in Epochs, m \in Nodes : recdb[e][m] \subseteq recdb'[e][m]
        /\ recov_oid[n] \in Epochs => c \in recdb'[recov_oid[n]][n]
    <2>1. CASE recov_oid[n] \in Epochs
      BY <2>1 DEF IInv, ClientTypes
    <2>2. CASE recov_oid[n] \notin Epochs
      <3>1. recdb' = recdb
        BY <2>2, Zenon DEF IInv, ClientTypes
      <3> QED BY <2>2, <3>1, Zenon DEF IInv, ClientTypes
    <2> QED BY <2>1, <2>2, Zenon
  <1>2a. \A m \in Nodes : (Need(m)' <=> Need(m)) /\ (Enforces(m)' <=> Enforces(m))
    BY SameDatabase, Zenon
  <1>13. ClientTypes'
    BY <1>2, <1>3, Zenon DEF IInv, ClientTypes
  <1>17. Calm'
    <2>1. FirstEpoch \in Epochs
      BY ClusterAssumption DEF FirstEpoch, Epochs
    <2>2. failures = 0 => \A m \in Nodes : live[m] \subseteq pend'[m] \cup recdb'[FirstEpoch][m]
      BY <1>3, <2>1 DEF IInv, ClientTypes, Calm
    <2> QED BY <2>2, Zenon DEF IInv, Calm
  <1>18. OneFailure'
    <2> SUFFICES ASSUME failures' = 1 PROVE \E f \in Nodes : Failed(f)'
      BY Zenon DEF OneFailure
    <2>1. PICK f \in Nodes : Failed(f)
      BY Zenon DEF IInv, OneFailure
    <2>2. Failed(f)'
      BY <1>2a, <1>3, <2>1
        DEF IInv, ServerTypes, ClientTypes, Period, Places, Failed, Booting,
            Unjoined, Leaving
    <2> QED BY <2>2, Zenon
  <1> QED BY <1>2, <1>13, <1>17, <1>18, Zenon DEF IInv

\* ... and has state only after that.
LEMMA GrantKeeps ==
    ASSUME IInv, NEW n \in Nodes, NEW c \in Clients, Grant(n, c)
    PROVE  IInv'
  <1>1. /\ c \in live[n] \ (pend[n] \cup held[n])
        /\ held' = [held EXCEPT ![n] = @ \cup {c}]
        /\ UNCHANGED <<obj, stage, exported, active, change_req, recov_oid, old_oid,
                       recdb, live, pend, snap, clid_list, lost, failures>>
    BY Zenon DEF Grant, At, Goto, local, clients
  <1> USE <1>1
  <1>2. DatabaseTypes' /\ ServerTypes' /\ Period' /\ Starts' /\ Places'
    BY SameServers, Zenon
  <1>2a. \A m \in Nodes : (Need(m)' <=> Need(m)) /\ (Enforces(m)' <=> Enforces(m))
    BY SameDatabase, Zenon
  <1>13. ClientTypes'
    BY <1>2, Zenon DEF IInv, ClientTypes
  <1>17. Calm'
    BY <1>2, Zenon DEF IInv, ServerTypes, ClientTypes, Calm
  <1>18. OneFailure'
    <2> SUFFICES ASSUME failures' = 1 PROVE \E f \in Nodes : Failed(f)'
      BY Zenon DEF OneFailure
    <2>1. PICK f \in Nodes : Failed(f)
      BY Zenon DEF IInv, OneFailure
    <2>2. Failed(f)'
      BY <1>2a, <2>1, Zenon
        DEF IInv, ServerTypes, ClientTypes, Period, Places, Failed, Booting,
            Unjoined, Leaving
    <2> QED BY <2>2, Zenon
  <1> QED BY <1>2, <1>13, <1>17, <1>18, Zenon DEF IInv
-----------------------------------------------------------------------------
(* The steps that start and end a grace period.                            *)

\* rados_cluster_read_clids: the server that declares an epoch owed one.
LEMMA BootJoinKeeps ==
    ASSUME IInv, NEW n \in Nodes, BootJoin(n)
    PROVE  IInv'
  <1>1. /\ stage[n] = "join" /\ stage' = [stage EXCEPT ![n] = "create"]
        /\ DB!Join({n}) \/ DB!Start({n})
        /\ recov_oid' = [recov_oid EXCEPT ![n] = obj'.cur]
        /\ old_oid' = [old_oid EXCEPT ![n] = obj'.rec]
        /\ UNCHANGED <<exported, active, change_req, recdb, live, pend, snap,
                       clid_list,
                       held, lost, failures>>
    BY Zenon DEF BootJoin, At, Goto, clients
  <1> USE <1>1
  <1>2. /\ DatabaseTypes'
        /\ IF obj.rec = 0 THEN obj'.rec = obj.cur /\ obj'.cur = obj.cur + 1
                          ELSE obj'.rec = obj.rec /\ obj'.cur = obj.cur
        /\ \A m \in Nodes : /\ Need(m)' <=> Need(m) \/ m = n
                            /\ Enforces(m)' <=> Enforces(m) \/ m = n
    BY JoinEffect, Zenon DEF IInv
  <1>3. Period'
    BY <1>2 DEF IInv, Period, DatabaseTypes, FirstEpoch
  <1>4. Starts'
    <2>1. Owing' \subseteq Owing \ {n}
      BY <1>2, Zenon DEF IInv, ServerTypes, Owing, Unjoined
    <2>2. CASE obj.rec = 0
      <3>1. n \in Owing
        BY <2>2, Zenon DEF IInv, Period, Owing, Unjoined
      <3>2. Cardinality(Owing') + 1 <= Cardinality(Owing)
        BY <2>1, <3>1, OneFewer, Zenon DEF Owing
      <3>3. Cardinality(Owing') \in Nat /\ Cardinality(Owing) \in Nat
        BY Fewer, Zenon DEF Owing
      <3> QED BY <1>2, <2>2, <3>2, <3>3 DEF IInv, Starts, DatabaseTypes,
                 ServerTypes, FirstEpoch
    <2>3. CASE obj.rec # 0
      BY <1>2, <2>1, <2>3, StartsKept, Zenon DEF IInv
    <2> QED BY <2>2, <2>3, Zenon
  <1>5. obj'.cur \in Epochs /\ obj'.rec \in Epochs /\ obj'.rec # 0
    <2>1. Cardinality(Owing') \in Nat
      BY Fewer, Zenon DEF Owing
    <2>2. obj'.rec # 0
      BY <1>2, <1>3, Zenon DEF Period
    <2> QED BY <1>2, <1>3, <1>4, <2>1, <2>2, ClusterAssumption
        DEF IInv, Starts, Period, DatabaseTypes, ServerTypes, Epochs, FirstEpoch
  <1>6. ServerTypes'
    BY <1>5, Zenon DEF IInv, ServerTypes, Stages
  <1>7. ClientTypes'
    BY Zenon DEF IInv, ClientTypes
  <1>8. Places'
    <2>1. obj.rec # 0 \/ \A m \in Nodes : stage[m] \notin {"create", "read"}
      BY Zenon DEF IInv, Places, Period
    <2> QED BY <1>2, <1>5, <2>1 DEF IInv, ServerTypes, Places, Booting, Unjoined,
               Leaving
  <1>9. Calm'
    BY Zenon DEF IInv, Calm
  <1>10. OneFailure'
    <2> SUFFICES ASSUME failures' = 1 PROVE \E f \in Nodes : Failed(f)'
      BY Zenon DEF OneFailure
    <2>1. PICK f \in Nodes : Failed(f)
      BY Zenon DEF IInv, OneFailure
    <2>2. n = f
      BY <2>1, Zenon DEF Failed, Booting, Unjoined
    <2>3. Failed(n)'
      BY <1>2, <1>5, <2>1, <2>2
        DEF IInv, ServerTypes, ClientTypes, Places, Failed, Booting, Unjoined, Leaving
    <2> QED BY <2>3, Zenon
  <1> QED BY <1>2, <1>3, <1>4, <1>6, <1>7, <1>8, <1>9, <1>10, Zenon DEF IInv

\* rados_cluster_try_lift_grace: the record of the server is changed or not,
\* and the grace period ends with the last server that needs it.
LEMMA TryLiftEffect ==
    ASSUME IInv, NEW n \in Nodes, TryLift(n)
    PROVE  /\ DatabaseTypes' /\ obj'.cur = obj.cur
           /\ \A m \in Nodes : /\ Enforces(m)' <=> Enforces(m)
                               /\ Need(m)' => Need(m)
                               /\ m # n => (Need(m)' <=> Need(m))
           /\ IF \E m \in Nodes : Need(m)' THEN obj'.rec = obj.rec ELSE obj'.rec = 0
           /\ ~Need(n) => obj'.rec = obj.rec
           /\ n \in DB!With(obj, DB!NEED)' <=> Need(n)'
  <1>1. CASE UNCHANGED obj
    <2>1. /\ DatabaseTypes' /\ Period'
          /\ \A m \in Nodes : (Need(m)' <=> Need(m)) /\ (Enforces(m)' <=> Enforces(m))
      BY <1>1, SameDatabase, Zenon
    <2> QED BY <1>1, <2>1, Records, Zenon DEF IInv, Period
  <1>2. CASE Need(n) /\ DB!Lift({n})
    <2>1. /\ DatabaseTypes' /\ obj'.cur = obj.cur
          /\ \A m \in Nodes : /\ Need(m)' <=> Need(m) /\ m # n
                              /\ Enforces(m)' <=> Enforces(m)
          /\ IF \E m \in Nodes : Need(m)' THEN obj'.rec = obj.rec ELSE obj'.rec = 0
      BY <1>2, LiftEffect, Zenon DEF IInv
    <2>2. n \in DB!With(obj, DB!NEED)' <=> Need(n)'
      BY <2>1, Zenon DEF DatabaseTypes, DB!With, DB!Members, Need
    <2> QED BY <1>2, <2>1, <2>2, Zenon
  <1>3. UNCHANGED obj \/ (Need(n) /\ DB!Lift({n}))
    BY Records, Zenon DEF TryLift, IInv
  <1> QED BY <1>1, <1>2, <1>3, Zenon

\* The failed server forgoes the reclaims with the last lift.
LEMMA TryLiftKeeps ==
    ASSUME IInv, NEW n \in Nodes, TryLift(n)
    PROVE  IInv'
  <1>1. /\ DatabaseTypes' /\ obj'.cur = obj.cur
        /\ \A m \in Nodes : /\ Enforces(m)' <=> Enforces(m)
                            /\ Need(m)' => Need(m)
                            /\ m # n => (Need(m)' <=> Need(m))
        /\ IF \E m \in Nodes : Need(m)' THEN obj'.rec = obj.rec ELSE obj'.rec = 0
        /\ ~Need(n) => obj'.rec = obj.rec
        /\ n \in DB!With(obj, DB!NEED)' <=> Need(n)'
    BY TryLiftEffect, Zenon
  <1>2. /\ stage[n] = "idle" /\ n \in active
        /\ change_req' = change_req \cup {n}
        /\ lost' = IF Need(n)' THEN lost ELSE [lost EXCEPT ![n] = {}]
        /\ stage' = [stage EXCEPT ![n] = IF obj'.rec = 0 THEN "off" ELSE "idle"]
        /\ UNCHANGED <<exported, active, recov_oid, old_oid, recdb,
                       live, pend, snap, clid_list, held, failures>>
    BY <1>1, Zenon DEF TryLift, At, Goto
  <1> USE <1>2
  <1>3. ServerTypes'
    BY Zenon DEF IInv, ServerTypes, Stages
  <1>4. ClientTypes'
    BY Zenon DEF IInv, ClientTypes
  <1>5. Period'
    BY <1>1, Zenon DEF IInv, Period, DatabaseTypes, FirstEpoch
  <1>6. Starts'
    <2>1. Owing' \subseteq Owing
      BY <1>1, Zenon DEF IInv, ServerTypes, Owing, Unjoined
    <2> QED BY <1>1, <2>1, StartsKept, Zenon DEF IInv
  <1>7. Places'
    <2>1. \A m \in Nodes : stage[m] \in {"create", "read"}
            => m # n /\ Need(m) /\ obj'.rec = obj.rec
      BY <1>1, Zenon DEF IInv, Places
    <2> QED BY <1>1, <1>5, <2>1, Zenon
        DEF IInv, ServerTypes, Places, Period, Booting, Unjoined, Leaving
  <1>8. Calm'
    BY Zenon DEF IInv, Calm
  <1>9. OneFailure'
    <2> SUFFICES ASSUME failures' = 1 PROVE \E f \in Nodes : Failed(f)'
      BY Zenon DEF OneFailure
    <2>1. PICK f \in Nodes : Failed(f)
      BY Zenon DEF IInv, OneFailure
    <2>2. CASE n = f
      BY <1>1, <1>5, <2>1, <2>2
        DEF IInv, ServerTypes, ClientTypes, Period, Places, Failed, Booting,
            Unjoined, Leaving
    <2>3. CASE n # f
      BY <1>1, <1>5, <2>1, <2>3
        DEF IInv, ServerTypes, ClientTypes, Period, Places, Failed, Booting,
            Unjoined, Leaving
    <2> QED BY <2>2, <2>3, Zenon
  <1> QED BY <1>1, <1>3, <1>4, <1>5, <1>6, <1>7, <1>8, <1>9, Zenon DEF IInv

-----------------------------------------------------------------------------
(* Failures.                                                               *)

\* What a server that goes down leaves behind.
LEMMA VanishKeeps ==
    ASSUME IInv, NEW n \in Nodes, Vanish(n)
    PROVE  ServerTypes' /\ ClientTypes' /\ Calm'
  <1>1. ServerTypes'
    BY ClusterAssumption DEF IInv, ServerTypes, Stages, Vanish, Goto
  <1>2. ClientTypes'
    BY Zenon DEF IInv, ClientTypes, Vanish
  <1>3. Calm'
    BY DEF IInv, ServerTypes, Vanish, Calm
  <1> QED BY <1>1, <1>2, <1>3, Zenon

\* A crash owes the cluster an epoch.
LEMMA CrashKeeps ==
    ASSUME IInv, NEW n \in Nodes, Crash(n)
    PROVE  IInv'
  <1>1. Vanish(n) /\ obj' = obj
    BY Zenon DEF Crash
  <1>2. /\ DatabaseTypes' /\ Period'
        /\ \A m \in Nodes : (Need(m)' <=> Need(m)) /\ (Enforces(m)' <=> Enforces(m))
    BY <1>1, SameDatabase, Zenon
  <1>3. ServerTypes' /\ ClientTypes' /\ Calm'
    BY <1>1, VanishKeeps, Zenon
  <1>4. Starts'
    <2>1. Owing' \subseteq Owing \cup {n}
      BY <1>1, <1>2, Zenon DEF IInv, ServerTypes, Owing, Unjoined, Vanish, Goto
    <2>2. Cardinality(Owing') <= Cardinality(Owing) + 1
      BY <2>1, OneMore, Zenon DEF Owing
    <2>3. Cardinality(Owing') \in Nat /\ Cardinality(Owing) \in Nat
      BY Fewer, Zenon DEF Owing
    <2> QED BY <1>1, <2>2, <2>3
        DEF IInv, Starts, DatabaseTypes, ServerTypes, FirstEpoch, Vanish
  <1>5. Places'
    BY <1>1, <1>2, Zenon DEF IInv, ServerTypes, Places, Booting, Unjoined, Leaving, Vanish,
       Goto
  <1>6. OneFailure'
    <2> SUFFICES ASSUME failures' = 1 PROVE Failed(n)'
      BY Zenon DEF OneFailure
    <2>1. failures = 0
      BY <1>1 DEF IInv, ServerTypes, Vanish
    <2> QED BY <1>1, <1>2, <2>1, Zenon
        DEF IInv, ServerTypes, ClientTypes, Period, Calm, Failed, Booting, Unjoined,
            Leaving, Vanish, Goto
  <1> QED BY <1>2, <1>3, <1>4, <1>5, <1>6, Zenon DEF IInv

\* rados_cluster_shutdown pays what it owes.
LEMMA ShutdownKeeps ==
    ASSUME IInv, NEW n \in Nodes, Shutdown(n)
    PROVE  IInv'
  <1>1. Vanish(n) /\ (DB!Join({n}) \/ DB!Start({n}))
    BY Zenon DEF Shutdown
  <1>2. /\ DatabaseTypes'
        /\ IF obj.rec = 0 THEN obj'.rec = obj.cur /\ obj'.cur = obj.cur + 1
                          ELSE obj'.rec = obj.rec /\ obj'.cur = obj.cur
        /\ \A m \in Nodes : /\ Need(m)' <=> Need(m) \/ m = n
                            /\ Enforces(m)' <=> Enforces(m) \/ m = n
    BY <1>1, JoinEffect, Zenon DEF IInv
  <1>3. ServerTypes' /\ ClientTypes' /\ Calm'
    BY <1>1, VanishKeeps, Zenon
  <1>4. Period'
    BY <1>2 DEF IInv, Period, DatabaseTypes, FirstEpoch
  <1>5. Starts'
    <2>1. Owing' \subseteq Owing
      BY <1>1, <1>2, Zenon DEF IInv, ServerTypes, Owing, Unjoined, Vanish, Goto
    <2>2. /\ Cardinality(Owing') <= Cardinality(Owing)
          /\ Cardinality(Owing') \in Nat /\ Cardinality(Owing) \in Nat
      BY <2>1, Fewer, Zenon DEF Owing
    <2> QED BY <1>1, <1>2, <2>2
        DEF IInv, Starts, DatabaseTypes, ServerTypes, FirstEpoch, Vanish
  <1>6. Places'
    <2>1. obj.rec # 0 \/ \A m \in Nodes : stage[m] \notin {"create", "read"}
      BY Zenon DEF IInv, Places, Period
    <2> QED BY <1>1, <1>2, <2>1, Zenon
        DEF IInv, ServerTypes, Places, Booting, Unjoined, Leaving, Vanish, Goto
  <1>7. OneFailure'
    <2> SUFFICES ASSUME failures' = 1 PROVE Failed(n)'
      BY Zenon DEF OneFailure
    <2>1. failures = 0
      BY <1>1 DEF IInv, ServerTypes, Vanish
    <2> QED BY <1>1, <1>2, <1>4, <2>1
        DEF IInv, ServerTypes, ClientTypes, Period, Calm, Failed, Booting, Unjoined,
            Leaving, Vanish, Goto
  <1> QED BY <1>2, <1>3, <1>4, <1>5, <1>6, <1>7, Zenon DEF IInv

-----------------------------------------------------------------------------
(* The invariant.                                                          *)

\* All servers are up and there is no grace period.
LEMMA InitInvariant == Init => IInv
  <1> SUFFICES ASSUME Init PROVE IInv
    OBVIOUS
  <1>1. FirstEpoch \in Epochs
    BY ClusterAssumption DEF FirstEpoch, Epochs
  <1>2. \A n \in Nodes : ~Need(n) /\ ~Enforces(n)
    BY Zenon DEF Init, Need, Enforces
  <1>3. DatabaseTypes
    BY Zenon DEF Init, DatabaseTypes, FirstEpoch
  <1>4. ServerTypes
    BY <1>1, ClusterAssumption DEF Init, ServerTypes, Stages
  <1>5. ClientTypes
    BY Zenon DEF Init, ClientTypes
  <1>6. Period
    BY <1>2 DEF Init, Period, FirstEpoch
  <1>7. Starts
    <2>1. Owing = {}
      BY Zenon DEF Init, Owing, Unjoined
    <2> QED BY <2>1, FS_EmptySet DEF Init, Starts, FirstEpoch
  <1>8. Places
    BY <1>2, Zenon DEF Init, Places, Booting, Unjoined, Leaving
  <1>9. Calm
    BY <1>1, Zenon DEF Init, Calm
  <1>10. OneFailure
    BY DEF Init, OneFailure
  <1> QED BY <1>3, <1>4, <1>5, <1>6, <1>7, <1>8, <1>9, <1>10, Zenon DEF IInv

\* One case per action.
LEMMA NextInvariant == IInv /\ [Next]_vars => IInv'
  <1>1. ASSUME IInv, NEW n \in Nodes, Server(n) PROVE IInv'
    BY <1>1, BootKeeps, BootEnforceKeeps, BootJoinKeeps, BootCreateKeeps,
       BootReadKeeps,
       ReadExportsKeeps, NoticeGraceKeeps, CopyClientsKeeps, BeginGraceKeeps,
       FlagEnforcingKeeps, TryLiftKeeps, EndEnforcingKeeps, RemoveOldKeeps,
       ClearActiveKeeps, Zenon DEF Server
  <1>2. ASSUME IInv, UNCHANGED vars PROVE IInv'
    <2>1. DatabaseTypes' /\ ServerTypes' /\ Period' /\ Starts' /\ Places'
      BY <1>2, SameServers, Zenon DEF vars, local
    <2>2. ClientTypes' /\ Calm'
      BY <1>2, Zenon DEF IInv, ClientTypes, Calm, vars, local, clients
    <2>3. \A m \in Nodes : (Need(m)' <=> Need(m)) /\ (Enforces(m)' <=> Enforces(m))
      BY <1>2, SameDatabase, Zenon DEF vars
    <2>4. OneFailure'
      BY <1>2, <2>3, Zenon DEF IInv, OneFailure, Failed, vars, local, clients
    <2> QED BY <2>1, <2>2, <2>4, Zenon DEF IInv
  <1> QED BY <1>1, <1>2, BeginRefusedKeeps, LiftPendingKeeps, CrashKeeps,
             ShutdownKeeps,
             ConfirmKeeps, AddClidKeeps, GrantKeeps, Zenon DEF Next

\* The invariant holds throughout.
LEMMA Invariance == Spec => []IInv
  BY InitInvariant, NextInvariant, PTL DEF Spec

-----------------------------------------------------------------------------
(* Theorems.                                                               *)

\* Types, and with them that the epochs declared and the recovery databases
\* they name stay within the number of failures, whoever restarts when.
THEOREM TypeCorrect == Spec => []TypeOK
  <1>1. IInv => TypeOK
    <2> SUFFICES ASSUME IInv PROVE TypeOK
      OBVIOUS
    <2>1. obj \in DB!Objects(Epochs \cup {FirstEpoch + MaxFailures + 1})
      <3>1. obj.cur \in Epochs /\ obj.rec \in Epochs \cup {0}
        BY EpochsSuffice, Zenon DEF IInv
      <3>2. obj.flags \in UNION {[M -> SUBSET DB!Flags] : M \in SUBSET Nodes}
        BY Zenon DEF IInv, DatabaseTypes
      <3>3. obj = [cur |-> obj.cur, rec |-> obj.rec, flags |-> obj.flags]
        BY Zenon DEF IInv, DatabaseTypes
      <3> QED BY <3>1, <3>2, <3>3, Zenon DEF DB!Objects
    <2> QED BY <2>1, Zenon DEF IInv, ServerTypes, ClientTypes, TypeOK
  <1> QED BY <1>1, Invariance, PTL

\* The ENFORCING flag of a server that serves clients is the truth: ACTIVE is
\* set before the flag and cleared after it, whatever fails in between.
THEOREM FlagTrue == Spec => []FlagIsTrue
  <1>1. IInv => FlagIsTrue
    BY Records, Zenon DEF IInv, ServerTypes, Places, FlagIsTrue
  <1> QED BY <1>1, Invariance, PTL

\* rados_cluster_read_clids, maybe_start_grace and end_grace keep the records
\* of a server that needs the grace period, however often servers fail.
THEOREM DatabaseKept == Spec => RecoveryDatabaseKept
  <1> DEFINE Step ==
        \A n \in Nodes : n \in DB!With(obj, DB!NEED) /\ obj.rec # 0
                           => recdb[obj.rec][n] \subseteq recdb'[obj.rec][n]
  <1>1. IInv /\ [Next]_vars => [Step]_vars
    <2> SUFFICES ASSUME IInv, Next, NEW m \in Nodes, Need(m), obj.rec # 0
                 PROVE  recdb[obj.rec][m] \subseteq recdb'[obj.rec][m]
      BY Records, Zenon DEF IInv
    <2>1. obj.rec \in Epochs /\ obj.cur # obj.rec
      BY EpochsSuffice DEF IInv, Period, DatabaseTypes
    <2>2. stage[m] \notin {"copy", "remove"}
      BY Zenon DEF IInv, Places, Booting, Unjoined
    <2>3. stage[m] = "create" => recov_oid[m] = obj.cur
      BY Zenon DEF IInv, Places
    <2>4. PICK n \in Nodes : \/ Server(n) \/ BeginRefused(n) \/ LiftPending(n)
                             \/ Crash(n) \/ Shutdown(n)
                             \/ \E c \in Clients : Confirm(n, c) \/ AddClid(n, c) \/ Grant(n, c)
      BY Zenon DEF Next
    <2>5. CASE UNCHANGED recdb
      BY <2>5, Zenon
    <2>6. CASE BootCreate(n)
      BY <2>1, <2>3, <2>6, Zenon DEF IInv, ClientTypes, BootCreate, At
    <2>7. CASE CopyClients(n)
      BY <2>1, <2>2, <2>7, Zenon DEF IInv, ClientTypes, CopyClients, At
    <2>8. CASE RemoveOld(n)
      BY <2>1, <2>2, <2>8, Zenon DEF IInv, ClientTypes, RemoveOld, At
    <2>9. CASE \E c \in Clients : AddClid(n, c)
      BY <2>1, <2>9 DEF IInv, ClientTypes, AddClid
    <2> QED BY <2>4, <2>5, <2>6, <2>7, <2>8, <2>9, Zenon
        DEF Server, Boot, BootEnforce, BootJoin, BootRead, ReadExports, NoticeGrace,
            BeginGrace, FlagEnforcing, TryLift, EndEnforcing, ClearActive, BeginRefused,
            LiftPending, Crash, Shutdown, Vanish, Confirm, Grant
  <1> QED BY <1>1, Invariance, PTL DEF Spec, RecoveryDatabaseKept

\* With a single failure, at any step of any server, the clients of the failed
\* server can reclaim, and no other server grants new state meanwhile.
THEOREM SingleFailure == Spec => []OneFailureReclaims
  <1>1. IInv => OneFailureReclaims
    <2> SUFFICES ASSUME IInv, failures <= 1, NEW n \in exported, n \in active \ change_req
                 PROVE  /\ lost[n] \subseteq clid_list[n]
                        /\ lost[n] # {} => exported \subseteq active
      BY Zenon DEF OneFailureReclaims, NobodyLeftBehind
    <2>1. failures = 1
      BY DEF IInv, ServerTypes, Calm
    <2>2. PICK f \in Nodes : Failed(f)
      BY <2>1, Zenon DEF IInv, OneFailure
    <2>3. CASE n # f
      BY <2>2, <2>3 DEF IInv, ServerTypes, Failed
    <2>4. CASE n = f
      <3>1. lost[n] \subseteq clid_list[n] /\ stage[n] \notin Booting
        BY <2>2, <2>4, Zenon DEF IInv, ServerTypes, Places, Failed
      <3>2. ASSUME lost[n] # {} PROVE exported \subseteq active
        <4>1. obj.rec # 0
          BY <2>2, <2>4, <3>1, <3>2, Zenon DEF IInv, Period, Failed
        <4>2. \A m \in Nodes : Enforces(m)
          BY <2>2, <2>4, <4>1, Zenon DEF Failed
        <4> QED BY <4>2, Zenon DEF IInv, ServerTypes, Places
      <3> QED BY <3>1, <3>2, Zenon
    <2> QED BY <2>3, <2>4, Zenon
  <1> QED BY <1>1, Invariance, PTL

=============================================================================
