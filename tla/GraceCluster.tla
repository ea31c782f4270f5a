---------------------------- MODULE GraceCluster ----------------------------
(***************************************************************************)
(* A cluster of servers that share the grace database (GraceDatabase) and  *)
(* keep the records of their clients in per-epoch recovery databases:      *)
(* SAL/recovery/recovery_rados_cluster.c, driven by nfs_start_grace,       *)
(* nfs_try_lift_grace, the startup code and the reaper thread.  Servers    *)
(* crash, are shut down and restart.                                       *)
(*                                                                         *)
(* Commands on the grace database are atomic here (RadosGrace looks inside *)
(* them), and so is the change of a server's own grace status (GraceStatus *)
(* looks inside it; sticky grace is assumed).                              *)
(***************************************************************************)
EXTENDS Naturals, FiniteSets

CONSTANTS
    Nodes,          \* the servers, all members of the cluster
    Clients,        \* clients that may use a server
    NewClients,     \* whether clients arrive other than to reclaim
    MaxFailures     \* bound: crashes and shutdowns in a behaviour

ASSUME ClusterAssumption ==
    IsFiniteSet(Nodes) /\ NewClients \in BOOLEAN /\ MaxFailures \in Nat

VARIABLES
    obj,            \* the grace database
    stage,          \* what the startup or reaper code of a server does next
    exported,       \* servers that have got past ReadExports
    active,         \* servers with GRACE_STATUS_ACTIVE set
    change_req,     \* servers with GRACE_STATUS_CHANGE_REQ set by a lift
    recov_oid,      \* epoch of the recovery database a server writes
    old_oid,        \* epoch of the one to remove when grace ends, 0 if none
    recdb,          \* recdb[e][n]: records in the recovery database e of n
    live,           \* live[n]: the confirmed client id hash of n
    pend,           \* pend[n]: clients in the hash not yet in the database
    snap,           \* snap[n]: clients found by the walk of the hash
    clid_list,      \* clid_list[n]: clients that may reclaim
    held,           \* held[n]: clients that hold state on n
    lost,           \* lost[n]: clients that held state on n when it went down
                    \* and may still expect to reclaim it
    failures        \* crashes and shutdowns so far

local == <<active, change_req, recov_oid, old_oid>>
clients == <<live, pend, snap, clid_list, held, lost>>
vars == <<obj, stage, exported, local, recdb, clients, failures>>

DB == INSTANCE GraceDatabase

Stages == {"down", "enforce", "join", "create", "read", "idle",
           "copy", "begin", "flag", "off", "remove", "clear"}

FirstEpoch == 2
Epochs == 1 .. FirstEpoch + MaxFailures

\* Normal operation after the first start of the cluster: every server has
\* left the grace period and recorded its clients under the current epoch.
Init ==
    /\ obj = [cur |-> FirstEpoch, rec |-> 0, flags |-> [n \in Nodes |-> {}]]
    /\ stage = [n \in Nodes |-> "idle"]
    /\ exported = Nodes
    /\ active = {} /\ change_req = {}
    /\ recov_oid = [n \in Nodes |-> FirstEpoch]
    /\ old_oid = [n \in Nodes |-> 0]
    /\ live \in [Nodes -> SUBSET Clients]
    /\ recdb = [e \in Epochs |->
                   IF e = FirstEpoch THEN live ELSE [n \in Nodes |-> {}]]
    /\ pend = [n \in Nodes |-> {}]
    /\ snap = [n \in Nodes |-> {}]
    /\ clid_list = [n \in Nodes |-> {}]
    /\ held = live
    /\ lost = [n \in Nodes |-> {}]
    /\ failures = 0

At(n, s) == stage[n] = s
Goto(n, s) == stage' = [stage EXCEPT ![n] = s]

-----------------------------------------------------------------------------
(* Startup: nfs_start_grace(NULL), then nfs_wait_for_grace_enforcement.    *)

\* The local grace period starts.
Boot(n) ==
    /\ At(n, "down")
    /\ Goto(n, "enforce")
    /\ active' = active \cup {n}
    /\ UNCHANGED <<obj, exported, change_req, recov_oid, old_oid, recdb,
                   clients, failures>>

\* nfs4_set_enforcing, before the client records are loaded.
BootEnforce(n) ==
    /\ At(n, "enforce")
    /\ Goto(n, "join")
    /\ DB!Enforce({n})
    /\ UNCHANGED <<exported, local, recdb, clients, failures>>

\* rados_cluster_read_clids: start a grace period or join the one in effect.
BootJoin(n) ==
    /\ At(n, "join")
    /\ Goto(n, "create")
    /\ DB!Join({n}) \/ DB!Start({n})
    /\ recov_oid' = [recov_oid EXCEPT ![n] = obj'.cur]
    /\ old_oid' = [old_oid EXCEPT ![n] = obj'.rec]
    /\ UNCHANGED <<exported, active, change_req, recdb, clients, failures>>

\* An empty recovery database for the new epoch ...
BootCreate(n) ==
    /\ At(n, "create")
    /\ Goto(n, "read")
    /\ recdb' = [recdb EXCEPT ![recov_oid[n]][n] = {}]
    /\ UNCHANGED <<obj, exported, local, clients, failures>>

\* A variation of BootRead that removes the records it has read.
BootReadPop(n) ==
    /\ At(n, "read")
    /\ Goto(n, "idle")
    /\ clid_list' = [clid_list EXCEPT ![n] = recdb[old_oid[n]][n]]
    /\ recdb' = [recdb EXCEPT ![old_oid[n]][n] = {}]
    /\ UNCHANGED <<obj, exported, local, live, pend, snap, held, lost, failures>>

\* ... and the records of the old one.
BootRead(n) ==
    /\ At(n, "read")
    /\ Goto(n, "idle")
    /\ clid_list' = [clid_list EXCEPT ![n] = recdb[old_oid[n]][n]]
    /\ UNCHANGED <<obj, exported, local, recdb, live, pend, snap, held, lost, failures>>

\* rados_cluster_grace_enforcing.
AllEnforcing == DB!With(obj, DB!ENFORCING) = DB!Members(obj)

\* The exports are loaded, whereupon the filesystem releases the state that
\* the server held before it went down.
ReadExports(n) ==
    /\ At(n, "idle")
    /\ n \notin exported
    /\ n \in active => AllEnforcing
    /\ exported' = exported \cup {n}
    /\ UNCHANGED <<obj, stage, local, recdb, clients, failures>>

-----------------------------------------------------------------------------
(* The reaper of a server in normal operation: maybe_start_grace.          *)

\* The epochs are read, the database names exchanged, the hash is walked.
NoticeGrace(n) ==
    /\ At(n, "idle") /\ n \in exported /\ n \notin active
    /\ obj.rec # 0
    /\ Goto(n, "copy")
    /\ recov_oid' = [recov_oid EXCEPT ![n] = obj.cur]
    /\ old_oid' = [old_oid EXCEPT ![n] = obj.rec]
    /\ snap' = [snap EXCEPT ![n] = live[n]]
    /\ UNCHANGED <<obj, exported, active, change_req, recdb,
                   live, pend, clid_list, held, lost, failures>>

\* The write operation clears the new database and fills it.
CopyClients(n) ==
    /\ At(n, "copy")
    /\ Goto(n, "begin")
    /\ recdb' = [recdb EXCEPT ![recov_oid[n]][n] = snap[n]]
    /\ snap' = [snap EXCEPT ![n] = {}]
    /\ UNCHANGED <<obj, exported, local, live, pend, clid_list, held, lost, failures>>

\* nfs_start_grace(JUST_GRACE), which fails while references are held ...
BeginRefused(n) ==
    /\ At(n, "begin")
    /\ Goto(n, "idle")
    /\ UNCHANGED <<obj, exported, local, recdb, clients, failures>>

\* (A variation of BeginGrace: the other servers are told first.)
BeginGraceLate(n) ==
    /\ At(n, "begin")
    /\ Goto(n, "flag")
    /\ DB!Enforce({n})
    /\ UNCHANGED <<exported, local, recdb, clients, failures>>

\* ... and otherwise sets ACTIVE ...
BeginGrace(n) ==
    /\ At(n, "begin")
    /\ Goto(n, "flag")
    /\ active' = active \cup {n}
    /\ UNCHANGED <<obj, exported, change_req, recov_oid, old_oid, recdb,
                   clients, failures>>

\* (A variation of FlagEnforcing: nobody is told.)
FlagSkipped(n) ==
    /\ At(n, "flag")
    /\ Goto(n, "idle")
    /\ UNCHANGED <<obj, exported, local, recdb, clients, failures>>

\* ... and tells the other servers.
FlagEnforcing(n) ==
    /\ At(n, "flag")
    /\ Goto(n, "idle")
    /\ DB!Enforce({n})
    /\ UNCHANGED <<exported, local, recdb, clients, failures>>

-----------------------------------------------------------------------------
(* nfs_try_lift_grace, called at startup and by the reaper, once the grace *)
(* period has expired or all reclaims are complete.                        *)

\* No more reclaims are admitted; a reference is still held.
LiftPending(n) ==
    /\ At(n, "idle") /\ n \in active \ change_req
    /\ change_req' = change_req \cup {n}
    /\ UNCHANGED <<obj, stage, exported, active, recov_oid, old_oid, recdb,
                   clients, failures>>

\* A variation of TryLift that leaves the local grace period at once.
TryLiftAlone(n) ==
    /\ At(n, "idle") /\ n \in active
    /\ change_req' = change_req \cup {n}
    /\ IF obj.rec # 0 /\ ~AllEnforcing
       THEN UNCHANGED obj
       ELSE IF n \in DB!With(obj, DB!NEED) THEN DB!Lift({n}) ELSE UNCHANGED obj
    /\ lost' = IF n \in DB!With(obj, DB!NEED)' THEN lost ELSE [lost EXCEPT ![n] = {}]
    /\ Goto(n, IF n \notin DB!With(obj, DB!NEED)' THEN "off" ELSE "idle")
    /\ UNCHANGED <<exported, active, recov_oid, old_oid, recdb,
                   live, pend, snap, clid_list, held, failures>>

\* rados_cluster_try_lift_grace: the record of the server is changed once all
\* servers enforce; the local grace period goes on until the cluster's ends.
\* Clients that have not reclaimed by now have forgone their state.
TryLift(n) ==
    /\ At(n, "idle") /\ n \in active
    /\ change_req' = change_req \cup {n}
    /\ IF obj.rec # 0 /\ ~AllEnforcing
       THEN UNCHANGED obj
       ELSE IF n \in DB!With(obj, DB!NEED) THEN DB!Lift({n}) ELSE UNCHANGED obj
    /\ lost' = IF n \in DB!With(obj, DB!NEED)' THEN lost ELSE [lost EXCEPT ![n] = {}]
    /\ Goto(n, IF obj'.rec = 0 THEN "off" ELSE "idle")
    /\ UNCHANGED <<exported, active, recov_oid, old_oid, recdb,
                   live, pend, snap, clid_list, held, failures>>

\* rados_cluster_end_grace: ENFORCING is switched off ...
EndEnforcing(n) ==
    /\ At(n, "off")
    /\ Goto(n, IF old_oid[n] = 0 THEN "clear" ELSE "remove")
    /\ IF old_oid[n] = 0 THEN UNCHANGED obj ELSE DB!NoEnforce({n})
    /\ UNCHANGED <<exported, local, recdb, clients, failures>>

\* ... and the old recovery database removed ...
RemoveOld(n) ==
    /\ At(n, "remove")
    /\ Goto(n, "clear")
    /\ recdb' = [recdb EXCEPT ![old_oid[n]][n] = {}]
    /\ old_oid' = [old_oid EXCEPT ![n] = 0]
    /\ UNCHANGED <<obj, exported, active, change_req, recov_oid, clients, failures>>

\* (A variation of ClearActive that leaves CHANGE_REQ set.)
ClearActiveOnly(n) ==
    /\ At(n, "clear")
    /\ Goto(n, "idle")
    /\ active' = active \ {n}
    /\ UNCHANGED <<obj, exported, change_req, recov_oid, old_oid, recdb, clients,
                   failures>>

\* ... before nfs_lift_grace_locked ends the local grace period.
ClearActive(n) ==
    /\ At(n, "clear")
    /\ Goto(n, "idle")
    /\ active' = active \ {n}
    /\ change_req' = change_req \ {n}
    /\ UNCHANGED <<obj, exported, recov_oid, old_oid, recdb, clients, failures>>

-----------------------------------------------------------------------------
(* Clients.                                                                *)

\* nfs_client_id_confirm: the client is put into the hash ...
Confirm(n, c) ==
    /\ n \in exported /\ c \notin live[n]
    /\ NewClients \/ (n \in active /\ c \in clid_list[n])
    /\ live' = [live EXCEPT ![n] = @ \cup {c}]
    /\ pend' = [pend EXCEPT ![n] = @ \cup {c}]
    /\ UNCHANGED <<obj, stage, exported, local, recdb,
                   snap, clid_list, held, lost, failures>>

\* ... and then into the recovery database (rados_cluster_add_clid).
AddClid(n, c) ==
    /\ c \in pend[n]
    /\ recdb' = [recdb EXCEPT ![recov_oid[n]][n] = @ \cup {c}]
    /\ pend' = [pend EXCEPT ![n] = @ \ {c}]
    /\ UNCHANGED <<obj, stage, exported, local, live, snap, clid_list, held, lost,
                   failures>>

\* State is granted: new state outside the grace period, reclaimed state to
\* a client on the list while the grace period lasts.
Grant(n, c) ==
    /\ c \in live[n] \ (pend[n] \cup held[n])
    /\ \/ n \notin active
       \/ n \in active \ change_req /\ c \in clid_list[n]
    /\ held' = [held EXCEPT ![n] = @ \cup {c}]
    /\ UNCHANGED <<obj, stage, exported, local, recdb, live, pend, snap, clid_list,
                   lost, failures>>

-----------------------------------------------------------------------------
(* Failures.                                                               *)

\* All that a server has in memory is gone.
Vanish(n) ==
    /\ failures < MaxFailures
    /\ failures' = failures + 1
    /\ Goto(n, "down")
    /\ exported' = exported \ {n}
    /\ active' = active \ {n}
    /\ change_req' = change_req \ {n}
    /\ recov_oid' = [recov_oid EXCEPT ![n] = 0]
    /\ old_oid' = [old_oid EXCEPT ![n] = 0]
    /\ live' = [live EXCEPT ![n] = {}]
    /\ pend' = [pend EXCEPT ![n] = {}]
    /\ snap' = [snap EXCEPT ![n] = {}]
    /\ clid_list' = [clid_list EXCEPT ![n] = {}]
    /\ held' = [held EXCEPT ![n] = {}]
    /\ lost' = [lost EXCEPT ![n] = @ \cup held[n]]
    /\ UNCHANGED recdb

Crash(n) == ~At(n, "down") /\ Vanish(n) /\ UNCHANGED obj

\* rados_cluster_shutdown asks for a grace period on the way out.
Shutdown(n) ==
    /\ At(n, "idle") /\ n \in exported
    /\ Vanish(n)
    /\ DB!Join({n}) \/ DB!Start({n})

-----------------------------------------------------------------------------
Server(n) ==
    \/ Boot(n) \/ BootEnforce(n) \/ BootJoin(n) \/ BootCreate(n) \/ BootRead(n)
    \/ ReadExports(n)
    \/ NoticeGrace(n) \/ CopyClients(n) \/ BeginGrace(n) \/ FlagEnforcing(n)
    \/ TryLift(n) \/ EndEnforcing(n) \/ RemoveOld(n) \/ ClearActive(n)

Next ==
    \E n \in Nodes :
        \/ Server(n) \/ BeginRefused(n) \/ LiftPending(n)
        \/ Crash(n) \/ Shutdown(n)
        \/ \E c \in Clients : Confirm(n, c) \/ AddClid(n, c) \/ Grant(n, c)

Spec == Init /\ [][Next]_vars

\* A server that is down is restarted; startup and reaper code run on; the
\* grace period expires; the references that make a start fail are dropped.
Fairness ==
    \A n \in Nodes :
        /\ WF_vars(Boot(n) \/ BootEnforce(n) \/ BootJoin(n) \/ BootCreate(n)
                     \/ BootRead(n))
        /\ WF_vars(ReadExports(n))
        /\ WF_vars(NoticeGrace(n) \/ CopyClients(n)) /\ SF_vars(BeginGrace(n))
        /\ WF_vars(FlagEnforcing(n))
        /\ WF_vars(TryLift(n))
        /\ WF_vars(EndEnforcing(n) \/ RemoveOld(n) \/ ClearActive(n))

FairSpec == Spec /\ Fairness

-----------------------------------------------------------------------------
(* Properties.                                                             *)

TypeOK ==
    /\ obj \in DB!Objects(Epochs \cup {FirstEpoch + MaxFailures + 1})
    /\ stage \in [Nodes -> Stages]
    /\ exported \subseteq Nodes /\ change_req \subseteq active /\ active \subseteq Nodes
    /\ recov_oid \in [Nodes -> Epochs \cup {0}]
    /\ old_oid \in [Nodes -> Epochs \cup {0}]
    /\ recdb \in [Epochs -> [Nodes -> SUBSET Clients]]
    /\ \A f \in {live, pend, snap, clid_list, held, lost} :
         f \in [Nodes -> SUBSET Clients]
    /\ \A n \in Nodes : pend[n] \cup held[n] \subseteq live[n]
    /\ failures \in 0 .. MaxFailures

\* The ENFORCING flag of a server that serves clients is the truth: it grants
\* no new state, because ACTIVE is set before the flag and cleared after it.
FlagIsTrue ==
    \A n \in exported : n \in DB!With(obj, DB!ENFORCING) => n \in active

\* The records that a server needs for its clients to reclaim survive, however
\* often it goes down again before its grace period has ended.
RecoveryDatabaseKept ==
    [][\A n \in Nodes :
         n \in DB!With(obj, DB!NEED) /\ obj.rec # 0
         => recdb[obj.rec][n] \subseteq recdb'[obj.rec][n]]_vars

\* A client that held state when its server went down may reclaim it when the
\* server is back.
NobodyLeftBehind ==
    \A n \in exported : n \in active \ change_req => lost[n] \subseteq clid_list[n]

\* That much is true as long as no second server goes down; and no server hands
\* out new state while clients of the restarted one have state to reclaim.
OneFailureReclaims ==
    failures <= 1 =>
        /\ NobodyLeftBehind
        /\ \A n \in exported :
               n \in active \ change_req /\ lost[n] # {} => exported \subseteq active

\* The cluster-wide grace period ends and all servers return to normal
\* operation once failures stop.
NormalOperationResumes ==
    <>[](obj.rec = 0 /\ exported = Nodes /\ active = {})
=============================================================================
