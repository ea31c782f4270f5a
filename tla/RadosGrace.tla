----------------------------- MODULE RadosGrace -----------------------------
(***************************************************************************)
(* support/rados_grace.c: the commands on the shared grace database, as    *)
(* the servers of a cluster and the ganesha-rados-grace tool run them.     *)
(* Every command reads the whole object, computes new values and writes    *)
(* them back on condition that the version of the object is still the one  *)
(* it read; when it is not (ERANGE) it starts over.                        *)
(***************************************************************************)
EXTENDS Naturals, FiniteSets

CONSTANTS
    Nodes,      \* node ids
    Procs,      \* processes that run commands
    Commands,   \* the commands they may run
    MaxEpoch    \* bound: no start command is issued from this epoch on

AllCommands == {"add", "start", "join", "lift", "remove", "enforce", "noenforce"}

ASSUME CommandsAssumption ==
    /\ IsFiniteSet(Nodes) /\ IsFiniteSet(Procs)
    /\ Commands \subseteq AllCommands
    /\ MaxEpoch \in Nat \ {0, 1}

VARIABLES
    obj,        \* the database object
    current,    \* processes whose last read is still the latest version
    pc,         \* "idle", "read" (about to), "write" (about to)
    call,       \* the command a process runs: its name and nodeids
    pro,        \* the object as it will be if the write succeeds
    match,      \* nodeids found in the omap; not reset when a command retries
    failed,     \* failed_to_write of rados_grace_join_bulk
    prev_cur    \* its prev_cur; 0 when it has never been assigned

vars == <<obj, current, pc, call, pro, match, failed, prev_cur>>

DB == INSTANCE GraceDatabase

NEED == DB!NEED
ENFORCING == DB!ENFORCING

\* Every process may still add an epoch after the last one has been reached.
Epochs == 0 .. MaxEpoch + Cardinality(Procs)

NoCall == [op |-> "none", nodes |-> {}]

Nothing == DB!Create({})

Init ==
    /\ DB!Init
    /\ current = {}
    /\ pc = [p \in Procs |-> "idle"]
    /\ call = [p \in Procs |-> NoCall]
    /\ pro = [p \in Procs |-> Nothing]
    /\ match = [p \in Procs |-> {}]
    /\ failed = [p \in Procs |-> FALSE]
    /\ prev_cur = [p \in Procs |-> 0]

-----------------------------------------------------------------------------
Invoke(p) ==
    /\ pc[p] = "idle"
    /\ \E op \in Commands, S \in (SUBSET Nodes) \ {{}} :
         /\ op = "start" => obj.cur < MaxEpoch
         /\ call' = [call EXCEPT ![p] = [op |-> op, nodes |-> S]]
    /\ pc' = [pc EXCEPT ![p] = "read"]
    /\ UNCHANGED <<obj, current, pro, match, failed, prev_cur>>

\* The command returns; its local variables are dead.
Return(p) ==
    /\ pc' = [pc EXCEPT ![p] = "idle"]
    /\ call' = [call EXCEPT ![p] = NoCall]
    /\ pro' = [pro EXCEPT ![p] = Nothing]
    /\ match' = [match EXCEPT ![p] = {}]
    /\ failed' = [failed EXCEPT ![p] = FALSE]
    /\ prev_cur' = [prev_cur EXCEPT ![p] = 0]

\* The nodeids of the command that this read or an earlier one has found.
Matched(p) == match[p] \cup (call[p].nodes \cap DB!Members(obj))

\* Go on to write the object o.
Propose(p, o) ==
    /\ pro' = [pro EXCEPT ![p] = o]
    /\ match' = [match EXCEPT ![p] = Matched(p)]
    /\ current' = current \cup {p}
    /\ pc' = [pc EXCEPT ![p] = "write"]
    /\ UNCHANGED <<obj, call, failed>>

\* rados_grace_add: nothing is done if one of the nodes is there already.
ReadAdd(p) ==
    /\ pc[p] = "read" /\ call[p].op = "add"
    /\ call[p].nodes \cap DB!Members(obj) = {}
    /\ Propose(p, DB!SetFlags(obj, [n \in call[p].nodes |-> {ENFORCING}]))
    /\ UNCHANGED prev_cur

\* rados_grace_enforcing_toggle.  A node whose record has gone since an
\* earlier round keeps the flags computed in that round.
ReadToggle(p) ==
    /\ pc[p] = "read" /\ call[p].op \in {"enforce", "noenforce"}
    /\ call[p].nodes \subseteq Matched(p)
    /\ LET NewFlags(n) ==
             IF n \notin DB!Members(obj) THEN pro[p].flags[n]
             ELSE IF call[p].op = "enforce"
                  THEN obj.flags[n] \cup {ENFORCING}
                  ELSE obj.flags[n] \ {ENFORCING}
       IN  Propose(p, DB!SetFlags(obj, [n \in call[p].nodes |-> NewFlags(n)]))
    /\ UNCHANGED prev_cur

\* rados_grace_join_bulk.  All the flags of the nodes are set.
JoinFlags(p) == DB!SetFlags(obj, [n \in call[p].nodes |-> {NEED, ENFORCING}])

\* A grace period is in effect: the epochs stay as they are.
ReadJoin(p) ==
    /\ pc[p] = "read" /\ call[p].op \in {"start", "join"}
    /\ call[p].nodes \subseteq Matched(p)
    /\ obj.rec # 0
    /\ Propose(p, JoinFlags(p))
    /\ UNCHANGED prev_cur

\* The epochs that a retry may take for the recovery epoch: the one that was
\* current when an earlier round found no grace period in effect, or whatever
\* the uninitialized variable holds when no earlier round did.
PrevCur(p) == IF prev_cur[p] = 0 THEN Epochs ELSE {prev_cur[p]}

\* A variation of ReadStart: a retry declares yet another epoch.
ReadStartAgain(p) ==
    /\ pc[p] = "read" /\ call[p].op = "start"
    /\ call[p].nodes \subseteq Matched(p)
    /\ obj.rec = 0
    /\ LET e == obj.cur + IF failed[p] THEN 2 ELSE 1
       IN  Propose(p, [JoinFlags(p) EXCEPT !.rec = e - 1, !.cur = e])
    /\ prev_cur' = [prev_cur EXCEPT ![p] = obj.cur]

\* No grace period is in effect and one is to be started.  A new epoch is
\* declared in the first round only.
ReadStart(p) ==
    /\ pc[p] = "read" /\ call[p].op = "start"
    /\ call[p].nodes \subseteq Matched(p)
    /\ obj.rec = 0
    /\ IF failed[p]
       THEN /\ \E e \in PrevCur(p) :
                 Propose(p, [JoinFlags(p) EXCEPT !.rec = e])
            /\ UNCHANGED prev_cur
       ELSE /\ Propose(p, [JoinFlags(p) EXCEPT !.rec = obj.cur, !.cur = @ + 1])
            /\ prev_cur' = [prev_cur EXCEPT ![p] = obj.cur]

\* rados_grace_lift_bulk, for the lift and the remove command.
Lifting(p) == pc[p] = "read" /\ call[p].op \in {"lift", "remove"}

\* A variation of Keys: records without NEED are counted as well.
KeysAll(p) == call[p].nodes \cap DB!Members(obj)

\* The records that will be written or removed: for lift, those with NEED.
Keys(p) ==
    IF call[p].op = "remove" THEN call[p].nodes \cap DB!Members(obj)
    ELSE call[p].nodes \cap DB!With(obj, NEED)

AllEnforcing == DB!With(obj, ENFORCING) = DB!Members(obj)

\* The grace period is lifted when as many records are written or removed as
\* there are nodes that need it.
ReadLift(p) ==
    /\ Lifting(p)
    /\ obj.rec # 0 => AllEnforcing
    /\ call[p].nodes \subseteq Matched(p)
    /\ Keys(p) # {}
    /\ LET o == IF call[p].op = "remove"
                THEN [obj EXCEPT !.flags =
                         [n \in DB!Members(obj) \ Keys(p) |-> obj.flags[n]]]
                ELSE DB!SetFlags(obj, [n \in Keys(p) |-> obj.flags[n] \ {NEED}])
       IN  Propose(p, IF Cardinality(DB!With(obj, NEED)) = Cardinality(Keys(p))
                      THEN [o EXCEPT !.rec = 0] ELSE o)
    /\ UNCHANGED prev_cur

\* The read shows that there is nothing to do, or that the command cannot be
\* carried out: a node exists already (add) or does not (ENOKEY), there is no
\* grace period to join, a member does not enforce the one in effect yet, no
\* record has NEED set.
ReadReturns(p) ==
    /\ pc[p] = "read"
    /\ CASE call[p].op = "add" -> call[p].nodes \cap DB!Members(obj) # {}
         [] call[p].op = "join" -> \/ ~(call[p].nodes \subseteq Matched(p))
                                   \/ obj.rec = 0
         [] call[p].op \in {"lift", "remove"} ->
                \/ obj.rec # 0 /\ ~AllEnforcing
                \/ ~(call[p].nodes \subseteq Matched(p))
                \/ Keys(p) = {}
         [] OTHER -> ~(call[p].nodes \subseteq Matched(p))
    /\ Return(p)
    /\ UNCHANGED <<obj, current>>

\* An error of the read operation ends every command.
ReadError(p) ==
    /\ pc[p] = "read"
    /\ Return(p)
    /\ UNCHANGED <<obj, current>>

\* The write operation: it fails when the object has changed since the read.
Write(p) ==
    /\ pc[p] = "write"
    /\ p \in current
    /\ obj' = pro[p]
    /\ current' = {}
    /\ Return(p)

\* What the next round uses of this one's result: the flags array of toggle.
Kept(p) == IF call[p].op \in {"enforce", "noenforce"} THEN pro[p] ELSE Nothing

WriteRetry(p) ==
    /\ pc[p] = "write"
    /\ p \notin current
    /\ pc' = [pc EXCEPT ![p] = "read"]
    /\ failed' = [failed EXCEPT ![p] = call[p].op \in {"start", "join"}]
    /\ pro' = [pro EXCEPT ![p] = Kept(p)]
    /\ UNCHANGED <<obj, current, call, match, prev_cur>>

\* Any other error of the write, which may have been applied all the same:
\* join starts over, the others give up.
WriteError(p) ==
    /\ pc[p] = "write"
    /\ IF call[p].op \in {"start", "join"}
       THEN /\ pc' = [pc EXCEPT ![p] = "read"]
            /\ failed' = [failed EXCEPT ![p] = TRUE]
            /\ pro' = [pro EXCEPT ![p] = Kept(p)]
            /\ UNCHANGED <<call, match, prev_cur>>
       ELSE Return(p)
    /\ \/ UNCHANGED <<obj, current>>
       \/ p \in current /\ obj' = pro[p] /\ current' = {}

Next ==
    \E p \in Procs :
        \/ Invoke(p) \/ ReadAdd(p) \/ ReadToggle(p) \/ ReadJoin(p)
        \/ ReadStart(p) \/ ReadLift(p) \/ ReadReturns(p) \/ ReadError(p)
        \/ Write(p) \/ WriteRetry(p) \/ WriteError(p)

Spec == Init /\ [][Next]_vars

-----------------------------------------------------------------------------
(* Properties.                                                             *)

TypeOK ==
    /\ obj \in DB!Objects(Epochs)
    /\ current \subseteq Procs
    /\ pc \in [Procs -> {"idle", "read", "write"}]
    /\ call \in [Procs -> [op : AllCommands \cup {"none"}, nodes : SUBSET Nodes]]
    /\ pro \in [Procs -> DB!Objects(Epochs)]
    /\ match \in [Procs -> SUBSET Nodes]
    /\ failed \in [Procs -> BOOLEAN]
    /\ prev_cur \in [Procs -> Epochs]

\* A start command that goes on after a failed write.
RetriedStart(p) == pc[p] = "write" /\ call[p].op = "start" /\ failed[p]

\* Read, compute and conditional write is as good as an atomic command: the
\* object changes as GraceDatabase allows, except at the hand of a start
\* command that retries.
AtomicCommands == DB!Init /\ [][DB!Next \/ \E p \in Procs : RetriedStart(p)]_obj

\* While a grace period is in effect, clients reclaim from an older epoch than
\* the one their new records are kept under.
RecoveryEpochOlder == obj.rec # 0 => obj.rec < obj.cur
=============================================================================
