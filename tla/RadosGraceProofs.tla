-------------------------- MODULE RadosGraceProofs --------------------------
(***************************************************************************)
(* Proofs about RadosGrace for any number of nodes and processes.  A write *)
(* succeeds only on the object that was read, so what a process proposes   *)
(* is a command applied to the object as it is when it is written, whatever *)
(* others do in between; the exception is a start command that retries.    *)
(***************************************************************************)
EXTENDS RadosGrace, FiniteSetTheorems, TLAPS

\* The start commands that may still declare an epoch.
Pending == {p \in Procs : call[p].op = "start" /\ ~failed[p]}

\* No process ever goes beyond the epochs counted.
Bound == obj.cur + Cardinality(Pending) <= MaxEpoch + Cardinality(Procs)

Toggling(p) == call[p].op \in {"enforce", "noenforce"}

\* What is left of earlier rounds: the nodes that were matched, whose flags
\* toggle still has.
Scratch ==
    \A p \in Procs :
        /\ call[p].op \in Commands \cup {"none"}
        /\ match[p] \subseteq call[p].nodes
        /\ pc[p] = "idle" => match[p] = {}
        /\ pc[p] # "idle" => call[p].nodes # {}
        /\ Toggling(p) => match[p] \subseteq DB!Members(pro[p])

\* What a process may write: at most one more epoch, and only if it is one
\* of those that may declare one.
Declares(p, o) ==
    \/ o.cur = obj.cur
    \/ o.cur = obj.cur + 1 /\ p \in Pending

Proposals ==
    \A p \in current : pc[p] = "write" => Declares(p, pro[p])

\* The object o comes from b by a command of GraceDatabase on the nodes of S.
Allowed(b, o, S) ==
    \/ /\ S \cap DB!Members(b) = {}
       /\ o = DB!SetFlags(b, [n \in S |-> {ENFORCING}])
    \/ /\ S \subseteq DB!Members(b)
       /\ \/ o = DB!SetFlags(b, [n \in S |-> b.flags[n] \cup {ENFORCING}])
          \/ o = DB!SetFlags(b, [n \in S |-> b.flags[n] \ {ENFORCING}])
          \/ b.rec # 0 /\ o = DB!SetFlags(b, [n \in S |-> DB!Flags])
          \/ /\ b.rec = 0
             /\ o = [DB!SetFlags(b, [n \in S |-> DB!Flags])
                       EXCEPT !.rec = b.cur, !.cur = b.cur + 1]
          \/ /\ b.rec # 0 => DB!With(b, ENFORCING) = DB!Members(b)
             /\ o = DB!EndIfUnneeded(
                      DB!SetFlags(b, [n \in S |-> b.flags[n] \ {NEED}]))

\* ... on some nodes.
Follows(b, o) == \E S \in (SUBSET Nodes) \ {{}} : Allowed(b, o, S)

\* As long as no record is ever removed, the nodes matched are still there, and
\* everything that can be written is allowed.
Atomic ==
    /\ \A p \in Procs : match[p] \subseteq DB!Members(obj)
    /\ \A p \in current : pc[p] = "write" =>
         /\ DB!Members(obj) \subseteq DB!Members(pro[p])
         /\ (call[p].op = "start" /\ failed[p]) \/ Follows(obj, pro[p])

AtomicInv == "remove" \notin Commands => Atomic

IInv == TypeOK /\ Bound /\ Scratch /\ Proposals /\ AtomicInv
-----------------------------------------------------------------------------
(* Objects.                                                                *)

\* The fields of an object.
LEMMA Fields ==
    ASSUME NEW E, NEW o \in DB!Objects(E)
    PROVE  /\ o = [cur |-> o.cur, rec |-> o.rec, flags |-> o.flags]
           /\ o.cur \in E /\ o.rec \in E \cup {0}
           /\ DB!Members(o) \subseteq Nodes
           /\ o.flags \in [DB!Members(o) -> SUBSET DB!Flags]
  <1>1. /\ o \in [cur : E, rec : E \cup {0},
                  flags : UNION {[M -> SUBSET DB!Flags] : M \in SUBSET Nodes}]
    BY Zenon DEF DB!Objects
  <1>2. PICK M \in SUBSET Nodes : o.flags \in [M -> SUBSET DB!Flags]
    BY <1>1, Zenon
  <1> QED BY <1>1, <1>2, Zenon DEF DB!Members

\* An object is made of such fields.
LEMMA Made ==
    ASSUME NEW E, NEW c \in E, NEW r \in E \cup {0}, NEW M \in SUBSET Nodes,
           NEW f \in [M -> SUBSET DB!Flags]
    PROVE  [cur |-> c, rec |-> r, flags |-> f] \in DB!Objects(E)
  <1>1. f \in UNION {[K -> SUBSET DB!Flags] : K \in SUBSET Nodes}
    OBVIOUS
  <1> QED BY <1>1, Zenon DEF DB!Objects

\* Records are replaced or created.
LEMMA SetFlagsTyped ==
    ASSUME obj \in DB!Objects(Epochs), NEW f, DOMAIN f \subseteq Nodes,
           f \in [DOMAIN f -> SUBSET DB!Flags], NEW q, q = DB!SetFlags(obj, f)
    PROVE  /\ q \in DB!Objects(Epochs) /\ q.cur = obj.cur
           /\ DB!Members(q) = DB!Members(obj) \cup DOMAIN f
           /\ q.flags =
                [n \in DB!Members(obj) \cup DOMAIN f |->
                   IF n \in DOMAIN f THEN f[n] ELSE obj.flags[n]]
  <1> DEFINE g == [n \in DB!Members(obj) \cup DOMAIN f |->
                      IF n \in DOMAIN f THEN f[n] ELSE obj.flags[n]]
  <1>1. /\ obj = [cur |-> obj.cur, rec |-> obj.rec, flags |-> obj.flags]
        /\ obj.cur \in Epochs /\ obj.rec \in Epochs \cup {0}
        /\ DB!Members(obj) \subseteq Nodes
        /\ obj.flags \in [DB!Members(obj) -> SUBSET DB!Flags]
    BY Fields, Zenon
  <1>2. g \in [DB!Members(obj) \cup DOMAIN f -> SUBSET DB!Flags]
    BY <1>1, Zenon
  <1>3. q = [obj EXCEPT !.flags = g]
    BY Zenon DEF DB!SetFlags
  <1> HIDE DEF g
  <1>4. q = [cur |-> obj.cur, rec |-> obj.rec, flags |-> g]
    BY <1>1, <1>3, Zenon
  <1>5. [cur |-> obj.cur, rec |-> obj.rec, flags |-> g] \in DB!Objects(Epochs)
    BY <1>1, <1>2, Made, Zenon
  <1>6. q.flags = g /\ DOMAIN g = DB!Members(obj) \cup DOMAIN f
    BY <1>2, <1>4
  <1> QED BY <1>4, <1>5, <1>6 DEF DB!Members, g

\* The recovery epoch is replaced.
LEMMA RecTyped ==
    ASSUME NEW E, NEW o \in DB!Objects(E), NEW r \in E \cup {0},
           NEW q, q = [o EXCEPT !.rec = r]
    PROVE  q \in DB!Objects(E) /\ q.cur = o.cur /\ DB!Members(q) = DB!Members(o)
  <1>1. /\ o = [cur |-> o.cur, rec |-> o.rec, flags |-> o.flags]
        /\ o.cur \in E /\ DB!Members(o) \subseteq Nodes
        /\ o.flags \in [DB!Members(o) -> SUBSET DB!Flags]
    BY Fields, Zenon
  <1>2. q = [cur |-> o.cur, rec |-> r, flags |-> o.flags]
    BY <1>1, Zenon
  <1>3. [cur |-> o.cur, rec |-> r, flags |-> o.flags] \in DB!Objects(E)
    BY <1>1, Made, Zenon
  <1> QED BY <1>2, <1>3, Zenon DEF DB!Members

\* A command that is allowed is one of GraceDatabase.
LEMMA CommandStep ==
    ASSUME Follows(obj, obj')
    PROVE  DB!Next
  <1>1. PICK S \in (SUBSET Nodes) \ {{}} : Allowed(obj, obj', S)
    BY Zenon DEF Follows
  <1> QED BY <1>1, Zenon DEF Allowed, ENFORCING, NEED, DB!Next, DB!Add, DB!Enforce,
             DB!NoEnforce,
                      DB!Join, DB!Start, DB!Lift

-----------------------------------------------------------------------------
(* Counting the start commands.                                            *)

\* Sets of processes are finite, and a subset is no larger.
LEMMA Fewer ==
    ASSUME NEW S \in SUBSET Procs, NEW T \in SUBSET S
    PROVE  /\ Cardinality(S) \in Nat /\ Cardinality(T) \in Nat
           /\ Cardinality(T) <= Cardinality(S)
  <1>1. IsFiniteSet(S)
    BY CommandsAssumption, FS_Subset, Zenon
  <1> QED BY <1>1, FS_Subset, FS_CardinalityType, Zenon

\* Without one of the processes there is at least one fewer.
LEMMA OneFewer ==
    ASSUME NEW S \in SUBSET Procs, NEW p \in S, NEW T \in SUBSET (S \ {p})
    PROVE  Cardinality(T) + 1 <= Cardinality(S)
  <1>1. IsFiniteSet(S)
    BY CommandsAssumption, FS_Subset, Zenon
  <1>2. Cardinality(S \ {p}) = Cardinality(S) - 1
    BY <1>1, FS_RemoveElement, Zenon
  <1>3. Cardinality(T) <= Cardinality(S \ {p}) /\ Cardinality(T) \in Nat
    BY Fewer, Zenon
  <1>4. Cardinality(S) \in Nat
    BY Fewer, Zenon
  <1> QED BY <1>2, <1>3, <1>4

\* Epochs are natural numbers, and a pending start command leaves room for one more.
LEMMA RoomForStart ==
    ASSUME TypeOK, Bound
    PROVE  /\ Epochs \subseteq Nat /\ 0 \in Epochs /\ 1 \in Epochs /\ obj.cur \in Nat
           /\ Pending # {} => obj.cur + 1 \in Epochs
  <1>1. Cardinality(Procs) \in Nat /\ Cardinality(Pending) \in Nat
    BY Fewer, Zenon DEF Pending
  <1>2. obj.cur \in Epochs
    BY Fields, Zenon DEF TypeOK
  <1>3. Pending # {} => Cardinality(Pending) >= 1
    <2>1. SUFFICES ASSUME NEW p \in Pending PROVE Cardinality(Pending) >= 1
      OBVIOUS
    <2>2. Cardinality({}) + 1 <= Cardinality(Pending)
      BY OneFewer, Zenon DEF Pending
    <2> QED BY <1>1, <2>2, FS_EmptySet
  <1> QED BY <1>1, <1>2, <1>3, CommandsAssumption DEF Bound, Epochs

\* The bound is kept by a step after which no more start commands are pending,
\* and by one that declares an epoch on behalf of one of them.
LEMMA BoundKept ==
    ASSUME TypeOK, Bound, Pending' \subseteq Pending,
           \/ obj'.cur = obj.cur
           \/ obj'.cur = obj.cur + 1 /\ \E p \in Pending : p \notin Pending'
    PROVE  Bound'
  <1>1. /\ Cardinality(Procs) \in Nat /\ Cardinality(Pending) \in Nat
        /\ Cardinality(Pending') \in Nat /\ Cardinality(Pending') <= Cardinality(Pending)
    BY Fewer, Zenon DEF Pending
  <1>2. obj.cur \in Nat
    BY RoomForStart, Zenon
  <1>3. CASE obj'.cur = obj.cur
    BY <1>1, <1>2, <1>3, CommandsAssumption DEF Bound
  <1>4. CASE obj'.cur = obj.cur + 1 /\ \E p \in Pending : p \notin Pending'
    <2>1. PICK p \in Pending : p \notin Pending'
      BY <1>4, Zenon
    <2>2. Cardinality(Pending') + 1 <= Cardinality(Pending)
      BY <2>1, OneFewer, Zenon DEF Pending
    <2> QED BY <1>1, <1>2, <1>4, <2>2, CommandsAssumption DEF Bound
  <1> QED BY <1>3, <1>4, Zenon

\* The proposal of a process that makes none.
LEMMA NothingTyped ==
    ASSUME TypeOK, Bound
    PROVE  Nothing \in DB!Objects(Epochs)
  <1> DEFINE f == [n \in {} |-> {ENFORCING}]
  <1>1. f \in [{} -> SUBSET DB!Flags] /\ {} \in SUBSET Nodes
    OBVIOUS
  <1>2. 1 \in Epochs
    BY RoomForStart, Zenon
  <1> HIDE DEF f
  <1>3. [cur |-> 1, rec |-> 0, flags |-> f] \in DB!Objects(Epochs)
    BY <1>1, <1>2, Made, Zenon
  <1> QED BY <1>3, Zenon DEF f, Nothing, DB!Create, ENFORCING

-----------------------------------------------------------------------------
(* Steps.                                                                  *)

\* A command begins.
LEMMA InvokeKeeps ==
    ASSUME IInv, NEW p \in Procs, Invoke(p)
    PROVE  IInv'
  <1>1. PICK op \in Commands, S \in (SUBSET Nodes) \ {{}} :
          /\ pc[p] = "idle"
          /\ op = "start" => obj.cur < MaxEpoch
          /\ call' = [call EXCEPT ![p] = [op |-> op, nodes |-> S]]
          /\ pc' = [pc EXCEPT ![p] = "read"]
          /\ UNCHANGED <<obj, current, pro, match, failed, prev_cur>>
    BY Zenon DEF Invoke
  <1> USE <1>1
  <1>2. TypeOK'
    BY CommandsAssumption, Zenon DEF IInv, TypeOK
  <1>3. /\ call'[p] = [op |-> op, nodes |-> S]
        /\ \A q \in Procs \ {p} : call'[q] = call[q] /\ pc'[q] = pc[q]
        /\ pc'[p] = "read"
    BY Zenon DEF IInv, TypeOK
  <1>4. Bound'
    <2>1. CASE op = "start"
      <3>1. /\ Cardinality(Procs) \in Nat /\ Cardinality(Pending') \in Nat
            /\ Cardinality(Pending') <= Cardinality(Procs)
        BY Fewer, Zenon DEF Pending
      <3>2. obj.cur \in Nat /\ obj.cur < MaxEpoch
        BY <2>1, RoomForStart, Zenon DEF IInv
      <3> QED BY <3>1, <3>2, CommandsAssumption DEF Bound
    <2>2. CASE op # "start"
      <3>1. Pending' \subseteq Pending
        BY <1>3, <2>2 DEF Pending
      <3> QED BY <3>1, BoundKept, Zenon DEF IInv
    <2> QED BY <2>1, <2>2, Zenon
  <1>5. Scratch'
    BY <1>3 DEF IInv, Scratch, Toggling
  <1>6. Proposals'
    BY <1>3 DEF IInv, TypeOK, Proposals, Declares, Pending
  <1>7. AtomicInv'
    BY <1>3, Zenon DEF IInv, TypeOK, AtomicInv, Atomic
  <1> QED BY <1>2, <1>4, <1>5, <1>6, <1>7, Zenon DEF IInv

\* A read ends with a proposal o.
LEMMA ProposeKeeps ==
    ASSUME IInv, NEW p \in Procs, NEW o \in DB!Objects(Epochs), pc[p] = "read",
           Propose(p, o), prev_cur' \in [Procs -> Epochs], Declares(p, o),
           Toggling(p) => Matched(p) \subseteq DB!Members(o),
           "remove" \notin Commands =>
             /\ DB!Members(obj) \subseteq DB!Members(o)
             /\ (call[p].op = "start" /\ failed[p]) \/ Follows(obj, o)
    PROVE  IInv'
  <1>1. /\ pro' = [pro EXCEPT ![p] = o] /\ match' = [match EXCEPT ![p] = Matched(p)]
        /\ current' = current \cup {p} /\ pc' = [pc EXCEPT ![p] = "write"]
        /\ UNCHANGED <<obj, call, failed>>
    BY Zenon DEF Propose
  <1> USE <1>1
  <1>2. /\ Matched(p) = match[p] \cup (call[p].nodes \cap DB!Members(obj))
        /\ Matched(p) \subseteq call[p].nodes /\ call[p].nodes \subseteq Nodes
    BY Zenon DEF IInv, TypeOK, Scratch, Matched
  <1>3. TypeOK'
    BY <1>2, Zenon DEF IInv, TypeOK
  <1>4. /\ pro'[p] = o /\ match'[p] = Matched(p) /\ pc'[p] = "write"
        /\ \A q \in Procs \ {p} : pro'[q] = pro[q] /\ match'[q] = match[q] /\ pc'[q] = pc[q]
        /\ Pending' = Pending
    BY Zenon DEF IInv, TypeOK, Pending
  <1>5. Bound'
    BY <1>4, BoundKept, Zenon DEF IInv
  <1>6. Scratch'
    <2>1. ASSUME NEW q \in Procs
          PROVE  /\ call'[q].op \in Commands \cup {"none"}
                 /\ match'[q] \subseteq call'[q].nodes
                 /\ pc'[q] = "idle" => match'[q] = {}
                 /\ pc'[q] # "idle" => call'[q].nodes # {}
                 /\ Toggling(q) => match'[q] \subseteq DB!Members(pro'[q])
      BY <1>2, <1>4 DEF IInv, Scratch
    <2> QED BY <2>1, Zenon DEF Scratch, Toggling
  <1>7. Proposals'
    BY <1>4 DEF IInv, TypeOK, Proposals, Declares
  <1>8. AtomicInv'
    BY <1>2, <1>4 DEF IInv, TypeOK, AtomicInv, Atomic
  <1> QED BY <1>3, <1>5, <1>6, <1>7, <1>8, Zenon DEF IInv

\* A command returns without a write.
LEMMA ReturnKeeps ==
    ASSUME IInv, NEW p \in Procs, Return(p), UNCHANGED <<obj, current>>
    PROVE  IInv'
  <1>1. TypeOK' /\ Pending' \subseteq Pending
    <2>1. Nothing \in DB!Objects(Epochs)
      BY NothingTyped, Zenon DEF IInv
    <2>2. 0 \in Epochs
      BY RoomForStart, Zenon DEF IInv
    <2> QED BY <2>1, <2>2, Zenon DEF IInv, TypeOK, Return, NoCall, Pending
  <1>2. Bound'
    BY <1>1, BoundKept, Zenon DEF IInv
  <1>3. /\ call'[p] = NoCall /\ match'[p] = {} /\ pc'[p] = "idle"
        /\ \A q \in Procs \ {p} : /\ pro'[q] = pro[q] /\ match'[q] = match[q] /\ pc'[q] = pc[q]
                                  /\ call'[q] = call[q] /\ failed'[q] = failed[q]
    BY Zenon DEF IInv, TypeOK, Return
  <1>4. Scratch'
    BY <1>3 DEF IInv, Scratch, Toggling, NoCall
  <1>5. Proposals'
    BY <1>3 DEF IInv, TypeOK, Proposals, Declares, Pending
  <1>6. AtomicInv'
    BY <1>3, Zenon DEF IInv, TypeOK, AtomicInv, Atomic
  <1> QED BY <1>1, <1>2, <1>4, <1>5, <1>6, Zenon DEF IInv

\* A proposal is written, and the command returns or starts over.
LEMMA WrittenKeeps ==
    ASSUME IInv, NEW p \in current, pc[p] = "write", obj' = pro[p], current' = {},
           TypeOK', Scratch', Pending' \subseteq Pending \ {p},
           \A q \in Procs : match'[q] \subseteq match[q]
    PROVE  IInv'
  <1>1. Bound'
    BY BoundKept, Zenon DEF IInv, Proposals, Declares
  <1>2. Proposals'
    BY Zenon DEF Proposals
  <1>3. AtomicInv'
    BY Zenon DEF IInv, TypeOK, AtomicInv, Atomic
  <1> QED BY <1>1, <1>2, <1>3, Zenon DEF IInv

\* A round ends with an error or because the object has changed.
LEMMA AgainKeeps ==
    ASSUME IInv, NEW p \in Procs, pc[p] = "write", NEW b \in BOOLEAN,
           pc' = [pc EXCEPT ![p] = "read"], failed' = [failed EXCEPT ![p] = b],
           call[p].op = "start" => b,
           pro' = [pro EXCEPT ![p] = Kept(p)], UNCHANGED <<call, match, prev_cur>>
    PROVE  /\ obj' \in DB!Objects(Epochs) /\ current' \subseteq Procs => TypeOK'
           /\ Scratch' /\ Pending' \subseteq Pending \ {p}
           /\ UNCHANGED <<obj, current>> => IInv'
  <1>1. Kept(p) \in DB!Objects(Epochs)
    <2>1. Nothing \in DB!Objects(Epochs)
      BY NothingTyped, Zenon DEF IInv
    <2> QED BY <2>1, Zenon DEF IInv, TypeOK, Kept
  <1>2. obj' \in DB!Objects(Epochs) /\ current' \subseteq Procs => TypeOK'
    BY <1>1, Zenon DEF IInv, TypeOK
  <1>3. /\ pc'[p] = "read" /\ failed'[p] = b /\ pro'[p] = Kept(p)
        /\ \A q \in Procs \ {p} : pro'[q] = pro[q] /\ pc'[q] = pc[q] /\ failed'[q] = failed[q]
    BY Zenon DEF IInv, TypeOK
  <1>4. Scratch'
    <2>1. ASSUME NEW q \in Procs
          PROVE  /\ call'[q].op \in Commands \cup {"none"}
                 /\ match'[q] \subseteq call'[q].nodes
                 /\ pc'[q] = "idle" => match'[q] = {}
                 /\ pc'[q] # "idle" => call'[q].nodes # {}
                 /\ Toggling(q) => match'[q] \subseteq DB!Members(pro'[q])
      BY <1>3, Zenon DEF IInv, Scratch, Kept, Toggling
    <2> QED BY <2>1, Zenon DEF Scratch, Toggling
  <1>5. Pending' \subseteq Pending \ {p}
    BY <1>3, Zenon DEF Pending
  <1>6. ASSUME UNCHANGED <<obj, current>> PROVE IInv'
    <2>1. TypeOK'
      BY <1>2, <1>6, Zenon DEF IInv, TypeOK
    <2>2. Bound'
      BY <1>5, <1>6, BoundKept, Zenon DEF IInv
    <2>3. Proposals'
      BY <1>3, <1>6 DEF IInv, TypeOK, Proposals, Declares, Pending
    <2>4. AtomicInv'
      BY <1>3, <1>6, Zenon DEF IInv, TypeOK, AtomicInv, Atomic
    <2> QED BY <1>4, <2>1, <2>2, <2>3, <2>4, Zenon DEF IInv
  <1> QED BY <1>2, <1>4, <1>5, <1>6, Zenon

\* The object is replaced on condition that it is the one that was read.
LEMMA WriteKeeps ==
    ASSUME IInv, NEW p \in Procs, Write(p)
    PROVE  IInv'
  <1>1. TypeOK'
    <2>1. Nothing \in DB!Objects(Epochs)
      BY NothingTyped, Zenon DEF IInv
    <2>2. 0 \in Epochs
      BY RoomForStart, Zenon DEF IInv
    <2> QED BY <2>1, <2>2, Zenon DEF IInv, TypeOK, Write, Return, NoCall
  <1>2. /\ call'[p] = NoCall /\ match'[p] = {} /\ pc'[p] = "idle"
        /\ \A q \in Procs \ {p} : /\ pro'[q] = pro[q] /\ match'[q] = match[q] /\ pc'[q] = pc[q]
                                  /\ call'[q] = call[q] /\ failed'[q] = failed[q]
    BY Zenon DEF IInv, TypeOK, Write, Return
  <1>3. Scratch'
    BY <1>2 DEF IInv, Scratch, Toggling, NoCall
  <1>4. Pending' \subseteq Pending \ {p}
    BY <1>2 DEF Pending, NoCall
  <1>5. \A q \in Procs : match'[q] \subseteq match[q]
    BY <1>2, Zenon
  <1> QED BY <1>1, <1>3, <1>4, <1>5, WrittenKeeps, Zenon DEF Write

\* The version is old: nothing is written, and the round starts over.
LEMMA WriteRetryKeeps ==
    ASSUME IInv, NEW p \in Procs, WriteRetry(p)
    PROVE  IInv'
  <1> DEFINE b == call[p].op \in {"start", "join"}
  <1>1. /\ b \in BOOLEAN /\ (call[p].op = "start" => b)
    OBVIOUS
  <1> QED BY <1>1, AgainKeeps, Zenon DEF WriteRetry

\* An error of the write, which may have been applied.
LEMMA WriteErrorKeeps ==
    ASSUME IInv, NEW p \in Procs, WriteError(p)
    PROVE  IInv'
  <1>1. CASE call[p].op \in {"start", "join"}
    <2>1. /\ pc[p] = "write" /\ pc' = [pc EXCEPT ![p] = "read"]
          /\ failed' = [failed EXCEPT ![p] = TRUE]
          /\ pro' = [pro EXCEPT ![p] = Kept(p)] /\ UNCHANGED <<call, match, prev_cur>>
          /\ UNCHANGED <<obj, current>> \/ (p \in current /\ obj' = pro[p] /\ current' = {})
      BY <1>1, Zenon DEF WriteError
    <2>2. /\ obj' \in DB!Objects(Epochs) /\ current' \subseteq Procs => TypeOK'
          /\ Scratch' /\ Pending' \subseteq Pending \ {p}
          /\ UNCHANGED <<obj, current>> => IInv'
      BY <2>1, AgainKeeps, Zenon
    <2>3. CASE p \in current /\ obj' = pro[p] /\ current' = {}
      <3>1. TypeOK'
        BY <2>2, <2>3, Zenon DEF IInv, TypeOK
      <3> QED BY <2>1, <2>2, <2>3, <3>1, WrittenKeeps, Zenon
    <2> QED BY <2>1, <2>2, <2>3, Zenon
  <1>2. CASE call[p].op \notin {"start", "join"}
    <2>1. /\ pc[p] = "write" /\ Return(p)
          /\ UNCHANGED <<obj, current>> \/ (p \in current /\ obj' = pro[p] /\ current' = {})
      BY <1>2, Zenon DEF WriteError
    <2>2. CASE UNCHANGED <<obj, current>>
      BY <2>1, <2>2, ReturnKeeps, Zenon
    <2>3. CASE p \in current /\ obj' = pro[p] /\ current' = {}
      BY <2>1, <2>3, WriteKeeps, Zenon DEF Write
    <2> QED BY <2>1, <2>2, <2>3, Zenon
  <1> QED BY <1>1, <1>2, Zenon

-----------------------------------------------------------------------------
(* The reads.                                                              *)

\* What the reads need to know of the object, and that as long as no record is
\* removed the nodes matched are members.
LEMMA Reading ==
    ASSUME IInv, NEW p \in Procs
    PROVE  /\ obj \in DB!Objects(Epochs) /\ obj.cur \in Epochs /\ obj.rec \in Epochs
           /\ DB!Members(obj) \subseteq Nodes
           /\ obj.flags \in [DB!Members(obj) -> SUBSET DB!Flags]
           /\ call[p].nodes \subseteq Nodes
           /\ Matched(p) \subseteq call[p].nodes
           /\ "remove" \notin Commands => Matched(p) \subseteq DB!Members(obj)
           /\ pc[p] # "idle" => call[p].nodes \in (SUBSET Nodes) \ {{}}
           /\ call[p].op \in Commands \cup {"none"}
  <1>1. obj \in DB!Objects(Epochs) /\ call[p].nodes \subseteq Nodes
    BY Zenon DEF IInv, TypeOK
  <1>2. /\ obj.cur \in Epochs /\ obj.rec \in Epochs
        /\ DB!Members(obj) \subseteq Nodes
        /\ obj.flags \in [DB!Members(obj) -> SUBSET DB!Flags]
    BY <1>1, Fields, RoomForStart, Zenon DEF IInv
  <1>3. /\ Matched(p) \subseteq call[p].nodes
        /\ "remove" \notin Commands => Matched(p) \subseteq DB!Members(obj)
    BY Zenon DEF IInv, Scratch, AtomicInv, Atomic, Matched
  <1> QED BY <1>1, <1>2, <1>3, Zenon DEF IInv, Scratch

\* rados_grace_add proposes new records.
LEMMA ReadAddKeeps ==
    ASSUME IInv, NEW p \in Procs, ReadAdd(p)
    PROVE  IInv'
  <1> DEFINE S == call[p].nodes
             f == [n \in S |-> {ENFORCING}]
             o == DB!SetFlags(obj, f)
  <1>1. /\ pc[p] = "read" /\ call[p].op = "add" /\ S \cap DB!Members(obj) = {}
        /\ Propose(p, o) /\ prev_cur' = prev_cur
    BY Zenon DEF ReadAdd
  <1>2. /\ obj \in DB!Objects(Epochs) /\ S \in (SUBSET Nodes) \ {{}}
    BY <1>1, Reading, Zenon
  <1>3. f \in [S -> SUBSET DB!Flags]
    BY Zenon DEF DB!Flags, ENFORCING
  <1>4. /\ o \in DB!Objects(Epochs) /\ o.cur = obj.cur
        /\ DB!Members(o) = DB!Members(obj) \cup S
    <2>1. o = DB!SetFlags(obj, f) /\ DOMAIN f = S
      OBVIOUS
    <2> HIDE DEF o, f, S
    <2> QED BY <1>2, <1>3, <2>1, SetFlagsTyped, Zenon
  <1>5. Follows(obj, o)
    BY <1>1, <1>2, Zenon DEF Follows, Allowed
  <1>6. Declares(p, o) /\ ~Toggling(p) /\ prev_cur' \in [Procs -> Epochs]
    BY <1>1, <1>4, Zenon DEF Declares, Toggling, IInv, TypeOK
  <1> HIDE DEF o, S
  <1> QED BY <1>1, <1>4, <1>5, <1>6, ProposeKeeps, Zenon

\* rados_grace_enforcing_toggle proposes the flags of the nodes it matched, in
\* earlier rounds too.
LEMMA ReadToggleKeeps ==
    ASSUME IInv, NEW p \in Procs, ReadToggle(p)
    PROVE  IInv'
  <1> DEFINE S == call[p].nodes
             New(n) == IF n \notin DB!Members(obj) THEN pro[p].flags[n]
                       ELSE IF call[p].op = "enforce"
                            THEN obj.flags[n] \cup {ENFORCING}
                            ELSE obj.flags[n] \ {ENFORCING}
             f == [n \in S |-> New(n)]
             o == DB!SetFlags(obj, f)
  <1>1. /\ pc[p] = "read" /\ Toggling(p) /\ S \subseteq Matched(p)
        /\ Propose(p, o) /\ prev_cur' = prev_cur
    BY Zenon DEF ReadToggle, Toggling
  <1>2. /\ obj \in DB!Objects(Epochs) /\ S \in (SUBSET Nodes) \ {{}}
        /\ obj.flags \in [DB!Members(obj) -> SUBSET DB!Flags]
        /\ Matched(p) \subseteq S
        /\ "remove" \notin Commands => Matched(p) \subseteq DB!Members(obj)
    BY <1>1, Reading, Zenon
  <1>3. f \in [S -> SUBSET DB!Flags]
    <2>1. pro[p] \in DB!Objects(Epochs) /\ match[p] \subseteq DB!Members(pro[p])
      BY <1>1, Zenon DEF IInv, TypeOK, Scratch
    <2>2. pro[p].flags \in [DB!Members(pro[p]) -> SUBSET DB!Flags]
      BY <2>1, Fields, Zenon
    <2>3. ASSUME NEW n \in S PROVE New(n) \in SUBSET DB!Flags
      <3>1. n \in DB!Members(obj) \/ n \in match[p]
        BY <1>1, Zenon DEF Matched
      <3> QED BY <1>2, <2>1, <2>2, <3>1, Zenon DEF DB!Flags, ENFORCING
    <2> QED BY <2>3, Zenon
  <1>4. /\ o \in DB!Objects(Epochs) /\ o.cur = obj.cur
        /\ DB!Members(o) = DB!Members(obj) \cup S
    <2>1. o = DB!SetFlags(obj, f) /\ DOMAIN f = S
      OBVIOUS
    <2> HIDE DEF o, f, S
    <2> QED BY <1>2, <1>3, <2>1, SetFlagsTyped, Zenon
  <1>5. ASSUME "remove" \notin Commands PROVE Follows(obj, o)
    <2>1. S \subseteq DB!Members(obj)
      BY <1>1, <1>2, <1>5, Zenon
    <2>2. CASE call[p].op = "enforce"
      <3>1. f = [n \in S |-> obj.flags[n] \cup {ENFORCING}]
        BY <2>1, <2>2, Zenon
      <3> QED BY <1>2, <2>1, <3>1, Zenon DEF Follows, Allowed
    <2>3. CASE call[p].op # "enforce"
      <3>1. f = [n \in S |-> obj.flags[n] \ {ENFORCING}]
        BY <2>1, <2>3, Zenon
      <3> QED BY <1>2, <2>1, <3>1, Zenon DEF Follows, Allowed
    <2> QED BY <2>2, <2>3, Zenon
  <1>6. Declares(p, o) /\ prev_cur' \in [Procs -> Epochs]
    BY <1>1, <1>4, Zenon DEF Declares, IInv, TypeOK
  <1> HIDE DEF o, S
  <1> QED BY <1>1, <1>2, <1>4, <1>5, <1>6, ProposeKeeps, Zenon

\* The flags of the nodes are set, by a start or a join command.
LEMMA JoinFlagsTyped ==
    ASSUME IInv, NEW p \in Procs
    PROVE  /\ JoinFlags(p) = DB!SetFlags(obj, [n \in call[p].nodes |-> DB!Flags])
           /\ JoinFlags(p) \in DB!Objects(Epochs)
           /\ JoinFlags(p).cur = obj.cur
           /\ DB!Members(JoinFlags(p)) = DB!Members(obj) \cup call[p].nodes
  <1> DEFINE S == call[p].nodes
             f == [n \in S |-> DB!Flags]
  <1>1. obj \in DB!Objects(Epochs) /\ S \subseteq Nodes
    BY Reading, Zenon
  <1>2. f \in [S -> SUBSET DB!Flags]
    OBVIOUS
  <1>3. JoinFlags(p) = DB!SetFlags(obj, f)
    BY Zenon DEF JoinFlags, DB!Flags, NEED, ENFORCING
  <1>4. /\ JoinFlags(p) \in DB!Objects(Epochs)
        /\ JoinFlags(p).cur = obj.cur
        /\ DB!Members(JoinFlags(p)) = DB!Members(obj) \cup S
    <2>1. DOMAIN f = S
      OBVIOUS
    <2> HIDE DEF f, S
    <2> QED BY <1>1, <1>2, <1>3, <2>1, SetFlagsTyped, Zenon
  <1> QED BY <1>3, <1>4, Zenon

\* rados_grace_join_bulk while a grace period is in effect.
LEMMA ReadJoinKeeps ==
    ASSUME IInv, NEW p \in Procs, ReadJoin(p)
    PROVE  IInv'
  <1> DEFINE S == call[p].nodes
             o == JoinFlags(p)
  <1>1. /\ pc[p] = "read" /\ call[p].op \in {"start", "join"} /\ S \subseteq Matched(p)
        /\ obj.rec # 0 /\ Propose(p, o) /\ prev_cur' = prev_cur
    BY Zenon DEF ReadJoin
  <1>2. /\ S \in (SUBSET Nodes) \ {{}}
        /\ "remove" \notin Commands => Matched(p) \subseteq DB!Members(obj)
    BY <1>1, Reading, Zenon
  <1>3. /\ o = DB!SetFlags(obj, [n \in S |-> DB!Flags])
        /\ o \in DB!Objects(Epochs) /\ o.cur = obj.cur
        /\ DB!Members(o) = DB!Members(obj) \cup S
    BY JoinFlagsTyped, Zenon
  <1>4. ASSUME "remove" \notin Commands PROVE Follows(obj, o)
    <2>1. S \subseteq DB!Members(obj)
      BY <1>1, <1>2, <1>4, Zenon
    <2> QED BY <1>1, <1>2, <1>3, <2>1, Zenon DEF Follows, Allowed
  <1>5. Declares(p, o) /\ ~Toggling(p) /\ prev_cur' \in [Procs -> Epochs]
    BY <1>1, <1>3, Zenon DEF Declares, Toggling, IInv, TypeOK
  <1> HIDE DEF o, S
  <1> QED BY <1>1, <1>3, <1>4, <1>5, ProposeKeeps, Zenon

\* A new epoch is declared in the first round only; a later round sets the
\* recovery epoch alone.
LEMMA ReadStartKeeps ==
    ASSUME IInv, NEW p \in Procs, ReadStart(p)
    PROVE  IInv'
  <1> DEFINE S == call[p].nodes
             j == JoinFlags(p)
  <1>1. /\ pc[p] = "read" /\ call[p].op = "start" /\ S \subseteq Matched(p) /\ obj.rec = 0
        /\ ~Toggling(p)
    BY Zenon DEF ReadStart, Toggling
  <1>2. /\ S \in (SUBSET Nodes) \ {{}} /\ obj.cur \in Epochs
        /\ "remove" \notin Commands => Matched(p) \subseteq DB!Members(obj)
    BY <1>1, Reading, Zenon
  <1>3. /\ j = DB!SetFlags(obj, [n \in S |-> DB!Flags])
        /\ j \in DB!Objects(Epochs) /\ j.cur = obj.cur
        /\ DB!Members(j) = DB!Members(obj) \cup S
    BY JoinFlagsTyped, Zenon
  <1>4. CASE failed[p]
    <2>1. PICK e \in PrevCur(p) : Propose(p, [j EXCEPT !.rec = e])
      BY <1>4, Zenon DEF ReadStart
    <2>2. e \in Epochs
      BY DEF PrevCur, IInv, TypeOK
    <2>3. prev_cur' \in [Procs -> Epochs]
      BY <1>4, Zenon DEF ReadStart, IInv, TypeOK
    <2> DEFINE o == [j EXCEPT !.rec = e]
    <2> HIDE DEF j
    <2>4. o \in DB!Objects(Epochs) /\ o.cur = j.cur /\ DB!Members(o) = DB!Members(j)
      <3>1. o = [j EXCEPT !.rec = e]
        OBVIOUS
      <3> HIDE DEF o
      <3> QED BY <1>3, <2>2, <3>1, RecTyped
    <2>5. Declares(p, o)
      BY <1>3, <2>4, Zenon DEF Declares
    <2> HIDE DEF o
    <2> QED BY <1>1, <1>3, <1>4, <2>1, <2>3, <2>4, <2>5, ProposeKeeps, Zenon DEF o
  <1>5. CASE ~failed[p]
    <2> DEFINE o == [j EXCEPT !.rec = obj.cur, !.cur = obj.cur + 1]
    <2>1. Propose(p, o) /\ prev_cur' = [prev_cur EXCEPT ![p] = obj.cur]
      BY <1>3, <1>5, Zenon DEF ReadStart
    <2>2. p \in Pending /\ obj.cur + 1 \in Epochs
      BY <1>1, <1>5, RoomForStart, Zenon DEF Pending, IInv
    <2> HIDE DEF j
    <2>3. o \in DB!Objects(Epochs) /\ o.cur = obj.cur + 1 /\ DB!Members(o) = DB!Members(j)
      <3> DEFINE c == obj.cur + 1
                 R == Epochs \cup {0}
                 F == UNION {[M -> SUBSET DB!Flags] : M \in SUBSET Nodes}
                 q == [cur |-> c, rec |-> obj.cur, flags |-> j.flags]
      <3>1. c \in Epochs /\ obj.cur \in R
        BY <1>2, <2>2, Zenon
      <3>2. j \in [cur : Epochs, rec : R, flags : F]
        BY <1>3, Zenon DEF DB!Objects
      <3>3. o = q
        <4> SUFFICES ASSUME NEW e, e = [j EXCEPT !.rec = obj.cur, !.cur = c]
                     PROVE  e = q
          OBVIOUS
        <4> HIDE DEF R, F, c
        <4> QED BY <3>2, Zenon
      <3>4. q \in [cur : Epochs, rec : R, flags : F] /\ q.cur = c /\ q.flags = j.flags
        <4> HIDE DEF R, F, c
        <4> QED BY <3>1, <3>2, Zenon
      <3> HIDE DEF q, o
      <3> QED BY <3>3, <3>4, Zenon DEF DB!Objects, DB!Members
    <2>4. Declares(p, o) /\ prev_cur' \in [Procs -> Epochs]
      BY <1>2, <2>1, <2>2, <2>3, Zenon DEF Declares, IInv, TypeOK
    <2>5. ASSUME "remove" \notin Commands PROVE Follows(obj, o)
      <3>1. S \subseteq DB!Members(obj)
        BY <1>1, <1>2, <2>5, Zenon
      <3> QED BY <1>1, <1>2, <1>3, <3>1, Zenon DEF Follows, Allowed
    <2> HIDE DEF o
    <2> QED BY <1>1, <1>3, <2>1, <2>3, <2>4, <2>5, ProposeKeeps, Zenon
  <1> QED BY <1>4, <1>5, Zenon

\* Comparing the numbers of records is as good as asking whether the nodes that
\* need the grace period are those of the command.
LEMMA LiftCounts ==
    ASSUME IInv, NEW K \in SUBSET DB!With(obj, NEED)
    PROVE  Cardinality(DB!With(obj, NEED)) = Cardinality(K) <=> K = DB!With(obj, NEED)
  <1>1. DB!With(obj, NEED) \subseteq Nodes
    BY Fields, Zenon DEF IInv, TypeOK, DB!With
  <1>2. IsFiniteSet(DB!With(obj, NEED))
    BY <1>1, CommandsAssumption, FS_Subset, Zenon
  <1> QED BY <1>2, FS_Subset, Zenon

\* rados_grace_lift_bulk proposes to clear NEED, and to end the grace period if
\* the numbers say so.
LEMMA ReadLiftKeeps ==
    ASSUME IInv, NEW p \in Procs, ReadLift(p)
    PROVE  IInv'
  <1> DEFINE S == call[p].nodes
             K == Keys(p)
             all == Cardinality(DB!With(obj, NEED)) = Cardinality(K)
             f == [n \in K |-> obj.flags[n] \ {NEED}]
             g == [n \in DB!Members(obj) \ K |-> obj.flags[n]]
             o == IF call[p].op = "remove" THEN [obj EXCEPT !.flags = g]
                                           ELSE DB!SetFlags(obj, f)
             q == IF all THEN [o EXCEPT !.rec = 0] ELSE o
  <1>1. /\ pc[p] = "read" /\ call[p].op \in {"lift", "remove"}
        /\ obj.rec # 0 => AllEnforcing
        /\ K # {} /\ Propose(p, q) /\ prev_cur' = prev_cur
    BY Zenon DEF ReadLift, Lifting
  <1>2. /\ obj \in DB!Objects(Epochs) /\ obj.cur \in Epochs /\ obj.rec \in Epochs
        /\ DB!Members(obj) \subseteq Nodes
        /\ obj.flags \in [DB!Members(obj) -> SUBSET DB!Flags]
        /\ call[p].op \in Commands \cup {"none"}
    BY Reading, Zenon
  <1>3. K \subseteq DB!Members(obj)
    BY Zenon DEF Keys, DB!With
  <1>4. /\ o \in DB!Objects(Epochs) /\ o.cur = obj.cur
        /\ call[p].op # "remove" => DB!Members(o) = DB!Members(obj)
    <2>1. CASE call[p].op = "remove"
      <3>1. g \in [DB!Members(obj) \ K -> SUBSET DB!Flags]
        BY <1>2, Zenon
      <3>2. obj = [cur |-> obj.cur, rec |-> obj.rec, flags |-> obj.flags]
        BY <1>2, Fields, Zenon
      <3> HIDE DEF g, K
      <3>3. [obj EXCEPT !.flags = g] = [cur |-> obj.cur, rec |-> obj.rec, flags |-> g]
        BY <3>2
      <3>4. [cur |-> obj.cur, rec |-> obj.rec, flags |-> g] \in DB!Objects(Epochs)
        BY <1>2, <3>1, Made, Zenon
      <3> QED BY <2>1, <3>3, <3>4, Zenon
    <2>2. CASE call[p].op # "remove"
      <3>1. f \in [K -> SUBSET DB!Flags]
        BY <1>2, <1>3, Zenon
      <3>2. o = DB!SetFlags(obj, f) /\ K \subseteq Nodes /\ obj \in DB!Objects(Epochs)
        BY <1>2, <1>3, <2>2, Zenon
      <3>4. DOMAIN f = K
        OBVIOUS
      <3> HIDE DEF f, K, o
      <3>3. o \in DB!Objects(Epochs) /\ o.cur = obj.cur /\ DB!Members(o) = DB!Members(obj) \cup K
        BY <3>1, <3>2, <3>4, SetFlagsTyped, Zenon
      <3> QED BY <1>3, <3>3, Zenon
    <2> QED BY <2>1, <2>2, Zenon
  <1>5. ASSUME call[p].op # "remove" PROVE Follows(obj, q)
    <2>1. K \subseteq DB!With(obj, NEED)
      BY <1>5, Zenon DEF Keys
    <2>2. o = DB!SetFlags(obj, f)
      BY <1>5, Zenon
    <2>3. all <=> K = DB!With(obj, NEED)
      BY <2>1, LiftCounts, Zenon
    <2>4. DB!With(o, NEED) = DB!With(obj, NEED) \ K
      <3>1. f \in [K -> SUBSET DB!Flags]
        BY <1>2, <1>3, Zenon
      <3>2. \A n \in K : f[n] = obj.flags[n] \ {NEED}
        OBVIOUS
      <3> HIDE DEF f, K, o
      <3>3. K \subseteq Nodes /\ obj \in DB!Objects(Epochs) /\ DOMAIN f = K
        BY <1>2, <1>3, <3>1, Zenon
      <3>4. /\ DB!Members(o) = DB!Members(obj) \cup K
            /\ o.flags = [n \in DB!Members(obj) \cup K |->
                            IF n \in K THEN f[n] ELSE obj.flags[n]]
        BY <2>2, <3>1, <3>3, SetFlagsTyped
      <3> QED BY <1>3, <2>1, <3>2, <3>4, Zenon DEF DB!With
    <2>5. q = DB!EndIfUnneeded(o)
      BY <2>1, <2>3, <2>4, Zenon DEF DB!EndIfUnneeded, NEED
    <2>6. K \in (SUBSET Nodes) \ {{}} /\ K \subseteq DB!Members(obj)
      BY <1>1, <1>2, <1>3, Zenon
    <2>7. obj.rec # 0 => DB!With(obj, ENFORCING) = DB!Members(obj)
      BY <1>1, Zenon DEF AllEnforcing
    <2>8. Allowed(obj, q, K)
      BY <2>2, <2>5, <2>6, <2>7, Zenon DEF Allowed
    <2> QED BY <2>6, <2>8, Zenon DEF Follows
  <1>6. /\ q \in DB!Objects(Epochs) /\ q.cur = obj.cur
        /\ call[p].op # "remove" => DB!Members(q) = DB!Members(obj)
    <2> HIDE DEF o
    <2>1. q = [o EXCEPT !.rec = 0] \/ q = o
      OBVIOUS
    <2> HIDE DEF q
    <2> QED BY <1>4, <2>1, RecTyped
  <1>7. Declares(p, q) /\ ~Toggling(p) /\ prev_cur' \in [Procs -> Epochs]
    BY <1>1, <1>6, Zenon DEF Declares, Toggling, IInv, TypeOK
  <1> HIDE DEF q, K
  <1> QED BY <1>1, <1>2, <1>5, <1>6, <1>7, ProposeKeeps, Zenon

-----------------------------------------------------------------------------
(* The invariant and the theorems.                                         *)

\* A database without a grace period or in its first one; no process has begun.
LEMMA InitInvariant == Init => IInv
  <1> SUFFICES ASSUME Init PROVE IInv
    OBVIOUS
  <1>1. /\ Cardinality(Procs) \in Nat /\ Pending = {} /\ Cardinality({}) = 0
        /\ {0, 1, 2} \subseteq Epochs
    <2>1. Cardinality(Procs) \in Nat
      BY Fewer, Zenon
    <2> QED BY <2>1, CommandsAssumption, FS_EmptySet DEF Init, Pending, NoCall, Epochs
  <1>2. obj \in DB!Objects(Epochs) /\ obj.cur <= 2
    <2>1. PICK M \in SUBSET Nodes :
            \/ obj = DB!Create(M)
            \/ \E enforcing \in SUBSET M, need \in (SUBSET M) \ {{}} :
                 obj = DB!Recovering(M, need, enforcing)
      BY Zenon DEF Init, DB!Init
    <2>2. CASE obj = DB!Create(M)
      <3>1. [n \in M |-> {DB!ENFORCING}] \in [M -> SUBSET DB!Flags]
        BY Zenon DEF DB!Flags
      <3>2. obj = [cur |-> 1, rec |-> 0, flags |-> [n \in M |-> {DB!ENFORCING}]]
        BY <2>2, Zenon DEF DB!Create
      <3> QED BY <1>1, <3>1, <3>2, Made
    <2>3. CASE \E enforcing \in SUBSET M, need \in (SUBSET M) \ {{}} :
                 obj = DB!Recovering(M, need, enforcing)
      <3>1. PICK enforcing \in SUBSET M, need \in (SUBSET M) \ {{}} :
              obj = DB!Recovering(M, need, enforcing)
        BY <2>3, Zenon
      <3> DEFINE f == [n \in M |-> (IF n \in need THEN {DB!NEED} ELSE {}) \cup
                                   (IF n \in enforcing THEN {DB!ENFORCING} ELSE {})]
      <3>2. f \in [M -> SUBSET DB!Flags]
        BY Zenon DEF DB!Flags
      <3>3. obj = [cur |-> 2, rec |-> 1, flags |-> f]
        BY <3>1, Zenon DEF DB!Recovering
      <3> HIDE DEF f
      <3> QED BY <1>1, <3>2, <3>3, Made
    <2> QED BY <2>1, <2>2, <2>3, Zenon
  <1>3. TypeOK
    <2>1. obj.cur \in Nat /\ Bound
      <3>1. obj.cur \in Epochs
        BY <1>2, Fields, Zenon
      <3> QED BY <1>1, <1>2, <3>1, CommandsAssumption DEF Bound, Epochs
    <2> DEFINE f == [n \in {} |-> {ENFORCING}]
    <2>2. f \in [{} -> SUBSET DB!Flags] /\ {} \in SUBSET Nodes
      OBVIOUS
    <2> HIDE DEF f
    <2>3. [cur |-> 1, rec |-> 0, flags |-> f] \in DB!Objects(Epochs)
      BY <1>1, <2>2, Made, Zenon
    <2>4. Nothing \in DB!Objects(Epochs)
      BY <2>3, Zenon DEF f, Nothing, DB!Create, ENFORCING
    <2> QED BY <1>1, <1>2, <2>4, Zenon DEF Init, TypeOK, NoCall
  <1>4. Bound
    <2>1. obj.cur \in Epochs
      BY <1>2, Fields, Zenon
    <2> QED BY <1>1, <1>2, <2>1, CommandsAssumption DEF Bound, Epochs
  <1>5. Scratch
    BY Zenon DEF Init, Scratch, Toggling, NoCall
  <1>6. Proposals /\ AtomicInv
    BY Zenon DEF Init, Proposals, AtomicInv, Atomic
  <1> QED BY <1>3, <1>4, <1>5, <1>6, Zenon DEF IInv

\* One case per action.
LEMMA NextInvariant == IInv /\ [Next]_vars => IInv'
  <1>1. ASSUME IInv, NEW p \in Procs,
               \/ Invoke(p) \/ ReadAdd(p) \/ ReadToggle(p) \/ ReadJoin(p)
               \/ ReadStart(p) \/ ReadLift(p) \/ ReadReturns(p) \/ ReadError(p)
               \/ Write(p) \/ WriteRetry(p) \/ WriteError(p)
        PROVE  IInv'
    <2>1. CASE ReadReturns(p) \/ ReadError(p)
      BY <1>1, <2>1, ReturnKeeps, Zenon DEF ReadReturns, ReadError
    <2> QED BY <1>1, <2>1, InvokeKeeps, ReadAddKeeps, ReadToggleKeeps, ReadJoinKeeps,
               ReadStartKeeps, ReadLiftKeeps, WriteKeeps, WriteRetryKeeps, WriteErrorKeeps, Zenon
  <1>2. ASSUME IInv, UNCHANGED vars PROVE IInv'
    <2>1. Pending' = Pending
      BY <1>2, Zenon DEF vars, Pending
    <2>2. TypeOK' /\ Bound'
      BY <1>2, <2>1, Zenon DEF vars, IInv, TypeOK, Bound
    <2>3. Scratch' /\ Proposals' /\ AtomicInv'
      BY <1>2, <2>1, Zenon DEF vars, IInv, Scratch, Toggling, Proposals, Declares,
         AtomicInv, Atomic
    <2> QED BY <2>2, <2>3, Zenon DEF IInv
  <1> QED BY <1>1, <1>2, Zenon DEF Next

\* The invariant holds throughout.
LEMMA Invariance == Spec => []IInv
  BY InitInvariant, NextInvariant, PTL DEF Spec

\* Types, and with them that the epoch never goes beyond one more for every
\* process that was about to start a grace period: rados_grace_join_bulk
\* declares an epoch at most once, however often its writes fail.
THEOREM TypeCorrect == Spec => []TypeOK
  <1>1. IInv => TypeOK
    BY Zenon DEF IInv
  <1> QED BY <1>1, Invariance, PTL

\* The commands of rados_grace.c (other than the removal of a node) are as good
\* as atomic: the conditional write applies to the object that was read, and
\* comparing the numbers of records is right for a lift.
THEOREM Implements ==
    ASSUME "remove" \notin Commands
    PROVE  Spec => AtomicCommands
  <1> DEFINE A == DB!Next \/ \E p \in Procs : RetriedStart(p)
  <1>1. Init => DB!Init
    BY Zenon DEF Init
  <1>2. IInv /\ [Next]_vars => [A]_obj
    <2> SUFFICES ASSUME IInv, Next, obj' # obj PROVE A
      BY Zenon DEF vars
    <2>1. PICK p \in Procs : p \in current /\ pc[p] = "write" /\ obj' = pro[p]
      BY Zenon DEF Next, Invoke, ReadAdd, ReadToggle, ReadJoin, ReadStart, ReadLift,
         ReadReturns,
             ReadError, Write, WriteRetry, WriteError, Propose
    <2>2. (call[p].op = "start" /\ failed[p]) \/ Follows(obj, obj')
      BY <2>1, Zenon DEF IInv, AtomicInv, Atomic
    <2> QED BY <2>1, <2>2, CommandStep, Zenon DEF RetriedStart
  <1> QED BY <1>1, <1>2, Invariance, PTL DEF Spec, AtomicCommands

=============================================================================
