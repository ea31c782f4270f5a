---------------------------- MODULE GraceStatus ----------------------------
(***************************************************************************)
(* The grace_status word of one NFS server (SAL/nfs4_recovery.c): an       *)
(* ACTIVE bit, a CHANGE_REQ bit and a reference count packed in one        *)
(* 32 bit word that is read without a lock and updated by compare and      *)
(* swap.  Request threads take a reference to the current state of the     *)
(* grace period while they change state; the threads that start or lift    *)
(* the grace period must not flip ACTIVE under such a reference.           *)
(*                                                                         *)
(* One action is one atomic access to the word.  The rest of a locked      *)
(* section is folded into the access it follows.                           *)
(***************************************************************************)
EXTENDS Integers, FiniteSets

CONSTANTS
    Workers,     \* threads that run a state morphing NFS request
    Admins,      \* threads that call nfs_start_grace (start-up, dbus, cluster)
    Lifters,     \* threads that call nfs_try_lift_grace (reaper, start-up)
    NoThread,    \* grace_mutex is free
    StickyGrace  \* nfs_param.nfsv4_param.sticky_grace

Threads == Workers \cup Admins \cup Lifters

ASSUME ThreadsAssumption ==
    /\ IsFiniteSet(Workers)
    /\ Workers \cap (Admins \cup Lifters) = {}
    /\ Admins \cap Lifters = {}
    /\ NoThread \notin Threads

ASSUME ConfigAssumption == StickyGrace \in BOOLEAN

ACTIVE == "ACTIVE"
CHANGE_REQ == "CHANGE_REQ"

\* The values of the word: the two flag bits and the counter above them.
Words == [flags : SUBSET {ACTIVE, CHANGE_REQ}, count : Int]

VARIABLES
    grace_status, \* the word
    grace_mutex,  \* owner of grace_mutex
    pc,           \* where each thread is
    cur,          \* the word as each thread last read it, in a call
    want,         \* want_grace of each worker's nfs_get_grace_status
    expired       \* Grace_Period has passed since current_grace

vars == <<grace_status, grace_mutex, pc, cur, want, expired>>

Zero == [flags |-> {}, count |-> 0]

Init ==
    /\ grace_status = Zero
    /\ grace_mutex = NoThread
    /\ pc = [t \in Threads |-> "idle"]
    /\ cur = [t \in Threads |-> Zero]
    /\ want = [w \in Workers |-> FALSE]
    /\ expired = FALSE

Goto(t, label) == pc' = [pc EXCEPT ![t] = label]

\* Read the word into the local variable ...
Load(t) == cur' = [cur EXCEPT ![t] = grace_status]

\* ... which is dead once the loop that uses it is left.
Forget(t) == cur' = [cur EXCEPT ![t] = Zero]

-----------------------------------------------------------------------------
(* nfs_get_grace_status and nfs_put_grace_status, run by request threads.  *)

\* The state of the word is the one the caller asked for.
Matches(word, want_grace) == want_grace <=> (ACTIVE \in word.flags)

\* The first read of the word.  Without sticky grace it is the only one, and
\* the caller is told whether to go on; no reference is taken.
GetLoad(w) ==
    /\ pc[w] = "idle"
    /\ \E want_grace \in BOOLEAN :
         /\ want' = [want EXCEPT ![w] = want_grace]
         /\ IF StickyGrace
            THEN Load(w) /\ Goto(w, "get_cas")
            ELSE /\ Matches(grace_status, want_grace)
                 /\ Goto(w, "holding")
                 /\ UNCHANGED cur
    /\ UNCHANGED <<grace_status, grace_mutex, expired>>

\* The word last read rules a reference out: return false.
GetRefused(w) ==
    /\ pc[w] = "get_cas"
    /\ ~Matches(cur[w], want[w]) \/ CHANGE_REQ \in cur[w].flags
    /\ Goto(w, "idle") /\ Forget(w)
    /\ UNCHANGED <<grace_status, grace_mutex, want, expired>>

\* A variation of GetCas for mutation checks: the pending change is not looked
\* at.
GetCasIgnoresChange(w) ==
    /\ pc[w] = "get_cas"
    /\ Matches(cur[w], want[w])
    /\ grace_status = cur[w]
    /\ grace_status' = [grace_status EXCEPT !.count = @ + 1]
    /\ Goto(w, "holding") /\ Forget(w)
    /\ UNCHANGED <<grace_mutex, want, expired>>

\* The compare and swap that adds one reference; when the word has moved on,
\* its new value is what the next round of the loop looks at.
GetCas(w) ==
    /\ pc[w] = "get_cas"
    /\ Matches(cur[w], want[w])
    /\ CHANGE_REQ \notin cur[w].flags
    /\ IF grace_status = cur[w]
       THEN /\ grace_status' = [grace_status EXCEPT !.count = @ + 1]
            /\ Goto(w, "holding") /\ Forget(w)
       ELSE Load(w) /\ UNCHANGED <<grace_status, pc>>
    /\ UNCHANGED <<grace_mutex, want, expired>>

\* Drop the reference.  The thread that takes the count to zero while a
\* change is pending goes on to tell the waiters.
Put(w) ==
    /\ pc[w] = "holding"
    /\ IF StickyGrace
       THEN /\ grace_status' = [grace_status EXCEPT !.count = @ - 1]
            /\ Goto(w, IF /\ CHANGE_REQ \in grace_status.flags
                          /\ grace_status'.count = 0
                       THEN "notify" ELSE "idle")
       ELSE Goto(w, "idle") /\ UNCHANGED grace_status
    /\ UNCHANGED <<grace_mutex, cur, want, expired>>

\* nfs_notify_grace_norefs_waiters, after the decrement: everyone who waits in
\* nfs_wait_for_grace_norefs is released.  (reaper_wake only shortens a sleep
\* that ends by itself.)
PutNotify(w) ==
    /\ pc[w] = "notify"
    /\ pc' = [t \in Threads |-> IF t = w THEN "idle"
                               ELSE IF pc[t] = "waiting" THEN "retry"
                               ELSE pc[t]]
    /\ UNCHANGED <<grace_status, grace_mutex, cur, want, expired>>

-----------------------------------------------------------------------------
(* nfs_lift_grace_locked and nfs_start_grace.                              *)

\* The and-and-fetch that clears both flags, if grace is still active.
Lifted(word) ==
    IF ACTIVE \in word.flags THEN [word EXCEPT !.flags = {}] ELSE word

\* Take grace_mutex, restart the clock and read the word.  (A server that is
\* configured graceless leaves at once and never has a grace period.)
StartLock(a) ==
    /\ pc[a] \in {"idle", "retry"}
    /\ grace_mutex = NoThread
    /\ grace_mutex' = a
    /\ expired' = FALSE
    /\ Load(a) /\ Goto(a, "start_cas")
    /\ UNCHANGED <<grace_status, want>>

\* Variations of StartProposal: the references are ignored; they are respected
\* but the change is not asked for.
StartProposalEager(word) ==
    [word EXCEPT !.flags = (@ \cup {ACTIVE}) \ {CHANGE_REQ}]

StartProposalSilent(word) ==
    IF word.count # 0 THEN word ELSE StartProposalEager(word)

\* The word that nfs_start_grace proposes when grace is not active yet.
StartProposal(word) ==
    IF word.count # 0 /\ StickyGrace
    THEN [word EXCEPT !.flags = @ \cup {CHANGE_REQ}]
    ELSE [word EXCEPT !.flags = (@ \cup {ACTIVE}) \ {CHANGE_REQ}]

\* Already in grace: the period is extended and the word is left alone.
StartExtend(a) ==
    /\ pc[a] = "start_cas"
    /\ ACTIVE \in cur[a].flags
    /\ Goto(a, "start_tail") /\ Forget(a)
    /\ UNCHANGED <<grace_status, grace_mutex, want, expired>>

\* The compare and swap fails: look at the new value.
StartRetry(a) ==
    /\ pc[a] = "start_cas"
    /\ ACTIVE \notin cur[a].flags
    /\ StartProposal(cur[a]) # cur[a] /\ grace_status # cur[a]
    /\ Load(a)
    /\ UNCHANGED <<grace_status, grace_mutex, pc, want, expired>>

\* The compare and swap succeeds, or there is nothing to swap.  With
\* references outstanding it has only asked for the change: the mutex is
\* released and the caller gets EAGAIN.
StartCas(a) ==
    /\ pc[a] = "start_cas"
    /\ ACTIVE \notin cur[a].flags
    /\ IF StartProposal(cur[a]) = cur[a]
       THEN UNCHANGED grace_status
       ELSE grace_status = cur[a] /\ grace_status' = StartProposal(cur[a])
    /\ IF cur[a].count # 0 /\ StickyGrace
       THEN Goto(a, "eagain") /\ grace_mutex' = NoThread
       ELSE Goto(a, "start_tail") /\ UNCHANGED grace_mutex
    /\ Forget(a)
    /\ UNCHANGED <<want, expired>>

\* Report enforcement, load the client list, release the mutex.
StartTail(a) ==
    /\ pc[a] = "start_tail"
    /\ Goto(a, "idle")
    /\ grace_mutex' = NoThread
    /\ UNCHANGED <<grace_status, cur, want, expired>>

\* The caller that got EAGAIN waits for the references to go ...
WaitNorefs(a) ==
    /\ pc[a] = "eagain"
    /\ Goto(a, "waiting")
    /\ UNCHANGED <<grace_status, grace_mutex, cur, want, expired>>

\* ... for at most five seconds: the signal may have come before the wait.
WaitTimeout(a) ==
    /\ pc[a] = "waiting"
    /\ Goto(a, "retry")
    /\ UNCHANGED <<grace_status, grace_mutex, cur, want, expired>>

-----------------------------------------------------------------------------
(* nfs_try_lift_grace.                                                     *)

\* The unlocked test of ACTIVE, before the mutex is taken.
LiftCheck(l) ==
    /\ pc[l] = "idle"
    /\ ACTIVE \in grace_status.flags
    /\ Goto(l, "lift_lock")
    /\ UNCHANGED <<grace_status, grace_mutex, cur, want, expired>>

\* Under the mutex: give up unless the clock ran out or every client the list
\* names has reclaimed (all_reclaimed: the two counts are not modelled here).
LiftLock(l) ==
    /\ pc[l] = "lift_lock"
    /\ grace_mutex = NoThread
    /\ \E all_reclaimed \in BOOLEAN :
         IF expired \/ all_reclaimed
         THEN /\ grace_mutex' = l
              /\ Load(l)
              /\ Goto(l, IF StickyGrace THEN "lift_cas" ELSE "lift_backend")
         ELSE Goto(l, "idle") /\ UNCHANGED <<grace_mutex, cur>>
    /\ UNCHANGED <<grace_status, want, expired>>

\* The compare and swap that asks for the change fails: look again.
LiftRetry(l) ==
    /\ pc[l] = "lift_cas"
    /\ cur[l].flags = {ACTIVE} /\ grace_status # cur[l]
    /\ Load(l)
    /\ UNCHANGED <<grace_status, grace_mutex, pc, want, expired>>

\* A variation of LiftCas that asks for the change only when it can have it.
LiftCasSilent(l) ==
    /\ pc[l] = "lift_cas"
    /\ IF grace_status = cur[l] /\ cur[l] = [flags |-> {ACTIVE}, count |-> 0]
       THEN /\ grace_status' = [cur[l] EXCEPT !.flags = @ \cup {CHANGE_REQ}]
            /\ Goto(l, "lift_backend") /\ UNCHANGED grace_mutex
       ELSE /\ Goto(l, "idle") /\ grace_mutex' = NoThread
            /\ UNCHANGED grace_status
    /\ Forget(l)
    /\ UNCHANGED <<want, expired>>

\* The loop ends.  Nothing to do when grace is over; when references are
\* outstanding in the word the loop ends with, leave it to the thread that
\* drops the last one to wake the reaper.
LiftCas(l) ==
    /\ pc[l] = "lift_cas"
    /\ IF cur[l].flags = {ACTIVE}
       THEN /\ grace_status = cur[l]
            /\ grace_status' = [cur[l] EXCEPT !.flags = @ \cup {CHANGE_REQ}]
       ELSE UNCHANGED grace_status
    /\ IF ACTIVE \in cur[l].flags /\ cur[l].count = 0
       THEN Goto(l, "lift_backend") /\ UNCHANGED grace_mutex
       ELSE Goto(l, "idle") /\ grace_mutex' = NoThread
    /\ Forget(l)
    /\ UNCHANGED <<want, expired>>

\* The recovery backend may refuse (try_lift_grace of a clustered backend).
LiftRefused(l) ==
    /\ pc[l] = "lift_backend"
    /\ Goto(l, "idle") /\ Forget(l)
    /\ grace_mutex' = NoThread
    /\ UNCHANGED <<grace_status, want, expired>>

\* nfs_lift_grace_locked: end_grace of the backend, then clear the flags.
LiftGrace(l) ==
    /\ pc[l] = "lift_backend"
    /\ grace_status' = Lifted(grace_status)
    /\ Goto(l, "idle") /\ Forget(l)
    /\ grace_mutex' = NoThread
    /\ UNCHANGED <<want, expired>>

\* Grace_Period passes.
Expire ==
    /\ ACTIVE \in grace_status.flags
    /\ ~expired
    /\ expired' = TRUE
    /\ UNCHANGED <<grace_status, grace_mutex, pc, cur, want>>

-----------------------------------------------------------------------------
WorkerStep(w) ==
    GetLoad(w) \/ GetRefused(w) \/ GetCas(w) \/ Put(w) \/ PutNotify(w)

AdminStep(a) ==
    \/ StartLock(a) \/ StartExtend(a) \/ StartRetry(a) \/ StartCas(a)
    \/ StartTail(a) \/ WaitNorefs(a) \/ WaitTimeout(a)

LifterStep(l) ==
    \/ LiftCheck(l) \/ LiftLock(l) \/ LiftRetry(l) \/ LiftCas(l)
    \/ LiftRefused(l) \/ LiftGrace(l)

Next ==
    \/ \E w \in Workers : WorkerStep(w)
    \/ \E a \in Admins : AdminStep(a)
    \/ \E l \in Lifters : LifterStep(l)
    \/ Expire

Spec == Init /\ [][Next]_vars

(* A thread that is inside one of the calls goes on; a request ends; the   *)
(* reaper runs periodically (fridgethr_flavor_looper); a backend does not  *)
(* refuse to lift for ever; a compare and swap loop is not starved by      *)
(* other threads for ever, and neither is a thread at grace_mutex.  Nobody *)
(* is obliged to start a request or a grace period.                        *)
Fairness ==
    /\ \A w \in Workers :
         WF_vars(GetRefused(w) \/ GetCas(w) \/ Put(w) \/ PutNotify(w))
    /\ \A a \in Admins :
         WF_vars(AdminStep(a) /\ pc[a] # "idle")
    /\ \A l \in Lifters :
         /\ WF_vars(LifterStep(l))
         /\ SF_vars(LiftLock(l))
         /\ SF_vars(LiftCas(l))
         /\ SF_vars(LiftGrace(l))

FairSpec == Spec /\ Fairness
-----------------------------------------------------------------------------
(* Properties.                                                             *)

Labels ==
    {"idle", "get_cas", "holding", "notify", "start_cas", "start_tail", "eagain",
     "waiting", "retry", "lift_lock", "lift_cas", "lift_backend"}

\* Every variable has its type; the counter of the word never wraps below
\* zero.
TypeOK ==
    /\ grace_status \in Words /\ grace_status.count >= 0
    /\ grace_mutex \in Threads \cup {NoThread}
    /\ pc \in [Threads -> Labels]
    /\ cur \in [Threads -> Words]
    /\ want \in [Workers -> BOOLEAN]
    /\ expired \in BOOLEAN

\* A request that was granted a reference works, from the grant to the put, in
\* the state of the grace period it asked for: a reclaim never overlaps normal
\* operation and a new lock or open never overlaps grace, whatever the threads
\* that start and lift the grace period do meanwhile.
HeldStateStable ==
    \A w \in Workers : pc[w] = "holding" => Matches(grace_status, want[w])

\* The assertion of nfs_lift_grace_locked, and what makes it true: from the
\* moment nfs_try_lift_grace has seen a zero count until it clears the flags,
\* through the call of the backend, no reference is handed out.
NoRefsWhileLifting ==
    \A l \in Lifters :
        pc[l] = "lift_backend" =>
            grace_status.count = 0 /\ grace_status.flags = {ACTIVE, CHANGE_REQ}

\* A caller of nfs_start_grace that was turned away with EAGAIN gets its grace
\* period: the references that were in the way drain and none replaces them.
StartSucceeds ==
    \A a \in Admins : pc[a] = "eagain" ~> ACTIVE \in grace_status.flags

\* A grace period whose time is up is lifted, or it is started anew.
GraceEnds ==
    (ACTIVE \in grace_status.flags /\ expired)
        ~> (ACTIVE \notin grace_status.flags \/ ~expired)

\* A grace period that nfs_start_grace has just started or extended lets
\* clients reclaim: no change to normal operation is still pending.
ExtensionAllowsReclaim ==
    \A a \in Admins : pc[a] = "start_tail" => CHANGE_REQ \notin grace_status.flags
=============================================================================
