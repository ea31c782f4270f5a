------------------------------- MODULE DupReq -------------------------------
(***************************************************************************)
(* The duplicate request cache (RPCAL/nfs_dupreq.c) of one client, and     *)
(* what the worker threads do with it (MainNFSD/nfs_worker_thread.c).  The *)
(* client sends requests over TCP, repeats those it gets no answer to, and *)
(* connects again when a connection breaks.  Its connections share a DRC.  *)
(*                                                                         *)
(* A step is what a thread does under one mutex, or nested ones; dre_mtx   *)
(* and drc_mtx are never held across steps.  Where a thread drops a mutex  *)
(* to take another one, it makes two steps.  The entry that a request has  *)
(* allocated (dk) has the name of the request.  Requests that are not      *)
(* cached (DUPREQ_NOCACHE) and the shared DRC of UDP are left out.         *)
(***************************************************************************)
EXTENDS Integers, Sequences, FiniteSets

CONSTANTS Requests,    \* requests, each received once
          XprtOf,      \* the connection on which each one is received
          KeyOf,       \* its xid and checksum (hk): duplicates have the same
          PartOf,      \* the partition of the tree for each key
          Xprts,
          MaxDupes,    \* DUPREQ_MAX_DUPES
          MaxSize,     \* drc->maxsize
          Hiwat,       \* drc->hiwat
          RetwndBias,  \* RETWND_START_BIAS
          MaxRetries,  \* DUPREQ_MAX_RETRIES
          NoEntry

Keys == {KeyOf[r] : r \in Requests}
Actors == Requests \cup Xprts

ASSUME DupReqAssumption ==
    /\ XprtOf \in [Requests -> Xprts]
    /\ Keys \subseteq DOMAIN PartOf
    /\ MaxDupes \in Nat /\ MaxSize \in Nat /\ Hiwat \in Nat
    /\ RetwndBias \in Nat \ {0} /\ MaxRetries \in Nat
    /\ NoEntry \notin Requests
    /\ Requests \cap Xprts = {}
    /\ IsFiniteSet(Requests) /\ IsFiniteSet(Xprts)

VARIABLES refcnt,    \* dupreq_entry_t.refcnt, 0 when it is not allocated
          complete,  \* the entries with complete set
          rc,        \* dupreq_entry_t.rc
          dupes,     \* dupreq_entry_t.dupes
          dupe_cnt,  \* dupreq_entry_t.dupe_cnt, as far as it is compared
          tree,      \* the entries of drc->xt
          queue,     \* drc->dupreq_q
          size,      \* drc->size
          retwnd,    \* drc->retwnd
          drc,       \* whether there is a DRC for the address of the client
          drcref,    \* drc->refcnt
          recycled,  \* DRC_FLAG_RECYCLE, and being in tcp_drc_recycle_q
          attached,  \* connections with xp_u2 set
          dead,      \* connections that are destroyed: a connection that the
                     \* client breaks is when a reply cannot be sent
          pc,        \* of requests, and of connections that are freed
          held,      \* rq_u1: the entry of a request
          result,    \* what processing it has come to, for finish and delete
          ov, cnt,   \* of nfs_dupreq_finish
          extending, \* requests that nfs_dupreq_start has still to extend the
                     \* window for, with the mutex of the partition
          executed,  \* entries whose request the server has carried out
          answered   \* entries with a reply that was sent

entries == <<refcnt, complete, rc, dupes, dupe_cnt>>
cache == <<tree, queue, size, retwnd>>
lifetime == <<drc, drcref, recycled, attached, dead>>
locals == <<result, ov, cnt>>
history == <<executed, answered>>
vars == <<entries, cache, lifetime, pc, held, locals, extending, history>>

\* enum nfs_req_result, as far as it is told apart: NFS_REQ_DROP and
\* NFS_REQ_AUTH_ERR are REFUSED.
Results == {"OK", "REFUSED", "XPRT_DIED"}
RequestLabels == {"new", "start", "execute", "finish", "delete", "enqueue",
                  "retire", "retired", "exists", "suspended", "resumed",
                  "rele", "put"}
Labels == RequestLabels \cup {"open", "recycle", "done", "dropped"}

Init ==
    /\ refcnt = [e \in Requests |-> 0]
    /\ complete = {}
    /\ rc = [e \in Requests |-> "OK"]
    /\ dupes = [e \in Requests |-> <<>>]
    /\ dupe_cnt = [e \in Requests |-> 0]
    /\ tree = {} /\ queue = <<>> /\ size = 0 /\ retwnd = 0
    /\ drc = FALSE /\ drcref = 0 /\ recycled = FALSE
    /\ attached = {} /\ dead = {}
    /\ pc = [a \in Actors |-> IF a \in Requests THEN "new" ELSE "open"]
    /\ held = [r \in Requests |-> NoEntry]
    /\ result = [r \in Requests |-> "OK"]
    /\ ov = [r \in Requests |-> NoEntry]
    /\ cnt = [r \in Requests |-> 0]
    /\ extending = {}
    /\ executed = {} /\ answered = {}

Goto(a, l) == pc' = [pc EXCEPT ![a] = l]
\* The mutex of the partition of key k: only a thread that is extending the
\* window keeps it from one step to the next.
PartitionFree(k) == \A q \in extending : PartOf[KeyOf[q]] # PartOf[k]

\* dupreq_entry_put for each entry of E, and nfs_dupreq_free_dupreq of those
\* that have no other reference.
EntryPut(E) ==
    LET freed == {e \in E : refcnt[e] = 1} IN
    /\ refcnt' = [e \in Requests |-> IF e \in E THEN refcnt[e] - 1
                                              ELSE refcnt[e]]
    /\ rc' = [e \in Requests |-> IF e \in freed THEN "OK" ELSE rc[e]]
    /\ dupe_cnt' = [e \in Requests |-> IF e \in freed THEN 0 ELSE dupe_cnt[e]]
    /\ complete' = complete \ freed
    /\ executed' = executed \ freed
    /\ answered' = answered \ freed
-----------------------------------------------------------------------------
(* nfs_dupreq_get_drc.                                                     *)

\* The connection has a DRC already.
GetDrc(r) ==
    /\ pc[r] = "new"
    /\ XprtOf[r] \in attached \ dead
    /\ drcref' = drcref + 1
    /\ Goto(r, "start")
    /\ UNCHANGED <<entries, cache, drc, recycled, attached, dead, held,
                   locals, extending, history>>

\* Mutant: a DRC that is about to be put in the recycle queue is reused.
AttachDrcEarly(r) ==
    /\ pc[r] = "new"
    /\ XprtOf[r] \notin attached \cup dead
    /\ drc' = TRUE
    /\ drcref' = drcref + 2
    /\ recycled' = FALSE
    /\ attached' = attached \cup {XprtOf[r]}
    /\ Goto(r, "start")
    /\ UNCHANGED <<entries, cache, dead, held, locals, extending, history>>

\* The first request of a connection: the DRC of the client's address is
\* used again, or allocated.  A DRC without references that is not in the
\* recycle queue yet is waited for.
AttachDrc(r) ==
    /\ pc[r] = "new"
    /\ XprtOf[r] \notin attached \cup dead
    /\ ~(drc /\ drcref = 0 /\ ~recycled)
    /\ drc' = TRUE
    /\ drcref' = drcref + 2
    /\ recycled' = FALSE
    /\ attached' = attached \cup {XprtOf[r]}
    /\ Goto(r, "start")
    /\ UNCHANGED <<entries, cache, dead, held, locals, extending, history>>

\* drc_free_expired, in a thread of another client.
FreeExpired ==
    /\ drc /\ recycled
    /\ drc' = FALSE /\ recycled' = FALSE
    /\ EntryPut({queue[i] : i \in DOMAIN queue})
    /\ tree' = {} /\ queue' = <<>> /\ size' = 0 /\ retwnd' = 0
    /\ UNCHANGED <<dupes, drcref, attached, dead, pc, held, locals, extending>>
-----------------------------------------------------------------------------
(* nfs_dupreq_start, and the switch on its result.                         *)

\* The entry that the lookup finds.
Hit(r, e) == e \in tree /\ KeyOf[e] = KeyOf[r]
Lookup(r) == pc[r] = "start" /\ PartitionFree(KeyOf[r])

\* Mutant: a request in progress is not found.
StartNewAlways(r) ==
    /\ Lookup(r)
    /\ ~\E e \in tree \cap complete : Hit(r, e)
    /\ tree' = tree \cup {r}
    /\ refcnt' = [refcnt EXCEPT ![r] = 2]
    /\ size' = size + 1
    /\ held' = [held EXCEPT ![r] = r]
    /\ Goto(r, "execute")
    /\ UNCHANGED <<complete, rc, dupes, dupe_cnt, queue, retwnd, lifetime,
                   locals, extending, history>>

StartNew(r) ==
    /\ Lookup(r)
    /\ ~\E e \in tree : Hit(r, e)
    /\ tree' = tree \cup {r}
    /\ refcnt' = [refcnt EXCEPT ![r] = 2]
    /\ size' = size + 1
    /\ held' = [held EXCEPT ![r] = r]
    /\ Goto(r, "execute")
    /\ UNCHANGED <<complete, rc, dupes, dupe_cnt, queue, retwnd, lifetime,
                   locals, extending, history>>

\* The request takes a reference to e; the window is extended later.
Share(r, e) ==
    /\ held' = [held EXCEPT ![r] = e]
    /\ refcnt' = [refcnt EXCEPT ![e] = @ + 1]
    /\ extending' = extending \cup {r}

\* The original is in progress: the duplicate is queued, DUPREQ_BEING_PROCESSED
StartQueued(r) ==
    \E e \in tree \ complete :
        /\ Lookup(r) /\ Hit(r, e)
        /\ dupe_cnt[e] < MaxDupes
        /\ dupe_cnt' = [dupe_cnt EXCEPT ![e] = @ + 1]
        /\ dupes' = [dupes EXCEPT ![e] = Append(@, r)]
        /\ Share(r, e)
        /\ Goto(r, "suspended")
        /\ UNCHANGED <<complete, rc, cache, lifetime, locals, history>>

\* or ignored, DUPREQ_DROP: nfs_dupreq_rele finds DUPREQ_NOCACHE_NORES and
\* does nothing, not even release the DRC.
StartDropped(r) ==
    \E e \in tree \ complete :
        /\ Lookup(r) /\ Hit(r, e)
        /\ dupe_cnt[e] = MaxDupes
        /\ Goto(r, "dropped")
        /\ UNCHANGED <<entries, cache, lifetime, held, locals, extending,
                       history>>

\* The original is complete, DUPREQ_EXISTS.
StartExists(r) ==
    \E e \in tree \cap complete :
        /\ Lookup(r) /\ Hit(r, e)
        /\ Share(r, e)
        /\ Goto(r, "exists")
        /\ UNCHANGED <<complete, rc, dupes, dupe_cnt, cache, lifetime, locals,
                       history>>

\* drc_inc_retwnd, then the partition is unlocked.  A queued request may
\* have been resumed and finished by another thread meanwhile.
ExtendWindow(r) ==
    /\ r \in extending
    /\ retwnd' = IF retwnd = 0 THEN RetwndBias
                 ELSE IF retwnd < MaxSize THEN retwnd + 2 ELSE retwnd
    /\ extending' = extending \ {r}
    /\ UNCHANGED <<entries, tree, queue, size, lifetime, pc, held, locals,
                   history>>
-----------------------------------------------------------------------------
(* Processing: nfs_rpc_process_request from retry_after_drc_suspend on, and *)
(* complete_request.                                                       *)

\* The request is carried out and its reply is sent,
ReplySent(r) ==
    /\ pc[r] = "execute"
    /\ XprtOf[r] \notin dead
    /\ executed' = executed \cup {held[r]}
    /\ answered' = answered \cup {held[r]}
    /\ result' = [result EXCEPT ![r] = "OK"]
    /\ Goto(r, "finish")
    /\ UNCHANGED <<entries, cache, lifetime, held, ov, cnt, extending>>

\* or it cannot be sent: the connection is destroyed.
ReplyFails(r) ==
    /\ pc[r] = "execute"
    /\ executed' = executed \cup {held[r]}
    /\ dead' = dead \cup {XprtOf[r]}
    /\ result' = [result EXCEPT ![r] = "XPRT_DIED"]
    /\ Goto(r, "finish")
    /\ UNCHANGED <<entries, cache, drc, drcref, recycled, attached, held, ov,
                   cnt, extending, answered>>

\* The request is dropped, or rejected (auth_failure).
Refuse(r) ==
    /\ pc[r] = "execute"
    /\ result' = [result EXCEPT ![r] = "REFUSED"]
    /\ Goto(r, "delete")
    /\ UNCHANGED <<entries, cache, lifetime, held, ov, cnt, extending, history>>

\* process_dupreq for a request that found the reply in the cache.
SendCached(r) ==
    /\ pc[r] = "exists" /\ r \notin extending
    /\ \/ XprtOf[r] \notin dead /\ answered' = answered \cup {held[r]}
       \/ UNCHANGED answered
    /\ Goto(r, "rele")
    /\ UNCHANGED <<entries, cache, lifetime, held, locals, extending, executed>>
-----------------------------------------------------------------------------
(* drc_resume: what a queued request does when it is its turn.             *)

\* The reply was sent, and nothing is left to do,
ResumeReplied(r) ==
    /\ pc[r] = "resumed"
    /\ rc[held[r]] = "OK"
    /\ Goto(r, "rele")
    /\ UNCHANGED <<entries, cache, lifetime, held, locals, extending, history>>

\* Mutant: a request whose reply was lost is processed again, too.
ResumeRefusedOrLost(r) ==
    /\ pc[r] = "resumed"
    /\ rc[held[r]] # "OK"
    /\ Goto(r, "execute")
    /\ UNCHANGED <<entries, cache, lifetime, held, locals, extending, history>>

\* the request was not carried out, and this one is processed in its place,
ResumeRefused(r) ==
    /\ pc[r] = "resumed"
    /\ rc[held[r]] = "REFUSED"
    /\ Goto(r, "execute")
    /\ UNCHANGED <<entries, cache, lifetime, held, locals, extending, history>>

\* or the reply was lost, and process_dupreq sends it to this one.
ResumeLost(r) ==
    /\ pc[r] = "resumed"
    /\ rc[held[r]] = "XPRT_DIED"
    /\ \/ /\ XprtOf[r] \notin dead
          /\ answered' = answered \cup {held[r]}
          /\ result' = [result EXCEPT ![r] = "OK"]
       \/ /\ result' = [result EXCEPT ![r] = "XPRT_DIED"]
          /\ UNCHANGED answered
    /\ Goto(r, "finish")
    /\ UNCHANGED <<entries, cache, lifetime, held, ov, cnt, extending, executed>>
-----------------------------------------------------------------------------
(* nfs_dupreq_finish.                                                      *)

\* The reply was lost and there are duplicates: one of them is to try.
FinishLost(r) ==
    /\ pc[r] = "finish"
    /\ dupes[held[r]] # <<>> /\ result[r] = "XPRT_DIED"
    /\ rc' = [rc EXCEPT ![held[r]] = result[r]]
    /\ result' = [result EXCEPT ![r] = "OK"]
    /\ Goto(r, "rele")
    /\ UNCHANGED <<refcnt, complete, dupes, dupe_cnt, cache, lifetime, held,
                   ov, cnt, extending, history>>

\* Otherwise the entry is complete.
Finish(r) ==
    /\ pc[r] = "finish"
    /\ dupes[held[r]] = <<>> \/ result[r] # "XPRT_DIED"
    /\ rc' = [rc EXCEPT ![held[r]] = result[r]]
    /\ result' = [result EXCEPT ![r] = "OK"]
    /\ complete' = complete \cup {held[r]}
    /\ Goto(r, "enqueue")
    /\ UNCHANGED <<refcnt, dupes, dupe_cnt, cache, lifetime, held, ov, cnt,
                   extending, history>>

\* drc_should_retire
ShouldRetire(n, w) == n > MaxSize \/ (w = 0 /\ n > Hiwat)

\* dq_again, for the n-th time: with drc_mtx, choose the entry to retire.
Again(r, q, w, n) ==
    LET more == n <= MaxRetries /\ ShouldRetire(size, w) /\ q # <<>> IN
    /\ ov' = [ov EXCEPT ![r] = IF more THEN Head(q) ELSE NoEntry]
    /\ cnt' = [cnt EXCEPT ![r] = IF more THEN n ELSE 0]
    /\ Goto(r, IF more THEN "retire" ELSE "rele")

Enqueue(r) ==
    LET w == IF retwnd > 0 THEN retwnd - 1 ELSE retwnd IN
    /\ pc[r] = "enqueue"
    /\ queue' = Append(queue, held[r])
    /\ retwnd' = w
    /\ Again(r, queue', w, 0)
    /\ UNCHANGED <<entries, tree, size, lifetime, held, result, extending,
                   history>>

AtHead(k) == queue # <<>> /\ KeyOf[Head(queue)] = k

\* Mutant: the head of the queue is retired without a second look.
RetireBlind(r) ==
    /\ pc[r] = "retire"
    /\ PartitionFree(KeyOf[ov[r]])
    /\ queue' = SelectSeq(queue, LAMBDA e : e # ov[r])
    /\ tree' = tree \ {ov[r]}
    /\ size' = size - 1
    /\ Goto(r, "retired")
    /\ UNCHANGED <<entries, retwnd, lifetime, held, locals, extending, history>>

\* With the mutexes of the partition and the DRC: the head of the queue is
\* retired if it is still the one that was chosen,
Retire(r) ==
    /\ pc[r] = "retire"
    /\ PartitionFree(KeyOf[ov[r]])
    /\ AtHead(KeyOf[ov[r]])
    /\ ov' = [ov EXCEPT ![r] = Head(queue)]
    /\ queue' = Tail(queue)
    /\ tree' = tree \ {Head(queue)}
    /\ size' = size - 1
    /\ Goto(r, "retired")
    /\ UNCHANGED <<entries, retwnd, lifetime, held, result, cnt, extending,
                   history>>

\* and nothing is done if it is not.
RetireNothing(r) ==
    /\ pc[r] = "retire"
    /\ PartitionFree(KeyOf[ov[r]])
    /\ ~AtHead(KeyOf[ov[r]])
    /\ ov' = [ov EXCEPT ![r] = NoEntry]
    /\ cnt' = [cnt EXCEPT ![r] = 0]
    /\ Goto(r, "rele")
    /\ UNCHANGED <<entries, cache, lifetime, held, result, extending, history>>

\* The reference of the tree is released, and another one may be retired.
PutRetired(r) ==
    /\ pc[r] = "retired"
    /\ EntryPut({ov[r]})
    /\ Again(r, queue, retwnd, cnt[r] + 1)
    /\ UNCHANGED <<dupes, cache, lifetime, held, result, extending>>
-----------------------------------------------------------------------------
(* nfs_dupreq_delete.                                                      *)

\* There are duplicates: one of them is to be processed.
DeleteQueued(r) ==
    /\ pc[r] = "delete"
    /\ PartitionFree(KeyOf[r])
    /\ dupes[held[r]] # <<>>
    /\ rc' = [rc EXCEPT ![held[r]] = result[r]]
    /\ result' = [result EXCEPT ![r] = "OK"]
    /\ Goto(r, "rele")
    /\ UNCHANGED <<refcnt, complete, dupes, dupe_cnt, cache, lifetime, held,
                   ov, cnt, extending, history>>

\* Mutant: the duplicates are not looked at.
DeleteAlways(r) ==
    /\ pc[r] = "delete"
    /\ PartitionFree(KeyOf[r])
    /\ tree' = tree \ {held[r]}
    /\ size' = size - 1
    /\ refcnt' = [refcnt EXCEPT ![held[r]] = @ - 1]
    /\ result' = [result EXCEPT ![r] = "OK"]
    /\ Goto(r, "rele")
    /\ UNCHANGED <<complete, rc, dupes, dupe_cnt, queue, retwnd, lifetime,
                   held, ov, cnt, extending, history>>

Delete(r) ==
    /\ pc[r] = "delete"
    /\ PartitionFree(KeyOf[r])
    /\ dupes[held[r]] = <<>>
    /\ tree' = tree \ {held[r]}
    /\ size' = size - 1
    /\ refcnt' = [refcnt EXCEPT ![held[r]] = @ - 1]
    /\ result' = [result EXCEPT ![r] = "OK"]
    /\ Goto(r, "rele")
    /\ UNCHANGED <<complete, rc, dupes, dupe_cnt, queue, retwnd, lifetime,
                   held, ov, cnt, extending, history>>
-----------------------------------------------------------------------------
(* nfs_dupreq_rele and nfs_dupreq_put_drc.                                 *)

\* Mutant: duplicates are resumed once the entry is complete.
ReleComplete(r) ==
    LET e == held[r] IN
    /\ pc[r] = "rele"
    /\ IF dupes[e] = <<>> \/ e \notin complete
       THEN Goto(r, "put") /\ UNCHANGED dupes
       ELSE /\ pc' = [pc EXCEPT ![r] = "put", ![Head(dupes[e])] = "resumed"]
            /\ dupes' = [dupes EXCEPT ![e] = Tail(@)]
    /\ UNCHANGED <<refcnt, complete, rc, dupe_cnt, cache, lifetime, held,
                   locals, extending, history>>

\* Mutant: duplicates of a complete request are not resumed.
ReleIncomplete(r) ==
    LET e == held[r] IN
    /\ pc[r] = "rele"
    /\ IF dupes[e] = <<>> \/ e \in complete
       THEN Goto(r, "put") /\ UNCHANGED dupes
       ELSE /\ pc' = [pc EXCEPT ![r] = "put", ![Head(dupes[e])] = "resumed"]
            /\ dupes' = [dupes EXCEPT ![e] = Tail(@)]
    /\ UNCHANGED <<refcnt, complete, rc, dupe_cnt, cache, lifetime, held,
                   locals, extending, history>>

\* The next duplicate is resumed by svc_resume, which is not in the
\* repository: it schedules drc_resume in another thread.
Rele(r) ==
    LET e == held[r] IN
    /\ pc[r] = "rele"
    /\ IF dupes[e] = <<>>
       THEN Goto(r, "put") /\ UNCHANGED dupes
       ELSE /\ pc' = [pc EXCEPT ![r] = "put", ![Head(dupes[e])] = "resumed"]
            /\ dupes' = [dupes EXCEPT ![e] = Tail(@)]
    /\ UNCHANGED <<refcnt, complete, rc, dupe_cnt, cache, lifetime, held,
                   locals, extending, history>>

\* dupreq_entry_put, and nfs_dupreq_put_drc up to where it drops drc_mtx,
Put(r) ==
    /\ pc[r] = "put"
    /\ EntryPut({held[r]})
    /\ held' = [held EXCEPT ![r] = NoEntry]
    /\ drcref' = drcref - 1
    /\ Goto(r, IF drcref = 1 THEN "recycle" ELSE "done")
    /\ UNCHANGED <<dupes, cache, drc, recycled, attached, dead, locals,
                   extending>>

\* and from where it has been taken again.
Recycle(a) ==
    /\ pc[a] = "recycle"
    /\ recycled' = (recycled \/ drcref = 0)
    /\ Goto(a, "done")
    /\ UNCHANGED <<entries, cache, drc, drcref, attached, dead, held, locals,
                   extending, history>>
-----------------------------------------------------------------------------
(* Connections.                                                            *)

\* The request has been received and is not answered, or dropped, yet.
Active(r) == pc[r] \notin {"new", "done", "dropped"}

\* nfs_rpc_free_user_data of a connection that is destroyed here, or closed
\* by the client.  It lives as long as its requests.
FreeXprt(x) ==
    /\ pc[x] = "open"
    /\ \A r \in Requests :
         XprtOf[r] = x => ~Active(r) /\ r \notin extending
    /\ attached' = attached \ {x}
    /\ dead' = dead \cup {x}
    /\ drcref' = IF x \in attached THEN drcref - 1 ELSE drcref
    /\ Goto(x, IF x \in attached /\ drcref = 1 THEN "recycle" ELSE "done")
    /\ UNCHANGED <<entries, cache, drc, recycled, held, locals, extending,
                   history>>
-----------------------------------------------------------------------------
Arrive(r) == GetDrc(r) \/ AttachDrc(r)
Start(r) == StartNew(r) \/ StartQueued(r) \/ StartDropped(r) \/ StartExists(r)
Process(r) == ReplySent(r) \/ ReplyFails(r) \/ Refuse(r) \/ SendCached(r)
Resume(r) == ResumeReplied(r) \/ ResumeRefused(r) \/ ResumeLost(r)
End(r) == FinishLost(r) \/ Finish(r) \/ Enqueue(r) \/ Retire(r)
          \/ RetireNothing(r) \/ PutRetired(r) \/ DeleteQueued(r) \/ Delete(r)
Release(r) == Rele(r) \/ Put(r)
Step(r) == Start(r) \/ Process(r) \/ Resume(r) \/ End(r) \/ Release(r)
           \/ Recycle(r)

Next ==
    \/ \E r \in Requests : Arrive(r) \/ ExtendWindow(r) \/ Step(r)
    \/ \E x \in Xprts : FreeXprt(x) \/ Recycle(x)
    \/ FreeExpired

Spec == Init /\ [][Next]_vars
-----------------------------------------------------------------------------
TypeOK ==
    /\ refcnt \in [Requests -> Nat]
    /\ complete \subseteq Requests
    /\ rc \in [Requests -> Results]
    /\ dupes \in [Requests -> Seq(Requests)]
    /\ dupe_cnt \in [Requests -> 0 .. MaxDupes]
    /\ tree \subseteq Requests
    /\ queue \in Seq(Requests)
    /\ size \in Nat /\ retwnd \in Nat /\ drcref \in Nat
    /\ drc \in BOOLEAN /\ recycled \in BOOLEAN
    /\ attached \subseteq Xprts /\ dead \subseteq Xprts
    /\ pc \in [Actors -> Labels]
    /\ held \in [Requests -> Requests \cup {NoEntry}]
    /\ result \in [Requests -> Results]
    /\ ov \in [Requests -> Requests \cup {NoEntry}]
    /\ cnt \in [Requests -> 0 .. MaxRetries]
    /\ extending \subseteq Requests
    /\ executed \subseteq Requests /\ answered \subseteq Requests

\* The request processes entry e, or is to hand it over to a duplicate.
InCharge(r, e) ==
    /\ held[r] = e
    /\ \/ pc[r] \in {"execute", "finish", "delete"}
       \/ pc[r] \in {"rele", "resumed"} /\ e \notin complete

\* "only one of the same retried requests is dispatched into the protocol
\* layer and FSAL layer at the same time" (nfs_dupreq.h): exactly one request
\* is in charge of an entry that is in progress, while duplicates take over
\* from each other.
OneInCharge ==
    \A e \in tree \ complete :
        \E r \in Requests : \A q \in Requests : InCharge(q, e) <=> q = r

\* A request is carried out once although its reply may be lost again and
\* again and each time another duplicate is resumed (nfs_dupreq_finish,
\* drc_resume).
ExecutedOnce ==
    \A r \in Requests : pc[r] = "execute" => held[r] \notin executed

\* A duplicate that drc_resume does not answer ("either we just sent a
\* response and there is no need to respond") has been answered.
SilentAnswered ==
    \A r \in Requests :
        pc[r] = "resumed" /\ rc[held[r]] = "OK" => held[r] \in answered

\* The references of an entry are those of the tree and of the requests that
\* use it: dupreq_entry_put frees it once, after the last use.
RefsExact ==
    \A e \in Requests :
        refcnt[e] = Cardinality({r \in Requests : held[r] = e})
                    + Cardinality({r \in Requests : pc[r] = "retired" /\ ov[r] = e})
                    + (IF e \in tree THEN 1 ELSE 0)

\* drc->size, which nfs_dupreq_start, _finish and _delete change each in its own
\* way, is the number of entries in the tree.
SizeExact == size = Cardinality(tree)

\* The references of the DRC are those of its connections and its requests.
\* The reference of a dropped duplicate is never released.
DrcRefsExact ==
    drcref = Cardinality(attached)
             + Cardinality({r \in Requests : Active(r) /\ pc[r] # "recycle"})
             + Cardinality({r \in Requests : pc[r] = "dropped"})

\* The counters of the cache are exact, whatever requests finish, are retired,
\* deleted, dropped or resumed at once: entries are freed by their last user,
\* the DRC by its last connection or request, and the size is that of the tree.
CountsExact == RefsExact /\ SizeExact /\ DrcRefsExact

\* A DRC in the recycle queue may be freed at any time: nobody uses it, all its
\* requests are complete and no one else has a reference to their entries
\* (the assertions of drc_free_expired).
RecycledUnused ==
    recycled =>
        /\ drc /\ drcref = 0
        /\ \A a \in Actors : pc[a] # "recycle"
        /\ extending = {}
        /\ tree = {queue[i] : i \in DOMAIN queue}
        /\ \A e \in tree : refcnt[e] = 1

\* The state of a call, for the client.
Entry(k) == {e \in tree : KeyOf[e] = k}
CallOf(k) == IF Entry(k) = {} THEN "unknown"
             ELSE IF Entry(k) \subseteq executed THEN "replied" ELSE "running"
RC == INSTANCE ReplyCache WITH
        Calls <- Keys, call <- [k \in Keys |-> CallOf(k)]

\* The cache forgets a request in progress only if it was not carried out.
CacheKeepsPromise == RC!Spec

\* A suspended duplicate is never forgotten: some request that has still to call
\* nfs_dupreq_rele, which resumes the next one, uses the same entry.
SuspendedHasResumer ==
    \A r \in Requests :
        pc[r] = "suspended" =>
            \E q \in Requests :
                /\ held[q] = held[r]
                /\ pc[q] \notin {"suspended", "put"}
=============================================================================
