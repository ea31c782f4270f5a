---------------------------- MODULE ClientLease -----------------------------
(***************************************************************************)
(* The lease of an NFSv4 client: SAL/nfs4_lease.c, the expiry of client    *)
(* ids in SAL/nfs4_clientid.c and the reaper of                            *)
(* MainNFSD/nfs_reaper_thread.c.                                           *)
(*                                                                         *)
(* Workers carry out compounds, RENEW and CREATE_SESSION for confirmed     *)
(* client ids.  The reaper expires those whose lease has run out, or parks *)
(* them in the list of expired clients, from which they may come back.     *)
(* cid_mutex is held for one step only.  cr_mutex of the client record and *)
(* expired_client_ids_list_lock are kept from step to step.                *)
(***************************************************************************)
EXTENDS Integers, Sequences, FiniteSets

CONSTANTS Clients,    \* client ids, each with a client record of its own
          Workers, Reaper,
          Lifetime,   \* lease_lifetime
          MaxAlive,   \* max_alive_time_for_expired_client
          Threshold,  \* expired_client_threshold
          None

Threads == Workers \cup {Reaper}

ASSUME ClientLeaseAssumption ==
    /\ Reaper \notin Workers
    /\ None \notin Threads \cup Clients
    /\ Lifetime \in Nat \ {0} /\ MaxAlive \in Nat /\ MaxAlive >= Lifetime
    /\ Threshold \in Nat
    /\ IsFiniteSet(Clients) /\ IsFiniteSet(Workers)

VARIABLES confirmed,    \* cid_confirmed = CONFIRMED_CLIENT_ID, and not EXPIRED
          hashed,       \* ht_confirmed_client_id
          reservations, \* cid_lease_reservations
          age,          \* the time since cid_last_renew, up to MaxAlive
          refcount,     \* cid_refcount
          marked,       \* marked_for_delayed_cleanup
          list,         \* expired_client_ids_list
          num,          \* num_of_curr_expired_clients
          listlock,     \* the owner of expired_client_ids_list_lock
          crmutex,      \* the owner of cr_mutex of each client record
          pc,
          cid,          \* the client id a thread works for, with a reference
          victim,       \* the argument of nfs_client_id_expire
          conflicted,   \* the argument of reap_expired_client_list
          revived       \* client ids in use again after their lease had run out

lease == <<confirmed, hashed, reservations, age>>
parked == <<marked, list, num>>
locks == <<listlock, crmutex>>
locals == <<cid, victim, conflicted>>
vars == <<lease, refcount, parked, locks, pc, locals, revived>>

Labels == {"idle", "reserve", "work", "unlist", "put", "record", "session",
           "sessionunlist", "scan", "lock", "expire", "link", "unhash",
           "unlock", "delete", "reap", "reaping"}

Init ==
    /\ confirmed = Clients /\ hashed = Clients
    /\ reservations = [c \in Clients |-> 0]
    /\ age = [c \in Clients |-> 0]
    /\ refcount = [c \in Clients |-> 1]
    /\ marked = {} /\ list = <<>> /\ num = 0
    /\ listlock = None /\ crmutex = [c \in Clients |-> None]
    /\ pc = [t \in Threads |-> IF t = Reaper THEN "scan" ELSE "idle"]
    /\ cid = [t \in Threads |-> None]
    /\ victim = [t \in Threads |-> None]
    /\ conflicted = [t \in Threads |-> None]
    /\ revived = {}

Goto(t, l) == pc' = [pc EXCEPT ![t] = l]
Ref(c, n) == refcount' = [refcount EXCEPT ![c] = @ + n]
Listed == {list[i] : i \in DOMAIN list}

\* _valid_lease
Valid(c, fromReaper) ==
    /\ c \in confirmed
    /\ \/ reservations[c] > 0
       \/ age[c] < Lifetime
       \/ ~fromReaper /\ c \in marked

\* For the properties: c is used although its lease has run out.
Revive(c) == revived' = IF age[c] >= Lifetime /\ reservations[c] = 0
                        THEN revived \cup {c} ELSE revived

\* Time passes.
Tick ==
    /\ \E c \in Clients : age[c] < MaxAlive
    /\ age' = [c \in Clients |-> IF age[c] < MaxAlive THEN age[c] + 1 ELSE age[c]]
    /\ UNCHANGED <<confirmed, hashed, reservations, refcount, parked, locks, pc,
                   locals, revived>>

\* A client comes back with a new client id, which is confirmed
\* (nfs_client_id_confirm), when nothing is left of the old one.
NewClient(c) ==
    /\ refcount[c] = 0
    /\ \A t \in Threads : conflicted[t] # c
    /\ confirmed' = confirmed \cup {c} /\ hashed' = hashed \cup {c}
    /\ age' = [age EXCEPT ![c] = 0]
    /\ reservations' = [reservations EXCEPT ![c] = 0]
    /\ Ref(c, 1)
    /\ revived' = revived \ {c}
    /\ UNCHANGED <<parked, locks, pc, locals>>
-----------------------------------------------------------------------------
(* Compounds and RENEW.                                                    *)

\* nfs_client_id_get_confirmed, for a compound or RENEW, or CREATE_SESSION
GetConfirmed(w, c) ==
    /\ pc[w] = "idle" /\ c \in hashed
    /\ Ref(c, 1)
    /\ cid' = [cid EXCEPT ![w] = c]
    /\ \E l \in {"reserve", "record"} : Goto(w, l)
    /\ UNCHANGED <<lease, parked, locks, victim, conflicted, revived>>

\* reserve_lease_or_expire: the lease is valid and reserved,
Reserve(w) ==
    /\ pc[w] = "reserve"
    /\ Valid(cid[w], FALSE)
    /\ reservations' = [reservations EXCEPT ![cid[w]] = @ + 1]
    /\ Revive(cid[w])
    /\ Goto(w, "work")
    /\ UNCHANGED <<confirmed, hashed, age, refcount, parked, locks, locals>>

\* update_lease for c, of which w has released one of n reservations.
UpdateLease(w, c, n) ==
    /\ reservations' = [reservations EXCEPT ![c] = n - 1]
    /\ age' = [age EXCEPT ![c] = IF n = 1 THEN 0 ELSE @]
    /\ Goto(w, IF n = 1 /\ c \in marked THEN "unlist" ELSE "put")

\* or valid, reserved and renewed (RENEW),
Renew(w) ==
    /\ pc[w] = "reserve"
    /\ Valid(cid[w], FALSE)
    /\ UpdateLease(w, cid[w], reservations[cid[w]] + 1)
    /\ Revive(cid[w])
    /\ UNCHANGED <<confirmed, hashed, refcount, parked, locks, locals>>

\* Mutant: without a reference of its own for the expiry.
ReserveFailsUnreferenced(w) ==
    /\ pc[w] = "reserve"
    /\ ~Valid(cid[w], FALSE)
    /\ victim' = [victim EXCEPT ![w] = cid[w]]
    /\ Goto(w, "lock")
    /\ UNCHANGED <<lease, refcount, parked, locks, cid, conflicted, revived>>

\* or it has run out and the client is to be expired.
ReserveFails(w) ==
    /\ pc[w] = "reserve"
    /\ ~Valid(cid[w], FALSE)
    /\ Ref(cid[w], 1)
    /\ victim' = [victim EXCEPT ![w] = cid[w]]
    /\ Goto(w, "lock")
    /\ UNCHANGED <<lease, parked, locks, cid, conflicted, revived>>

\* The compound meets state of client d, which is parked
\* (check_and_remove_conflicting_client, get_overlapping_entry, state_lock).
Conflict(w, d) ==
    /\ pc[w] = "work"
    /\ d \in marked /\ num > 0
    /\ conflicted' = [conflicted EXCEPT ![w] = d]
    /\ Goto(w, "reap")
    /\ UNCHANGED <<lease, refcount, parked, locks, cid, victim, revived>>

\* The compound ends with update_lease_simple.
EndCompound(w) ==
    /\ pc[w] = "work"
    /\ UpdateLease(w, cid[w], reservations[cid[w]])
    /\ UNCHANGED <<confirmed, hashed, refcount, parked, locks, locals, revived>>

\* c is taken off the list, and its reference released.
TakeOff(c) ==
    /\ \E i \in DOMAIN list :
           /\ list[i] = c
           /\ list' = SubSeq(list, 1, i - 1) \o SubSeq(list, i + 1, Len(list))
    /\ marked' = marked \ {c}
    /\ num' = num - 1
    /\ Ref(c, -1)

\* Mutant: a client that is not in the list yet is unmarked as well.
RemoveFromListBlind(c) ==
    IF c \in Listed THEN TakeOff(c)
    ELSE marked' = marked \ {c} /\ num' = num - 1 /\ Ref(c, -1) /\ UNCHANGED list

\* remove_client_from_expired_client_list, if the client is found there.
RemoveFromList(c) ==
    IF c \in Listed THEN TakeOff(c) ELSE UNCHANGED <<parked, refcount>>

Unlist(w) ==
    /\ pc[w] = "unlist" /\ listlock = None
    /\ RemoveFromList(cid[w])
    /\ Goto(w, "put")
    /\ UNCHANGED <<lease, locks, locals, revived>>

\* dec_client_id_ref
Put(w) ==
    /\ pc[w] = "put"
    /\ Ref(cid[w], -1)
    /\ cid' = [cid EXCEPT ![w] = None]
    /\ Goto(w, "idle")
    /\ UNCHANGED <<lease, parked, locks, victim, conflicted, revived>>
-----------------------------------------------------------------------------
(* CREATE_SESSION for a client id that is confirmed.                       *)

LockForSession(w) ==
    /\ pc[w] = "record" /\ crmutex[cid[w]] = None
    /\ crmutex' = [crmutex EXCEPT ![cid[w]] = w]
    /\ Goto(w, "session")
    /\ UNCHANGED <<lease, refcount, parked, listlock, locals, revived>>

\* The lease timer is updated.
CreateSession(w) ==
    LET c == cid[w] IN
    /\ pc[w] = "session"
    /\ age' = [age EXCEPT ![c] = 0]
    /\ Revive(c)
    /\ IF c \in marked
       THEN Goto(w, "sessionunlist") /\ UNCHANGED crmutex
       ELSE Goto(w, "put") /\ crmutex' = [crmutex EXCEPT ![c] = None]
    /\ UNCHANGED <<confirmed, hashed, reservations, refcount, parked, listlock,
                   locals>>

UnlistForSession(w) ==
    /\ pc[w] = "sessionunlist" /\ listlock = None
    /\ RemoveFromList(cid[w])
    /\ crmutex' = [crmutex EXCEPT ![cid[w]] = None]
    /\ Goto(w, "put")
    /\ UNCHANGED <<lease, listlock, locals, revived>>
-----------------------------------------------------------------------------
(* nfs_client_id_expire.  A thread with the lock of the list was called by *)
(* reap_expired_client_list.                                               *)

LockRecord(t) ==
    /\ pc[t] = "lock" /\ crmutex[victim[t]] = None
    /\ crmutex' = [crmutex EXCEPT ![victim[t]] = t]
    /\ Goto(t, "expire")
    /\ UNCHANGED <<lease, refcount, parked, listlock, locals, revived>>

AlreadyExpired(t) ==
    /\ pc[t] = "expire"
    /\ victim[t] \notin confirmed
    /\ Goto(t, "unlock")
    /\ UNCHANGED <<lease, refcount, parked, locks, locals, revived>>

\* The reaper parks a client with few open files: it is counted and marked
Park ==
    /\ pc[Reaper] = "expire" /\ listlock # Reaper
    /\ victim[Reaper] \in confirmed
    /\ Threshold > 0
    /\ num' = num + 1
    /\ marked' = marked \cup {victim[Reaper]}
    /\ Ref(victim[Reaper], 1)
    /\ Goto(Reaper, "link")
    /\ UNCHANGED <<lease, list, locks, locals, revived>>

\* before it is inserted, sorted by cid_last_renew.
Link ==
    LET c == victim[Reaper] IN
    /\ pc[Reaper] = "link" /\ listlock = None
    /\ \E n \in 0 .. Len(list) :
           /\ \A j \in 1 .. n : age[list[j]] >= age[c]
           /\ n < Len(list) => age[list[n + 1]] < age[c]
           /\ list' = SubSeq(list, 1, n) \o <<c>> \o SubSeq(list, n + 1, Len(list))
    /\ Goto(Reaper, "unlock")
    /\ UNCHANGED <<lease, refcount, marked, num, locks, locals, revived>>

\* Mutant: another thread may have expired it already.
ExpireAgain(t) ==
    /\ pc[t] = "expire"
    /\ confirmed' = confirmed \ {victim[t]}
    /\ Goto(t, "unhash")
    /\ UNCHANGED <<hashed, reservations, age, refcount, parked, locks, locals,
                   revived>>

\* Otherwise the client id is expired,
Expire(t) ==
    /\ pc[t] = "expire"
    /\ victim[t] \in confirmed
    /\ confirmed' = confirmed \ {victim[t]}
    /\ Goto(t, "unhash")
    /\ UNCHANGED <<hashed, reservations, age, refcount, parked, locks, locals,
                   revived>>

\* removed from the hash table, and its state released.
Unhash(t) ==
    /\ pc[t] = "unhash"
    /\ hashed' = hashed \ {victim[t]}
    /\ Ref(victim[t], -1)
    /\ Goto(t, "unlock")
    /\ UNCHANGED <<confirmed, reservations, age, parked, locks, locals, revived>>

\* The callers release cr_mutex, and a worker or the reaper the reference that
\* it has taken for the call.
UnlockRecord(t) ==
    /\ pc[t] = "unlock"
    /\ crmutex' = [crmutex EXCEPT ![victim[t]] = None]
    /\ IF listlock = t THEN Goto(t, "delete") /\ UNCHANGED <<refcount, cid, victim>>
       ELSE /\ Ref(victim[t], -1)
            /\ victim' = [victim EXCEPT ![t] = None]
            /\ cid' = IF t = Reaper THEN [cid EXCEPT ![t] = None] ELSE cid
            /\ Goto(t, IF t = Reaper THEN "scan" ELSE "put")
    /\ UNCHANGED <<lease, parked, listlock, conflicted, revived>>
-----------------------------------------------------------------------------
(* reap_expired_client_list.                                               *)

\* What the caller does afterwards.
Reaped(t) ==
    /\ conflicted' = [conflicted EXCEPT ![t] = None]
    /\ victim' = IF t = Reaper THEN [victim EXCEPT ![t] = cid[t]] ELSE victim
    /\ Goto(t, IF t # Reaper THEN "work"
               ELSE IF cid[t] = None THEN "scan" ELSE "lock")

ReapNothing(t) ==
    /\ pc[t] = "reap"
    /\ Threshold = 0 \/ num = 0
    /\ Reaped(t)
    /\ UNCHANGED <<lease, refcount, parked, locks, cid, revived>>

ReapBegin(t) ==
    /\ pc[t] = "reap"
    /\ Threshold > 0 /\ num > 0
    /\ listlock = None
    /\ listlock' = t
    /\ Goto(t, "reaping")
    /\ UNCHANGED <<lease, refcount, parked, crmutex, locals, revived>>

\* Mutant: parked clients are cleaned up when there are too many only.
ToReapMany(t, c) ==
    /\ c \in Listed
    /\ IF conflicted[t] # None THEN c = conflicted[t]
       ELSE c = Head(list) /\ num > Threshold

\* c is the next to be cleaned up: the client that conflicts, or the head of
\* the list when it has been there long enough or too many are.
ToReap(t, c) ==
    /\ c \in Listed
    /\ IF conflicted[t] # None THEN c = conflicted[t]
       ELSE c = Head(list) /\ (age[c] >= MaxAlive \/ num > Threshold)

\* It has become active again.
ReapValid(t, c) ==
    /\ pc[t] = "reaping" /\ ToReap(t, c)
    /\ Valid(c, TRUE)
    /\ TakeOff(c)
    /\ UNCHANGED <<lease, locks, pc, locals, revived>>

ReapExpired(t, c) ==
    /\ pc[t] = "reaping" /\ ToReap(t, c)
    /\ ~Valid(c, TRUE)
    /\ victim' = [victim EXCEPT ![t] = c]
    /\ Goto(t, "lock")
    /\ UNCHANGED <<lease, refcount, parked, locks, cid, conflicted, revived>>

\* nfs_client_id_expire has returned.
ReapDelete(t) ==
    /\ pc[t] = "delete"
    /\ TakeOff(victim[t])
    /\ victim' = [victim EXCEPT ![t] = None]
    /\ Goto(t, "reaping")
    /\ UNCHANGED <<lease, locks, cid, conflicted, revived>>

ReapEnd(t) ==
    /\ pc[t] = "reaping"
    /\ ~\E c \in Clients : ToReap(t, c)
    /\ listlock' = None
    /\ Reaped(t)
    /\ UNCHANGED <<lease, refcount, parked, crmutex, cid, revived>>
-----------------------------------------------------------------------------
(* reap_hash_table.                                                        *)

\* Before each bucket.
ScanBucket ==
    /\ pc[Reaper] = "scan"
    /\ num > 0
    /\ Goto(Reaper, "reap")
    /\ UNCHANGED <<lease, refcount, parked, locks, locals, revived>>

\* Mutant: reservations are not looked at.
ScanFoundReserved(c) ==
    /\ pc[Reaper] = "scan"
    /\ c \in hashed \ marked
    /\ age[c] >= Lifetime
    /\ Ref(c, 1)
    /\ cid' = [cid EXCEPT ![Reaper] = c]
    /\ Goto(Reaper, "reap")
    /\ UNCHANGED <<lease, parked, locks, victim, conflicted, revived>>

\* A client id without a valid lease: cid_mutex is released before the list
\* is reaped and the client expired.
ScanFound(c) ==
    /\ pc[Reaper] = "scan"
    /\ c \in hashed \ marked
    /\ ~Valid(c, FALSE)
    /\ Ref(c, 1)
    /\ cid' = [cid EXCEPT ![Reaper] = c]
    /\ Goto(Reaper, "reap")
    /\ UNCHANGED <<lease, parked, locks, victim, conflicted, revived>>
-----------------------------------------------------------------------------
Compound(w) == Reserve(w) \/ Renew(w) \/ ReserveFails(w) \/ EndCompound(w)
               \/ Unlist(w) \/ Put(w)
Session(w) == LockForSession(w) \/ CreateSession(w) \/ UnlistForSession(w)
ExpireStep(t) == LockRecord(t) \/ AlreadyExpired(t) \/ Expire(t) \/ Unhash(t)
                 \/ UnlockRecord(t)
ReapStep(t) == ReapNothing(t) \/ ReapBegin(t) \/ ReapDelete(t) \/ ReapEnd(t)
               \/ \E c \in Clients : ReapValid(t, c) \/ ReapExpired(t, c)
WorkerStep(w) == Compound(w) \/ Session(w) \/ ExpireStep(w) \/ ReapStep(w)
ReaperStep == Park \/ Link \/ ExpireStep(Reaper) \/ ReapStep(Reaper)

Next ==
    \/ Tick
    \/ \E c \in Clients : NewClient(c) \/ ScanFound(c)
    \/ \E w \in Workers :
         WorkerStep(w) \/ \E c \in Clients : GetConfirmed(w, c) \/ Conflict(w, c)
    \/ ReaperStep \/ ScanBucket

Spec == Init /\ [][Next]_vars

\* Time passes, threads run, and whoever waits for a mutex gets it sometime.
\* The reaper visits every bucket.  Clients need not send anything.
FairSpec ==
    /\ Spec
    /\ WF_vars(Tick)
    /\ \A w \in Workers : SF_vars(WorkerStep(w))
    /\ SF_vars(ReaperStep) /\ SF_vars(ScanBucket)
    /\ \A c \in Clients : SF_vars(ScanFound(c))
-----------------------------------------------------------------------------
TypeOK ==
    /\ confirmed \subseteq Clients /\ hashed \subseteq Clients
    /\ reservations \in [Clients -> Nat]
    /\ age \in [Clients -> 0 .. MaxAlive]
    /\ refcount \in [Clients -> Nat]
    /\ marked \subseteq Clients /\ list \in Seq(Clients) /\ num \in Nat
    /\ listlock \in Threads \cup {None}
    /\ crmutex \in [Clients -> Threads \cup {None}]
    /\ pc \in [Threads -> Labels]
    /\ cid \in [Threads -> Clients \cup {None}]
    /\ victim \in [Threads -> Clients \cup {None}]
    /\ conflicted \in [Threads -> Clients \cup {None}]
    /\ revived \subseteq Clients

\* A client is in the list of expired clients once, and exactly while it is
\* marked and counted; only the one that the reaper is parking is not there yet
\* (nfs_client_id_expire marks it before it takes the lock of the list).
ParkedOnce ==
    /\ num = Cardinality(marked)
    /\ \A i, j \in DOMAIN list : list[i] = list[j] => i = j
    /\ Listed = marked \ {c \in Clients : pc[Reaper] = "link" /\ c = victim[Reaper]}

\* The threads with a reference to c: the one they work with, and the one that
\* a worker takes for nfs_client_id_expire.
Users(c) == {t \in Threads : cid[t] = c}
Callers(c) == {w \in Workers : victim[w] = c /\ listlock # w}

\* A client id is freed when the hash table, the list and every thread have
\* released it, and not before.
RefsExact ==
    \A c \in Clients :
        refcount[c] = Cardinality(Users(c)) + Cardinality(Callers(c))
                      + (IF c \in hashed THEN 1 ELSE 0)
                      + (IF c \in marked THEN 1 ELSE 0)

\* nfs_client_id_expire finds the client id in the hash table (LogFatal).
UnhashFinds ==
    /\ confirmed \subseteq hashed
    /\ \A t \in Threads : pc[t] = "unhash" => victim[t] \in hashed

\* Every caller of nfs_client_id_expire has dropped cid_mutex since it found the
\* lease to have run out.  Still it expires no client that has the lease reserved
\* or renewed, unless the client came back after its lease had run out: as a
\* parked client, or by CREATE_SESSION, which does not look at the lease.
LeaseHonoured ==
    \A t \in Threads :
        pc[t] = "expire" /\ victim[t] \in confirmed \ revived =>
            reservations[victim[t]] = 0 /\ age[victim[t]] >= Lifetime

\* A thread with the lock of the list waits for a client record, whose owner
\* waits for the lock of the list.
LockCycle ==
    \E t, w \in Threads :
        /\ listlock = t /\ pc[t] = "lock"
        /\ crmutex[victim[t]] = w /\ pc[w] = "sessionunlist"

\* A client that does not renew its lease is expired, parked or not, and the
\* state it holds released, as long as no two threads wait for each other.
SilentExpires ==
    []~LockCycle =>
        \A c \in Clients :
            c \in confirmed /\ age[c] = MaxAlive ~>
                c \notin confirmed \/ age[c] < MaxAlive \/ reservations[c] > 0

=============================================================================
