----------------------------- MODULE StateLock ------------------------------
(***************************************************************************)
(* The byte range locks of one file (SAL/state_lock.c) as NLM clients use  *)
(* them (Protocols/NLM).  Every operation runs under the st_lock of the    *)
(* file and is one step.  A lock that has to wait stays in the lock list.  *)
(* When it may be had, the filesystem's lock is taken, the entry becomes   *)
(* STATE_AVAILABLE, a cookie is put in the table of grants, and the client *)
(* is called.  Whoever takes the cookie out of the table (the thread that  *)
(* receives the answer, or the one whose call failed) then completes or    *)
(* releases the grant in a step of its own: anything may happen between.   *)
(*                                                                         *)
(* The filesystem (external) keeps byte locks per owner and has no         *)
(* asynchronous locks, as all those in the repository.  A program on the   *)
(* server, which knows nothing of NFS, may lock the file as well.          *)
(***************************************************************************)
EXTENDS Integers, FiniteSets, SequencesExt

CONSTANTS Owners,     \* the NLM lock owners
          MaxOffset,  \* UINT64_MAX; offsets are added modulo MaxOffset + 1
          Ranges,     \* the ranges <<first, last>> that clients name
          Wanted,     \* the locks <<type, range>> that each owner asks for
          Cookies,    \* grants and waiting locks there may be at a time
          MaxRequests \* bound on the locks that are entered in the list

Offsets == 0 .. MaxOffset
Types == {"read", "write"}

ASSUME LockAssumption ==
    /\ MaxOffset \in Nat /\ MaxRequests \in Nat
    /\ Ranges \subseteq {r \in Offsets \X Offsets : r[1] <= r[2]}
    /\ Wanted \in [Owners -> SUBSET (Types \X Ranges)]
    /\ Cookies \subseteq Nat /\ IsFiniteSet(Cookies) /\ 0 \notin Cookies

VARIABLES lock_list,  \* the lock entries of the file, in order
          cookie,     \* where the cookie of each grant is
          fsal,       \* the filesystem's locks of each owner
          local,      \* has a program on the server locked the file?
          astray,     \* ghost: bytes whose lock a cancelled wait or grant undid
                      \* in the list or in the filesystem, but not in both
          requests    \* how many locks have been entered in the list

vars == <<lock_list, cookie, fsal, local, astray, requests>>

\* sle_blocked.  An entry that is STATE_CANCELED is out of the list in the
\* same step; it lives on only through the cookie, which finds no entry then.
Entries == [owner : Owners, type : Types, lo : Offsets, hi : Offsets,
            blocked : {"granted", "blocking", "available"}, cookie : {0} \cup Cookies,
            block_type : {"none", "internal", "async"}]
NoEntry == [blocked |-> "gone"]  \* the place of an entry removed from the list

Bytes(e) == e.lo .. e.hi

\* What the operations below pass around: the list, the cookies, the
\* filesystem and the bytes that went astray.
State == [list |-> lock_list, cookie |-> cookie, fsal |-> fsal, astray |-> astray]
Become(s) == /\ lock_list' = SelectSeq(s.list, LAMBDA e : e # NoEntry)
             /\ cookie' = s.cookie /\ fsal' = s.fsal /\ astray' = s.astray

Init == /\ lock_list = <<>>
        /\ cookie = [c \in Cookies |-> "free"]
        /\ fsal = [o \in Owners |-> [b \in Offsets |-> "none"]]
        /\ local = FALSE
        /\ astray = {}
        /\ requests = 0

-----------------------------------------------------------------------------
(* The filesystem: lock_op2.  It answers a conflict for the locks of other *)
(* owners and of the program on the server.                                *)
FsalAllows(f, o, type, bytes) ==
    /\ ~local
    /\ \A p \in Owners \ {o}, b \in bytes :
           f[p][b] = "none" \/ (type = "read" /\ f[p][b] = "read")
FsalSet(f, o, bytes, type) ==
    [f EXCEPT ![o] = [b \in Offsets |-> IF b \in bytes THEN type ELSE @[b]]]

FsalLock(s, e) == [s EXCEPT !.fsal = FsalSet(@, e.owner, Bytes(e), e.type),
                            !.astray = @ \ ({e.owner} \X Bytes(e))]
FsalUnlock(s, o, bytes) == [s EXCEPT !.fsal = FsalSet(@, o, bytes, "none")]

\* A wait or a grant of e is undone: from now on the list and the filesystem
\* may disagree about its bytes.
Undo(s, e) == [s EXCEPT !.astray = @ \cup ({e.owner} \X Bytes(e))]

-----------------------------------------------------------------------------
Overlap(e, f) == e.lo <= f.hi /\ f.lo <= e.hi
Covers(e, f) == e.lo <= f.lo /\ f.hi <= e.hi
Conflict(e, f) ==
    /\ e # NoEntry /\ f # NoEntry
    /\ e.owner # f.owner /\ Overlap(e, f) /\ "write" \in {e.type, f.type}
\* Mutant: the locks that are granted for good are overlooked.
OverlappingOffered(list, e) ==
    \E f \in Range(list) : Conflict(e, f) /\ f.blocked = "available"
\* get_overlapping_entry: blocked entries do not count.
Overlapping(list, e) ==
    \E f \in Range(list) : Conflict(e, f) /\ f.blocked # "blocking"

Next64(n) == (n + 1) % (MaxOffset + 1)
\* "Nothing to merge."  The successor of the last offset is 0.
Apart(e, f) == Next64(f.hi) < e.lo \/ Next64(e.hi) < f.lo

Left(f, e) == IF f.lo < e.lo THEN <<[f EXCEPT !.hi = e.lo - 1]>> ELSE <<>>
Right(f, e) == IF e.hi < f.hi THEN <<[f EXCEPT !.lo = e.hi + 1]>> ELSE <<>>

\* Mutant: only locks of the same type are merged.
MergeStepTypes(m, i, k) ==
    LET f == m.list[i]  e == m.entry IN
    IF i > Len(m.list) \/ i = k THEN m
    ELSE IF f = NoEntry \/ f.blocked # "granted" \/ f.owner # e.owner \/ f.type # e.type \/ Apart(e, f) THEN m
    ELSE IF f.type # e.type /\ ~Covers(e, f)
    THEN LET rest == Left(f, e) \o Right(f, e)
         IN [m EXCEPT !.list = [@ EXCEPT ![i] = Head(rest)] \o Tail(rest)]
    ELSE [list |-> [m.list EXCEPT ![i] = NoEntry],
          entry |-> [e EXCEPT !.lo = IF f.lo < @ THEN f.lo ELSE @,
                              !.hi = IF f.hi > @ THEN f.hi ELSE @]]
\* merge_lock_entry: the owner's other locks that touch or overlap `e`, which
\* is at place k of the list (0: not yet in it).  One of the other type keeps
\* what e does not cover, split in two where e is in the middle of it; any
\* other becomes part of e.
MergeStep(m, i, k) ==
    LET f == m.list[i]  e == m.entry IN
    IF i > Len(m.list) \/ i = k THEN m
    ELSE IF f = NoEntry \/ f.blocked # "granted" \/ f.owner # e.owner \/ Apart(e, f) THEN m
    ELSE IF f.type # e.type /\ ~Covers(e, f)
    THEN LET rest == Left(f, e) \o Right(f, e)
         IN [m EXCEPT !.list = [@ EXCEPT ![i] = Head(rest)] \o Tail(rest)]
    ELSE [list |-> [m.list EXCEPT ![i] = NoEntry],
          entry |-> [e EXCEPT !.lo = IF f.lo < @ THEN f.lo ELSE @,
                              !.hi = IF f.hi > @ THEN f.hi ELSE @]]
Merge(list, e, k) ==
    LET n == 2 * Len(list)  \* parts that are split off come last
        step[i \in 0 .. n] ==
            IF i = 0 THEN [list |-> list, entry |-> e] ELSE MergeStep(step[i - 1], i, k)
        m == step[n]
    IN IF k = 0 THEN Append(m.list, m.entry) ELSE [m.list EXCEPT ![k] = m.entry]

\* subtract_lock_from_list: what remains of the owner's locks goes to the end.
Subtract(list, o, r) ==
    LET cut == [lo |-> r[1], hi |-> r[2]]
        Hit(e) == e # NoEntry /\ e.owner = o /\ e.blocked = "granted" /\ Overlap(e, cut)
    IN SelectSeq(list, LAMBDA e : ~Hit(e)) \o
       FlattenSeq([i \in DOMAIN list |->
           IF Hit(list[i]) THEN Left(list[i], cut) \o Right(list[i], cut) ELSE <<>>])

-----------------------------------------------------------------------------
\* state_add_grant_cookie: the filesystem's lock, and a cookie in the table.
AddGrantCookie(s, k) ==
    LET c == CHOOSE d \in Cookies : s.cookie[d] = "free"
    IN FsalLock([s EXCEPT !.list[k].cookie = c, !.cookie[c] = "table"], s.list[k])

\* Mutant: the lock is given without a call to the client.
TryToGrantUnasked(s, k) ==
    LET e == s.list[k]
        granted == [e EXCEPT !.blocked = "granted", !.block_type = "none"]
    IN IF FsalAllows(s.fsal, e.owner, e.type, Bytes(e))
       THEN FsalLock([s EXCEPT !.list[k] = granted], e) ELSE [s EXCEPT !.list[k] = NoEntry]
\* try_to_grant_lock with nlm_granted_callback.  The filesystem's lock is asked
\* for with FSAL_OP_LOCK, so that a conflict there is an error and not a block:
\* the waiting entry is removed.
TryToGrant(s, k) ==
    LET e == s.list[k]
        offered == [e EXCEPT !.blocked = "available", !.block_type = "none"]
    IN IF FsalAllows(s.fsal, e.owner, e.type, Bytes(e))
       THEN AddGrantCookie([s EXCEPT !.list[k] = offered], k)
       ELSE [s EXCEPT !.list[k] = NoEntry]

\* grant_blocked_locks: every waiting entry that nothing stands against, in
\* the order of the list.
GrantBlocked(s) ==
    LET Grant(t, k) ==
            IF t.list[k].blocked = "blocking" /\ ~Overlapping(t.list, t.list[k])
            THEN TryToGrant(t, k) ELSE t
        step[k \in 0 .. Len(s.list)] == IF k = 0 THEN s ELSE Grant(step[k - 1], k)
    IN step[Len(s.list)]

\* The entry at place k is granted for good: state_complete_grant, and
\* grant_blocked_lock_immediate.
Granted(s, k) ==
    LET c == s.list[k].cookie
        e == [s.list[k] EXCEPT !.blocked = "granted", !.cookie = 0]
    IN GrantBlocked([s EXCEPT !.list = Merge(@, e, k), !.cookie[c] = "free"])

\* Mutant: the cookie stays in the table.
CancelBlockedOnly(s, k) ==
    LET e == s.list[k]
        c == e.cookie
        gone == Undo([s EXCEPT !.list[k] = NoEntry], e)
    IN IF e.blocked = "blocking" THEN FsalUnlock(gone, e.owner, Bytes(e))
       ELSE IF s.cookie[c] = "table" THEN gone
       ELSE gone
\* cancel_blocked_lock.  With a cookie the filesystem's lock is left as it is;
\* a cookie that another thread has is left to that thread.
CancelBlocked(s, k) ==
    LET e == s.list[k]
        c == e.cookie
        gone == Undo([s EXCEPT !.list[k] = NoEntry], e)
    IN IF e.blocked = "blocking" THEN FsalUnlock(gone, e.owner, Bytes(e))
       ELSE IF s.cookie[c] = "table" THEN [gone EXCEPT !.cookie[c] = "free"]
       ELSE gone
\* cancel_blocked_locks_range
CancelRange(s, o, r) ==
    LET CancelStep(t, k) ==
            LET e == t.list[k]
            IN IF e.owner = o /\ e.blocked # "granted" /\ e.lo <= r[2] /\ r[1] <= e.hi
               THEN CancelBlocked(t, k) ELSE t
        step[k \in 0 .. Len(s.list)] == IF k = 0 THEN s ELSE CancelStep(step[k - 1], k)
    IN step[Len(s.list)]

-----------------------------------------------------------------------------
Request(o, type, r) == [owner |-> o, type |-> type, lo |-> r[1], hi |-> r[2],
                        blocked |-> "granted", cookie |-> 0, block_type |-> "none"]
SameLock(e, f) == e.owner = f.owner /\ e.type = f.type /\ e.lo = f.lo /\ e.hi = f.hi
Waiting(e) == \E f \in Range(lock_list) : f.blocked = "blocking" /\ SameLock(e, f)
\* The entry that answers the request, the first that contains it.
Answers(k, e) ==
    LET f == lock_list[k]
    IN f.owner = e.owner /\ f.type = e.type /\ Covers(f, e) /\ f.blocked # "blocking"
Allowed(e) == ~\E f \in Range(lock_list) : Conflict(e, f)
NewRequest(e) == ~\E k \in DOMAIN lock_list : Answers(k, e)

Place(c) == {k \in DOMAIN lock_list : lock_list[k].cookie = c}
Free == {c \in Cookies : cookie[c] = "free"}
Blocking == {k \in DOMAIN lock_list : lock_list[k].blocked = "blocking"}
Room == /\ requests < MaxRequests /\ requests' = requests + 1
        /\ Cardinality(Blocking) < Cardinality(Free)

\* state_lock, the request is inside a lock that its owner has been offered: the
\* client retries, and is granted the lock unless another thread has the cookie.
LockOffered(o, type, r) ==
    LET e == Request(o, type, r) IN
    /\ \E k \in DOMAIN lock_list :
           /\ Answers(k, e) /\ \A j \in 1 .. k - 1 : ~Answers(j, e)
           /\ lock_list[k].blocked = "available"
           /\ cookie[lock_list[k].cookie] = "table"
           /\ Become(Granted(State, k))
    /\ UNCHANGED <<local, requests>>

\* state_lock, the filesystem agrees.  A request that may wait and waits already
\* is answered before; the same one that may not wait comes here.
LockGranted(o, type, r) ==
    LET e == Request(o, type, r) IN
    /\ Room
    /\ NewRequest(e) /\ Allowed(e)
    /\ FsalAllows(fsal, o, type, Bytes(e))
    /\ LET s == FsalLock(State, e)
       IN Become(GrantBlocked([s EXCEPT !.list = Merge(@, e, 0)]))
    /\ UNCHANGED local

\* state_lock, the request has to wait: for an entry of the list, or for the
\* filesystem.  Only a block of type STATE_BLOCK_POLL is polled, and no NLM
\* lock gets that type: there is no action for blocked_lock_polling.
LockBlocked(o, type, r) ==
    LET e == Request(o, type, r) IN
    /\ Room
    /\ ~Waiting(e) /\ NewRequest(e)
    /\ ~(Allowed(e) /\ FsalAllows(fsal, o, type, Bytes(e)))
    /\ lock_list' = Append(lock_list,
           [e EXCEPT !.blocked = "blocking",
                     !.block_type = IF Allowed(e) THEN "async" ELSE "internal"])
    /\ UNCHANGED <<cookie, fsal, local, astray>>

\* Mutant: the filesystem keeps the lock.
UnlockList(o, r) ==
    LET bytes == r[1] .. r[2]
        s1 == CancelRange(State, o, r)
        s2 == [s1 EXCEPT !.list = Subtract(@, o, r), !.astray = @ \ ({o} \X bytes)]
    IN /\ Become(GrantBlocked(s2))
       /\ UNCHANGED <<local, requests>>
\* state_unlock
Unlock(o, r) ==
    LET bytes == r[1] .. r[2]
        s1 == CancelRange(State, o, r)
        s2 == [s1 EXCEPT !.list = Subtract(@, o, r), !.astray = @ \ ({o} \X bytes)]
    IN /\ Become(GrantBlocked(FsalUnlock(s2, o, bytes)))
       /\ UNCHANGED <<local, requests>>

\* state_nlm_notify for a client that is gone or has restarted (FREE_ALL): the
\* whole file is unlocked.
FreeAll(o) == /\ \E e \in Range(lock_list) : e.owner = o
              /\ Unlock(o, <<0, MaxOffset>>)

\* Mutant: nobody else is granted the lock that is not waited for any more.
CancelSilent(o, type, r) ==
    LET e == Request(o, type, r)
        Same(k) == lock_list[k].blocked # "granted" /\ SameLock(e, lock_list[k])
    IN /\ \E k \in DOMAIN lock_list :
              /\ Same(k) /\ \A j \in 1 .. k - 1 : ~Same(j)
              /\ Become(CancelBlocked(State, k))
       /\ UNCHANGED <<local, requests>>
\* Mutant: the older lock of the owner on the range goes as well.
CancelOlder(o, type, r) ==
    LET e == Request(o, type, r)
        Same(k) == lock_list[k].blocked # "granted" /\ SameLock(e, lock_list[k])
    IN /\ \E k \in DOMAIN lock_list :
              /\ Same(k) /\ \A j \in 1 .. k - 1 : ~Same(j)
              /\ LET s == CancelBlocked(State, k)
                 IN Become(GrantBlocked([s EXCEPT !.list = Subtract(@, o, r)]))
       /\ UNCHANGED <<local, requests>>
\* state_cancel: the first waiting or offered lock that is the same.
Cancel(o, type, r) ==
    LET e == Request(o, type, r)
        Same(k) == lock_list[k].blocked # "granted" /\ SameLock(e, lock_list[k])
    IN /\ \E k \in DOMAIN lock_list :
              /\ Same(k) /\ \A j \in 1 .. k - 1 : ~Same(j)
              /\ Become(GrantBlocked(CancelBlocked(State, k)))
       /\ UNCHANGED <<local, requests>>

\* nlm4_Granted_Res finds the cookie: the client takes the lock, or does not
\* want it.
GrantedRes(c, answer) ==
    /\ cookie[c] = "table"
    /\ cookie' = [cookie EXCEPT ![c] = answer]
    /\ UNCHANGED <<lock_list, fsal, local, astray, requests>>

\* nlm4_send_grant_msg could not reach the client and finds the cookie.
SendFails(c) == GrantedRes(c, "release")

\* state_complete_grant
CompleteGrant(c) ==
    /\ cookie[c] = "complete"
    /\ \/ \E k \in Place(c) : Become(Granted(State, k))
       \/ Place(c) = {} /\ Become([State EXCEPT !.cookie[c] = "free"])
    /\ UNCHANGED <<local, requests>>

\* state_release_grant
ReleaseGrant(c) ==
    LET s == [State EXCEPT !.cookie[c] = "free"] IN
    /\ cookie[c] = "release"
    /\ \/ \E k \in Place(c) :
              LET e == lock_list[k]
              IN Become(GrantBlocked(FsalUnlock(Undo([s EXCEPT !.list[k] = NoEntry], e),
                                                e.owner, Bytes(e))))
       \/ Place(c) = {} /\ Become(GrantBlocked(s))
    /\ UNCHANGED <<local, requests>>

\* The program on the server (external).
LocalLock == /\ ~local /\ \A o \in Owners, b \in Offsets : fsal[o][b] = "none"
             /\ local' = TRUE /\ UNCHANGED <<lock_list, cookie, fsal, astray, requests>>
LocalUnlock == /\ local /\ local' = FALSE
               /\ UNCHANGED <<lock_list, cookie, fsal, astray, requests>>

Next ==
    \/ \E o \in Owners :
           \/ \E r \in Ranges : Unlock(o, r)
           \/ FreeAll(o)
           \/ \E w \in Wanted[o] :
                  \/ LockOffered(o, w[1], w[2])
                  \/ LockBlocked(o, w[1], w[2])
                  \/ Cancel(o, w[1], w[2])
                  \/ LockGranted(o, w[1], w[2])
    \/ \E c \in Cookies :
           \/ \E answer \in {"complete", "release"} : GrantedRes(c, answer)
           \/ SendFails(c)
           \/ CompleteGrant(c)
           \/ ReleaseGrant(c)
    \/ LocalLock
    \/ LocalUnlock

Spec == Init /\ [][Next]_vars

-----------------------------------------------------------------------------
Has(e, o, b) == e.owner = o /\ b \in Bytes(e) /\ e.blocked # "blocking"

\* No two owners have, or are being offered, locks that conflict, whatever
\* waits, cancellations and grants went on in between (get_overlapping_entry
\* and the loop of state_lock).
NoConflict ==
    \A e, f \in Range(lock_list) :
        "blocking" \in {e.blocked, f.blocked} \/ ~Conflict(e, f)

\* merge_lock_entry leaves an owner with one lock for each byte, unless one of
\* the two reaches the last offset: there the successor of its end is 0 and
\* nothing is merged.  No range is empty or turned around by it.
OwnerDisjoint ==
    /\ \A e \in Range(lock_list) : e \in Entries /\ e.lo <= e.hi
    /\ \A j, k \in DOMAIN lock_list :
        LET e == lock_list[j]  f == lock_list[k]
        IN \/ j = k \/ e.owner # f.owner \/ {e.blocked, f.blocked} # {"granted"}
           \/ ~Overlap(e, f) \/ MaxOffset \in {e.hi, f.hi}

\* No wakeup is lost: a lock that waits for another lock of the list (and not
\* for the filesystem) has a conflicting one before it that is held, offered
\* or waits itself.  Every operation that removes, shrinks or downgrades locks
\* must therefore call grant_blocked_locks.
NobodyWaitsForNothing ==
    \A k \in DOMAIN lock_list :
        (lock_list[k].blocked = "blocking" /\ lock_list[k].block_type = "internal")
        => \E f \in Range(lock_list) : Conflict(lock_list[k], f)

\* A lock that is offered has a cookie of its own, in the table or with the one
\* thread that will complete or release it; a cookie in the table has a lock.
GrantsExact ==
    /\ \A e \in Range(lock_list) : e.blocked = "available" <=> e.cookie # 0
    /\ \A c \in Cookies :
           /\ Cardinality(Place(c)) <= 1
           /\ Place(c) # {} => cookie[c] # "free"
           /\ cookie[c] = "table" => Place(c) # {}

\* The filesystem has a lock for exactly those bytes that the list has one for,
\* except where a wait or an unconfirmed grant has been undone and nothing
\* locked or unlocked since (cancel_blocked_lock, state_release_grant).
LocksAgree ==
    \A o \in Owners, b \in Offsets :
        LET mine == {e \in Range(lock_list) : Has(e, o, b)}
        IN \/ <<o, b>> \in astray
           \/ (fsal[o][b] # "none" <=> mine # {})

\* The bytes that the granted locks of the list are for.
Holds == UNION {{e.owner} \X Bytes(e) \X {e.type} :
                    e \in {f \in Range(lock_list) : f.blocked = "granted"}}

BL == INSTANCE ByteLocks WITH held <- Holds

\* The lock list, with its merging, splitting and deferred grants, implements
\* ByteLocks: an operation changes the locks of one owner, and gives it bytes
\* only where no other has a conflicting lock.
ListKeepsPromise == BL!Spec

\* A byte that an owner has been granted stays locked until that owner unlocks
\* a range with it: no merge, split, cancellation or grant loses one.
HeldUntilUnlocked ==
    [][\A x \in {<<h[1], h[2]>> : h \in Holds} \ {<<h[1], h[2]>> : h \in Holds'} :
          \/ \E r \in Ranges : x[2] \in r[1] .. r[2] /\ Unlock(x[1], r)
          \/ FreeAll(x[1])]_vars
=============================================================================
