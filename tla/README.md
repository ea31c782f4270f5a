# A TLA+ model of NFS-Ganesha

NFS-Ganesha is a user-space NFS server. Its hard parts are not the operations
themselves but the state around them: a server that restarts must let its
clients reclaim what they held, several servers of a cluster must agree on when
that is allowed, many threads share one file descriptor per file, one client
must not be served by two servers at once, a request that is sent again must not
be carried out again, a silent client must lose its state and a live one keep
it, and locks that clients wait for must be handed on. This directory models
those parts, checks them with TLC on small instances, and proves the main safety
properties with TLAPS for every instance. Paths below are relative to the
repository's `src/`.

- [The parts of the system](#the-parts-of-the-system)
- [What is modelled, module by module](#what-is-modelled-module-by-module)
- [The runs](#the-runs)
- [Fairness](#fairness)
- [What is proved](#what-is-proved)
- [Disagreements and deviations](#disagreements-and-deviations)
- [What is not modelled](#what-is-not-modelled)

## The parts of the system

| part | code | state | operations |
|---|---|---|---|
| grace status | `SAL/nfs4_recovery.c` | `grace_status` (two flags and a reference count in one word), `grace_mutex`, `current_grace` | `nfs_get_grace_status`, `nfs_put_grace_status`, `nfs_start_grace`, `nfs_try_lift_grace` |
| shared grace database | `support/rados_grace.c`, `tools/ganesha-rados-grace.c` | one RADOS object: epochs C and R, flags NEED and ENFORCING per node | create, add, start, join, lift, remove, enforce, noenforce |
| cluster recovery | `SAL/recovery/recovery_rados_cluster.c`, `nfs4_recovery.c`, `MainNFSD/nfs_main.c`, reaper | recovery database per node and epoch, confirmed clients, reclaim list | startup, maybe_start_grace, try_lift, end_grace, add_clid, shutdown |
| global descriptors | `FSAL/commonlib.c` | `io_work`, `fd_work`, `work_mutex`, two condition variables, LRU, global counter | `wait_to_start_io`, `reopen_fsal_fd`, `fsal_complete_io`, `close_fsal_fd`, `lru_try_one` |
| connection manager | `RPCAL/connection_manager.c`, `support/client_mgr.c` | state per client and server, list of connections, callbacks | connection started and finished, local drain, callback set and clear, removal of a client |
| duplicate requests | `RPCAL/nfs_dupreq.c`, `MainNFSD/nfs_worker_thread.c` | cache entries with queues of duplicates, a FIFO of completed ones, three counters | get_drc, start, finish, delete, release, recycle, expire |
| client ids, leases | `SAL/nfs4_clientid.c`, `SAL/nfs4_lease.c`, reaper | lease reservations, confirmed and expired lists | reserve, update, expire, reap |
| locks, shares, delegations | `SAL/state_lock.c`, `state_share.c`, `state_deleg.c` | lock lists with blocked entries, share counters, delegation states | lock, unlock, cancel, grant; open, close; grant, recall, return, revoke |
| executors | `support/delayed_exec.c`, `support/fridgethr.c` | timer tree, thread states | submit, run, shut down |
| metadata cache | `FSAL/Stackable_FSALs/FSAL_MDCACHE` | entries, hash, LRU lanes, reference counts | lookup, get, put, reclaim, invalidate |

How they interact: the reaper thread drives the lift of the grace period and
notices a cluster-wide one. A request takes a reference to the grace status
before it creates state. `nfs_start_grace` and `nfs_try_lift_grace` call the
recovery backend, which changes the shared database and switches from one
recovery database to the next. A connection is let in by the connection
manager before any request of it is executed. I/O of a request goes through
the global descriptor of the file, which the LRU thread closes behind it.
A request enters the duplicate request cache before it is executed, and reserves
the lease of its client while it is; the reaper expires the clients whose lease
has run out, and with them their locks.

The behaviours that a test would hardly reach are listed as hazards in
`PROJECT.json`, each at its line: lock-free updates of the grace word, retries
of commands on the shared object, crashes between two steps of recovery, lost
wakeups between two condition variables, drains that are aborted and begun
again, retransmissions that meet their original at any point of its life,
leases that are renewed while a thread is about to expire them, and grants that
are answered, cancelled and taken back at once.

## What is modelled, module by module

`PROJECT.json` maps every definition to its lines. The modules:

### GraceStatus: the grace word of one server

State: the word (`grace_status`), the owner of `grace_mutex`, and for every
thread where it is (`pc`), the value of the word it last read (`cur`) and the
state it asked for (`want`). `expired` says that Grace_Period has passed. An
action is one atomic access to the word: `GetLoad`, `GetCas`, `GetRefused`,
`Put` and `PutNotify` for a request; `StartLock`, `StartExtend`, `StartRetry`,
`StartCas`, `StartTail` for `nfs_start_grace`; `WaitNorefs` and `WaitTimeout`
for the caller that got EAGAIN; `LiftCheck`, `LiftLock`, `LiftRetry`, `LiftCas`,
`LiftRefused`, `LiftGrace` for `nfs_try_lift_grace`. Whether all clients have
reclaimed, and whether the backend refuses, is left open. The constant
`StickyGrace` is the configuration option of that name.

### GraceDatabase and RadosGrace: the shared object

`GraceDatabase` is the abstract specification: the object (`cur`, `rec`, the
flags of every member) and one atomic action per command. `RadosGrace` is the
code: a process reads the whole object, computes a new one (`ReadAdd`,
`ReadToggle`, `ReadJoin`, `ReadStart`, `ReadLift`) and writes it if the version
is still the same (`Write`), starts over (`WriteRetry`) or meets an error that
may or may not have left the write applied (`WriteError`). `current` is the set
of processes whose version is up to date. `match`, `failed` and `prev_cur` are
the local variables that survive a retry; an uninitialized `prev_cur` is any
epoch.

### GraceCluster: recovery of a whole cluster

It composes the commands of `GraceDatabase` with the local grace status of
every server, its recovery databases (`recdb[e][n]`), its confirmed clients
(`live`, of which `pend` are not recorded yet), the clients that may reclaim
(`clid_list`) and those that hold state. `stage` is the next thing that the
startup code or the reaper does; every call to the database is a step of its
own. `lost` remembers who held state when the server went down. `Crash` and
`Shutdown` take a server down at any step, `Boot` restarts it. It takes from
`RadosGrace` that commands are atomic, and from `GraceStatus` that the local
state does not change under a request.

### FsalFd: the global descriptor of a file

State: the counters `io_work` and `fd_work`, `work_mutex`, the modes the
descriptor is open in, its link in the LRU and its share of the global counter.
A step is one atomic access outside `work_mutex`, or what a thread does between
taking and dropping it; opening and closing take time. `asleep` holds the
threads that wait on a condition variable. `PTHREAD_COND_signal` wakes an
arbitrary waiter, and I/O threads back off as the code does. Which failures
happen (the hard limit of descriptors, an open that is refused) is left open.

### ConnectionManager and SingleServer

`ConnectionManager` has the managers of all servers for one client. A
connection `c` has the thread that runs `connection_started` for it, at
`pc[c]`; the DRAIN request that this thread sends to server `t` is at
`drain[c][t]`, and it runs on when the sender has given up. A step is a critical
section of the client's mutex or a call of one of the cluster's callbacks. Those
callbacks are not in the repository; the model gives them the behaviour that
`include/connection_manager.h` asks for (success only when every other server
has answered success) and lets them fail at any time. `SingleServer` is what it
is all for: one owner at a time, connections only at the owner, and a change of
owner only when none is open.

### DupReq and ReplyCache: duplicate requests

`DupReq` is the cache (DRC) of one TCP client with its connections, and the
order in which a worker thread calls it. A request `r` is at `pc[r]` and holds
the entry `held[r]` (`rq_u1`), which has the name of the request that allocated
it. `tree` and `queue` are the DRC's two containers, `dupes[e]` the duplicates
suspended at entry `e`; `refcnt`, `size` and `drcref` are the counters of the
code. A step is what a thread does under one mutex (or nested ones): `GetDrc`,
`AttachDrc`, the five outcomes of `nfs_dupreq_start` (`StartNew`, `StartQueued`,
`StartDropped`, `StartExists`, and `ExtendWindow` for the retransmit window),
`ReplySent`, `ReplyFails`, `Refuse` and `SendCached` for what is done with the
request, `Finish`, `FinishLost`, `Enqueue`, `Retire`, `RetireNothing` and
`PutRetired` for `nfs_dupreq_finish`, which drops and retakes its mutexes,
`Delete` and `DeleteQueued`, `Rele` and `Put`, the three ways in which
`drc_resume` goes on with a duplicate, and `Recycle`, `FreeXprt` and
`FreeExpired` for the DRC itself. A connection may break at any time; that shows
when a reply cannot be sent. `ReplyCache` is what a client may rely on: a call
is unknown, running or replied, and only a call that was not carried out, or one
that was answered, is forgotten.

Left out: the shared DRC of UDP, requests that are not cached, and the DRCs of
other clients (a thread of theirs that expires this DRC is `FreeExpired`). The
moment in `nfs_dupreq_put_drc` between the two unlocks is merged with its
predecessor, and so are the results DROP and AUTH_ERR (`REFUSED`).
`svc_resume` of ntirpc is external.

### ClientLease: leases and the reaper

Workers carry out compounds, RENEW and CREATE_SESSION for confirmed client ids;
the reaper scans the table of clients. State of a client id: `confirmed`,
`hashed`, `reservations`, `age` (the time since the last renewal, up to
`MaxAlive`), `refcount`, `marked` and its place in `list`, the list of expired
clients. `cid_mutex` is held for one step; `cr_mutex` of a client record and the
lock of the list are kept from step to step. Actions: `Reserve`, `ReserveFails`,
`EndCompound`, `Renew`, `LockForSession`, `CreateSession` and
`UnlistForSession` for the operations, `LockRecord`, `AlreadyExpired`, `Park`,
`Link`, `Expire`, `Unhash`, `UnlockRecord` for `nfs_client_id_expire`, and those
of the two reap functions. `Conflict` is an operation that meets state of
another client whose lease has run out.

Left out: unconfirmed and stale client ids, and the replacement of a client id
by EXCHANGE_ID or SETCLIENTID. Whether a client has open state (so that it is
parked and not expired) is left open. The release of owners, locks, layouts and
delegations is merged into `Unhash`. The conflicting client is not referenced
while the state lock is dropped; the model lets a client id be reused only when
nobody is about to use it as the conflicting one.

### StateLock and ByteLocks: byte range locks

`StateLock` has the lock list of one file as NLM clients use it, in the order of
the list, with granted, offered (`available`) and waiting (`blocking`) entries;
the cookies of outstanding grants; and the locks that the filesystem has for
each owner (external). Every operation runs under `st_lock` and is one step, with
all it calls: `LockGranted`, `LockBlocked`, `LockOffered`, `Unlock`, `FreeAll`,
`Cancel`, `GrantedRes`, `SendFails`, `CompleteGrant`, `ReleaseGrant`, each with
the call of `grant_blocked_locks` that ends it. A program on the server may lock
the file behind the server's back (`LocalLock`). Ranges are first and last
offset, and the successor of an offset is taken modulo `MaxOffset + 1`, as in
the code. `ByteLocks` is the reference definition, per byte and owner.

Left out: NFSv4 blocking locks, filesystems with asynchronous locks (none is in
the tree), reclaims, SM_NOTIFY's `state_applies`, failures of the filesystem's
unlock, stale exports, the shutdown, failures of `state_async_schedule`, and the
reaping of expired clients in `get_overlapping_entry`. A late answer to a cookie
that is gone does nothing, so cookies are reused.

## The runs

| run | question | result |
|---|---|---|
| `grace_sticky` | With sticky grace, do references, starts and lifts respect each other, and do starts and lifts get through? | holds |
| `grace_extend` | Does an extended grace period let clients reclaim? | violated |
| `rados_commands` | Are the commands as good as atomic, with retries and errors? | holds |
| `rados_start` | Is the recovery epoch older than the current one? | violated |
| `cluster_recovery` | Is ENFORCING true, are records kept, can everybody reclaim after one failure, and does the cluster return to normal? | holds |
| `cluster_reclaim` | Can everybody reclaim after two failures? | violated |
| `fsalfd_io` | Do I/O and descriptor work exclude each other, in the right mode and without lost wakeups? | holds |
| `fsalfd_counter` | Is the count of open descriptors never negative? | violated |
| `connection_drain` | Is the client served by one server at a time, is no entry removed in the middle of a change, and does every start and drain end? | holds |
| `dupreq_cache` | Is every call that the cache knows carried out once, every duplicate resumed or answered, every counter exact, and does the cache implement `ReplyCache`? | holds |
| `lease_expiry` | Is a live client never expired and a silent one always, and are references and the list of expired clients exact? | holds |
| `lock_grants` | Do merges, splits, grants and cancellations keep locks apart, hand on every lock that somebody waits for, agree with the filesystem, and implement `ByteLocks`? | holds |

Run one with `tlc -config GraceStatus_sticky.cfg MCGraceStatus`; the MC modules
give the constants their values.

Bounds, and why they are enough:

- `MCGraceStatus`: two requests, one thread that starts the grace period and two
  that lift it. A reference can be outstanding while another is dropped, and a
  lift races a start and another lift. Nothing else is bounded: the threads go
  round for ever.
- `MCRadosGrace`: two nodes, two processes and `MaxEpoch` = 2, so that a period
  can be lifted and a new one declared between the read and the write of a
  process. Processes and nodes are symmetric (only safety is checked).
  `rados_commands` leaves `remove` out, see the deviations.
- `MCGraceCluster`: two servers, one client on each, three failures in
  `cluster_recovery` (both servers down at once, or one that goes down again and
  again while it or the other recovers) and two in `cluster_reclaim`. With three
  servers and two failures TLC found no violation among twelve million states,
  but did not finish in ten minutes.
- `MCFsalFd`: two I/O threads (one of which may ask for any open descriptor or
  for reading, the other for writing), a release and the LRU thread, with two
  requests and one attempt of the LRU in `fsalfd_io`, so that an I/O, a reopen
  and a close overlap. `fsalfd_counter` has three requests and two attempts: the
  descriptor is closed and counted once more.
- `MCConnectionManager`: two servers with two connections each, every one made
  once, so that a connection may join or abort what another started at its own
  server and at the other one. Callbacks may be cleared at one of the servers.
- `MCDupReq`: a request with two duplicates, one of them over a second
  connection, and another request. The limits are scaled down so that they are
  reached: one suspended duplicate (`DUPREQ_MAX_DUPES` is 3), a high-water mark
  of one entry, a retransmit window of one (16) and one retry of the retirement
  (5). The two requests of the first connection are symmetric.
- `MCClientLease`: two clients, a worker and the reaper; a lease lasts one tick,
  a parked client two, and one parked client is above the threshold. Nothing
  else is bounded: clients are expired and new ones confirmed for ever.
- `MCStateLock`: four offsets, so that a range can be in the middle of another,
  touch it, or reach the last offset; three owners that ask for up to two locks
  each, four requests in all and two cookies.

Deadlock is checked for the grace word, the database and the locks. In
`GraceCluster`, `FsalFd`, `ConnectionManager` and `DupReq` the system comes to
rest when the bounded failures or the requests or connections are used up; that
nothing gets stuck before is what the liveness properties (in `DupReq`
`SuspendedHasResumer`) say. `ClientLease` has a real deadlock, see the
deviations.

## Fairness

- `GraceStatus`: a thread inside a call goes on (weak fairness); a compare and
  swap loop and a thread at `grace_mutex` are not overtaken for ever, and the
  backend does not refuse to lift for ever (strong fairness). The reaper is
  periodic (`fridgethr_flavor_looper`). Nobody has to start a request.
- `GraceCluster`: a server that is down is restarted, startup and reaper code run
  on, the grace period expires, and a start that is refused because of
  references is not refused for ever (`GraceStatus` shows why). Clients need do
  nothing, and failures are finite.
- `FsalFd`: a thread that waits for a mutex that is free again and again gets it,
  and calls into the filesystem return. Requests are finite, so an endless
  stream of failing reopens, which could starve a waiter, is not considered.
- `ConnectionManager`: threads run and timeouts elapse. DRAIN requests may be
  lost and a connection may stay open for ever.
- `ClientLease`: time passes, threads run, the reaper visits every bucket, and
  whoever waits for a mutex gets it sometime. Clients need not send anything.
  `SilentExpires` assumes that the two threads of the deadlock do not meet.

## What is proved

All theorems hold for every value of the constants that satisfies the named
assumptions of the modules: any finite sets of threads, requests, connections
and clients (any sets of servers and connections in `ConnectionManager`, any set
of clients in `GraceCluster`), and any limits. Each of the inductive invariants
below was checked by TLC on the instance of its run, or a larger one, before it
was proved. The runs of `RadosGrace` and `GraceCluster` check type correctness
too, because the types there bound the epochs; in the other five modules it is
proved and not checked once more.

**GraceStatusProofs** (assumes `StickyGrace`): `TypeCorrect`, `HeldStateSafe`,
`LiftAssertion`. The inductive invariant `IInv` adds to the types that
- a thread in a locked section owns `grace_mutex`, and its copy of the flags is
  the word's (only owners of the mutex change flags; requests change the count);
- the count is the number of requests between grant and put;
- a lifter that has seen CHANGE_REQ and a count of zero can rely on both, since
  no request takes a reference while CHANGE_REQ is set;
- `HeldStateStable` itself.

A flip of ACTIVE is then only possible when the count, and so the set of
holders, is empty. Without the second conjunct the count would say nothing about
holders; without the first the compare and swap could succeed on stale flags.

**RadosGraceProofs** (assumes `CommandsAssumption`: finite sets of nodes and
processes, `MaxEpoch` at least 2): `TypeCorrect`, for all commands, and
`Implements`, for all but `remove` (the commands implement `GraceDatabase` up to
the retried start). The types are not inductive alone. What bounds the epoch is
`Bound`: every start command that has not failed to write may add one epoch and
no other command adds any, so a process that has read the object proposes at
most one more epoch, and only if it is one of those (`Proposals`); a failed
write takes the process out of the count. For the refinement, `Atomic` says of
every process whose version is still current that the object it is about to
write comes from the one in the database by an atomic command (`Follows`).
Another process's write makes the version old and the claim void, which is the
whole point of the conditional write. That the lift command compares two numbers
of records is right because the records it changes are among those that need
the grace period (lemma `LiftCounts`). The nodes that an earlier round matched
are still members (`Scratch` and the first conjunct of `Atomic`), which is where
`remove` breaks the argument and the code (see the deviations). TLC checked
the invariant in 1.7 million states without `remove` and 5.2 million with all
commands.

**GraceClusterProofs** (assumes `ClusterAssumption`: a finite set of servers):
`TypeCorrect`, `FlagTrue`, `DatabaseKept`, `SingleFailure`, for any number of
servers and failures. `IInv` says that
- a grace period is in effect exactly while some server needs it, and its
  recovery epoch is the one before the current epoch (`Period`);
- every epoch is owed to a failure (`Starts`): a server that has gone down and
  not joined a grace period since may declare one epoch;
- at each stage of the startup code and the reaper, which of the two flags the
  record of the server may carry, whether it serves clients, and whether it is
  in its local grace period (`Places`). `FlagIsTrue` is read off from it, and
  `RecoveryDatabaseKept` because a server that needs the grace period is not at
  a stage where it replaces or removes a database of the recovery epoch;
- before the first failure clients come and go and nothing else happens
  (`Calm`), and after a single one there is a server `f` (`Failed`) such that the
  others do not need the grace period, cannot leave it before `f` lifts it, and
  the records of those who held state are in the database of the first epoch
  until `f` has read them, and then in its list. `Starts` is what makes the
  first epoch the one that `f` reads: no second server can have declared another.

`OneFailureReclaims` follows from the last item. It stops at one failure
because that is where the code's guarantee ends (`cluster_reclaim`).
TLC checked the invariant in 559 thousand states.

**FsalFdProofs**: `TypeCorrect`, `Exclusion`, `IoInRightMode`, `WaitPaysOff`.
`IInv` says that `io_work`, `fd_work` and `lru_reclaim` are the numbers of
threads at the labels where they have a claim (`Counts`), who owns
`work_mutex` where (`MutexInv`), and that nobody relies on the flags of a
descriptor while one thread opens or closes it (`NoneRelies`). The lemma `Moved`
computes the change of the counters for a step of one thread once and for all;
`NoClaims` turns a counter of zero into the absence of claims.

**ConnectionManagerProofs**: `TypeCorrect`, `ActivationExclusive`,
`DrainComplete`, `RegistrationBalanced`, `RemovalSettled` and `Implements` (the
servers implement `SingleServer`). The heart of `IInv` is `Granted`: once server `t` has answered
success to an activation at `s`, `t` does not serve the client, and it has not
itself got a success from `s`. It is preserved because a server that is
ACTIVATING answers failure, and because one thread activates at a time
(`OneActivates`). When all peers have granted, no other server can be serving,
so at most one ever is (`Exclusive`), and a list of connections is only non-empty
at a server that serves (`Lists`). `RemovalSettled` needs to know which thread
is behind a state in between (`Drainers`): it has a reference, so that an entry
without references is DRAINED or ACTIVE.

**DupReqInvariant and DupReqProofs**: `TypeCorrect`, `InChargeOnce`,
`CarriedOutOnce`, `SilentlyAnswered`, `CountersExact`, `RecycledIsUnused`,
`NobodyForgotten` and `Implements` (the cache implements `ReplyCache`). The
invariant has two halves that need each other. `Life` is about entries: nothing
is known of the entry of a request before `nfs_dupreq_start` (`Fresh`), the tree
has one entry per key (`OnePerKey`), a complete entry is queued or about to be,
by one thread (`Queued`), the suspended duplicates are those that wait in the
entry (`Waiting`), exactly one request is in charge of an entry in progress
(`Charge`), and what it is about to do with the entry agrees with what has
happened to the call (`Fate`). `CountsExact` says that the three counters are
the numbers of their users. An entry is freed when its count reaches zero, and
`Life` survives that only because the count then says that nobody uses it
(`Counted`, which follows from `CountsExact`); the counts in turn move with
`Life`'s account of who holds what. So `DupReqInvariant` proves, one lemma per
action, that every step keeps `Life` while `Counted` holds, `DupReqProofs` that
every step keeps `CountsExact` while `Life` holds, and `IInv`, the conjunction,
is inductive. Lemmas like `PlacedKept` and `FateKept` say which changes a
conjunct does not notice, so that most actions only have to show that theirs is
one of them. For the refinement, `StartNew` is `Begin`, a reply (sent or lost)
`CarryOut`, `Delete` `Abandon`, and `Retire` and `FreeExpired` are `Forget`; all
the other actions change nothing that the client sees, the last `Put` included,
since an entry is not in the tree any more when it is freed.

**ClientLeaseProofs**: `TypeCorrect`, `ParkingOnce`, `ReferencesExact`,
`UnhashingFinds` and `LeasesHonoured`. A thread finds, under `cid_mutex`, that a
lease has run out, drops the mutex and expires the client later. In between the client id is
condemned (`Condemned`): `Lapsed` says that nobody reserves or renews it any
more unless it came back, no reservation is left to be released
(`ReservationsExact`), and the id is not freed and used for another client,
because the thread or the list has a reference (`RefsExact`). `Locking` gives the
two locks that are held over several steps one owner each, so that the hash
table and the list change in one thread's hands. TLC checked this invariant with
two workers (1.8 million states).

Only model-checked:
- liveness (`StartSucceeds`, `GraceEnds`, `NormalOperationResumes`, `WaitsEnd`
  of two modules, `SilentExpires`), which needs fairness and `ENABLED` and is
  out of the prover's reach;
- the properties of `StateLock`: what `Merge` and `Subtract` do to a list of any
  length is a statement about a recursive function over the list, and would have
  to be proved by induction over data, which the prover cannot do. All five
  invariants and the refinement of `ByteLocks` depend on it, since every action
  that locks or unlocks goes through the two.

`AtomicCommands` with `remove` among the commands is neither checked nor proved:
it does not hold.

## Disagreements and deviations

Four runs show that the code does not do what a comment, a document or an
assertion says (`findings` in `PROJECT.json` quotes them):

1. `grace_extend`: a grace period that is extended while its lift is pending
   keeps CHANGE_REQ, and no client can reclaim in it.
2. `rados_start`: a start whose first write fails declares R = C.
3. `cluster_reclaim`: ENFORCING is set before the join, and in between another
   restarting server can lift; the late one starts an epoch without records.
4. `fsalfd_counter`: the LRU bump at the end of an I/O can follow the close.

Seen while modelling and not stated by a run:

- Without sticky grace, the default (`support/nfs_read_conf.c:635`; the
  comment at `include/gsh_config.h:624` says "Defaults to true"), requests take no reference and
  `HeldStateStable` does not hold.
- `rados_grace_lift_bulk` compares the number of records it touches with the
  number of nodes that need grace. For `remove` it counts records without NEED as
  well, so removing such a node can end the grace period of another.
- `match[]` is not reset when a command retries: a node that is removed meanwhile
  is written back by a retried toggle or join.
- With two failures, a server that restarts between the lift of the last server
  and its `rados_grace_enforcing_off` believes a flag that is about to go; a
  server that stays in its local grace period while the cluster leaves one and
  begins the next keeps its records under the old epoch.
- A client that is confirmed after `maybe_start_grace` has walked the hash can
  lose its record when the new database is cleared.
- When permissions forbid to open a file for reading and writing, a reader and a
  writer can reopen it alternately for ever: the loop in `wait_to_start_io` does
  not look at `retried`. `WaitsEnd` excludes such files.
- `close_fsal_fd` tests `lru_reclaim` without `fsal_fd_mutex` and can miss the
  signal that follows.
- When callbacks are cleared while connections are open, the registrations in
  the cluster stay behind. `RegistrationsMatch` excludes such servers.
- The assertion at `RPCAL/connection_manager.c:293`, that a client is DRAINED
  when its entry goes, fails for a client whose last connection has closed: it
  stays ACTIVE. `RemovedSettled` is what does hold.
- A duplicate that is dropped at the limit (`RPCAL/nfs_dupreq.c:1114`) keeps the
  reference to the DRC that it took at line 711: `nfs_dupreq_rele` does not
  release it for a request without an entry. The comment at line 82 says "Its
  ref count should go to zero when the connection's xprt gets freed". It is the
  third term of `DrcRefsExact`.
- CREATE_SESSION holds `cr_mutex` and waits for the lock of the list of expired
  clients (`Protocols/NFS/nfs4_op_create_session.c:672`; SETCLIENTID_CONFIRM does
  the same at `nfs4_op_setclientid_confirm.c:404`), while
  `reap_expired_client_list` holds that lock and waits for `cr_mutex`
  (`LockCycle`).
- "Lease reservation prevents any other thread from expiring the lease"
  (`SAL/nfs4_lease.c:121`) does not hold for a client that came back after its
  lease had run out, while another thread was about to expire it: `LeaseHonoured`
  excepts those clients (`revived`).
- `merge_lock_entry` adds 1 to the end of a lock (`SAL/state_lock.c:872`), which
  wraps at the last offset, and does not merge such a lock with the ones it
  overlaps (the exception of `OwnerDisjoint`).
- An NLM lock that only the filesystem refuses waits with `STATE_BLOCK_ASYNC` and
  is not polled; the condition at `state_lock.c:2988` is the opposite of its
  comment, "Actively poll for the lock only for nlm locks."
- Cancelling a wait that has a cookie does not unlock the filesystem; cancelling
  a waiting upgrade, or releasing an offered one, takes away the filesystem's
  older lock (`astray` in `LocksAgree`; the code has a "@todo: Maybe an issue if
  this was a lock upgrade?").
- `try_to_grant_lock` asks the filesystem with `FSAL_OP_LOCK`, so that a conflict
  there drops the waiting lock.
- A LOCK that is repeated and answered with success while another thread has its
  cookie may be released by that thread.
- An offered lock that is confirmed after a newer lock of the same owner changes
  the type in the list and not in the filesystem.

## What is not modelled

Within the modelled parts: takeover of another server's clients
(`EVENT_TAKE_IP`, `EVENT_TAKE_NODEID`), errors of writes to the recovery
database, the watermarks and the pace of the descriptor LRU, crashes of a server
in `ConnectionManager` (its state is then gone with its connections, but not the
leases behind it, whose extension is a TODO in the code); and what the
descriptions of `DupReq`, `ClientLease` and `StateLock` above leave out.

Parts without a module are in `PROJECT.json` with the reason. Those with
interleavings of their own are delegations (recall, return and revocation depend
on the back channel and on upcalls), the delayed executor and the thread pools,
whose calls the other modules let happen at any time, and the metadata cache.
The others are sequential data structures, parsing, encoding, logging and
statistics, where interleavings play no role, and filesystem backends and
transports, which translate calls to code outside the repository.
