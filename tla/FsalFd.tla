------------------------------- MODULE FsalFd -------------------------------
(***************************************************************************)
(* The protection of the global file descriptor of an object               *)
(* (FSAL/commonlib.c).  Threads that do I/O count themselves in io_work,   *)
(* threads that open, reopen or close the descriptor in fd_work; each side *)
(* raises its own counter before it reads the other's, and I/O backs off.  *)
(* Releasing threads and the descriptor LRU close the descriptor meanwhile.*)
(*                                                                         *)
(* A step is one atomic access outside work_mutex, or what a thread does   *)
(* between taking and dropping it.  A descriptor that is being opened or   *)
(* closed is a state of its own.  Every thread is in `pc` where it is in   *)
(* the code; a wait on a condition variable lasts while it is in `asleep`. *)
(***************************************************************************)
EXTENDS Integers, FiniteSets

CONSTANTS IoThreads,    \* threads that read and write through the descriptor
          Closers,      \* threads that release it, once each
          Reclaimers,   \* the thread(s) of fd_lru_fridge
          Requests,     \* the modes that each I/O thread may ask for
          MaxRequests,  \* bound on the number of requests for I/O
          MaxReclaims,  \* bound on the attempts of fd_lru_fridge
          NoThread

Threads == IoThreads \cup Closers \cup Reclaimers

\* The modes of an I/O request; {} is FSAL_O_ANY, "open, in whatever mode".
Modes == {{}, {"read"}, {"write"}}

ASSUME ThreadsAssumption ==
    /\ IsFiniteSet(Threads)
    /\ NoThread \notin Threads
    /\ IoThreads \cap (Closers \cup Reclaimers) = {}
    /\ Closers \cap Reclaimers = {}
    /\ Requests \in [IoThreads -> SUBSET Modes]
    /\ MaxRequests \in Nat /\ MaxReclaims \in Nat

VARIABLES io_work, fd_work,  \* the two counters of struct fsal_fd
          work_mutex,        \* the thread that owns it, or NoThread
          openflags,         \* the modes it is open in; {} is FSAL_O_CLOSED
          fd_lru,            \* is it linked in fsal_fd_global_lru?
          global_counter,    \* its share of fsal_fd_global_counter
          lru_reclaim,       \* reclaimers that work on it
          mode,              \* the mode an I/O thread asks for
          retried,           \* I/O threads that have reopened it already
          outer,             \* I/O threads that reopen it outside the loop
          restricted,        \* the file may not be opened in combined modes
          pc, asleep,
          requests, reclaims \* how many so far

bounds == <<restricted, requests, reclaims>>
fdvars == <<openflags, fd_lru, global_counter>>
vars == <<io_work, fd_work, work_mutex, openflags, fd_lru, global_counter,
          lru_reclaim, mode, retried, outer, pc, asleep, bounds>>

\* open_correct: the descriptor's mode satisfies the request of t.
open_correct(t) == IF mode[t] = {} THEN openflags # {}
                                   ELSE mode[t] \subseteq openflags

\* want_read and want_write are counted from the first lines of
\* wait_to_start_io to its end, so they count the threads that are inside it.
Starting == {"check", "recheck", "backoff", "relock", "locked", "io_wait",
             "flags", "yield", "reopen_lock", "lull", "reopen_wait",
             "reopen", "retry"}
Wanting == {t \in IoThreads : pc[t] \in Starting}
Wanted == UNION {mode[t] : t \in Wanting}

IoLabels == Starting \cup {"idle", "io", "bump"}
FdLabels == {"idle", "picked", "close_lock", "close_lull", "close_wait",
             "closing", "closed", "reclaimed", "lru_test", "lru_lock",
             "lru_wait", "gone"}

Init ==
    /\ io_work = 0 /\ fd_work = 0
    /\ work_mutex = NoThread
    /\ openflags = {} /\ fd_lru = FALSE /\ global_counter = 0
    /\ lru_reclaim = 0
    /\ mode = [t \in IoThreads |-> {}]
    /\ retried = {} /\ outer = {}
    /\ pc = [t \in Threads |-> "idle"]
    /\ restricted \in BOOLEAN
    /\ asleep = {} /\ requests = 0 /\ reclaims = 0
-----------------------------------------------------------------------------
(* Mutex and condition variables.                                          *)

\* remove_fd_lru aborts the process when the counter becomes negative.
Alive == global_counter >= 0

Goto(t, l) == Alive /\ pc' = [pc EXCEPT ![t] = l]
Free == work_mutex = NoThread
Lock(t) == Free /\ work_mutex' = t
Unlock == work_mutex' = NoThread

Sleeping(labels) == {t \in asleep : pc[t] \in labels}
IoSleepers == Sleeping({"io_wait"})                     \* io_work_cond
FdSleepers == Sleeping({"reopen_wait", "close_wait"})   \* fd_work_cond
LruSleepers == Sleeping({"lru_wait"})                   \* fsal_fd_cond

\* PTHREAD_COND_signal wakes one waiter if there is one.
OneOf(S) == IF S = {} THEN {{}} ELSE {{t} : t \in S}
Signal(S) == \E s \in OneOf(S) : asleep' = asleep \ s

\* Mutant of FdWorkDone: one waiting I/O thread is signalled, not all.
FdWorkDoneSignal ==
    /\ fd_work' = fd_work - 1
    /\ \E s \in OneOf(FdSleepers), i \in OneOf(IoSleepers) :
         asleep' = asleep \ (s \cup IF fd_work = 1 THEN i ELSE {})

\* Drop fd_work; wake a thread that waits to do fd work and, if this was the
\* last one, all that wait to do I/O.
FdWorkDone ==
    /\ fd_work' = fd_work - 1
    /\ \E s \in OneOf(FdSleepers) :
         asleep' = asleep \ (s \cup IF fd_work = 1 THEN IoSleepers ELSE {})

\* PTHREAD_MUTEX_dec_int32_t_and_lock(io_work, work_mutex): the mutex is
\* only taken by the thread that drops the counter to zero.
DecNotLast == io_work > 1 /\ io_work' = io_work - 1
DecLast == io_work = 1 /\ Free /\ io_work' = 0

\* The request of t is over; its locals are reset to keep the states few.
Forget(t) ==
    /\ mode' = [mode EXCEPT ![t] = {}]
    /\ retried' = retried \ {t}
-----------------------------------------------------------------------------
(* wait_to_start_io *)

\* Register for I/O and as a thread that wants the mode.
StartIo(t) ==
    /\ pc[t] = "idle" /\ requests < MaxRequests
    /\ requests' = requests + 1
    /\ \E m \in Requests[t] : mode' = [mode EXCEPT ![t] = m]
    /\ io_work' = io_work + 1
    /\ Goto(t, "check")
    /\ UNCHANGED <<fd_work, work_mutex, fdvars, lru_reclaim, retried, outer,
                   asleep, restricted, reclaims>>

\* After a reopen outside the loop: once more from the top.
RetryIo(t) ==
    /\ pc[t] = "retry"
    /\ io_work' = io_work + 1
    /\ Goto(t, "check")
    /\ UNCHANGED <<fd_work, work_mutex, fdvars, lru_reclaim, mode, retried,
                   outer, asleep, bounds>>

\* The unlocked test of fd_work at the head of the loop.
CheckFdWork(t) ==
    /\ pc[t] \in {"check", "recheck"}
    /\ Goto(t, IF fd_work = 0 THEN "flags" ELSE "backoff")
    /\ UNCHANGED <<io_work, fd_work, work_mutex, fdvars, lru_reclaim, mode,
                   retried, outer, asleep, bounds>>

BackOff(t) ==
    /\ pc[t] = "backoff"
    /\ \/ /\ DecNotLast
          /\ Goto(t, "relock")
          /\ UNCHANGED <<work_mutex, asleep>>
       \/ /\ DecLast
          /\ Lock(t)
          /\ Signal(FdSleepers)
          /\ Goto(t, "locked")
    /\ UNCHANGED <<fd_work, fdvars, lru_reclaim, mode, retried, outer,
                   bounds>>

\* The mutex is needed anyway.
Relock(t) ==
    /\ \/ pc[t] = "relock" /\ Goto(t, "locked")
       \/ pc[t] = "reopen_lock" /\ Goto(t, "lull")
    /\ Lock(t)
    /\ UNCHANGED <<io_work, fd_work, fdvars, lru_reclaim, mode, retried, outer,
                   asleep, bounds>>

WaitIoCond(t) ==
    /\ pc[t] = "locked" /\ fd_work # 0
    /\ asleep' = asleep \cup {t}
    /\ Unlock
    /\ Goto(t, "io_wait")
    /\ UNCHANGED <<io_work, fd_work, fdvars, lru_reclaim, mode, retried, outer,
                   bounds>>

\* A thread that was woken takes the mutex again and repeats its test.
WakeUp(t) ==
    /\ t \notin asleep
    /\ \/ pc[t] = "io_wait" /\ Goto(t, "locked")
       \/ pc[t] = "reopen_wait" /\ Goto(t, "lull")
       \/ pc[t] = "close_wait" /\ Goto(t, "close_lull")
    /\ Lock(t)
    /\ UNCHANGED <<io_work, fd_work, fdvars, lru_reclaim, mode, retried, outer,
                   asleep, bounds>>

\* Mutant of ResumeIo: the mode is left to the test outside the loop.
ResumeIoUntested(t) ==
    /\ pc[t] = "locked" /\ fd_work = 0
    /\ io_work' = io_work + 1
    /\ Unlock
    /\ Goto(t, "recheck")
    /\ UNCHANGED <<fd_work, fdvars, lru_reclaim, mode, retried, outer, asleep,
                   bounds>>

\* The fd work is over and left the descriptor in a mode that t can use.
ResumeIo(t) ==
    /\ pc[t] = "locked" /\ fd_work = 0
    /\ open_correct(t)
    /\ io_work' = io_work + 1
    /\ Unlock
    /\ Goto(t, "recheck")
    /\ UNCHANGED <<fd_work, fdvars, lru_reclaim, mode, retried, outer, asleep,
                   bounds>>

\* Wrong mode and cant_reopen: the hard limit on open descriptors is reached
\* (any other file may have used it up), or the request is for FSAL_O_ANY.
GiveUpLocked(t) ==
    /\ pc[t] = "locked" /\ fd_work = 0
    /\ ~open_correct(t)
    /\ \E s \in OneOf(FdSleepers) : asleep' = asleep \ (s \cup IoSleepers)
    /\ Unlock
    /\ Goto(t, "idle")
    /\ Forget(t)
    /\ UNCHANGED <<io_work, fd_work, fdvars, lru_reclaim, outer,
                   bounds>>

ReopenLocked(t) ==
    /\ pc[t] = "locked" /\ fd_work = 0
    /\ ~open_correct(t) /\ mode[t] # {}
    /\ fd_work' = fd_work + 1
    /\ Goto(t, "lull")
    /\ UNCHANGED <<io_work, work_mutex, fdvars, lru_reclaim, mode, retried,
                   outer, asleep, bounds>>

\* Mutant of UseFd: any descriptor that is open will do.
UseFdAny(t) ==
    /\ pc[t] = "flags"
    /\ openflags # {}
    /\ Goto(t, "io")
    /\ UNCHANGED <<io_work, fd_work, work_mutex, fdvars, lru_reclaim, mode,
                   retried, outer, asleep, bounds>>

\* No fd work: the flags are protected by io_work and can be tested.
UseFd(t) ==
    /\ pc[t] = "flags"
    /\ open_correct(t)
    /\ Goto(t, "io")
    /\ UNCHANGED <<io_work, fd_work, work_mutex, fdvars, lru_reclaim, mode,
                   retried, outer, asleep, bounds>>

\* Wrong mode and retried or cant_reopen: the caller uses a temporary fd.
GiveUp(t) ==
    /\ pc[t] = "flags"
    /\ ~open_correct(t)
    /\ \/ DecNotLast /\ UNCHANGED asleep
       \/ DecLast /\ Signal(FdSleepers)
    /\ Goto(t, "idle")
    /\ Forget(t)
    /\ UNCHANGED <<fd_work, work_mutex, fdvars, lru_reclaim, outer,
                   bounds>>

Reopen(t) ==
    /\ pc[t] = "flags"
    /\ ~open_correct(t) /\ mode[t] # {} /\ t \notin retried
    /\ fd_work' = fd_work + 1
    /\ outer' = outer \cup {t}
    /\ Goto(t, "yield")
    /\ UNCHANGED <<io_work, work_mutex, fdvars, lru_reclaim, mode, retried,
                   asleep, bounds>>

\* Mutant of YieldIo: can_start is set by every thread that gets the mutex.
YieldIoEager(t) ==
    /\ pc[t] = "yield"
    /\ DecNotLast \/ DecLast
    /\ Lock(t) /\ Goto(t, "reopen")
    /\ UNCHANGED <<fd_work, fdvars, lru_reclaim, mode, retried, outer, asleep,
                   bounds>>

\* Give up the claim on I/O; the last one may start the fd work at once.
YieldIo(t) ==
    /\ pc[t] = "yield"
    /\ \/ DecNotLast /\ Goto(t, "reopen_lock") /\ UNCHANGED work_mutex
       \/ DecLast /\ Lock(t) /\ Goto(t, "reopen")
    /\ UNCHANGED <<fd_work, fdvars, lru_reclaim, mode, retried, outer, asleep,
                   bounds>>
-----------------------------------------------------------------------------
(* reopen_fsal_fd *)

\* Wait for a lull in the I/O.
AwaitLull(t) ==
    /\ pc[t] = "lull"
    /\ \/ /\ io_work # 0
          /\ asleep' = asleep \cup {t}
          /\ Unlock
          /\ Goto(t, "reopen_wait")
       \/ /\ io_work = 0
          /\ Goto(t, "reopen")
          /\ UNCHANGED <<work_mutex, asleep>>
    /\ UNCHANGED <<io_work, fd_work, fdvars, lru_reclaim, mode, retried, outer,
                   bounds>>

\* The modes to open in: the request, what is open, what others wait for.
Combined(t) == mode[t] \cup openflags \cup Wanted

\* Open in modes m; a descriptor that was closed is counted.
Open(m) ==
    /\ openflags' = m
    /\ fd_lru' = TRUE
    /\ global_counter' = IF openflags = {} THEN global_counter + 1
                                           ELSE global_counter

\* The open with the combined modes is refused if permissions have changed, and
\* is then tried with the modes of the request alone.
Reopened(t) ==
    \/ Combined(t) \subseteq openflags /\ UNCHANGED fdvars
    \/ /\ ~(Combined(t) \subseteq openflags)
       /\ Open(IF restricted THEN mode[t] ELSE Combined(t))

\* Back outside the loop t starts again; inside it t registers for I/O while
\* it still owns the mutex.
FinishReopen(t) ==
    /\ pc[t] = "reopen"
    /\ Reopened(t)
    /\ FdWorkDone
    /\ Unlock
    /\ IF t \in outer
         THEN /\ Goto(t, "retry") /\ UNCHANGED io_work
              /\ retried' = retried \cup {t}
         ELSE Goto(t, "recheck") /\ io_work' = io_work + 1 /\ UNCHANGED retried
    /\ outer' = outer \ {t}
    /\ UNCHANGED <<lru_reclaim, mode, bounds>>

FailReopen(t) ==
    /\ pc[t] = "reopen"
    /\ ~(Combined(t) \subseteq openflags)
    /\ FdWorkDone
    /\ Unlock
    /\ outer' = outer \ {t}
    /\ Goto(t, "idle")
    /\ Forget(t)
    /\ UNCHANGED <<io_work, fdvars, lru_reclaim, bounds>>
-----------------------------------------------------------------------------
(* fsal_complete_io *)

CompleteIo(t) ==
    /\ pc[t] = "io"
    /\ \/ DecNotLast /\ UNCHANGED <<work_mutex, asleep>>
       \/ DecLast /\ Lock(t) /\ Signal(FdSleepers)
    /\ Goto(t, "bump")
    /\ Forget(t)
    /\ UNCHANGED <<fd_work, fdvars, lru_reclaim, outer, bounds>>

\* bump_fd_lru, with or without work_mutex.
BumpLru(t) ==
    /\ pc[t] = "bump"
    /\ fd_lru' = TRUE
    /\ IF work_mutex = t THEN Unlock ELSE UNCHANGED work_mutex
    /\ Goto(t, "idle")
    /\ UNCHANGED <<io_work, fd_work, openflags, global_counter, lru_reclaim,
                   mode, retried, outer, asleep, bounds>>
-----------------------------------------------------------------------------
(* close_fsal_fd, lru_try_one *)

\* The LRU thread takes the descriptor from the end of the list.
TryOne(t) ==
    /\ pc[t] = "idle" /\ reclaims < MaxReclaims
    /\ fd_lru
    /\ lru_reclaim' = lru_reclaim + 1
    /\ reclaims' = reclaims + 1
    /\ Goto(t, "picked")
    /\ UNCHANGED <<io_work, fd_work, work_mutex, fdvars, mode, retried, outer,
                   asleep, restricted, requests>>

StartFdWork(t) ==
    /\ pc[t] = IF t \in Reclaimers THEN "picked" ELSE "idle"
    /\ fd_work' = fd_work + 1
    /\ Goto(t, "close_lock")
    /\ UNCHANGED <<io_work, work_mutex, fdvars, lru_reclaim, mode, retried,
                   outer, asleep, bounds>>

LockFdWork(t) ==
    /\ pc[t] = "close_lock"
    /\ Lock(t)
    /\ Goto(t, "close_lull")
    /\ UNCHANGED <<io_work, fd_work, fdvars, lru_reclaim, mode, retried, outer,
                   asleep, bounds>>

\* A releasing thread waits for a lull in the I/O.
AwaitClose(t) ==
    /\ pc[t] = "close_lull" /\ t \in Closers
    /\ io_work # 0
    /\ asleep' = asleep \cup {t}
    /\ Unlock
    /\ Goto(t, "close_wait")
    /\ UNCHANGED <<io_work, fd_work, fdvars, lru_reclaim, mode, retried, outer,
                   bounds>>

\* The LRU thread skips a descriptor that is in use or about to be.
SkipBusy(t) ==
    /\ pc[t] = "close_lull" /\ t \in Reclaimers
    /\ Wanting # {} \/ io_work # 0
    /\ fd_lru' = TRUE
    /\ FdWorkDone
    /\ Unlock
    /\ Goto(t, "reclaimed")
    /\ UNCHANGED <<io_work, openflags, global_counter, lru_reclaim, mode,
                   retried, outer, bounds>>

BeginClose(t) ==
    /\ pc[t] = "close_lull"
    /\ io_work = 0
    /\ t \in Reclaimers => Wanting = {}
    /\ Goto(t, "closing")
    /\ UNCHANGED <<io_work, fd_work, work_mutex, fdvars, lru_reclaim, mode,
                   retried, outer, asleep, bounds>>

\* Close it, uncount it and unlink it if it is linked.  A descriptor that was
\* closed before is not an error.
FinishClose(t) ==
    /\ pc[t] = "closing"
    /\ openflags' = {}
    /\ fd_lru' = FALSE
    /\ global_counter' = IF fd_lru THEN global_counter - 1 ELSE global_counter
    /\ FdWorkDone
    /\ Unlock
    /\ Goto(t, IF t \in Reclaimers THEN "closed" ELSE "lru_test")
    /\ UNCHANGED <<io_work, lru_reclaim, mode, retried, outer, bounds>>

SignalClosed(t) ==
    /\ pc[t] = "closed"
    /\ Signal(LruSleepers)
    /\ Goto(t, "reclaimed")
    /\ UNCHANGED <<io_work, fd_work, work_mutex, fdvars, lru_reclaim, mode,
                   retried, outer, bounds>>

TriedOne(t) ==
    /\ pc[t] = "reclaimed"
    /\ lru_reclaim' = lru_reclaim - 1
    /\ Signal(LruSleepers)
    /\ Goto(t, "idle")
    /\ UNCHANGED <<io_work, fd_work, work_mutex, fdvars, mode, retried, outer,
                   bounds>>

\* A releasing thread waits until the LRU thread has let go: the flag is
\* tested without fsal_fd_mutex, which is taken for the wait alone.
TestReclaim(t) ==
    /\ \/ pc[t] = "lru_test"
       \/ pc[t] = "lru_wait" /\ t \notin asleep
    /\ Goto(t, IF lru_reclaim = 0 THEN "gone" ELSE "lru_lock")
    /\ UNCHANGED <<io_work, fd_work, work_mutex, fdvars, lru_reclaim, mode,
                   retried, outer, asleep, bounds>>

WaitReclaim(t) ==
    /\ pc[t] = "lru_lock"
    /\ asleep' = asleep \cup {t}
    /\ Goto(t, "lru_wait")
    /\ UNCHANGED <<io_work, fd_work, work_mutex, fdvars, lru_reclaim, mode,
                   retried, outer, bounds>>
-----------------------------------------------------------------------------
\* What a thread does once it has begun.
IoStep(t) ==
    \/ RetryIo(t) \/ CheckFdWork(t) \/ BackOff(t) \/ Relock(t)
    \/ WaitIoCond(t) \/ WakeUp(t) \/ ResumeIo(t) \/ GiveUpLocked(t)
    \/ ReopenLocked(t) \/ UseFd(t) \/ GiveUp(t) \/ Reopen(t) \/ YieldIo(t)
    \/ AwaitLull(t) \/ FinishReopen(t) \/ FailReopen(t)
    \/ CompleteIo(t) \/ BumpLru(t)

FdStep(t) ==
    \/ LockFdWork(t) \/ AwaitClose(t) \/ WakeUp(t) \/ SkipBusy(t)
    \/ BeginClose(t) \/ FinishClose(t) \/ SignalClosed(t) \/ TriedOne(t)
    \/ TestReclaim(t) \/ WaitReclaim(t)

Next ==
    \/ \E t \in IoThreads : StartIo(t) \/ IoStep(t)
    \/ \E t \in Reclaimers : TryOne(t) \/ StartFdWork(t) \/ FdStep(t)
    \/ \E t \in Closers : StartFdWork(t) \/ FdStep(t)

Spec == Init /\ [][Next]_vars

\* A thread that waits for a mutex that is free again and again gets it, I/O
\* and the calls of the FSAL return; nobody has to begin anything.
FairSpec ==
    /\ Spec
    /\ \A t \in IoThreads : SF_vars(IoStep(t))
    /\ \A t \in Closers \cup Reclaimers : SF_vars(FdStep(t))
    /\ \A t \in Reclaimers : WF_vars(StartFdWork(t))
-----------------------------------------------------------------------------
TypeOK ==
    /\ io_work \in 0 .. Cardinality(IoThreads)
    /\ fd_work \in 0 .. Cardinality(Threads)
    /\ work_mutex \in Threads \cup {NoThread}
    /\ openflags \in SUBSET {"read", "write"}
    /\ fd_lru \in BOOLEAN /\ restricted \in BOOLEAN
    /\ global_counter \in Int
    /\ lru_reclaim \in 0 .. Cardinality(Reclaimers)
    /\ mode \in [IoThreads -> Modes]
    /\ retried \subseteq IoThreads /\ outer \subseteq IoThreads
    /\ pc \in [Threads -> IoLabels \cup FdLabels]
    /\ asleep \subseteq Threads
    /\ requests \in 0 .. MaxRequests /\ reclaims \in 0 .. MaxReclaims

\* "Now we hold the mutex and no one is doing I/O so we can safely close the
\* fd": while close_fsal_fd or reopen_fsal_fd works on the descriptor, no
\* thread does I/O through it or relies on its flags, and no other works on it.
WorkExcludesIo ==
    \A t \in Threads : pc[t] \in {"reopen", "closing"} =>
        /\ \A u \in IoThreads : pc[u] \notin {"flags", "io"}
        /\ \A u \in Threads \ {t} : pc[u] \notin {"reopen", "closing"}

\* A thread that wait_to_start_io let through does its I/O on a descriptor
\* that is open, in a mode that allows it, until fsal_complete_io.
IoModeAllowed ==
    \A t \in IoThreads : pc[t] = "io" => open_correct(t)

\* "If we had to wait for other threads to do fd_work, then ... the file MUST
\* now be in a usable state": from the end of its wait on, no other thread
\* closes or reopens the descriptor away under t until t has tested the flags.
UsableAfterWait ==
    \A t \in IoThreads : pc[t] = "recheck" => open_correct(t)

\* The two condition variables of struct fsal_fd lose no wakeup: every request
\* for I/O gets the descriptor or is turned away to a temporary one, and every
\* close gets its lull in the I/O however many requests arrive, unless
\* permissions force readers and writers to reopen it over and over.
WaitsEnd ==
    /\ \A t \in IoThreads :
           pc[t] = "check" /\ ~restricted ~> pc[t] \in {"io", "idle"} \/ ~Alive
    /\ \A t \in Closers \cup Reclaimers :
           pc[t] = "close_lock" /\ ~restricted ~>
               pc[t] \in {"lru_test", "closed", "reclaimed"} \/ ~Alive

\* remove_fd_lru: "fsal_fd_global_counter is negative" is never reached, so
\* the descriptor is uncounted as often as it was counted.
CounterNotNegative == global_counter >= 0
=============================================================================
