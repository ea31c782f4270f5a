-------------------------- MODULE ConnectionManager --------------------------
(***************************************************************************)
(* The connection manager (RPCAL/connection_manager.c) of every server of  *)
(* a cluster, for one client.  A server that gets the client's first       *)
(* connection makes all the other servers close theirs before it lets the  *)
(* new one in.                                                             *)
(*                                                                         *)
(* A step is what a thread does between taking and dropping the mutex of   *)
(* the client, or one call of the cluster's callbacks.  Those callbacks    *)
(* and the messages between the servers are not in the repository: they do *)
(* what connection_manager.h asks of them.  Every connection has the       *)
(* thread that runs connection_started for it, at pc[c], and the DRAIN     *)
(* requests that this thread sends, at drain[c][t] for server t.  A        *)
(* request lives on at t when its sender has stopped waiting for it.       *)
(***************************************************************************)
EXTENDS Integers, FiniteSets

CONSTANTS Servers,
          Conns,         \* connections, each of which is made once at most
          Home,          \* the server that each connection goes to
          Reconfigured,  \* servers whose callbacks may be cleared
          NoServer

ASSUME ConnsAssumption ==
    /\ Home \in [Conns -> Servers]
    /\ Reconfigured \subseteq Servers
    /\ NoServer \notin Servers

VARIABLES state,        \* connection_manager__client_t.state, per server
          connections,  \* connection_manager__client_t.connections
          destroyed,    \* the connections with is_destroyed
          known,        \* servers with an entry for the client (client_mgr.c)
          callback,     \* servers whose callbacks are set
          registered,   \* connections registered in the cluster
          pc, drain

vars == <<state, connections, destroyed, known, callback, registered, pc,
          drain>>

States == {"DRAINED", "ACTIVATING", "ACTIVE", "DRAINING"}
StartLabels == {"wait", "activate", "drain_others", "activated", "failed",
                "register", "registered", "refused"}
Labels == StartLabels \cup {"new", "open", "finishing", "closed"}
DrainLabels == {"none", "sent", "draining", "watching", "success", "failure"}

Peers(c) == Servers \ {Home[c]}
Running == {"draining", "watching"}

Init ==
    /\ state = [s \in Servers |-> "DRAINED"]
    /\ connections = [s \in Servers |-> {}]
    /\ destroyed = {} /\ known = {} /\ callback = {} /\ registered = {}
    /\ pc = [c \in Conns |-> "new"]
    /\ drain = [c \in Conns |-> [s \in Servers |-> "none"]]

Goto(c, l) == pc' = [pc EXCEPT ![c] = l]
ChangeState(s, new) == state' = [state EXCEPT ![s] = new]

unchanged_lists == UNCHANGED <<connections, destroyed>>
unchanged_cluster == UNCHANGED <<known, callback, registered, drain>>
-----------------------------------------------------------------------------
(* connection_started: a new connection at its server.                     *)

Arrive(c) == pc[c] = "new" /\ known' = known \cup {Home[c]}

\* Mutant: a client that is being activated is activated once more.
StartDrainedAgain(c) ==
    /\ Arrive(c)
    /\ state[Home[c]] \in {"DRAINED", "ACTIVATING"}
    /\ ChangeState(Home[c], "ACTIVATING")
    /\ Goto(c, "activate")
    /\ unchanged_lists /\ UNCHANGED <<callback, registered, drain>>

\* connection_started and the switch of register_new_client_connection: the
\* client is drained here, and this thread activates it,
StartDrained(c) ==
    /\ Arrive(c)
    /\ state[Home[c]] = "DRAINED"
    /\ ChangeState(Home[c], "ACTIVATING")
    /\ Goto(c, "activate")
    /\ unchanged_lists /\ UNCHANGED <<callback, registered, drain>>

\* another thread is activating it,
StartActivating(c) ==
    /\ Arrive(c)
    /\ state[Home[c]] = "ACTIVATING"
    /\ Goto(c, "wait")
    /\ unchanged_lists /\ UNCHANGED <<state, callback, registered, drain>>

\* it is active, or a drain is in progress, which is aborted.
StartActive(c) ==
    /\ Arrive(c)
    /\ state[Home[c]] \in {"ACTIVE", "DRAINING"}
    /\ ChangeState(Home[c], "ACTIVE")
    /\ Goto(c, "register")
    /\ unchanged_lists /\ UNCHANGED <<callback, registered, drain>>

\* Mutant: it waits until the client is active.
WakeStartActive(c) ==
    /\ pc[c] = "wait"
    /\ state[Home[c]] = "ACTIVE"
    /\ Goto(c, "register")
    /\ unchanged_lists /\ unchanged_cluster /\ UNCHANGED state

\* wait_for_state_change of a connection that found the client activating.
WakeStart(c) ==
    LET s == Home[c] IN
    /\ pc[c] = "wait"
    /\ state[s] # "ACTIVATING"
    /\ Goto(c, IF state[s] = "ACTIVE" THEN "register" ELSE "closed")
    /\ unchanged_lists /\ unchanged_cluster /\ UNCHANGED state

\* The callback register_connection_and_drain_other_servers is entered: it
\* sends DRAIN to all the others.
DrainOthers(c) ==
    /\ pc[c] = "activate"
    /\ Home[c] \in callback
    /\ Goto(c, "drain_others")
    /\ drain' = [drain EXCEPT ![c] = [t \in Servers |->
                   IF t \in Peers(c) THEN "sent" ELSE "none"]]
    /\ unchanged_lists /\ UNCHANGED <<state, known, callback, registered>>

\* callback_default_drain_other_servers, before the callbacks are set.
DrainDefault(c) ==
    /\ pc[c] = "activate"
    /\ Home[c] \notin callback
    /\ Goto(c, "failed")
    /\ unchanged_lists /\ unchanged_cluster /\ UNCHANGED state

\* Mutant: the drain succeeds once no server has failed it so far.
OthersDrainedHasty(c) ==
    /\ pc[c] = "drain_others"
    /\ \A t \in Peers(c) : drain[c][t] # "failure"
    /\ Goto(c, "activated")
    /\ registered' = registered \cup {c}
    /\ unchanged_lists /\ UNCHANGED <<state, known, callback, drain>>

\* The answers to c are of no use any more.
ForgetAnswers(c) ==
    drain' = [drain EXCEPT ![c] = [t \in Servers |->
                IF @[t] \in {"success", "failure"} THEN "none" ELSE @[t]]]

\* It returns success when all have: the connection is then registered.
OthersDrained(c) ==
    /\ pc[c] = "drain_others"
    /\ \A t \in Peers(c) : drain[c][t] = "success"
    /\ Goto(c, "activated")
    /\ registered' = registered \cup {c}
    /\ ForgetAnswers(c)
    /\ unchanged_lists /\ UNCHANGED <<state, known, callback>>

\* It fails because a server did, or because of its timeout, at any time.
OthersNotDrained(c) ==
    /\ pc[c] = "drain_others"
    /\ Goto(c, "failed")
    /\ ForgetAnswers(c)
    /\ unchanged_lists /\ UNCHANGED <<state, known, callback, registered>>

\* The end of try_activate_client and of connection_started after it.
Activate(c) ==
    /\ pc[c] = "activated"
    /\ ChangeState(Home[c], "ACTIVE")
    /\ connections' = [connections EXCEPT ![Home[c]] = @ \cup {c}]
    /\ Goto(c, "open")
    /\ unchanged_cluster /\ UNCHANGED destroyed

FailActivation(c) ==
    /\ pc[c] = "failed"
    /\ ChangeState(Home[c], "DRAINED")
    /\ Goto(c, "closed")
    /\ unchanged_lists /\ unchanged_cluster

\* The callback register_connection; the default one refuses.
Register(c) ==
    /\ pc[c] = "register"
    /\ \/ /\ Home[c] \in callback
          /\ Goto(c, "registered")
          /\ registered' = registered \cup {c}
       \/ Goto(c, "refused") /\ UNCHANGED registered
    /\ unchanged_lists /\ UNCHANGED <<state, known, callback, drain>>

\* The callback deregister_connection; the default one does nothing.
Deregister(c) ==
    registered' = IF Home[c] \in callback THEN registered \ {c}
                                          ELSE registered

\* Mutant: what other threads did while it was registered is not looked at.
LetInBlind(c) ==
    /\ pc[c] = "registered"
    /\ connections' = [connections EXCEPT ![Home[c]] = @ \cup {c}]
    /\ Goto(c, "open")
    /\ unchanged_cluster /\ UNCHANGED <<state, destroyed>>

\* The end of register_new_client_connection and of connection_started.
LetIn(c) ==
    /\ pc[c] = "registered"
    /\ state[Home[c]] = "ACTIVE"
    /\ connections' = [connections EXCEPT ![Home[c]] = @ \cup {c}]
    /\ Goto(c, "open")
    /\ unchanged_cluster /\ UNCHANGED <<state, destroyed>>

\* Mutant: the registration is not taken back.
TurnAwayRegistered(c) ==
    /\ \/ pc[c] = "refused"
       \/ pc[c] = "registered" /\ state[Home[c]] # "ACTIVE"
    /\ Goto(c, "closed")
    /\ unchanged_lists /\ unchanged_cluster /\ UNCHANGED state

\* The same for a connection that was refused, or that was registered while
\* the client was drained here.
TurnAway(c) ==
    /\ \/ pc[c] = "refused" /\ UNCHANGED registered
       \/ /\ pc[c] = "registered" /\ state[Home[c]] # "ACTIVE"
          /\ Deregister(c)
    /\ Goto(c, "closed")
    /\ unchanged_lists /\ UNCHANGED <<state, known, callback, drain>>
-----------------------------------------------------------------------------
(* connection_finished: the transport is destroyed, by its peer or by      *)
(* SVC_DESTROY, and no request holds it any more.                          *)

\* The first part of connection_finished, before it takes the mutex.
Close(c) ==
    /\ pc[c] = "open"
    /\ Deregister(c)
    /\ Goto(c, "finishing")
    /\ unchanged_lists /\ UNCHANGED <<state, known, callback, drain>>

\* The connection leaves the list; its is_destroyed is freed with it.
Finish(c) ==
    LET s == Home[c] IN
    /\ pc[c] = "finishing"
    /\ connections' = [connections EXCEPT ![s] = @ \ {c}]
    /\ destroyed' = destroyed \ {c}
    /\ Goto(c, "closed")
    /\ unchanged_cluster /\ UNCHANGED state
-----------------------------------------------------------------------------
(* connection_manager__drain_and_disconnect_local at server t, for a DRAIN *)
(* request that the thread of connection c has sent.                       *)

\* The answer a to a DRAIN request, if there is still somebody to get it.
Answer(c, t, a) ==
    drain' = [drain EXCEPT ![c][t] = IF pc[c] = "drain_others" \/ a \in Running
                                     THEN a ELSE "none"]
Result(s) == IF s = "DRAINED" THEN "success" ELSE "failure"

unchanged_server == UNCHANGED <<known, callback, registered, pc, connections>>

\* The lookup of the client and the switch.  A client that t does not know
\* has no connections, like one that is drained.
DrainLocal(c, t) ==
    /\ drain[c][t] = "sent"
    /\ state[t] # "ACTIVE"
    /\ Answer(c, t, IF state[t] = "DRAINING" THEN "watching"
                                             ELSE Result(state[t]))
    /\ unchanged_server /\ UNCHANGED <<state, destroyed>>

\* try_drain_self, up to its first wait: every connection is told to close.
TryDrainSelf(c, t) ==
    /\ drain[c][t] = "sent"
    /\ state[t] = "ACTIVE" /\ connections[t] # {}
    /\ ChangeState(t, "DRAINING")
    /\ destroyed' = destroyed \cup connections[t]
    /\ Answer(c, t, "draining")
    /\ unchanged_server

\* try_drain_self when there is nothing to close.
DrainIdle(c, t) ==
    /\ drain[c][t] = "sent"
    /\ state[t] = "ACTIVE" /\ connections[t] = {}
    /\ ChangeState(t, "DRAINED")
    /\ Answer(c, t, "success")
    /\ unchanged_server /\ UNCHANGED destroyed

\* Mutant: a drain that times out does not go back to ACTIVE.
EndDrainTimedOut(c, t) ==
    LET new == IF state[t] # "DRAINING" \/ connections[t] # {} THEN state[t]
               ELSE "DRAINED" IN
    /\ ChangeState(t, new)
    /\ Answer(c, t, Result(new))
    /\ unchanged_server /\ UNCHANGED destroyed

\* The end of try_drain_self.  Only a state that is DRAINING is changed; it
\* may be the work of another drain, begun after this one was aborted.
EndDrain(c, t) ==
    LET new == IF state[t] # "DRAINING" THEN state[t]
               ELSE IF connections[t] = {} THEN "DRAINED" ELSE "ACTIVE" IN
    /\ ChangeState(t, new)
    /\ Answer(c, t, Result(new))
    /\ unchanged_server /\ UNCHANGED destroyed

\* condition_timedwait returns, and there is nothing left to wait for ...
DrainWoken(c, t) ==
    /\ drain[c][t] = "draining"
    /\ connections[t] = {} \/ state[t] # "DRAINING"
    /\ EndDrain(c, t)

\* ... or it has waited for connection_manager_timeout_sec.
DrainTimeout(c, t) ==
    /\ drain[c][t] = "draining"
    /\ connections[t] # {} /\ state[t] = "DRAINING"
    /\ EndDrain(c, t)

\* wait_for_state_change of a request that found a drain in progress.
WatchEnd(c, t) ==
    /\ drain[c][t] = "watching"
    /\ state[t] # "DRAINING"
    /\ Answer(c, t, Result(state[t]))
    /\ unchanged_server /\ UNCHANGED <<state, destroyed>>
-----------------------------------------------------------------------------
(* The rest of the server.                                                 *)

\* callback_lock is held for reading throughout a callback.
CallbackBusy(s) == \E c \in Conns : Home[c] = s /\ pc[c] = "drain_others"

CallbackSet(s) ==
    /\ s \notin callback
    /\ ~CallbackBusy(s)
    /\ callback' = callback \cup {s}
    /\ unchanged_lists /\ UNCHANGED <<state, known, registered, pc, drain>>

CallbackClear(s) ==
    /\ s \in callback \cap Reconfigured
    /\ ~CallbackBusy(s)
    /\ callback' = callback \ {s}
    /\ unchanged_lists /\ UNCHANGED <<state, known, registered, pc, drain>>

\* Nobody has a reference (gsh_client.refcnt) to the client at s.
Unreferenced(s) ==
    /\ \A c \in Conns : Home[c] = s => pc[c] \in {"new", "closed"}
    /\ \A c \in Conns : drain[c][s] \notin Running

\* remove_gsh_client; a client that comes back gets a new entry.
RemoveClient(s) ==
    /\ s \in known
    /\ Unreferenced(s)
    /\ known' = known \ {s}
    /\ ChangeState(s, "DRAINED")
    /\ unchanged_lists /\ UNCHANGED <<callback, registered, pc, drain>>
-----------------------------------------------------------------------------
Start(c) == StartDrained(c) \/ StartActivating(c) \/ StartActive(c)
StartStep(c) == WakeStart(c) \/ DrainOthers(c) \/ DrainDefault(c)
                \/ OthersDrained(c) \/ OthersNotDrained(c) \/ Activate(c)
                \/ FailActivation(c) \/ Register(c) \/ LetIn(c) \/ TurnAway(c)
DrainStep(c, t) == DrainWoken(c, t) \/ DrainTimeout(c, t) \/ WatchEnd(c, t)

Next ==
    \/ \E c \in Conns : Start(c) \/ StartStep(c) \/ Close(c) \/ Finish(c)
    \/ \E c \in Conns, t \in Servers :
         DrainLocal(c, t) \/ TryDrainSelf(c, t) \/ DrainIdle(c, t)
         \/ DrainStep(c, t)
    \/ \E s \in Servers : CallbackSet(s) \/ CallbackClear(s) \/ RemoveClient(s)

Spec == Init /\ [][Next]_vars

\* A thread that can run does, and timeouts elapse.  DRAIN requests may get
\* lost, and a connection may stay open, or closing, for ever.
FairSpec ==
    /\ Spec
    /\ \A c \in Conns : WF_vars(StartStep(c)) /\ WF_vars(Finish(c))
    /\ \A c \in Conns, t \in Servers : WF_vars(DrainStep(c, t))
-----------------------------------------------------------------------------
TypeOK ==
    /\ state \in [Servers -> States]
    /\ connections \in [Servers -> SUBSET Conns]
    /\ destroyed \subseteq UNION {connections[s] : s \in Servers}
    /\ known \subseteq Servers
    /\ callback \subseteq Servers
    /\ registered \subseteq Conns
    /\ pc \in [Conns -> Labels]
    /\ drain \in [Conns -> [Servers -> DrainLabels]]

Activating(c) == pc[c] \in {"activate", "drain_others", "activated", "failed"}

\* try_activate_client drops the mutex and expects the state to be the same
\* when it comes back ("no other thread can change the state while
\* ACTIVATING").  One thread activates a client, and only in that state.
OneActivates ==
    \A s \in Servers :
        /\ state[s] = "ACTIVATING" <=>
             \E c \in Conns : Home[c] = s /\ Activating(c)
        /\ \A c, d \in Conns :
             /\ Home[c] = s /\ Activating(c)
             /\ Home[d] = s /\ Activating(d)
             => c = d

\* While a drain is in progress, every connection it waits for has been told
\* to close: a connection that is let in meanwhile aborts the drain
\* (try_drain_self, register_new_client_connection).
DrainsTheDestroyed ==
    \A s \in Servers :
        state[s] = "DRAINING" => connections[s] \subseteq destroyed

\* The registrations in the cluster are those of the connections that are let
\* in, or about to be: every abandoned one is taken back.  This is not so at
\* a server whose callbacks have been cleared meanwhile.
RegistrationsMatch ==
    \A c \in Conns : Home[c] \notin Reconfigured =>
        (c \in registered <=> pc[c] \in {"activated", "registered", "open"})

\* The server that has activated the client and has not been drained since.
Serving == {s \in Servers : state[s] \in {"ACTIVE", "DRAINING"}}
Owner == IF Serving = {} THEN NoServer ELSE CHOOSE s \in Serving : TRUE

SS == INSTANCE SingleServer WITH
        owner <- Owner, open <- UNION {connections[s] : s \in Servers}

\* The client's requests are executed by one server at a time, and another
\* takes over only when all its connections are gone.
ServedOnce == SS!Spec

\* Every new connection is let in or dropped, whatever the others do, and every
\* DRAIN request that is being processed ends, although the wait for a state
\* other than DRAINING has no timeout.
WaitsEnd ==
    \A c \in Conns :
        /\ pc[c] \in StartLabels ~> pc[c] \notin StartLabels
        /\ \A t \in Peers(c) : drain[c][t] \in Running ~> drain[c][t] \notin Running

\* An entry is never removed in the middle of an activation or a drain.
\* connection_manager__client_fini asserts more, that the client is DRAINED; it
\* may be ACTIVE too, because the last connection to close leaves it so.
RemovedSettled ==
    \A s \in known : Unreferenced(s) => state[s] \in {"DRAINED", "ACTIVE"}
=============================================================================
