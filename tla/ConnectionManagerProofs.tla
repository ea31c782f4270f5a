----------------------- MODULE ConnectionManagerProofs -----------------------
(***************************************************************************)
(* Proofs about ConnectionManager, for any number of servers and           *)
(* connections.                                                            *)
(*                                                                         *)
(* That one server serves the client at a time is not inductive.  What is  *)
(* needed is what an answer to a DRAIN request is worth: from the moment t *)
(* has said that it is drained until the activation of s ends, t does not  *)
(* serve the client (Granted), because it would have to activate it, and s *)
(* refuses to be drained while it is activating.  So two activations never *)
(* have each other's consent.                                              *)
(***************************************************************************)
EXTENDS ConnectionManager, TLAPS

Types ==
    /\ state \in [Servers -> States]
    /\ connections \in [Servers -> SUBSET Conns]
    /\ destroyed \subseteq Conns
    /\ known \subseteq Servers
    /\ callback \subseteq Servers
    /\ registered \subseteq Conns
    /\ pc \in [Conns -> Labels]
    /\ drain \in [Conns -> [Servers -> DrainLabels]]

\* The list of a server has the connections that were let in there, and is
\* empty unless the server serves the client.
Lists ==
    /\ \A s \in Servers : \A c \in Conns :
         c \in connections[s] <=> Home[c] = s /\ pc[c] \in {"open", "finishing"}
    /\ \A c \in destroyed : pc[c] \in {"open", "finishing"}
    /\ \A s \in Servers : connections[s] # {} => s \in Serving

\* A callback that has let a connection in is still set.
Callbacks ==
    \A c \in Conns :
        /\ Home[c] \notin Reconfigured
        /\ pc[c] \in {"drain_others", "activated", "registered", "open"}
        => Home[c] \in callback

\* Server t has agreed to be drained for the activation by connection c.
Won(c, t) == drain[c][t] = "success" \/ pc[c] = "activated"

Answers ==
    \A c \in Conns, t \in Servers :
        drain[c][t] = "success" => pc[c] = "drain_others"

Granted ==
    \A c \in Conns : \A t \in Peers(c) : Won(c, t) =>
        /\ t \notin Serving
        /\ \A d \in Conns : Home[d] = t => ~Won(d, Home[c])

Exclusive == \A s, t \in Serving : s = t

IInv == /\ Types /\ Lists /\ Callbacks /\ Answers /\ OneActivates
        /\ DrainsTheDestroyed /\ RegistrationsMatch /\ Granted /\ Exclusive
-----------------------------------------------------------------------------
(* One lemma per action, with a step per conjunct of the invariant.        *)

\* A connection that activates the client is the only one to do so.
LEMMA StartDrainedPreserves ==
    ASSUME NEW c \in Conns, IInv, StartDrained(c)
    PROVE  IInv'
<1> USE ConnsAssumption
<1>1. Types'
  BY IInv
     DEF IInv, Types, StartDrained, Arrive, Goto, ChangeState,
        unchanged_lists, States, Labels, StartLabels, DrainLabels
<1>2. Lists'
  BY <1>1
     DEF IInv, Lists, Types, OneActivates, StartDrained, Arrive, Goto,
        ChangeState, unchanged_lists, Serving, Activating
<1>3. Callbacks'
  BY <1>1
     DEF IInv, Callbacks, Types, StartDrained, Arrive, Goto, ChangeState,
        unchanged_lists
<1>4. Answers'
  BY <1>1
     DEF IInv, Answers, Types, StartDrained, Arrive, Goto, ChangeState,
        unchanged_lists
<1>5. OneActivates'
  BY <1>1
     DEF IInv, OneActivates, Types, StartDrained, Arrive, Goto, ChangeState,
        unchanged_lists, Activating
<1>6. DrainsTheDestroyed'
  BY <1>1
     DEF IInv, DrainsTheDestroyed, Types, Lists, StartDrained, Arrive, Goto,
        ChangeState, unchanged_lists
<1>7. RegistrationsMatch'
  BY <1>1
     DEF IInv, RegistrationsMatch, Types, Callbacks, StartDrained, Arrive,
        Goto, ChangeState, unchanged_lists
<1>8. Granted'
  BY <1>1
     DEF IInv, Granted, Types, Answers, OneActivates, StartDrained, Arrive,
        Goto, ChangeState, unchanged_lists, Won, Serving, Peers, Activating
<1>9. Exclusive'
  BY <1>1
     DEF IInv, Exclusive, Types, Lists, OneActivates, Granted, StartDrained,
        Arrive, Goto, ChangeState, unchanged_lists, Won, Serving, Peers,
        Activating
<1> QED
  BY <1>1, <1>2, <1>3, <1>4, <1>5, <1>6, <1>7, <1>8, <1>9 DEF IInv

\* A connection that waits for another's activation.
LEMMA StartActivatingPreserves ==
    ASSUME NEW c \in Conns, IInv, StartActivating(c)
    PROVE  IInv'
<1> USE ConnsAssumption
<1>1. Types'
  BY IInv
     DEF IInv, Types, StartActivating, Arrive, Goto, unchanged_lists, States,
        Labels, StartLabels, DrainLabels
<1>2. Lists'
  BY <1>1
     DEF IInv, Lists, Types, OneActivates, StartActivating, Arrive, Goto,
        unchanged_lists, Serving, Activating
<1>3. Callbacks'
  BY <1>1
     DEF IInv, Callbacks, Types, StartActivating, Arrive, Goto,
        unchanged_lists
<1>4. Answers'
  BY <1>1
     DEF IInv, Answers, Types, StartActivating, Arrive, Goto, unchanged_lists
<1>5. OneActivates'
  BY <1>1
     DEF IInv, OneActivates, Types, StartActivating, Arrive, Goto,
        unchanged_lists, Activating
<1>6. DrainsTheDestroyed'
  BY <1>1
     DEF IInv, DrainsTheDestroyed, Types, Lists, StartActivating, Arrive,
        Goto, unchanged_lists
<1>7. RegistrationsMatch'
  BY <1>1
     DEF IInv, RegistrationsMatch, Types, Callbacks, StartActivating, Arrive,
        Goto, unchanged_lists
<1>8. Granted'
  BY <1>1
     DEF IInv, Granted, Types, Answers, OneActivates, StartActivating, Arrive,
        Goto, unchanged_lists, Won, Serving, Peers, Activating
<1>9. Exclusive'
  BY <1>1
     DEF IInv, Exclusive, Types, Lists, OneActivates, Granted,
        StartActivating, Arrive, Goto, unchanged_lists, Won, Serving, Peers,
        Activating
<1> QED
  BY <1>1, <1>2, <1>3, <1>4, <1>5, <1>6, <1>7, <1>8, <1>9 DEF IInv

\* A connection that aborts a drain, or finds the client active.
LEMMA StartActivePreserves ==
    ASSUME NEW c \in Conns, IInv, StartActive(c)
    PROVE  IInv'
<1> USE ConnsAssumption
<1>1. Types'
  BY IInv
     DEF IInv, Types, StartActive, Arrive, Goto, ChangeState, unchanged_lists,
        States, Labels, StartLabels, DrainLabels
<1>2. Lists'
  BY <1>1
     DEF IInv, Lists, Types, OneActivates, StartActive, Arrive, Goto,
        ChangeState, unchanged_lists, Serving, Activating
<1>3. Callbacks'
  BY <1>1
     DEF IInv, Callbacks, Types, StartActive, Arrive, Goto, ChangeState,
        unchanged_lists
<1>4. Answers'
  BY <1>1
     DEF IInv, Answers, Types, StartActive, Arrive, Goto, ChangeState,
        unchanged_lists
<1>5. OneActivates'
  BY <1>1
     DEF IInv, OneActivates, Types, StartActive, Arrive, Goto, ChangeState,
        unchanged_lists, Activating
<1>6. DrainsTheDestroyed'
  BY <1>1
     DEF IInv, DrainsTheDestroyed, Types, Lists, StartActive, Arrive, Goto,
        ChangeState, unchanged_lists
<1>7. RegistrationsMatch'
  BY <1>1
     DEF IInv, RegistrationsMatch, Types, Callbacks, StartActive, Arrive,
        Goto, ChangeState, unchanged_lists
<1>8. Granted'
  BY <1>1
     DEF IInv, Granted, Types, Answers, OneActivates, StartActive, Arrive,
        Goto, ChangeState, unchanged_lists, Won, Serving, Peers, Activating
<1>9. Exclusive'
  BY <1>1
     DEF IInv, Exclusive, Types, Lists, OneActivates, Granted, StartActive,
        Arrive, Goto, ChangeState, unchanged_lists, Won, Serving, Peers,
        Activating
<1> QED
  BY <1>1, <1>2, <1>3, <1>4, <1>5, <1>6, <1>7, <1>8, <1>9 DEF IInv

\* A connection that has waited for an activation.
LEMMA WakeStartPreserves ==
    ASSUME NEW c \in Conns, IInv, WakeStart(c)
    PROVE  IInv'
<1> USE ConnsAssumption
<1>1. Types'
  BY IInv
     DEF IInv, Types, WakeStart, Goto, unchanged_lists, unchanged_cluster,
        States, Labels, StartLabels, DrainLabels
<1>2. Lists'
  BY <1>1
     DEF IInv, Lists, Types, OneActivates, WakeStart, Goto, unchanged_lists,
        unchanged_cluster, Serving, Activating
<1>3. Callbacks'
  BY <1>1
     DEF IInv, Callbacks, Types, WakeStart, Goto, unchanged_lists,
        unchanged_cluster
<1>4. Answers'
  BY <1>1
     DEF IInv, Answers, Types, WakeStart, Goto, unchanged_lists,
        unchanged_cluster
<1>5. OneActivates'
  BY <1>1
     DEF IInv, OneActivates, Types, WakeStart, Goto, unchanged_lists,
        unchanged_cluster, Activating
<1>6. DrainsTheDestroyed'
  BY <1>1
     DEF IInv, DrainsTheDestroyed, Types, Lists, WakeStart, Goto,
        unchanged_lists, unchanged_cluster
<1>7. RegistrationsMatch'
  BY <1>1
     DEF IInv, RegistrationsMatch, Types, Callbacks, WakeStart, Goto,
        unchanged_lists, unchanged_cluster
<1>8. Granted'
  BY <1>1
     DEF IInv, Granted, Types, Answers, OneActivates, WakeStart, Goto,
        unchanged_lists, unchanged_cluster, Won, Serving, Peers, Activating
<1>9. Exclusive'
  BY <1>1
     DEF IInv, Exclusive, Types, Lists, OneActivates, Granted, WakeStart,
        Goto, unchanged_lists, unchanged_cluster, Won, Serving, Peers,
        Activating
<1> QED
  BY <1>1, <1>2, <1>3, <1>4, <1>5, <1>6, <1>7, <1>8, <1>9 DEF IInv

\* DRAIN requests are sent; nobody has answered yet.
LEMMA DrainOthersPreserves ==
    ASSUME NEW c \in Conns, IInv, DrainOthers(c)
    PROVE  IInv'
<1> USE ConnsAssumption
<1>1. Types'
  BY IInv
     DEF IInv, Types, DrainOthers, Goto, unchanged_lists, Peers, States,
        Labels, StartLabels, DrainLabels
<1>2. Lists'
  BY <1>1
     DEF IInv, Lists, Types, OneActivates, DrainOthers, Goto, unchanged_lists,
        Peers, Serving, Activating
<1>3. Callbacks'
  BY <1>1
     DEF IInv, Callbacks, Types, DrainOthers, Goto, unchanged_lists, Peers
<1>4. Answers'
  BY <1>1 DEF IInv, Answers, Types, DrainOthers, Goto, unchanged_lists, Peers
<1>5. OneActivates'
  BY <1>1
     DEF IInv, OneActivates, Types, DrainOthers, Goto, unchanged_lists, Peers,
        Activating
<1>6. DrainsTheDestroyed'
  BY <1>1
     DEF IInv, DrainsTheDestroyed, Types, Lists, DrainOthers, Goto,
        unchanged_lists, Peers
<1>7. RegistrationsMatch'
  BY <1>1
     DEF IInv, RegistrationsMatch, Types, Callbacks, DrainOthers, Goto,
        unchanged_lists, Peers
<1>8. Granted'
  BY <1>1
     DEF IInv, Granted, Types, Answers, OneActivates, DrainOthers, Goto,
        unchanged_lists, Peers, Won, Serving, Activating
<1>9. Exclusive'
  BY <1>1
     DEF IInv, Exclusive, Types, Lists, OneActivates, Granted, DrainOthers,
        Goto, unchanged_lists, Peers, Won, Serving, Activating
<1> QED
  BY <1>1, <1>2, <1>3, <1>4, <1>5, <1>6, <1>7, <1>8, <1>9 DEF IInv

\* The callbacks are not set: the activation fails.
LEMMA DrainDefaultPreserves ==
    ASSUME NEW c \in Conns, IInv, DrainDefault(c)
    PROVE  IInv'
<1> USE ConnsAssumption
<1>1. Types'
  BY IInv
     DEF IInv, Types, DrainDefault, Goto, unchanged_lists, unchanged_cluster,
        States, Labels, StartLabels, DrainLabels
<1>2. Lists'
  BY <1>1
     DEF IInv, Lists, Types, OneActivates, DrainDefault, Goto,
        unchanged_lists, unchanged_cluster, Serving, Activating
<1>3. Callbacks'
  BY <1>1
     DEF IInv, Callbacks, Types, DrainDefault, Goto, unchanged_lists,
        unchanged_cluster
<1>4. Answers'
  BY <1>1
     DEF IInv, Answers, Types, DrainDefault, Goto, unchanged_lists,
        unchanged_cluster
<1>5. OneActivates'
  BY <1>1
     DEF IInv, OneActivates, Types, DrainDefault, Goto, unchanged_lists,
        unchanged_cluster, Activating
<1>6. DrainsTheDestroyed'
  BY <1>1
     DEF IInv, DrainsTheDestroyed, Types, Lists, DrainDefault, Goto,
        unchanged_lists, unchanged_cluster
<1>7. RegistrationsMatch'
  BY <1>1
     DEF IInv, RegistrationsMatch, Types, Callbacks, DrainDefault, Goto,
        unchanged_lists, unchanged_cluster
<1>8. Granted'
  BY <1>1
     DEF IInv, Granted, Types, Answers, OneActivates, DrainDefault, Goto,
        unchanged_lists, unchanged_cluster, Won, Serving, Peers, Activating
<1>9. Exclusive'
  BY <1>1
     DEF IInv, Exclusive, Types, Lists, OneActivates, Granted, DrainDefault,
        Goto, unchanged_lists, unchanged_cluster, Won, Serving, Peers,
        Activating
<1> QED
  BY <1>1, <1>2, <1>3, <1>4, <1>5, <1>6, <1>7, <1>8, <1>9 DEF IInv

\* All the others have answered, so all have granted the activation.
LEMMA OthersDrainedPreserves ==
    ASSUME NEW c \in Conns, IInv, OthersDrained(c)
    PROVE  IInv'
<1> USE ConnsAssumption
<1>1. Types'
  BY IInv
     DEF IInv, Types, OthersDrained, Goto, unchanged_lists, ForgetAnswers,
        Peers, States, Labels, StartLabels, DrainLabels
<1>2. Lists'
  BY <1>1
     DEF IInv, Lists, Types, OneActivates, OthersDrained, Goto,
        unchanged_lists, ForgetAnswers, Peers, Serving, Activating
<1>3. Callbacks'
  BY <1>1
     DEF IInv, Callbacks, Types, OthersDrained, Goto, unchanged_lists,
        ForgetAnswers, Peers
<1>4. Answers'
  BY <1>1
     DEF IInv, Answers, Types, OthersDrained, Goto, unchanged_lists,
        ForgetAnswers, Peers
<1>5. OneActivates'
  BY <1>1
     DEF IInv, OneActivates, Types, OthersDrained, Goto, unchanged_lists,
        ForgetAnswers, Peers, Activating
<1>6. DrainsTheDestroyed'
  BY <1>1
     DEF IInv, DrainsTheDestroyed, Types, Lists, OthersDrained, Goto,
        unchanged_lists, ForgetAnswers, Peers
<1>7. RegistrationsMatch'
  BY <1>1
     DEF IInv, RegistrationsMatch, Types, Callbacks, OthersDrained, Goto,
        unchanged_lists, ForgetAnswers, Peers
<1>8. Granted'
  BY <1>1
     DEF IInv, Granted, Types, Answers, OneActivates, OthersDrained, Goto,
        unchanged_lists, ForgetAnswers, Peers, Won, Serving, Activating
<1>9. Exclusive'
  BY <1>1
     DEF IInv, Exclusive, Types, Lists, OneActivates, Granted, OthersDrained,
        Goto, unchanged_lists, ForgetAnswers, Peers, Won, Serving, Activating
<1> QED
  BY <1>1, <1>2, <1>3, <1>4, <1>5, <1>6, <1>7, <1>8, <1>9 DEF IInv

\* The activation fails, and its grants are void.
LEMMA OthersNotDrainedPreserves ==
    ASSUME NEW c \in Conns, IInv, OthersNotDrained(c)
    PROVE  IInv'
<1> USE ConnsAssumption
<1>1. Types'
  BY IInv
     DEF IInv, Types, OthersNotDrained, Goto, unchanged_lists, ForgetAnswers,
        States, Labels, StartLabels, DrainLabels
<1>2. Lists'
  BY <1>1
     DEF IInv, Lists, Types, OneActivates, OthersNotDrained, Goto,
        unchanged_lists, ForgetAnswers, Serving, Activating
<1>3. Callbacks'
  BY <1>1
     DEF IInv, Callbacks, Types, OthersNotDrained, Goto, unchanged_lists,
        ForgetAnswers
<1>4. Answers'
  BY <1>1
     DEF IInv, Answers, Types, OthersNotDrained, Goto, unchanged_lists,
        ForgetAnswers
<1>5. OneActivates'
  BY <1>1
     DEF IInv, OneActivates, Types, OthersNotDrained, Goto, unchanged_lists,
        ForgetAnswers, Activating
<1>6. DrainsTheDestroyed'
  BY <1>1
     DEF IInv, DrainsTheDestroyed, Types, Lists, OthersNotDrained, Goto,
        unchanged_lists, ForgetAnswers
<1>7. RegistrationsMatch'
  BY <1>1
     DEF IInv, RegistrationsMatch, Types, Callbacks, OthersNotDrained, Goto,
        unchanged_lists, ForgetAnswers
<1>8. Granted'
  BY <1>1
     DEF IInv, Granted, Types, Answers, OneActivates, OthersNotDrained, Goto,
        unchanged_lists, ForgetAnswers, Won, Serving, Peers, Activating
<1>9. Exclusive'
  BY <1>1
     DEF IInv, Exclusive, Types, Lists, OneActivates, Granted,
        OthersNotDrained, Goto, unchanged_lists, ForgetAnswers, Won, Serving,
        Peers, Activating
<1> QED
  BY <1>1, <1>2, <1>3, <1>4, <1>5, <1>6, <1>7, <1>8, <1>9 DEF IInv

\* The activation ends: no other server serves the client (Granted).
LEMMA ActivatePreserves ==
    ASSUME NEW c \in Conns, IInv, Activate(c)
    PROVE  IInv'
<1> USE ConnsAssumption
<1>1. Types'
  <2>1. connections' \in [Servers -> SUBSET Conns]
    <3>1. connections[Home[c]] \cup {c} \subseteq Conns
      BY IInv DEF IInv, Types
    <3> QED BY <3>1, IInv DEF IInv, Types, Activate
  <2> QED
    BY <2>1, IInv
       DEF IInv, Types, Activate, Goto, ChangeState, unchanged_cluster,
          States, Labels, StartLabels
<1>2. Lists'
  BY <1>1
     DEF IInv, Lists, Types, OneActivates, Activate, Goto, ChangeState,
        unchanged_cluster, Serving, Activating
<1>3. Callbacks'
  BY <1>1
     DEF IInv, Callbacks, Types, Activate, Goto, ChangeState,
        unchanged_cluster
<1>4. Answers'
  BY <1>1
     DEF IInv, Answers, Types, Activate, Goto, ChangeState, unchanged_cluster
<1>5. OneActivates'
  BY <1>1
     DEF IInv, OneActivates, Types, Activate, Goto, ChangeState,
        unchanged_cluster, Activating
<1>6. DrainsTheDestroyed'
  BY <1>1
     DEF IInv, DrainsTheDestroyed, Types, Lists, Activate, Goto, ChangeState,
        unchanged_cluster
<1>7. RegistrationsMatch'
  BY <1>1
     DEF IInv, RegistrationsMatch, Types, Callbacks, Activate, Goto,
        ChangeState, unchanged_cluster
<1>8. Granted'
  BY <1>1
     DEF IInv, Granted, Types, Answers, OneActivates, Activate, Goto,
        ChangeState, unchanged_cluster, Won, Serving, Peers, Activating
<1>9. Exclusive'
  BY <1>1
     DEF IInv, Exclusive, Types, Lists, OneActivates, Granted, Activate, Goto,
        ChangeState, unchanged_cluster, Won, Serving, Peers, Activating
<1> QED
  BY <1>1, <1>2, <1>3, <1>4, <1>5, <1>6, <1>7, <1>8, <1>9 DEF IInv

\* The activation ends without success.
LEMMA FailActivationPreserves ==
    ASSUME NEW c \in Conns, IInv, FailActivation(c)
    PROVE  IInv'
<1> USE ConnsAssumption
<1>1. Types'
  BY IInv
     DEF IInv, Types, FailActivation, Goto, ChangeState, unchanged_lists,
        unchanged_cluster, States, Labels, StartLabels, DrainLabels
<1>2. Lists'
  BY <1>1
     DEF IInv, Lists, Types, OneActivates, FailActivation, Goto, ChangeState,
        unchanged_lists, unchanged_cluster, Serving, Activating
<1>3. Callbacks'
  BY <1>1
     DEF IInv, Callbacks, Types, FailActivation, Goto, ChangeState,
        unchanged_lists, unchanged_cluster
<1>4. Answers'
  BY <1>1
     DEF IInv, Answers, Types, FailActivation, Goto, ChangeState,
        unchanged_lists, unchanged_cluster
<1>5. OneActivates'
  BY <1>1
     DEF IInv, OneActivates, Types, FailActivation, Goto, ChangeState,
        unchanged_lists, unchanged_cluster, Activating
<1>6. DrainsTheDestroyed'
  BY <1>1
     DEF IInv, DrainsTheDestroyed, Types, Lists, FailActivation, Goto,
        ChangeState, unchanged_lists, unchanged_cluster
<1>7. RegistrationsMatch'
  BY <1>1
     DEF IInv, RegistrationsMatch, Types, Callbacks, FailActivation, Goto,
        ChangeState, unchanged_lists, unchanged_cluster
<1>8. Granted'
  BY <1>1
     DEF IInv, Granted, Types, Answers, OneActivates, FailActivation, Goto,
        ChangeState, unchanged_lists, unchanged_cluster, Won, Serving, Peers,
        Activating
<1>9. Exclusive'
  BY <1>1
     DEF IInv, Exclusive, Types, Lists, OneActivates, Granted, FailActivation,
        Goto, ChangeState, unchanged_lists, unchanged_cluster, Won, Serving,
        Peers, Activating
<1> QED
  BY <1>1, <1>2, <1>3, <1>4, <1>5, <1>6, <1>7, <1>8, <1>9 DEF IInv

\* The registration of a connection to an active client.
LEMMA RegisterPreserves ==
    ASSUME NEW c \in Conns, IInv, Register(c)
    PROVE  IInv'
<1> USE ConnsAssumption
<1>1. Types'
  BY IInv
     DEF IInv, Types, Register, Goto, unchanged_lists, States, Labels,
        StartLabels, DrainLabels
<1>2. Lists'
  BY <1>1
     DEF IInv, Lists, Types, OneActivates, Register, Goto, unchanged_lists,
        Serving, Activating
<1>3. Callbacks'
  BY <1>1 DEF IInv, Callbacks, Types, Register, Goto, unchanged_lists
<1>4. Answers'
  BY <1>1 DEF IInv, Answers, Types, Register, Goto, unchanged_lists
<1>5. OneActivates'
  BY <1>1
     DEF IInv, OneActivates, Types, Register, Goto, unchanged_lists,
        Activating
<1>6. DrainsTheDestroyed'
  BY <1>1
     DEF IInv, DrainsTheDestroyed, Types, Lists, Register, Goto,
        unchanged_lists
<1>7. RegistrationsMatch'
  BY <1>1
     DEF IInv, RegistrationsMatch, Types, Callbacks, Register, Goto,
        unchanged_lists
<1>8. Granted'
  BY <1>1
     DEF IInv, Granted, Types, Answers, OneActivates, Register, Goto,
        unchanged_lists, Won, Serving, Peers, Activating
<1>9. Exclusive'
  BY <1>1
     DEF IInv, Exclusive, Types, Lists, OneActivates, Granted, Register, Goto,
        unchanged_lists, Won, Serving, Peers, Activating
<1> QED
  BY <1>1, <1>2, <1>3, <1>4, <1>5, <1>6, <1>7, <1>8, <1>9 DEF IInv

\* A registered connection is let in if the client is still active.
LEMMA LetInPreserves ==
    ASSUME NEW c \in Conns, IInv, LetIn(c)
    PROVE  IInv'
<1> USE ConnsAssumption
<1>1. Types'
  <2>1. connections' \in [Servers -> SUBSET Conns]
    <3>1. connections[Home[c]] \cup {c} \subseteq Conns
      BY IInv DEF IInv, Types
    <3> QED BY <3>1, IInv DEF IInv, Types, LetIn
  <2> QED
    BY <2>1, IInv
       DEF IInv, Types, LetIn, Goto, unchanged_cluster, States, Labels,
          StartLabels
<1>2. Lists'
  BY <1>1
     DEF IInv, Lists, Types, OneActivates, LetIn, Goto, unchanged_cluster,
        Serving, Activating
<1>3. Callbacks'
  BY <1>1 DEF IInv, Callbacks, Types, LetIn, Goto, unchanged_cluster
<1>4. Answers'
  BY <1>1 DEF IInv, Answers, Types, LetIn, Goto, unchanged_cluster
<1>5. OneActivates'
  BY <1>1
     DEF IInv, OneActivates, Types, LetIn, Goto, unchanged_cluster, Activating
<1>6. DrainsTheDestroyed'
  BY <1>1
     DEF IInv, DrainsTheDestroyed, Types, Lists, LetIn, Goto,
        unchanged_cluster
<1>7. RegistrationsMatch'
  BY <1>1
     DEF IInv, RegistrationsMatch, Types, Callbacks, LetIn, Goto,
        unchanged_cluster
<1>8. Granted'
  BY <1>1
     DEF IInv, Granted, Types, Answers, OneActivates, LetIn, Goto,
        unchanged_cluster, Won, Serving, Peers, Activating
<1>9. Exclusive'
  BY <1>1
     DEF IInv, Exclusive, Types, Lists, OneActivates, Granted, LetIn, Goto,
        unchanged_cluster, Won, Serving, Peers, Activating
<1> QED
  BY <1>1, <1>2, <1>3, <1>4, <1>5, <1>6, <1>7, <1>8, <1>9 DEF IInv

\* A connection is dropped and its registration taken back.
LEMMA TurnAwayPreserves ==
    ASSUME NEW c \in Conns, IInv, TurnAway(c)
    PROVE  IInv'
<1> USE ConnsAssumption
<1>1. Types'
  BY IInv
     DEF IInv, Types, TurnAway, Goto, unchanged_lists, Deregister, States,
        Labels, StartLabels, DrainLabels
<1>2. Lists'
  BY <1>1
     DEF IInv, Lists, Types, OneActivates, TurnAway, Goto, unchanged_lists,
        Deregister, Serving, Activating
<1>3. Callbacks'
  BY <1>1
     DEF IInv, Callbacks, Types, TurnAway, Goto, unchanged_lists, Deregister
<1>4. Answers'
  BY <1>1
     DEF IInv, Answers, Types, TurnAway, Goto, unchanged_lists, Deregister
<1>5. OneActivates'
  BY <1>1
     DEF IInv, OneActivates, Types, TurnAway, Goto, unchanged_lists,
        Deregister, Activating
<1>6. DrainsTheDestroyed'
  BY <1>1
     DEF IInv, DrainsTheDestroyed, Types, Lists, TurnAway, Goto,
        unchanged_lists, Deregister
<1>7. RegistrationsMatch'
  BY <1>1
     DEF IInv, RegistrationsMatch, Types, Callbacks, TurnAway, Goto,
        unchanged_lists, Deregister
<1>8. Granted'
  BY <1>1
     DEF IInv, Granted, Types, Answers, OneActivates, TurnAway, Goto,
        unchanged_lists, Deregister, Won, Serving, Peers, Activating
<1>9. Exclusive'
  BY <1>1
     DEF IInv, Exclusive, Types, Lists, OneActivates, Granted, TurnAway, Goto,
        unchanged_lists, Deregister, Won, Serving, Peers, Activating
<1> QED
  BY <1>1, <1>2, <1>3, <1>4, <1>5, <1>6, <1>7, <1>8, <1>9 DEF IInv

\* The registration of a connection that ends is taken back.
LEMMA ClosePreserves ==
    ASSUME NEW c \in Conns, IInv, Close(c)
    PROVE  IInv'
<1> USE ConnsAssumption
<1>1. Types'
  BY IInv
     DEF IInv, Types, Close, Goto, unchanged_lists, Deregister, States,
        Labels, StartLabels, DrainLabels
<1>2. Lists'
  BY <1>1
     DEF IInv, Lists, Types, OneActivates, Close, Goto, unchanged_lists,
        Deregister, Serving, Activating
<1>3. Callbacks'
  BY <1>1 DEF IInv, Callbacks, Types, Close, Goto, unchanged_lists, Deregister
<1>4. Answers'
  BY <1>1 DEF IInv, Answers, Types, Close, Goto, unchanged_lists, Deregister
<1>5. OneActivates'
  BY <1>1
     DEF IInv, OneActivates, Types, Close, Goto, unchanged_lists, Deregister,
        Activating
<1>6. DrainsTheDestroyed'
  BY <1>1
     DEF IInv, DrainsTheDestroyed, Types, Lists, Close, Goto, unchanged_lists,
        Deregister
<1>7. RegistrationsMatch'
  BY <1>1
     DEF IInv, RegistrationsMatch, Types, Callbacks, Close, Goto,
        unchanged_lists, Deregister
<1>8. Granted'
  BY <1>1
     DEF IInv, Granted, Types, Answers, OneActivates, Close, Goto,
        unchanged_lists, Deregister, Won, Serving, Peers, Activating
<1>9. Exclusive'
  BY <1>1
     DEF IInv, Exclusive, Types, Lists, OneActivates, Granted, Close, Goto,
        unchanged_lists, Deregister, Won, Serving, Peers, Activating
<1> QED
  BY <1>1, <1>2, <1>3, <1>4, <1>5, <1>6, <1>7, <1>8, <1>9 DEF IInv

\* A connection leaves its list.
LEMMA FinishPreserves ==
    ASSUME NEW c \in Conns, IInv, Finish(c)
    PROVE  IInv'
<1> USE ConnsAssumption
<1>1. Types'
  <2>1. connections' \in [Servers -> SUBSET Conns]
    <3>1. connections[Home[c]] \ {c} \subseteq Conns
      BY IInv DEF IInv, Types
    <3> QED BY <3>1, IInv DEF IInv, Types, Finish
  <2> QED
    BY <2>1, IInv
       DEF IInv, Types, Finish, Goto, unchanged_cluster, States, Labels,
          StartLabels
<1>2. Lists'
  BY <1>1
     DEF IInv, Lists, Types, OneActivates, Finish, Goto, unchanged_cluster,
        Serving, Activating
<1>3. Callbacks'
  BY <1>1 DEF IInv, Callbacks, Types, Finish, Goto, unchanged_cluster
<1>4. Answers'
  BY <1>1 DEF IInv, Answers, Types, Finish, Goto, unchanged_cluster
<1>5. OneActivates'
  BY <1>1
     DEF IInv, OneActivates, Types, Finish, Goto, unchanged_cluster,
        Activating
<1>6. DrainsTheDestroyed'
  BY <1>1
     DEF IInv, DrainsTheDestroyed, Types, Lists, Finish, Goto,
        unchanged_cluster
<1>7. RegistrationsMatch'
  BY <1>1
     DEF IInv, RegistrationsMatch, Types, Callbacks, Finish, Goto,
        unchanged_cluster
<1>8. Granted'
  BY <1>1
     DEF IInv, Granted, Types, Answers, OneActivates, Finish, Goto,
        unchanged_cluster, Won, Serving, Peers, Activating
<1>9. Exclusive'
  BY <1>1
     DEF IInv, Exclusive, Types, Lists, OneActivates, Granted, Finish, Goto,
        unchanged_cluster, Won, Serving, Peers, Activating
<1> QED
  BY <1>1, <1>2, <1>3, <1>4, <1>5, <1>6, <1>7, <1>8, <1>9 DEF IInv

\* A DRAIN request at a server that need not do anything itself.
LEMMA DrainLocalPreserves ==
    ASSUME NEW c \in Conns, NEW t \in Servers, IInv, DrainLocal(c, t)
    PROVE  IInv'
<1> USE ConnsAssumption
<1>1. Types'
  BY IInv
     DEF IInv, Types, DrainLocal, unchanged_server, Answer, Result, Running,
        States, Labels, StartLabels, DrainLabels
<1>2. Lists'
  BY <1>1
     DEF IInv, Lists, Types, OneActivates, DrainLocal, unchanged_server,
        Answer, Result, Running, Serving, Activating
<1>3. Callbacks'
  BY <1>1
     DEF IInv, Callbacks, Types, DrainLocal, unchanged_server, Answer, Result,
        Running
<1>4. Answers'
  BY <1>1
     DEF IInv, Answers, Types, DrainLocal, unchanged_server, Answer, Result,
        Running
<1>5. OneActivates'
  BY <1>1
     DEF IInv, OneActivates, Types, DrainLocal, unchanged_server, Answer,
        Result, Running, Activating
<1>6. DrainsTheDestroyed'
  BY <1>1
     DEF IInv, DrainsTheDestroyed, Types, Lists, DrainLocal, unchanged_server,
        Answer, Result, Running
<1>7. RegistrationsMatch'
  BY <1>1
     DEF IInv, RegistrationsMatch, Types, Callbacks, DrainLocal,
        unchanged_server, Answer, Result, Running
<1>8. Granted'
  BY <1>1
     DEF IInv, Granted, Types, Answers, OneActivates, DrainLocal,
        unchanged_server, Answer, Result, Running, Won, Serving, Peers,
        Activating
<1>9. Exclusive'
  BY <1>1
     DEF IInv, Exclusive, Types, Lists, OneActivates, Granted, DrainLocal,
        unchanged_server, Answer, Result, Running, Won, Serving, Peers,
        Activating
<1> QED
  BY <1>1, <1>2, <1>3, <1>4, <1>5, <1>6, <1>7, <1>8, <1>9 DEF IInv

\* A drain begins: all the connections of the server are marked.
LEMMA TryDrainSelfPreserves ==
    ASSUME NEW c \in Conns, NEW t \in Servers, IInv, TryDrainSelf(c, t)
    PROVE  IInv'
<1> USE ConnsAssumption
<1>1. Types'
  BY IInv
     DEF IInv, Types, TryDrainSelf, ChangeState, unchanged_server, Answer,
        Running, States, Labels, StartLabels, DrainLabels
<1>2. Lists'
  BY <1>1
     DEF IInv, Lists, Types, OneActivates, TryDrainSelf, ChangeState,
        unchanged_server, Answer, Running, Serving, Activating
<1>3. Callbacks'
  BY <1>1
     DEF IInv, Callbacks, Types, TryDrainSelf, ChangeState, unchanged_server,
        Answer, Running
<1>4. Answers'
  BY <1>1
     DEF IInv, Answers, Types, TryDrainSelf, ChangeState, unchanged_server,
        Answer, Running
<1>5. OneActivates'
  BY <1>1
     DEF IInv, OneActivates, Types, TryDrainSelf, ChangeState,
        unchanged_server, Answer, Running, Activating
<1>6. DrainsTheDestroyed'
  BY <1>1
     DEF IInv, DrainsTheDestroyed, Types, Lists, TryDrainSelf, ChangeState,
        unchanged_server, Answer, Running
<1>7. RegistrationsMatch'
  BY <1>1
     DEF IInv, RegistrationsMatch, Types, Callbacks, TryDrainSelf,
        ChangeState, unchanged_server, Answer, Running
<1>8. Granted'
  BY <1>1
     DEF IInv, Granted, Types, Answers, OneActivates, TryDrainSelf,
        ChangeState, unchanged_server, Answer, Running, Won, Serving, Peers,
        Activating
<1>9. Exclusive'
  BY <1>1
     DEF IInv, Exclusive, Types, Lists, OneActivates, Granted, TryDrainSelf,
        ChangeState, unchanged_server, Answer, Running, Won, Serving, Peers,
        Activating
<1> QED
  BY <1>1, <1>2, <1>3, <1>4, <1>5, <1>6, <1>7, <1>8, <1>9 DEF IInv

\* A drain of a server that has no connections.
LEMMA DrainIdlePreserves ==
    ASSUME NEW c \in Conns, NEW t \in Servers, IInv, DrainIdle(c, t)
    PROVE  IInv'
<1> USE ConnsAssumption
<1>1. Types'
  BY IInv
     DEF IInv, Types, DrainIdle, ChangeState, unchanged_server, Answer,
        Running, States, Labels, StartLabels, DrainLabels
<1>2. Lists'
  BY <1>1
     DEF IInv, Lists, Types, OneActivates, DrainIdle, ChangeState,
        unchanged_server, Answer, Running, Serving, Activating
<1>3. Callbacks'
  BY <1>1
     DEF IInv, Callbacks, Types, DrainIdle, ChangeState, unchanged_server,
        Answer, Running
<1>4. Answers'
  BY <1>1
     DEF IInv, Answers, Types, DrainIdle, ChangeState, unchanged_server,
        Answer, Running
<1>5. OneActivates'
  BY <1>1
     DEF IInv, OneActivates, Types, DrainIdle, ChangeState, unchanged_server,
        Answer, Running, Activating
<1>6. DrainsTheDestroyed'
  BY <1>1
     DEF IInv, DrainsTheDestroyed, Types, Lists, DrainIdle, ChangeState,
        unchanged_server, Answer, Running
<1>7. RegistrationsMatch'
  BY <1>1
     DEF IInv, RegistrationsMatch, Types, Callbacks, DrainIdle, ChangeState,
        unchanged_server, Answer, Running
<1>8. Granted'
  BY <1>1
     DEF IInv, Granted, Types, Answers, OneActivates, DrainIdle, ChangeState,
        unchanged_server, Answer, Running, Won, Serving, Peers, Activating
<1>9. Exclusive'
  BY <1>1
     DEF IInv, Exclusive, Types, Lists, OneActivates, Granted, DrainIdle,
        ChangeState, unchanged_server, Answer, Running, Won, Serving, Peers,
        Activating
<1> QED
  BY <1>1, <1>2, <1>3, <1>4, <1>5, <1>6, <1>7, <1>8, <1>9 DEF IInv

\* A drain ends, with success if the list is empty.
LEMMA DrainWokenPreserves ==
    ASSUME NEW c \in Conns, NEW t \in Servers, IInv, DrainWoken(c, t)
    PROVE  IInv'
<1> USE ConnsAssumption
<1>1. Types'
  BY IInv
     DEF IInv, Types, DrainWoken, EndDrain, ChangeState, unchanged_server,
        Answer, Result, Running, States, Labels, StartLabels, DrainLabels
<1>2. Lists'
  BY <1>1
     DEF IInv, Lists, Types, OneActivates, DrainWoken, EndDrain, ChangeState,
        unchanged_server, Answer, Result, Running, Serving, Activating
<1>3. Callbacks'
  BY <1>1
     DEF IInv, Callbacks, Types, DrainWoken, EndDrain, ChangeState,
        unchanged_server, Answer, Result, Running
<1>4. Answers'
  BY <1>1
     DEF IInv, Answers, Types, DrainWoken, EndDrain, ChangeState,
        unchanged_server, Answer, Result, Running
<1>5. OneActivates'
  BY <1>1
     DEF IInv, OneActivates, Types, DrainWoken, EndDrain, ChangeState,
        unchanged_server, Answer, Result, Running, Activating
<1>6. DrainsTheDestroyed'
  BY <1>1
     DEF IInv, DrainsTheDestroyed, Types, Lists, DrainWoken, EndDrain,
        ChangeState, unchanged_server, Answer, Result, Running
<1>7. RegistrationsMatch'
  BY <1>1
     DEF IInv, RegistrationsMatch, Types, Callbacks, DrainWoken, EndDrain,
        ChangeState, unchanged_server, Answer, Result, Running
<1>8. Granted'
  BY <1>1
     DEF IInv, Granted, Types, Answers, OneActivates, DrainWoken, EndDrain,
        ChangeState, unchanged_server, Answer, Result, Running, Won, Serving,
        Peers, Activating
<1>9. Exclusive'
  BY <1>1
     DEF IInv, Exclusive, Types, Lists, OneActivates, Granted, DrainWoken,
        EndDrain, ChangeState, unchanged_server, Answer, Result, Running, Won,
        Serving, Peers, Activating
<1> QED
  BY <1>1, <1>2, <1>3, <1>4, <1>5, <1>6, <1>7, <1>8, <1>9 DEF IInv

\* A drain is given up.
LEMMA DrainTimeoutPreserves ==
    ASSUME NEW c \in Conns, NEW t \in Servers, IInv, DrainTimeout(c, t)
    PROVE  IInv'
<1> USE ConnsAssumption
<1>1. Types'
  BY IInv
     DEF IInv, Types, DrainTimeout, EndDrain, ChangeState, unchanged_server,
        Answer, Result, Running, States, Labels, StartLabels, DrainLabels
<1>2. Lists'
  BY <1>1
     DEF IInv, Lists, Types, OneActivates, DrainTimeout, EndDrain,
        ChangeState, unchanged_server, Answer, Result, Running, Serving,
        Activating
<1>3. Callbacks'
  BY <1>1
     DEF IInv, Callbacks, Types, DrainTimeout, EndDrain, ChangeState,
        unchanged_server, Answer, Result, Running
<1>4. Answers'
  BY <1>1
     DEF IInv, Answers, Types, DrainTimeout, EndDrain, ChangeState,
        unchanged_server, Answer, Result, Running
<1>5. OneActivates'
  BY <1>1
     DEF IInv, OneActivates, Types, DrainTimeout, EndDrain, ChangeState,
        unchanged_server, Answer, Result, Running, Activating
<1>6. DrainsTheDestroyed'
  BY <1>1
     DEF IInv, DrainsTheDestroyed, Types, Lists, DrainTimeout, EndDrain,
        ChangeState, unchanged_server, Answer, Result, Running
<1>7. RegistrationsMatch'
  BY <1>1
     DEF IInv, RegistrationsMatch, Types, Callbacks, DrainTimeout, EndDrain,
        ChangeState, unchanged_server, Answer, Result, Running
<1>8. Granted'
  BY <1>1
     DEF IInv, Granted, Types, Answers, OneActivates, DrainTimeout, EndDrain,
        ChangeState, unchanged_server, Answer, Result, Running, Won, Serving,
        Peers, Activating
<1>9. Exclusive'
  BY <1>1
     DEF IInv, Exclusive, Types, Lists, OneActivates, Granted, DrainTimeout,
        EndDrain, ChangeState, unchanged_server, Answer, Result, Running, Won,
        Serving, Peers, Activating
<1> QED
  BY <1>1, <1>2, <1>3, <1>4, <1>5, <1>6, <1>7, <1>8, <1>9 DEF IInv

\* A DRAIN request that has waited for another one.
LEMMA WatchEndPreserves ==
    ASSUME NEW c \in Conns, NEW t \in Servers, IInv, WatchEnd(c, t)
    PROVE  IInv'
<1> USE ConnsAssumption
<1>1. Types'
  BY IInv
     DEF IInv, Types, WatchEnd, unchanged_server, Answer, Result, Running,
        States, Labels, StartLabels, DrainLabels
<1>2. Lists'
  BY <1>1
     DEF IInv, Lists, Types, OneActivates, WatchEnd, unchanged_server, Answer,
        Result, Running, Serving, Activating
<1>3. Callbacks'
  BY <1>1
     DEF IInv, Callbacks, Types, WatchEnd, unchanged_server, Answer, Result,
        Running
<1>4. Answers'
  BY <1>1
     DEF IInv, Answers, Types, WatchEnd, unchanged_server, Answer, Result,
        Running
<1>5. OneActivates'
  BY <1>1
     DEF IInv, OneActivates, Types, WatchEnd, unchanged_server, Answer,
        Result, Running, Activating
<1>6. DrainsTheDestroyed'
  BY <1>1
     DEF IInv, DrainsTheDestroyed, Types, Lists, WatchEnd, unchanged_server,
        Answer, Result, Running
<1>7. RegistrationsMatch'
  BY <1>1
     DEF IInv, RegistrationsMatch, Types, Callbacks, WatchEnd,
        unchanged_server, Answer, Result, Running
<1>8. Granted'
  BY <1>1
     DEF IInv, Granted, Types, Answers, OneActivates, WatchEnd,
        unchanged_server, Answer, Result, Running, Won, Serving, Peers,
        Activating
<1>9. Exclusive'
  BY <1>1
     DEF IInv, Exclusive, Types, Lists, OneActivates, Granted, WatchEnd,
        unchanged_server, Answer, Result, Running, Won, Serving, Peers,
        Activating
<1> QED
  BY <1>1, <1>2, <1>3, <1>4, <1>5, <1>6, <1>7, <1>8, <1>9 DEF IInv

\* The callbacks are set.
LEMMA CallbackSetPreserves ==
    ASSUME NEW s \in Servers, IInv, CallbackSet(s)
    PROVE  IInv'
<1> USE ConnsAssumption
<1>1. Types'
  BY IInv
     DEF IInv, Types, CallbackSet, unchanged_lists, CallbackBusy, States,
        Labels, StartLabels, DrainLabels
<1>2. Lists'
  BY <1>1
     DEF IInv, Lists, Types, OneActivates, CallbackSet, unchanged_lists,
        CallbackBusy, Serving, Activating
<1>3. Callbacks'
  BY <1>1
     DEF IInv, Callbacks, Types, CallbackSet, unchanged_lists, CallbackBusy
<1>4. Answers'
  BY <1>1 DEF IInv, Answers, Types, CallbackSet, unchanged_lists, CallbackBusy
<1>5. OneActivates'
  BY <1>1
     DEF IInv, OneActivates, Types, CallbackSet, unchanged_lists,
        CallbackBusy, Activating
<1>6. DrainsTheDestroyed'
  BY <1>1
     DEF IInv, DrainsTheDestroyed, Types, Lists, CallbackSet, unchanged_lists,
        CallbackBusy
<1>7. RegistrationsMatch'
  BY <1>1
     DEF IInv, RegistrationsMatch, Types, Callbacks, CallbackSet,
        unchanged_lists, CallbackBusy
<1>8. Granted'
  BY <1>1
     DEF IInv, Granted, Types, Answers, OneActivates, CallbackSet,
        unchanged_lists, CallbackBusy, Won, Serving, Peers, Activating
<1>9. Exclusive'
  BY <1>1
     DEF IInv, Exclusive, Types, Lists, OneActivates, Granted, CallbackSet,
        unchanged_lists, CallbackBusy, Won, Serving, Peers, Activating
<1> QED
  BY <1>1, <1>2, <1>3, <1>4, <1>5, <1>6, <1>7, <1>8, <1>9 DEF IInv

\* The callbacks are cleared.
LEMMA CallbackClearPreserves ==
    ASSUME NEW s \in Servers, IInv, CallbackClear(s)
    PROVE  IInv'
<1> USE ConnsAssumption
<1>1. Types'
  BY IInv
     DEF IInv, Types, CallbackClear, unchanged_lists, CallbackBusy, States,
        Labels, StartLabels, DrainLabels
<1>2. Lists'
  BY <1>1
     DEF IInv, Lists, Types, OneActivates, CallbackClear, unchanged_lists,
        CallbackBusy, Serving, Activating
<1>3. Callbacks'
  BY <1>1
     DEF IInv, Callbacks, Types, CallbackClear, unchanged_lists, CallbackBusy
<1>4. Answers'
  BY <1>1
     DEF IInv, Answers, Types, CallbackClear, unchanged_lists, CallbackBusy
<1>5. OneActivates'
  BY <1>1
     DEF IInv, OneActivates, Types, CallbackClear, unchanged_lists,
        CallbackBusy, Activating
<1>6. DrainsTheDestroyed'
  BY <1>1
     DEF IInv, DrainsTheDestroyed, Types, Lists, CallbackClear,
        unchanged_lists, CallbackBusy
<1>7. RegistrationsMatch'
  BY <1>1
     DEF IInv, RegistrationsMatch, Types, Callbacks, CallbackClear,
        unchanged_lists, CallbackBusy
<1>8. Granted'
  BY <1>1
     DEF IInv, Granted, Types, Answers, OneActivates, CallbackClear,
        unchanged_lists, CallbackBusy, Won, Serving, Peers, Activating
<1>9. Exclusive'
  BY <1>1
     DEF IInv, Exclusive, Types, Lists, OneActivates, Granted, CallbackClear,
        unchanged_lists, CallbackBusy, Won, Serving, Peers, Activating
<1> QED
  BY <1>1, <1>2, <1>3, <1>4, <1>5, <1>6, <1>7, <1>8, <1>9 DEF IInv

\* The entry of the client is removed.
LEMMA RemoveClientPreserves ==
    ASSUME NEW s \in Servers, IInv, RemoveClient(s)
    PROVE  IInv'
<1> USE ConnsAssumption
<1>1. Types'
  BY IInv
     DEF IInv, Types, RemoveClient, ChangeState, unchanged_lists,
        Unreferenced, Running, States, Labels, StartLabels, DrainLabels
<1>2. Lists'
  BY <1>1
     DEF IInv, Lists, Types, OneActivates, RemoveClient, ChangeState,
        unchanged_lists, Unreferenced, Running, Serving, Activating
<1>3. Callbacks'
  BY <1>1
     DEF IInv, Callbacks, Types, RemoveClient, ChangeState, unchanged_lists,
        Unreferenced, Running
<1>4. Answers'
  BY <1>1
     DEF IInv, Answers, Types, RemoveClient, ChangeState, unchanged_lists,
        Unreferenced, Running
<1>5. OneActivates'
  BY <1>1
     DEF IInv, OneActivates, Types, RemoveClient, ChangeState,
        unchanged_lists, Unreferenced, Running, Activating
<1>6. DrainsTheDestroyed'
  BY <1>1
     DEF IInv, DrainsTheDestroyed, Types, Lists, RemoveClient, ChangeState,
        unchanged_lists, Unreferenced, Running
<1>7. RegistrationsMatch'
  BY <1>1
     DEF IInv, RegistrationsMatch, Types, Callbacks, RemoveClient,
        ChangeState, unchanged_lists, Unreferenced, Running
<1>8. Granted'
  BY <1>1
     DEF IInv, Granted, Types, Answers, OneActivates, RemoveClient,
        ChangeState, unchanged_lists, Unreferenced, Running, Won, Serving,
        Peers, Activating
<1>9. Exclusive'
  BY <1>1
     DEF IInv, Exclusive, Types, Lists, OneActivates, Granted, RemoveClient,
        ChangeState, unchanged_lists, Unreferenced, Running, Won, Serving,
        Peers, Activating
<1> QED
  BY <1>1, <1>2, <1>3, <1>4, <1>5, <1>6, <1>7, <1>8, <1>9 DEF IInv

\* The invariant holds of a client that no server has heard of.
LEMMA Initially == Init => IInv
<1> SUFFICES ASSUME Init PROVE IInv
  OBVIOUS
<1>1. Types /\ Lists /\ Callbacks /\ Answers
  BY DEF Init, Types, Lists, Callbacks, Answers, States, Labels, DrainLabels
<1>2. Serving = {} /\ Exclusive
  BY DEF Init, Serving, Exclusive
<1>3. OneActivates /\ DrainsTheDestroyed /\ RegistrationsMatch
  BY ConnsAssumption
     DEF Init, OneActivates, Activating, DrainsTheDestroyed, RegistrationsMatch
<1>4. Granted
  BY ConnsAssumption DEF Init, Granted, Won, Peers
<1> QED BY <1>1, <1>2, <1>3, <1>4 DEF IInv

\* So does a step that changes nothing.
LEMMA StutterPreserves == IInv /\ UNCHANGED vars => IInv'
BY DEF IInv, vars, Types, Lists, Callbacks, Answers, OneActivates, Activating,
       DrainsTheDestroyed, RegistrationsMatch, Granted, Won, Exclusive, Serving

\* Every step of every thread preserves the invariant.
LEMMA NextPreserves == IInv /\ [Next]_vars => IInv'
<1> SUFFICES ASSUME IInv, [Next]_vars PROVE IInv'
  OBVIOUS
<1>1. CASE \E c \in Conns : Start(c) \/ StartStep(c) \/ Close(c) \/ Finish(c)
  BY <1>1, StartDrainedPreserves, StartActivatingPreserves,
    StartActivePreserves, WakeStartPreserves, DrainOthersPreserves,
    DrainDefaultPreserves, OthersDrainedPreserves, OthersNotDrainedPreserves,
    ActivatePreserves, FailActivationPreserves, RegisterPreserves,
    LetInPreserves, TurnAwayPreserves, ClosePreserves, FinishPreserves
     DEF Start, StartStep
<1>2. CASE \E c \in Conns, t \in Servers :
               \/ DrainLocal(c, t) \/ TryDrainSelf(c, t) \/ DrainIdle(c, t)
               \/ DrainStep(c, t)
  BY <1>2, DrainLocalPreserves, TryDrainSelfPreserves, DrainIdlePreserves,
    DrainWokenPreserves, DrainTimeoutPreserves, WatchEndPreserves
     DEF DrainStep
<1>3. CASE \E s \in Servers :
               CallbackSet(s) \/ CallbackClear(s) \/ RemoveClient(s)
  BY <1>3, CallbackSetPreserves, CallbackClearPreserves, RemoveClientPreserves
<1>4. CASE UNCHANGED vars
  BY <1>4, StutterPreserves
<1> QED BY <1>1, <1>2, <1>3, <1>4 DEF Next

\* The invariant holds in every reachable state.
LEMMA Invariance == Spec => []IInv
BY Initially, NextPreserves, PTL DEF Spec

\* A destroyed connection is in the list of its server.
LEMMA Typed == IInv => TypeOK
<1> SUFFICES ASSUME IInv PROVE TypeOK
  OBVIOUS
<1>1. destroyed \subseteq UNION {connections[s] : s \in Servers}
  BY ConnsAssumption DEF IInv, Types, Lists
<1> QED BY <1>1 DEF IInv, Types, TypeOK

\* The variables keep their types, and a connection is only marked as
\* destroyed while it is in a list.
THEOREM TypeCorrect == Spec => []TypeOK
BY Invariance, Typed, PTL

\* The assertion of try_activate_client after its callback, and that no two
\* threads of a server activate the client at once.
THEOREM ActivationExclusive == Spec => []OneActivates
<1>1. IInv => OneActivates
  BY DEF IInv
<1> QED BY <1>1, Invariance, PTL

\* A drain in progress has told all the connections that it waits for to
\* close, however many drains and aborts came before.
THEOREM DrainComplete == Spec => []DrainsTheDestroyed
<1>1. IInv => DrainsTheDestroyed
  BY DEF IInv
<1> QED BY <1>1, Invariance, PTL

\* Registrations and deregistrations in the cluster balance.
THEOREM RegistrationBalanced == Spec => []RegistrationsMatch
<1>1. IInv => RegistrationsMatch
  BY DEF IInv
<1> QED BY <1>1, Invariance, PTL
-----------------------------------------------------------------------------
(* A drain in progress has a thread that will end it.                      *)

\* A connection has sent no DRAIN before its callback is entered; a state that
\* is DRAINING is the work of a request that is still in try_drain_self.
Drainers ==
    /\ \A c \in Conns, t \in Servers :
         pc[c] \in {"new", "activate"} => drain[c][t] = "none"
    /\ \A s \in Servers :
         state[s] = "DRAINING" => \E c \in Conns : drain[c][s] = "draining"

\* The steps of a new connection start no drain and end none.
LEMMA StartKeepsDrainers ==
    ASSUME NEW c \in Conns, IInv, Drainers,
           Start(c) \/ StartStep(c) \/ Close(c) \/ Finish(c)
    PROVE  Drainers'
<1> USE ConnsAssumption DEF IInv, Types, Drainers, Goto, ChangeState, Arrive,
        unchanged_lists, unchanged_cluster
<1>1. CASE Start(c)
  BY <1>1 DEF Start, StartDrained, StartActivating, StartActive
<1>2. CASE WakeStart(c)
  BY <1>2 DEF WakeStart
<1>3. CASE DrainOthers(c)
  BY <1>3 DEF DrainOthers
<1>4. CASE DrainDefault(c)
  BY <1>4 DEF DrainDefault
<1>5. CASE OthersDrained(c)
  BY <1>5 DEF OthersDrained, ForgetAnswers
<1>6. CASE OthersNotDrained(c)
  BY <1>6 DEF OthersNotDrained, ForgetAnswers
<1>7. CASE Activate(c) \/ FailActivation(c)
  BY <1>7 DEF Activate, FailActivation
<1>8. CASE Register(c)
  BY <1>8 DEF Register
<1>9. CASE LetIn(c)
  BY <1>9 DEF LetIn
<1>10. CASE TurnAway(c)
  BY <1>10 DEF TurnAway, Deregister
<1>11. CASE Close(c)
  BY <1>11 DEF Close, Deregister
<1>12. CASE Finish(c)
  BY <1>12 DEF Finish
<1> QED
  BY <1>1, <1>2, <1>3, <1>4, <1>5, <1>6, <1>7, <1>8, <1>9, <1>10, <1>11, <1>12
     DEF StartStep

\* A request that stops waiting in try_drain_self leaves another state.
LEMMA DrainKeepsDrainers ==
    ASSUME NEW c \in Conns, NEW t \in Servers, IInv, Drainers,
           \/ DrainLocal(c, t) \/ TryDrainSelf(c, t) \/ DrainIdle(c, t)
           \/ DrainStep(c, t)
    PROVE  Drainers'
<1> USE DEF IInv, Types, Drainers, Answer, Result, Running, ChangeState,
        unchanged_server
<1>1. CASE DrainLocal(c, t)
  BY <1>1 DEF DrainLocal
<1>2. CASE TryDrainSelf(c, t)
  BY <1>2 DEF TryDrainSelf
<1>3. CASE DrainIdle(c, t)
  BY <1>3 DEF DrainIdle
<1>4. CASE DrainWoken(c, t)
  BY <1>4 DEF DrainWoken, EndDrain
<1>5. CASE DrainTimeout(c, t)
  BY <1>5 DEF DrainTimeout, EndDrain
<1>6. CASE WatchEnd(c, t)
  BY <1>6 DEF WatchEnd
<1> QED
  BY <1>1, <1>2, <1>3, <1>4, <1>5, <1>6 DEF DrainStep

LEMMA NextKeepsDrainers ==
    ASSUME IInv, Drainers, [Next]_vars
    PROVE  Drainers'
<1>1. CASE \E c \in Conns : Start(c) \/ StartStep(c) \/ Close(c) \/ Finish(c)
  BY <1>1, StartKeepsDrainers
<1>2. CASE \E c \in Conns, t \in Servers :
               \/ DrainLocal(c, t) \/ TryDrainSelf(c, t) \/ DrainIdle(c, t)
               \/ DrainStep(c, t)
  BY <1>2, DrainKeepsDrainers
<1>3. CASE \E s \in Servers :
               CallbackSet(s) \/ CallbackClear(s) \/ RemoveClient(s)
  BY <1>3 DEF CallbackSet, CallbackClear, RemoveClient, ChangeState, Drainers,
     unchanged_lists, IInv, Types
<1>4. CASE UNCHANGED vars
  BY <1>4 DEF vars, Drainers
<1> QED BY <1>1, <1>2, <1>3, <1>4 DEF Next

\* remove_gsh_client never frees the entry of a client that is being activated
\* or drained: an activation has its connection, a drain its request, and each
\* of them has a reference.
THEOREM RemovalSettled == Spec => []RemovedSettled
<1>1. Init => Drainers
  BY DEF Init, Drainers
<1>2. IInv /\ Drainers /\ [Next]_vars => Drainers'
  BY NextKeepsDrainers
<1>3. IInv /\ Drainers => RemovedSettled
  <2> SUFFICES ASSUME IInv, Drainers, NEW s \in known, Unreferenced(s)
               PROVE  state[s] \in {"DRAINED", "ACTIVE"}
    BY DEF RemovedSettled
  <2>1. s \in Servers /\ state[s] \in States
    BY DEF IInv, Types
  <2>2. state[s] # "DRAINING"
    BY <2>1 DEF Drainers, Unreferenced, Running
  <2>3. state[s] # "ACTIVATING"
    BY <2>1 DEF IInv, OneActivates, Activating, Unreferenced
  <2> QED BY <2>1, <2>2, <2>3 DEF States
<1> QED BY <1>1, <1>2, <1>3, Invariance, PTL DEF Spec
-----------------------------------------------------------------------------
(* The connection manager implements SingleServer.                         *)

Open == UNION {connections[s] : s \in Servers}

\* A step that leaves the lists and the set of serving servers alone is a
\* stuttering step of SingleServer.
LEMMA Stutters ==
    ASSUME UNCHANGED connections, Serving' = Serving
    PROVE  UNCHANGED <<Owner, Open>>
BY DEF Owner, Open

\* The server that serves the client lets go of it when its list is empty.
LEMMA LetsGo ==
    ASSUME IInv, NEW t \in Serving, connections[t] = {},
           UNCHANGED connections, Serving' = Serving \ {t}
    PROVE  SS!LetGo
<1>1. Serving = {t} /\ Serving' = {}
  BY DEF IInv, Exclusive
<1>2. \A s \in Servers : connections[s] = {}
  BY <1>1 DEF IInv, Lists
<1>3. Owner' = NoServer
  BY <1>1 DEF Owner
<1> QED BY <1>2, <1>3 DEF SS!LetGo

\* The end of a successful activation: the server takes the client over.
LEMMA ActivateTakes ==
    ASSUME IInv, IInv', NEW c \in Conns, Activate(c)
    PROVE  SS!Take(c)
<1> USE ConnsAssumption
<1>1. Serving = {}
  <2>1. Home[c] \notin Serving
    BY DEF IInv, OneActivates, Activating, Activate, Serving
  <2>2. pc[c] = "activated" /\ Granted
    BY DEF IInv, Activate
  <2>3. \A t \in Peers(c) : t \notin Serving
    BY <2>2 DEF Granted, Won
  <2> QED BY <2>1, <2>3 DEF Peers, Serving
<1>2. \A s \in Servers : connections[s] = {}
  BY <1>1 DEF IInv, Lists
<1>3. Owner = NoServer
  BY <1>1 DEF Owner
<1>4. Owner' = Home[c]
  <2>1. Home[c] \in Serving'
    BY DEF IInv, Types, Activate, ChangeState, Serving
  <2> QED BY <2>1 DEF IInv, Exclusive, Owner
<1>5. Open' = {c}
  <2>1. connections'[Home[c]] = {c}
    BY <1>2 DEF IInv, Types, Activate
  <2>2. \A s \in Servers : s # Home[c] => connections'[s] = {}
    BY <1>2 DEF IInv, Types, Activate
  <2> QED BY <2>1, <2>2 DEF Open
<1> QED BY <1>3, <1>4, <1>5 DEF SS!Take, Open

\* A connection is let in by the server that serves the client.
LEMMA LetInAdmits ==
    ASSUME IInv, NEW c \in Conns, LetIn(c)
    PROVE  SS!Admit(c)
<1> USE ConnsAssumption
<1>1. Home[c] \in Serving /\ Serving' = Serving
  BY DEF LetIn, Serving
<1>2. Owner = Home[c] /\ Owner' = Owner
  BY <1>1 DEF IInv, Exclusive, Owner
<1>3. Open' = Open \cup {c}
  <2>1. connections'[Home[c]] = connections[Home[c]] \cup {c}
    BY DEF IInv, Types, LetIn
  <2>2. \A s \in Servers : s # Home[c] => connections'[s] = connections[s]
    BY DEF IInv, Types, LetIn
  <2> QED BY <2>1, <2>2 DEF Open
<1> QED BY <1>2, <1>3 DEF SS!Admit, Open

\* A connection that is finished carries no more requests.
LEMMA FinishRetires ==
    ASSUME IInv, NEW c \in Conns, Finish(c)
    PROVE  SS!Retire(c)
<1> USE ConnsAssumption
<1>1. Owner' = Owner
  BY DEF Finish, Serving, Owner
<1>2. \A s \in Servers : connections'[s] = connections[s] \ {c}
  BY DEF IInv, Types, Lists, Finish
<1>3. Open' = Open \ {c}
  BY <1>2 DEF Open
<1> QED BY <1>1, <1>3 DEF SS!Retire, Open

\* The steps that change neither a state nor a list.
LEMMA Quiet ==
    ASSUME NEW c \in Conns, NEW t \in Servers,
           \/ StartActivating(c) \/ WakeStart(c) \/ DrainOthers(c)
           \/ DrainDefault(c) \/ OthersDrained(c) \/ OthersNotDrained(c)
           \/ Register(c) \/ TurnAway(c) \/ Close(c) \/ DrainLocal(c, t)
           \/ WatchEnd(c, t)
    PROVE  UNCHANGED <<Owner, Open>>
<1>1. UNCHANGED <<state, connections>>
  BY Zenon
     DEF StartActivating, WakeStart, DrainOthers, DrainDefault, OthersDrained,
         OthersNotDrained, Register, TurnAway, Close, DrainLocal, WatchEnd,
         unchanged_lists, unchanged_server
<1>2. Serving' = Serving
  BY <1>1 DEF Serving
<1> QED BY <1>1, <1>2, Stutters

\* The steps that move a state within, or outside of, {ACTIVE, DRAINING}.
LEMMA SameOwner ==
    ASSUME IInv, NEW c \in Conns, NEW t \in Servers,
           \/ StartDrained(c) \/ StartActive(c) \/ FailActivation(c)
           \/ TryDrainSelf(c, t) \/ DrainTimeout(c, t)
    PROVE  UNCHANGED <<Owner, Open>>
<1> USE ConnsAssumption
<1>1. UNCHANGED connections
  BY DEF StartDrained, StartActive, FailActivation, TryDrainSelf, DrainTimeout,
         EndDrain, unchanged_lists, unchanged_server
<1>2. Serving' = Serving
  <2>1. CASE StartDrained(c)
    BY <2>1 DEF IInv, Types, StartDrained, ChangeState, Serving
  <2>2. CASE StartActive(c)
    BY <2>2 DEF IInv, Types, StartActive, ChangeState, Serving
  <2>3. CASE FailActivation(c)
    BY <2>3 DEF IInv, Types, OneActivates, Activating, FailActivation,
                ChangeState, Serving
  <2>4. CASE TryDrainSelf(c, t)
    BY <2>4 DEF IInv, Types, TryDrainSelf, ChangeState, Serving
  <2>5. CASE DrainTimeout(c, t)
    BY <2>5 DEF IInv, Types, DrainTimeout, EndDrain, ChangeState, Serving
  <2> QED BY <2>1, <2>2, <2>3, <2>4, <2>5
<1> QED BY <1>1, <1>2, Stutters

\* The drain of a server without connections, the end of a drain, and the
\* removal of the client: the server lets go of the client or nothing happens.
LEMMA DrainsLetGo ==
    ASSUME IInv, NEW c, NEW t \in Servers,
           DrainIdle(c, t) \/ DrainWoken(c, t) \/ RemoveClient(t)
    PROVE  SS!LetGo \/ UNCHANGED <<Owner, Open>>
<1> USE ConnsAssumption
<1>1. UNCHANGED connections
  BY DEF DrainIdle, DrainWoken, EndDrain, RemoveClient, unchanged_lists,
         unchanged_server
<1>2. CASE t \in Serving /\ t \notin Serving'
  <2>1. connections[t] = {}
    <3>1. CASE DrainIdle(c, t)
      BY <3>1 DEF DrainIdle
    <3>2. CASE DrainWoken(c, t)
      BY <1>2, <3>2 DEF IInv, Types, DrainWoken, EndDrain, ChangeState, Serving
    <3>3. CASE RemoveClient(t)
      BY <3>3 DEF IInv, Types, Lists, RemoveClient, Unreferenced
    <3> QED BY <3>1, <3>2, <3>3
  <2>2. Serving' = Serving \ {t}
    BY <1>2 DEF IInv, Types, DrainIdle, DrainWoken, EndDrain, RemoveClient,
                ChangeState, Serving
  <2> QED BY <1>1, <1>2, <2>1, <2>2, LetsGo
<1>3. CASE ~(t \in Serving /\ t \notin Serving')
  <2>1. Serving' = Serving
    BY <1>3 DEF IInv, Types, DrainIdle, DrainWoken, EndDrain, RemoveClient,
                ChangeState, Serving
  <2> QED BY <1>1, <2>1, Stutters
<1> QED BY <1>2, <1>3

\* At first no server has the client.
LEMMA InitialSimulates == Init => SS!Init
BY DEF Init, SS!Init, Owner, Serving

\* Every step is a step of SingleServer, or leaves its variables alone.
LEMMA NextSimulates ==
    IInv /\ IInv' /\ [Next]_vars => [SS!Next]_<<Owner, Open>>
<1> SUFFICES ASSUME IInv, IInv', [Next]_vars
             PROVE  SS!Next \/ UNCHANGED <<Owner, Open>>
  OBVIOUS
<1>1. ASSUME NEW c \in Conns,
             Start(c) \/ StartStep(c) \/ Close(c) \/ Finish(c)
      PROVE  SS!Next \/ UNCHANGED <<Owner, Open>>
  <2>1. Home[c] \in Servers
    BY ConnsAssumption
  <2>2. CASE Activate(c) \/ LetIn(c) \/ Finish(c)
    BY <2>2, ActivateTakes, LetInAdmits, FinishRetires DEF SS!Next
  <2>3. CASE StartDrained(c) \/ StartActive(c) \/ FailActivation(c)
    BY <2>1, <2>3, SameOwner
  <2>4. CASE \/ StartActivating(c) \/ WakeStart(c) \/ DrainOthers(c)
             \/ DrainDefault(c) \/ OthersDrained(c) \/ OthersNotDrained(c)
             \/ Register(c) \/ TurnAway(c) \/ Close(c)
    BY <2>1, <2>4, Quiet
  <2> QED BY <1>1, <2>2, <2>3, <2>4 DEF Start, StartStep
<1>2. ASSUME NEW c \in Conns, NEW t \in Servers,
             \/ DrainLocal(c, t) \/ TryDrainSelf(c, t) \/ DrainIdle(c, t)
             \/ DrainStep(c, t)
      PROVE  SS!Next \/ UNCHANGED <<Owner, Open>>
  BY <1>2, Quiet, SameOwner, DrainsLetGo DEF DrainStep, SS!Next
<1>3. ASSUME NEW s \in Servers,
             CallbackSet(s) \/ CallbackClear(s) \/ RemoveClient(s)
      PROVE  SS!Next \/ UNCHANGED <<Owner, Open>>
  <2>1. CASE CallbackSet(s) \/ CallbackClear(s)
    <3>1. UNCHANGED <<state, connections>>
      BY <2>1 DEF CallbackSet, CallbackClear, unchanged_lists
    <3>2. Serving' = Serving
      BY <3>1 DEF Serving
    <3> QED BY <3>1, <3>2, Stutters
  <2>2. CASE RemoveClient(s)
    BY <2>2, DrainsLetGo DEF SS!Next
  <2> QED BY <1>3, <2>1, <2>2
<1>4. CASE UNCHANGED vars
  BY <1>4 DEF vars, Owner, Serving, Open
<1> QED BY <1>1, <1>2, <1>3, <1>4 DEF Next

\* The connection manager keeps the promise of its header: the requests of
\* a client are executed by one server at a time.
THEOREM Implements == Spec => ServedOnce
BY Invariance, InitialSimulates, NextSimulates, PTL
   DEF Spec, ServedOnce, SS!Spec, Open
=============================================================================
