--------------------------- MODULE Executor_proofs ---------------------------
(***************************************************************************)
(* Proofs about Executor, and about HostRestart, which runs it again and    *)
(* again, for every set of nodes and every graph.                           *)
(***************************************************************************)
EXTENDS HostRestart, TLAPS

\* What an operator of the run does to the variables, by the step it is in.
\* HandOver keeps the types and gives every slot a state that is all of state.
LEMMA HandOverType ==
    ASSUME TypeOK, HandOver
    PROVE  /\ pc' = "top" /\ phase' = "Running"
           /\ live' \in [Nodes -> {"Absent", "Creating", "Running"}]
           /\ id' \in [Nodes -> Nat]
           /\ firstInput' \in [Nodes -> SUBSET Updates]
           /\ held' \in [Nodes -> BOOLEAN] /\ untaken' \in [Nodes -> BOOLEAN]
           /\ node' \in [Nodes -> {"Unborn", "Working", "Gone"} \cup Endings]
           /\ inputOpen' \in [Nodes -> BOOLEAN]
           /\ accepted' \in [Nodes -> SUBSET Updates]
  BY DEF TypeOK, HandOver, Begins, Takes, Releases

LEMMA InitType == Init => TypeOK
<1> SUFFICES ASSUME Init PROVE TypeOK
  OBVIOUS
<1>1. NoMessage \in Message \cup {NoMessage}
  OBVIOUS
<1>2. NoOutcome \in [kind : {"None", "RunEnded", "RunFailed", "RunCancelled"},
                    state : SUBSET Updates, nodes : SUBSET Nodes,
                    due : [Nodes -> SUBSET Updates]]
  BY DEF NoOutcome
<1>3. NoCheckpoint \in Checkpoint
  BY DEF NoCheckpoint, Checkpoint
<1>4. Given \in Updates
  BY DEF Updates
<1>5. PICK kind \in {"Nodes", "Checkpoint"}, N \in Starts, sink \in Sinks :
         /\ origin = [kind |-> kind, nodes |-> N, sink |-> sink]
         /\ held = [n \in Nodes |-> n \in N]
         /\ due = [n \in Nodes |-> IF n \in N THEN {Given} ELSE {}]
  BY DEF Init
<1>6. /\ due \in [Nodes -> SUBSET Updates] /\ held \in [Nodes -> BOOLEAN]
      /\ N \in SUBSET Nodes /\ sink \in BOOLEAN
  BY <1>4, <1>5, ExecutorAssumption
<1>7. failures \in Seq(FailureKinds) /\ mailbox \in Seq(Message)
  BY DEF Init
<1> QED
  BY <1>1, <1>2, <1>3, <1>4, <1>5, <1>6, <1>7 DEF Init, TypeOK

LEMMA ConcludeType ==
    ASSUME TypeOK, Conclude
    PROVE  /\ pc' = "done"
           /\ phase' \in {"Running", "StoppedByHost", "StoppedByExecutor"}
           /\ failures' \in Seq(FailureKinds)
           /\ outcome' \in [kind : {"None", "RunEnded", "RunFailed", "RunCancelled"},
                            state : SUBSET Updates, nodes : SUBSET Nodes,
                            due : [Nodes -> SUBSET Updates]]
<1>1. OutcomeKind(ReadToken, failures) \in {"RunEnded", "RunFailed", "RunCancelled"}
  BY DEF OutcomeKind
<1>2. failures' \in Seq(FailureKinds)
  <2>1. "CheckpointNotBuilt" \in FailureKinds
    BY DEF FailureKinds
  <2>2. Append(failures, "CheckpointNotBuilt") \in Seq(FailureKinds)
    BY <2>1 DEF TypeOK
  <2>3. failures \in Seq(FailureKinds)
    BY DEF TypeOK
  <2> QED
    BY <2>2, <2>3 DEF Conclude
<1>3. NonIdle \in SUBSET Nodes
  BY DEF NonIdle
<1> QED
  BY <1>1, <1>2, <1>3 DEF Conclude, TypeOK, ReadToken

LEMMA FailType ==
    ASSUME TypeOK, NEW kind \in FailureKinds, Fail(kind)
    PROVE  /\ failures' \in Seq(FailureKinds)
           /\ phase' \in {"StoppedByHost", "StoppedByExecutor"}
           /\ token' = TRUE
           /\ cause' \in {"Nobody", "Host", "Executor", "HostMeanwhile"}
  BY DEF Fail, TypeOK, FailPhase, ReadToken

LEMMA PostType ==
    ASSUME TypeOK, NEW n \in Nodes,
           NEW r \in {"Instance", "CouldNotStart"} \cup Terminals, Post(n, r)
    PROVE  mailbox' \in Seq(Message)
<1>1. [node |-> n, id |-> id[n], result |-> r] \in Message
  BY DEF TypeOK, Message
<1> QED
  BY <1>1 DEF Post, TypeOK

LEMMA CheckpointType == TypeOK => CurrentCheckpoint \in Checkpoint
  BY DEF TypeOK, CurrentCheckpoint, Checkpoint, NonIdle

\* A message that is of the current creation or instance is a real one.
LEMMA TakenType ==
    ASSUME TypeOK, Taken, message.result # "None"
    PROVE  /\ message \in Message
           /\ message.node \in Nodes /\ message.id \in Nat
           /\ message' \in Message \cup {NoMessage}
  BY DEF TypeOK, Taken, NoMessage, Message

LEMMA StepType ==
    ASSUME TypeOK, Step
    PROVE  TypeOK'
<1>1. CASE OnCouldNotStart
  <2>1. message.node \in Nodes /\ message' \in Message \cup {NoMessage}
    BY <1>1, TakenType DEF OnCouldNotStart
  <2>2. /\ Fail("NodeCouldNotStart") /\ "NodeCouldNotStart" \in FailureKinds
    BY <1>1 DEF OnCouldNotStart, FailNode, FailureKinds
  <2> QED
    BY <1>1, <2>1, <2>2, FailType DEF OnCouldNotStart, FailNode, TypeOK, channel
<1>2. CASE OnCreated
  <2>1. message.node \in Nodes /\ message' \in Message \cup {NoMessage}
    BY <1>2, TakenType DEF OnCreated
  <2>2. UNCHANGED <<failures, outcome, state, id, firstInput, untaken, mailbox, node,
                    host, due>>
    BY <1>2 DEF OnCreated
  <2>3. /\ pc' = "top" /\ phase' = ReadToken
        /\ live' \in [Nodes -> {"Absent", "Creating", "Running"}]
    BY <1>2, <2>1 DEF OnCreated, TypeOK
  <2>4. held' \in [Nodes -> BOOLEAN]
    BY <1>2, <2>1 DEF OnCreated, TypeOK
  <2>5. accepted' \in [Nodes -> SUBSET Updates]
    BY <1>2, <2>1 DEF OnCreated, TypeOK
  <2>6. inputOpen' \in [Nodes -> BOOLEAN]
    BY <1>2, <2>1 DEF OnCreated, TypeOK
  <2> QED
    BY <2>1, <2>2, <2>3, <2>4, <2>5, <2>6 DEF TypeOK, ReadToken, host
<1>3. CASE OnFailed
  <2>1. message.node \in Nodes /\ message' \in Message \cup {NoMessage}
    BY <1>3, TakenType DEF OnFailed
  <2>2. PICK kind \in FailureKinds : FailNode(message.node, kind)
    BY <1>3 DEF OnFailed, FailureKinds
  <2> QED
    BY <1>3, <2>1, <2>2, FailType DEF OnFailed, FailNode, TypeOK, channel
<1>4. CASE OnCancelled
  <2>1. message.node \in Nodes /\ message' \in Message \cup {NoMessage}
    BY <1>4, TakenType DEF OnCancelled
  <2> QED
    BY <1>4, <2>1 DEF OnCancelled, TypeOK, ReadToken, channel, host
<1>5. CASE OnResultUndone
  <2>1. message.node \in Nodes /\ message' \in Message \cup {NoMessage}
    BY <1>5, TakenType DEF OnResultUndone
  <2>2. PICK kind \in FailureKinds : FailNode(message.node, kind)
    BY <1>5 DEF OnResultUndone, FailureKinds
  <2> QED
    BY <1>5, <2>1, <2>2, FailType DEF OnResultUndone, FailNode, TypeOK, channel
<1>6. CASE OnResult
  <2>1. /\ message.node \in Nodes /\ message.id \in Nat
        /\ message' \in Message \cup {NoMessage}
    BY <1>6, TakenType DEF OnResult
  <2>2. <<message.node, message.id>> \in Updates
    BY <2>1 DEF Updates
  <2>3. PICK T \in Targets(message.node) :
          /\ held' = [m \in Nodes |-> held[m] \/ m \in T]
          /\ due' = [m \in Nodes |->
                (IF m = message.node THEN due[m] \ accepted[m] ELSE due[m])
                \cup (IF m \in T THEN {<<message.node, message.id>>} ELSE {})]
    BY <1>6 DEF OnResult
  <2>4. held' \in [Nodes -> BOOLEAN] /\ due' \in [Nodes -> SUBSET Updates]
    BY <2>2, <2>3 DEF TypeOK
  <2>5. state' \in SUBSET Updates /\ live' \in [Nodes -> {"Absent", "Creating", "Running"}]
    BY <1>6, <2>1, <2>2 DEF OnResult, TypeOK
  <2>6. phase' \in {"Running", "StoppedByHost", "StoppedByExecutor"}
        /\ pc' \in {"checkpoint", "top"}
    BY <1>6 DEF OnResult, TypeOK, ReadToken
  <2> QED
    BY <1>6, <2>1, <2>4, <2>5, <2>6 DEF OnResult, TypeOK, channel, host
<1> QED
  BY <1>1, <1>2, <1>3, <1>4, <1>5, <1>6 DEF Step

LEMMA AbandonType ==
    ASSUME TypeOK, AbandonAllLive
    PROVE  /\ untaken' \in [Nodes -> BOOLEAN]
           /\ live' \in [Nodes -> {"Absent", "Creating", "Running"}]
  BY DEF TypeOK, AbandonAllLive

LEMMA FinishStepType ==
    ASSUME TypeOK, FinishStep
    PROVE  TypeOK'
<1>1. CASE ReadToken = "Running"
  <2>1. HandOver
    BY <1>1 DEF FinishStep
  <2> QED
    BY <2>1, HandOverType DEF FinishStep, TypeOK, host
<1>2. CASE ReadToken # "Running"
  BY <1>2 DEF FinishStep, TypeOK, ReadToken, host, slots, channel
<1> QED
  BY <1>1, <1>2

LEMMA FailStepType ==
    ASSUME TypeOK, NEW kind \in FailureKinds, FailStep(kind)
    PROVE  TypeOK'
<1>1. Fail(kind)
  BY DEF FailStep
<1> QED
  BY <1>1, FailType DEF FailStep, TypeOK, slots, channel

LEMMA DriveType ==
    ASSUME TypeOK, Drive
    PROVE  TypeOK'
<1>1. CASE Begin
  <2>1. HandOver
    BY <1>1 DEF Begin
  <2> QED
    BY <1>1, <2>1, HandOverType DEF Begin, TypeOK, host
<1>2. CASE BeginStopped
  BY <1>2, ConcludeType DEF BeginStopped, TypeOK, host, slots, channel
<1>3. CASE TurnIdle
  BY <1>3, ConcludeType DEF TurnIdle, TypeOK, host, slots, channel
<1>4. CASE TurnWaits
  BY <1>4 DEF TurnWaits, TypeOK, ReadToken, host, slots, channel
<1>5. CASE TurnGivesUp
  <2>1. AbandonAllLive /\ Conclude
    BY <1>5 DEF TurnGivesUp
  <2> QED
    BY <1>5, <2>1, ConcludeType, AbandonType
    DEF TurnGivesUp, AbandonAllLive, TypeOK, host, channel
<1>6. CASE WakeCancel
  BY <1>6 DEF WakeCancel, TypeOK, ReadToken, host, slots, channel
<1>7. CASE WakeMessage
  <2>1. mailbox \in Seq(Message) /\ mailbox # <<>>
    BY <1>7 DEF WakeMessage, TypeOK
  <2>2. Head(mailbox) \in Message /\ Tail(mailbox) \in Seq(Message)
    BY <2>1
  <2> QED
    BY <1>7, <2>2 DEF WakeMessage, TypeOK, host, slots, channel
<1>8. CASE Step
  BY <1>8, StepType
<1>9. CASE CheckpointNotBuilt
  <2>1. "CheckpointNotBuilt" \in FailureKinds /\ FailStep("CheckpointNotBuilt")
    BY <1>9 DEF CheckpointNotBuilt, FailureKinds
  <2> QED
    BY <2>1, FailStepType
<1>10. CASE OfferToSink
  BY <1>10 DEF OfferToSink, TypeOK, host, slots, channel
<1>11. CASE NoSink
  BY <1>11, FinishStepType DEF NoSink
<1> QED
  BY <1>1, <1>2, <1>3, <1>4, <1>5, <1>6, <1>7, <1>8, <1>9, <1>10, <1>11 DEF Drive

LEMMA InstanceType ==
    ASSUME TypeOK, ExecutorAssumption, NEW n \in Nodes, Instance(n)
    PROVE  TypeOK'
<1>1. CASE CreationAnswers(n)
  <2>1. PICK r \in {"Instance", "CouldNotStart"} : Post(n, r)
    BY <1>1 DEF CreationAnswers
  <2>2. mailbox' \in Seq(Message)
    BY <2>1, PostType
  <2>3. /\ node' \in [Nodes -> {"Unborn", "Working", "Gone"} \cup Endings]
        /\ inputOpen' \in [Nodes -> BOOLEAN]
    <3>1. /\ node \in [Nodes -> {"Unborn", "Working", "Gone"} \cup Endings]
          /\ inputOpen \in [Nodes -> BOOLEAN]
      BY DEF TypeOK
    <3>2. CASE /\ node' = [node EXCEPT ![n] = "Working"]
               /\ inputOpen' = [inputOpen EXCEPT ![n] = TRUE]
      BY <3>1, <3>2
    <3>3. CASE node' = [node EXCEPT ![n] = "Gone"] /\ UNCHANGED inputOpen
      BY <3>1, <3>3
    <3> QED
      BY <1>1, <3>2, <3>3 DEF CreationAnswers
  <2>4. UNCHANGED <<control, state, slots, accepted, host, due>>
    BY <1>1 DEF CreationAnswers
  <2> QED
    BY <2>2, <2>3, <2>4 DEF TypeOK, control, slots, host
<1>2. CASE ClosesInput(n)
  BY <1>2 DEF ClosesInput, TypeOK, control, slots, host
<1>3. CASE Finishes(n)
  BY <1>3 DEF Finishes, TypeOK, control, slots, host
<1>4. CASE Forwards(n)
  <2>1. node[n] \in Terminals /\ Post(n, node[n])
    BY <1>4 DEF Forwards, ExecutorAssumption
  <2>2. mailbox' \in Seq(Message)
    BY <2>1, PostType
  <2> QED
    BY <1>4, <2>2 DEF Forwards, TypeOK, control, slots, host
<1> QED
  BY <1>1, <1>2, <1>3, <1>4 DEF Instance

LEMMA NextType ==
    ASSUME TypeOK, [Next]_vars
    PROVE  TypeOK'
<1>1. CASE Drive
  BY <1>1, DriveType
<1>2. CASE WakeDeadline
  <2>1. AbandonAllLive /\ Conclude
    BY <1>2 DEF WakeDeadline
  <2> QED
    BY <1>2, <2>1, ConcludeType, AbandonType
    DEF WakeDeadline, AbandonAllLive, TypeOK, host, channel
<1>3. CASE SinkStores
  BY <1>3, CheckpointType DEF SinkStores, TypeOK, control, slots, channel
<1>4. CASE SinkAccepted
  BY <1>4, FinishStepType DEF SinkAccepted
<1>5. CASE SinkRefused
  <2>1. "SinkRefused" \in FailureKinds /\ FailStep("SinkRefused")
    BY <1>5 DEF SinkRefused, FailureKinds
  <2> QED
    BY <2>1, FailStepType
<1>6. CASE HostCancels
  BY <1>6 DEF HostCancels, TypeOK, control, slots, channel
<1>7. CASE \E n \in Nodes : Instance(n)
  BY <1>7, InstanceType, ExecutorAssumption
<1>8. CASE UNCHANGED vars
  BY <1>8 DEF vars, TypeOK, control, slots, channel, host
<1> QED
  BY <1>1, <1>2, <1>3, <1>4, <1>5, <1>6, <1>7, <1>8 DEF Next, SinkAnswers

\* The run keeps its types, whatever the graph.
THEOREM TypeCorrect == Spec => []TypeOK
<1>1. Init => TypeOK
  BY InitType
<1>2. TypeOK /\ [Next]_vars => TypeOK'
  BY NextType
<1> QED
  BY <1>1, <1>2, PTL DEF Spec

-----------------------------------------------------------------------------
\* No named target is lost.  The strengthening: what is due is in the state, so
\* that any state handed over from now on contains it.
DueInv ==
    /\ TypeOK
    /\ NoTargetLost
    /\ \A n \in Nodes : due[n] \subseteq state

LEMMA HandOverDue ==
    ASSUME DueInv, HandOver, UNCHANGED <<state, due>>
    PROVE  NoTargetLost' /\ \A n \in Nodes : due'[n] \subseteq state'
<1> SUFFICES ASSUME NEW n \in Nodes, NEW u \in due[n]
             PROVE  Reaches(n, u)'
  BY DEF NoTargetLost, DueInv
<1>1. u \in state /\ Reaches(n, u)
  BY DEF DueInv, NoTargetLost
<1>2. CASE held[n] /\ live[n] = "Absent"
  BY <1>1, <1>2 DEF DueInv, TypeOK, HandOver, Begins, Takes, Releases, Reaches
<1>3. CASE held[n] /\ live[n] = "Running" /\ inputOpen[n]
  BY <1>1, <1>3 DEF DueInv, TypeOK, HandOver, Begins, Takes, Releases, Reaches
<1>4. CASE /\ ~(held[n] /\ live[n] = "Absent")
           /\ ~(held[n] /\ live[n] = "Running" /\ inputOpen[n])
  BY <1>1, <1>4 DEF DueInv, TypeOK, HandOver, Begins, Takes, Releases, Reaches
<1> QED
  BY <1>2, <1>3, <1>4

LEMMA AbandonDue ==
    ASSUME DueInv, AbandonAllLive, UNCHANGED <<state, due, accepted>>
    PROVE  NoTargetLost' /\ \A n \in Nodes : due'[n] \subseteq state'
  BY DEF DueInv, TypeOK, NoTargetLost, Reaches, AbandonAllLive

\* A slot whose instance is gone for a failure or a cancel is left untaken.
LEMMA UntakenDue ==
    ASSUME DueInv, NEW n \in Nodes, UNCHANGED <<state, due, firstInput, accepted>>,
           live' = [live EXCEPT ![n] = "Absent"],
           untaken' = [untaken EXCEPT ![n] = TRUE],
           \A m \in Nodes : held[m] => held'[m]
    PROVE  NoTargetLost' /\ \A m \in Nodes : due'[m] \subseteq state'
<1> SUFFICES ASSUME NEW m \in Nodes, NEW u \in due[m]
             PROVE  Reaches(m, u)'
  BY DEF NoTargetLost, DueInv
<1>1. Reaches(m, u)
  BY DEF DueInv, NoTargetLost
<1> QED
  BY <1>1 DEF DueInv, TypeOK, Reaches

LEMMA FinishStepDue ==
    ASSUME DueInv, FinishStep
    PROVE  NoTargetLost' /\ \A n \in Nodes : due'[n] \subseteq state'
<1>1. CASE ReadToken = "Running"
  BY <1>1, HandOverDue DEF FinishStep
<1>2. CASE ReadToken # "Running"
  BY <1>2 DEF FinishStep, DueInv, NoTargetLost, Reaches, slots, channel
<1> QED
  BY <1>1, <1>2

LEMMA StepDue ==
    ASSUME DueInv, Step
    PROVE  NoTargetLost' /\ \A n \in Nodes : due'[n] \subseteq state'
<1> DEFINE n == message.node
<1>1. CASE OnCouldNotStart
  <2>1. n \in Nodes
    BY <1>1, TakenType DEF OnCouldNotStart, DueInv
  <2>2. \A m \in Nodes : held[m] => held'[m]
    BY <1>1, <2>1 DEF OnCouldNotStart, DueInv, TypeOK
  <2> QED
    BY <1>1, <2>1, <2>2, UntakenDue DEF OnCouldNotStart, FailNode, channel
<1>2. CASE OnCreated
  <2>1. n \in Nodes /\ live[n] = "Creating"
    BY <1>2, TakenType DEF OnCreated, DueInv, OfCreation
  <2> SUFFICES ASSUME NEW m \in Nodes, NEW u \in due[m]
               PROVE  Reaches(m, u)'
    BY <1>2 DEF NoTargetLost, DueInv, OnCreated
  <2>2. Reaches(m, u) /\ u \in state
    BY DEF DueInv, NoTargetLost
  <2>3. CASE m # n
    BY <1>2, <2>1, <2>2, <2>3 DEF OnCreated, GivesHeld, DueInv, TypeOK, Reaches
  <2>4. CASE m = n
    <3>1. live'[n] = "Running" /\ untaken'[n] = untaken[n]
      BY <1>2, <2>1 DEF OnCreated, DueInv, TypeOK
    <3>2. CASE held'[n]
      BY <2>4, <3>2 DEF Reaches
    <3>3. CASE ~held'[n] /\ ~held[n]
      BY <1>2, <2>1, <2>2, <2>4, <3>1, <3>3 DEF OnCreated, GivesHeld, DueInv, TypeOK, Reaches
    <3>4. CASE ~held'[n] /\ held[n]
      BY <1>2, <2>1, <2>2, <2>4, <3>1, <3>4 DEF OnCreated, GivesHeld, DueInv, TypeOK, Reaches
    <3> QED
      BY <3>2, <3>3, <3>4
  <2> QED
    BY <2>3, <2>4
<1>3. CASE OnFailed
  <2>1. n \in Nodes
    BY <1>3, TakenType DEF OnFailed, DueInv
  <2> QED
    BY <1>3, <2>1, UntakenDue DEF OnFailed, FailNode, channel
<1>4. CASE OnCancelled
  <2>1. n \in Nodes
    BY <1>4, TakenType DEF OnCancelled, DueInv
  <2> QED
    BY <1>4, <2>1, UntakenDue DEF OnCancelled, channel
<1>5. CASE OnResultUndone
  <2>1. n \in Nodes
    BY <1>5, TakenType DEF OnResultUndone, DueInv
  <2> QED
    BY <1>5, <2>1, UntakenDue DEF OnResultUndone, FailNode, channel
<1>6. CASE OnResult
  <2>1. n \in Nodes /\ live[n] = "Running"
    BY <1>6, TakenType DEF OnResult, DueInv, OfInstance
  <2>2. PICK T \in Targets(n) :
          /\ held' = [m \in Nodes |-> held[m] \/ m \in T]
          /\ due' = [m \in Nodes |->
                (IF m = n THEN due[m] \ accepted[m] ELSE due[m])
                \cup (IF m \in T THEN {<<n, message.id>>} ELSE {})]
    BY <1>6 DEF OnResult
  <2>3. state' = state \cup {<<n, message.id>>}
    BY <1>6 DEF OnResult
  <2>4. ASSUME NEW m \in Nodes, NEW u \in due'[m]
        PROVE  Reaches(m, u)' /\ u \in state'
    <3>1. live' = [live EXCEPT ![n] = "Absent"]
          /\ UNCHANGED <<untaken, firstInput, accepted>>
      BY <1>6 DEF OnResult, channel
    <3>2. CASE m \in T
      BY <2>2, <2>3, <3>2 DEF Reaches, DueInv
    <3>3. CASE m \notin T
      <4>1. u \in due[m] /\ (m = n => u \notin accepted[m])
        BY <2>2, <3>3
      <4>2. Reaches(m, u) /\ u \in state
        BY <4>1 DEF DueInv, NoTargetLost
      <4>3. held'[m] = held[m] /\ (m # n => live'[m] = live[m])
        BY <2>1, <2>2, <3>1, <3>3 DEF DueInv, TypeOK
      <4> QED
        BY <2>1, <2>3, <3>1, <4>1, <4>2, <4>3 DEF Reaches
    <3> QED
      BY <3>2, <3>3
  <2> QED
    BY <2>4 DEF NoTargetLost
<1> QED
  BY <1>1, <1>2, <1>3, <1>4, <1>5, <1>6 DEF Step

LEMMA DriveDue ==
    ASSUME DueInv, Drive
    PROVE  NoTargetLost' /\ \A n \in Nodes : due'[n] \subseteq state'
<1>1. CASE Begin
  BY <1>1, HandOverDue DEF Begin
<1>2. CASE BeginStopped \/ TurnIdle \/ TurnWaits \/ WakeCancel \/ WakeMessage \/ OfferToSink
  BY <1>2 DEF BeginStopped, TurnIdle, TurnWaits, WakeCancel, WakeMessage, OfferToSink,
              DueInv, NoTargetLost, Reaches, slots, channel
<1>3. CASE TurnGivesUp
  BY <1>3, AbandonDue DEF TurnGivesUp, channel
<1>4. CASE Step
  BY <1>4, StepDue
<1>5. CASE CheckpointNotBuilt
  BY <1>5 DEF CheckpointNotBuilt, FailStep, DueInv, NoTargetLost, Reaches, slots, channel
<1>6. CASE NoSink
  BY <1>6, FinishStepDue DEF NoSink
<1> QED
  BY <1>1, <1>2, <1>3, <1>4, <1>5, <1>6 DEF Drive

LEMMA NextDue ==
    ASSUME DueInv, [Next]_vars
    PROVE  DueInv'
<1>1. TypeOK'
  BY NextType DEF DueInv
<1>2. CASE Drive
  BY <1>1, <1>2, DriveDue DEF DueInv
<1>3. CASE WakeDeadline
  BY <1>1, <1>3, AbandonDue DEF WakeDeadline, channel, DueInv
<1>4. CASE SinkAccepted
  BY <1>1, <1>4, FinishStepDue DEF SinkAccepted, DueInv
<1>5. CASE SinkStores \/ SinkRefused \/ HostCancels
  BY <1>1, <1>5 DEF SinkStores, SinkRefused, FailStep, HostCancels, DueInv, NoTargetLost,
                    Reaches, slots, channel
<1>6. CASE \E n \in Nodes : Instance(n)
  BY <1>1, <1>6 DEF Instance, CreationAnswers, ClosesInput, Finishes, Forwards, DueInv,
                    NoTargetLost, Reaches, slots
<1>7. CASE UNCHANGED vars
  BY <1>1, <1>7 DEF vars, DueInv, NoTargetLost, Reaches, slots, channel
<1> QED
  BY <1>2, <1>3, <1>4, <1>5, <1>6, <1>7 DEF Next, SinkAnswers

LEMMA InitDue == Init => DueInv
<1> SUFFICES ASSUME Init PROVE DueInv
  OBVIOUS
<1>1. TypeOK
  BY InitType
<1>2. PICK N \in Starts :
         /\ held = [n \in Nodes |-> n \in N]
         /\ due = [n \in Nodes |-> IF n \in N THEN {Given} ELSE {}]
  BY DEF Init
<1>3. state = {Given}
  BY DEF Init
<1> QED
  BY <1>1, <1>2, <1>3 DEF DueInv, NoTargetLost, Reaches

\* No target an edge named is lost: until a result that has seen the update is
\* applied, the target is held, untaken, or in front of the node's instance.
THEOREM NoTargetIsLost == Spec => []NoTargetLost
<1>1. Init => DueInv
  BY InitDue
<1>2. DueInv /\ [Next]_vars => DueInv'
  BY NextDue
<1>3. DueInv => NoTargetLost
  BY DEF DueInv
<1> QED
  BY <1>1, <1>2, <1>3, PTL DEF Spec

-----------------------------------------------------------------------------
\* Only a conclusion reaches "done", and nothing moves after it.
LEMMA OnlyConcludeEnds ==
    ASSUME [Next]_vars, pc' = "done"
    PROVE  \/ UNCHANGED vars
           \/ /\ Conclude /\ UNCHANGED <<state, due, token, cause>>
              /\ AllIdle \/ ReadToken # "Running"
<1>1. CASE BeginStopped \/ TurnIdle \/ TurnGivesUp
  BY <1>1 DEF BeginStopped, TurnIdle, TurnGivesUp, GivesUp, host
<1>2. CASE WakeDeadline
  BY <1>2 DEF WakeDeadline, ReadToken, host
<1>3. CASE Begin \/ TurnWaits \/ WakeCancel \/ WakeMessage \/ OfferToSink
  BY <1>3 DEF Begin, HandOver, TurnWaits, WakeCancel, WakeMessage, OfferToSink
<1>4. CASE Step
  BY <1>4 DEF Step, OnCouldNotStart, OnCreated, OnFailed, OnCancelled, OnResultUndone,
              OnResult, FailNode
<1>5. CASE CheckpointNotBuilt \/ NoSink \/ SinkAccepted \/ SinkRefused
  BY <1>5 DEF CheckpointNotBuilt, NoSink, SinkAccepted, SinkRefused, FailStep, FinishStep,
              HandOver
<1>6. CASE SinkStores
  BY <1>6 DEF SinkStores, control
<1>7. CASE HostCancels
  BY <1>7 DEF HostCancels, control
<1>8. CASE \E n \in Nodes : Instance(n)
  BY <1>8 DEF Instance, CreationAnswers, ClosesInput, Finishes, Forwards, control
<1> QED
  BY <1>1, <1>2, <1>3, <1>4, <1>5, <1>6, <1>7, <1>8 DEF Next, Drive, SinkAnswers

LEMMA NextOutcome ==
    ASSUME DueInv, OutcomeOwesNothing, [Next]_vars
    PROVE  OutcomeOwesNothing'
<1>1. CASE pc' # "done"
  BY <1>1 DEF OutcomeOwesNothing
<1>2. CASE UNCHANGED vars
  BY <1>2 DEF vars, control, OutcomeOwesNothing
<1>3. CASE Conclude /\ UNCHANGED <<state, due>>
  <2>1. {n \in Nodes : due[n] # {}} \subseteq NonIdle
    BY DEF DueInv, NoTargetLost, Reaches, NonIdle, Idle
  <2>2. PICK readable \in BOOLEAN :
           /\ outcome' = [kind |-> OutcomeKind(ReadToken, failures),
                          state |-> IF readable THEN state ELSE {},
                          nodes |-> NonIdle, due |-> due]
           /\ failures' = IF readable THEN failures
                          ELSE Append(failures, "CheckpointNotBuilt")
           /\ ~readable => OutcomeKind(ReadToken, failures) # "RunEnded"
    BY <1>3 DEF Conclude
  <2>3. OutcomeKind(ReadToken, failures) = "RunEnded" =>
           NonIdle = {} /\ failures' = <<>>
    BY <2>2 DEF OutcomeKind, NonIdle, AllIdle
  <2>4. /\ outcome'.kind = OutcomeKind(ReadToken, failures)
        /\ outcome'.nodes = NonIdle /\ outcome'.due = due
    BY <2>2
  <2>5. \/ outcome'.state = state'
        \/ outcome'.state = {} /\ failures'[Len(failures')] = "CheckpointNotBuilt"
    <3>1. CASE readable
      BY <1>3, <2>2, <3>1
    <3>2. CASE ~readable
      <4>1. failures \in Seq(FailureKinds)
        BY DEF DueInv, TypeOK
      <4> QED
        BY <2>2, <3>2, <4>1
    <3> QED
      BY <3>1, <3>2
  <2> QED
    BY <1>3, <2>1, <2>3, <2>4, <2>5 DEF OutcomeOwesNothing
<1> QED
  BY <1>1, <1>2, <1>3, OnlyConcludeEnds

\* The outcome names every node that is still due an update, and a run that
\* ended owes nothing and hides no failure.
THEOREM OutcomeIsComplete == Spec => []OutcomeOwesNothing
<1>1. Init => DueInv /\ OutcomeOwesNothing
  BY InitDue DEF Init, OutcomeOwesNothing
<1>2. (DueInv /\ OutcomeOwesNothing) /\ [Next]_vars => (DueInv /\ OutcomeOwesNothing)'
  BY NextDue, NextOutcome
<1> QED
  BY <1>1, <1>2, PTL DEF Spec

-----------------------------------------------------------------------------
\* Who stopped the run.  The strengthening: a stopping run has its token
\* triggered, the cause is recorded exactly then, and only a failure makes the
\* executor the one that stopped it.
StopInv ==
    /\ TypeOK
    /\ StopIsAttributed
    /\ phase # "Running" => token
    /\ token <=> cause # "Nobody"
    /\ cause \in {"Executor", "HostMeanwhile"} => phase # "Running"
    /\ phase = "StoppedByExecutor" => failures # <<>>
    /\ pc # "done" => outcome.kind = "None"

LEMMA FailStop ==
    ASSUME StopInv, NEW kind \in FailureKinds, Fail(kind), outcome' = outcome,
           outcome.kind = "None", TypeOK'
    PROVE  StopInv'
<1>1. failures' # <<>>
  <2>1. failures \in Seq(FailureKinds) /\ failures' = Append(failures, kind)
    BY DEF Fail, StopInv, TypeOK
  <2>2. Len(failures') = Len(failures) + 1 /\ Len(failures) \in Nat
    BY <2>1
  <2> QED
    BY <2>2
<1>2. phase' # "Running" /\ token' = TRUE
  BY DEF Fail, FailPhase, ReadToken
<1>3. /\ phase' = "StoppedByHost" => cause' = "Host"
      /\ phase' = "StoppedByExecutor" => cause' \in {"Executor", "HostMeanwhile"}
      /\ cause' # "Nobody"
  <2>1. CASE phase = "Running" /\ token
    <3>1. cause = "Host"
      BY <2>1 DEF StopInv, StopIsAttributed, TypeOK
    <3> QED
      BY <2>1, <3>1 DEF Fail, FailPhase, ReadToken
  <2>2. CASE phase = "Running" /\ ~token
    BY <2>2 DEF Fail, FailPhase, ReadToken
  <2>3. CASE phase # "Running"
    BY <2>3 DEF Fail, FailPhase, ReadToken, StopInv, StopIsAttributed, TypeOK
  <2> QED
    BY <2>1, <2>2, <2>3
<1> QED
  BY <1>1, <1>2, <1>3 DEF StopInv, StopIsAttributed

LEMMA NextStop ==
    ASSUME StopInv, [Next]_vars
    PROVE  StopInv'
<1>1. TypeOK'
  BY NextType DEF StopInv
<1>2. CASE Conclude /\ UNCHANGED <<token, cause>> /\ (AllIdle \/ ReadToken # "Running")
           /\ pc # "done"
  <2>1. failures # <<>> => failures' # <<>>
    <3>1. failures' = failures \/ failures' = Append(failures, "CheckpointNotBuilt")
      BY <1>2 DEF Conclude
    <3>2. failures \in Seq(FailureKinds)
      BY DEF StopInv, TypeOK
    <3> QED
      BY <3>1, <3>2
  <2>2. failures # <<>> => phase # "Running"
    BY <1>2 DEF StopInv, StopIsAttributed
  <2>3. /\ phase' = ReadToken /\ pc' = "done"
        /\ outcome'.kind = OutcomeKind(ReadToken, failures)
    BY <1>2 DEF Conclude
  <2>4. outcome'.kind = "RunFailed" => phase' = "StoppedByExecutor"
    BY <2>3 DEF OutcomeKind
  <2>5. outcome'.kind = "RunCancelled" => phase' = "StoppedByHost"
    BY <1>2, <2>2, <2>3 DEF OutcomeKind, StopInv, TypeOK, ReadToken
  <2>6. phase' = "StoppedByExecutor" => phase = "StoppedByExecutor" /\ failures # <<>>
    BY <2>3 DEF ReadToken, StopInv
  <2>7. /\ phase' = "StoppedByHost" => cause' = "Host"
        /\ phase' = "StoppedByExecutor" => cause' \in {"Executor", "HostMeanwhile"}
        /\ phase' # "Running" => token'
        /\ token' <=> cause' # "Nobody"
        /\ cause' \in {"Executor", "HostMeanwhile"} => phase' # "Running"
    BY <1>2, <2>3 DEF ReadToken, StopInv, StopIsAttributed, TypeOK
  <2> QED
    BY <1>1, <2>1, <2>3, <2>4, <2>5, <2>6, <2>7 DEF StopInv, StopIsAttributed
<1>3. CASE UNCHANGED vars
  BY <1>1, <1>3 DEF vars, control, host, StopInv, StopIsAttributed
<1>4. ASSUME NEW kind \in FailureKinds, Fail(kind), outcome' = outcome, pc # "done"
      PROVE  StopInv'
  BY <1>1, <1>4, FailStop DEF StopInv
<1>5. ASSUME UNCHANGED <<failures, outcome, token, cause>>, phase' = ReadToken, pc # "done"
      PROVE  StopInv'
  BY <1>1, <1>5 DEF StopInv, StopIsAttributed, ReadToken, TypeOK
<1>6. ASSUME UNCHANGED <<failures, outcome, token, cause, phase>>, pc # "done"
      PROVE  StopInv'
  BY <1>1, <1>6 DEF StopInv, StopIsAttributed, TypeOK
<1>7. CASE Begin \/ NoSink \/ SinkAccepted
  <2>1. CASE ReadToken = "Running"
    <3>1. HandOver
      BY <1>7, <2>1 DEF Begin, NoSink, SinkAccepted, FinishStep
    <3>2. phase' = ReadToken
      BY <2>1, <3>1 DEF HandOver
    <3> QED
      BY <1>5, <1>7, <3>2 DEF Begin, NoSink, SinkAccepted, FinishStep, host
  <2>2. CASE ReadToken # "Running"
    BY <1>5, <1>7, <2>2 DEF Begin, NoSink, SinkAccepted, FinishStep, host
  <2> QED
    BY <2>1, <2>2
<1>8. CASE TurnWaits \/ WakeCancel \/ OnCreated \/ OnCancelled \/ OnResult
  BY <1>5, <1>8 DEF TurnWaits, WakeCancel, OnCreated, OnCancelled, OnResult, Taken, host
<1>9. CASE WakeMessage \/ OfferToSink \/ SinkStores \/ \E n \in Nodes : Instance(n)
  BY <1>6, <1>9 DEF WakeMessage, OfferToSink, SinkStores, Instance, CreationAnswers,
                    ClosesInput, Finishes, Forwards, control, host
<1>10. CASE OnCouldNotStart \/ OnFailed \/ OnResultUndone \/ CheckpointNotBuilt \/ SinkRefused
  <2>1. pc # "done" /\ outcome' = outcome
    BY <1>10 DEF OnCouldNotStart, OnFailed, OnResultUndone, CheckpointNotBuilt, SinkRefused,
                 FailStep, Taken
  <2>2. \E kind \in FailureKinds : Fail(kind)
    BY <1>10 DEF OnCouldNotStart, OnFailed, OnResultUndone, CheckpointNotBuilt, SinkRefused,
                 FailStep, FailNode, FailureKinds
  <2> QED
    BY <1>4, <2>1, <2>2
<1>11. CASE HostCancels
  BY <1>1, <1>11 DEF HostCancels, control, StopInv, StopIsAttributed, TypeOK
<1>12. CASE BeginStopped \/ TurnIdle \/ TurnGivesUp \/ WakeDeadline
  <2>1. pc # "done" /\ pc' = "done"
    BY <1>12 DEF BeginStopped, TurnIdle, TurnGivesUp, WakeDeadline, Conclude
  <2>2. ~UNCHANGED vars
    BY <2>1 DEF vars, control
  <2> QED
    BY <1>2, <2>1, <2>2, OnlyConcludeEnds
<1> QED
  BY <1>3, <1>7, <1>8, <1>9, <1>10, <1>11, <1>12 DEF Next, Drive, Step, SinkAnswers

\* RunFailed is only returned when the executor was first to trigger the token,
\* RunCancelled only when the host was.
THEOREM StopIsLaidToTheFirst == Spec => []StopIsAttributed
<1>1. Init => StopInv
  <2> SUFFICES ASSUME Init PROVE StopInv
    OBVIOUS
  <2>1. TypeOK
    BY InitType
  <2> QED
    BY <2>1 DEF Init, NoOutcome, StopInv, StopIsAttributed
<1>2. StopInv /\ [Next]_vars => StopInv'
  BY NextStop
<1>3. StopInv => StopIsAttributed
  BY DEF StopInv
<1> QED
  BY <1>1, <1>2, <1>3, PTL DEF Spec

-----------------------------------------------------------------------------
\* An instance's update is in the state only once the instance is gone, and no
\* later instance has its id.
FreshInv ==
    /\ DueInv
    /\ \A n \in Nodes : \A i \in Nat :
          <<n, i>> \in state => i <= id[n] /\ (live[n] # "Absent" => i < id[n])

LEMMA NextState ==
    ASSUME TypeOK, [Next]_vars
    PROVE  \/ state' = state
           \/ OnResult
<1>1. CASE Drive
  BY <1>1 DEF Drive, Begin, BeginStopped, TurnIdle, TurnWaits, TurnGivesUp, WakeCancel,
              WakeMessage, Step, OnCouldNotStart, OnCreated, OnFailed, OnCancelled,
              OnResultUndone, CheckpointNotBuilt, FailStep, OfferToSink, NoSink, FinishStep
<1>2. CASE WakeDeadline \/ SinkAnswers \/ HostCancels
  BY <1>2 DEF WakeDeadline, SinkAnswers, SinkStores, SinkAccepted, SinkRefused, FailStep,
              FinishStep, HostCancels
<1>3. CASE \E n \in Nodes : Instance(n)
  BY <1>3 DEF Instance, CreationAnswers, ClosesInput, Finishes, Forwards
<1>4. CASE UNCHANGED vars
  BY <1>4 DEF vars
<1> QED
  BY <1>1, <1>2, <1>3, <1>4 DEF Next

\* How a step moves one slot: a creation takes a new id, and nothing else comes
\* alive or changes an id.
LEMMA NextSlot ==
    ASSUME TypeOK, [Next]_vars, NEW n \in Nodes
    PROVE  \/ id'[n] = id[n] /\ (live'[n] # "Absent" => live[n] # "Absent")
           \/ live[n] = "Absent" /\ id'[n] = id[n] + 1
<1>1. ASSUME HandOver PROVE \/ id'[n] = id[n] /\ (live'[n] # "Absent" => live[n] # "Absent")
                            \/ live[n] = "Absent" /\ id'[n] = id[n] + 1
  BY <1>1 DEF HandOver, Begins, TypeOK
<1>2. CASE Begin \/ NoSink \/ SinkAccepted
  BY <1>1, <1>2 DEF Begin, NoSink, SinkAccepted, FinishStep, slots
<1>3. CASE BeginStopped \/ TurnIdle \/ TurnWaits \/ TurnGivesUp \/ WakeCancel \/ WakeMessage
           \/ CheckpointNotBuilt \/ OfferToSink
  BY <1>3 DEF BeginStopped, TurnIdle, TurnWaits, TurnGivesUp, AbandonAllLive, WakeCancel,
              WakeMessage, CheckpointNotBuilt, FailStep, OfferToSink, slots
<1>4. CASE Step
  <2>1. id' = id
    BY <1>4 DEF Step, OnCouldNotStart, OnCreated, OnFailed, OnCancelled, OnResultUndone,
                OnResult
  <2>2. CASE OnCreated
    BY <2>1, <2>2 DEF OnCreated, OfCreation, TypeOK
  <2>3. CASE ~OnCreated
    <3>1. live' = [live EXCEPT ![message.node] = "Absent"]
      BY <1>4, <2>3 DEF Step, OnCouldNotStart, OnFailed, OnCancelled, OnResultUndone,
                        OnResult, FailNode
    <3> QED
      BY <2>1, <3>1 DEF TypeOK
  <2> QED
    BY <2>2, <2>3
<1>5. CASE WakeDeadline \/ SinkStores \/ SinkRefused \/ HostCancels
  BY <1>5 DEF WakeDeadline, AbandonAllLive, SinkStores, SinkRefused, FailStep, HostCancels,
              slots
<1>6. CASE \E m \in Nodes : Instance(m)
  BY <1>6 DEF Instance, CreationAnswers, ClosesInput, Finishes, Forwards, slots
<1>7. CASE UNCHANGED vars
  BY <1>7 DEF vars, slots
<1> QED
  BY <1>2, <1>3, <1>4, <1>5, <1>6, <1>7 DEF Next, Drive, SinkAnswers

LEMMA OnResultCommits ==
    ASSUME FreshInv, OnResult
    PROVE  LET n == message.node IN
           /\ n \in Nodes /\ live[n] = "Running" /\ live'[n] = "Absent"
           /\ id[n] = message.id /\ id' = id /\ untaken' = untaken
           /\ <<n, id[n]>> \notin state
           /\ state' = state \cup {<<n, id[n]>>}
<1>1. message.node \in Nodes
  BY TakenType DEF OnResult, FreshInv, DueInv
<1>2. id[message.node] \in Nat /\ TypeOK
  BY <1>1 DEF FreshInv, DueInv, TypeOK
<1>3. /\ live[message.node] = "Running" /\ id[message.node] = message.id
      /\ id' = id /\ untaken' = untaken
      /\ live' = [live EXCEPT ![message.node] = "Absent"]
      /\ state' = state \cup {<<message.node, message.id>>}
  BY DEF OnResult, OfInstance
<1>4. live'[message.node] = "Absent"
  BY <1>1, <1>2, <1>3 DEF TypeOK
<1>5. <<message.node, id[message.node]>> \notin state
  BY <1>1, <1>2, <1>3 DEF FreshInv
<1> QED
  BY <1>1, <1>3, <1>4, <1>5

LEMMA NextFresh ==
    ASSUME FreshInv, [Next]_vars
    PROVE  FreshInv'
<1>1. DueInv' /\ TypeOK
  BY NextDue DEF FreshInv, DueInv
<1> SUFFICES ASSUME NEW n \in Nodes, NEW i \in Nat, <<n, i>> \in state'
             PROVE  i <= id'[n] /\ (live'[n] # "Absent" => i < id'[n])
  BY <1>1 DEF FreshInv
<1>2. id[n] \in Nat
  BY <1>1 DEF TypeOK
<1>3. CASE <<n, i>> \in state
  <2>1. i <= id[n] /\ (live[n] # "Absent" => i < id[n])
    BY <1>3 DEF FreshInv
  <2> QED
    BY <1>1, <1>2, <2>1, NextSlot
<1>4. CASE <<n, i>> \notin state
  <2>1. OnResult
    BY <1>1, <1>4, NextState
  <2> QED
    BY <1>2, <1>4, <2>1, OnResultCommits
<1> QED
  BY <1>3, <1>4

LEMMA InitFresh == Init => FreshInv
<1> SUFFICES ASSUME Init PROVE FreshInv
  OBVIOUS
<1>1. state = {Given} /\ Given \notin Nodes \X Nat
  BY ExecutorAssumption DEF Init
<1> QED
  BY <1>1, InitDue DEF FreshInv

\* Every update of the state was committed by the one result of one instance.
THEOREM UpdatesAppliedOnce == Spec => AppliedOnce
<1>1. FreshInv /\ [Next]_vars =>
         [state' # state =>
              \E n \in Nodes : /\ <<n, id[n]>> \notin state
                               /\ state' = state \cup {<<n, id[n]>>}
                               /\ live[n] = "Running" /\ live'[n] = "Absent"
                               /\ untaken' = untaken]_vars
  BY NextState, OnResultCommits DEF FreshInv, DueInv
<1>2. FreshInv /\ [Next]_vars => FreshInv'
  BY NextFresh
<1> QED
  BY <1>1, <1>2, InitFresh, PTL DEF Spec, AppliedOnce

-----------------------------------------------------------------------------
\* What the sink stored is a past state, so a later update is not in it.
StoredInv == FreshInv /\ StoredCoversDue /\ stored.state \subseteq state

LEMMA NextDueGrows ==
    ASSUME TypeOK, [Next]_vars, NEW n \in Nodes
    PROVE  \/ due'[n] \subseteq due[n]
           \/ OnResult /\ due'[n] \subseteq due[n] \cup {<<message.node, message.id>>}
<1>1. CASE OnResult
  BY <1>1 DEF OnResult, TypeOK
<1>2. CASE ~OnResult
  <2>1. CASE Drive
    BY <1>2, <2>1 DEF Drive, Begin, BeginStopped, TurnIdle, TurnWaits, TurnGivesUp,
         WakeCancel, WakeMessage, Step, OnCouldNotStart, OnCreated, OnFailed, OnCancelled,
         OnResultUndone, CheckpointNotBuilt, FailStep, OfferToSink, NoSink, FinishStep
  <2>2. CASE WakeDeadline \/ SinkAnswers \/ HostCancels
    BY <2>2 DEF WakeDeadline, SinkAnswers, SinkStores, SinkAccepted, SinkRefused, FailStep,
                FinishStep, HostCancels
  <2>3. CASE \E m \in Nodes : Instance(m)
    BY <2>3 DEF Instance, CreationAnswers, ClosesInput, Finishes, Forwards
  <2>4. CASE UNCHANGED vars
    BY <2>4 DEF vars
  <2> QED
    BY <2>1, <2>2, <2>3, <2>4 DEF Next
<1> QED
  BY <1>1, <1>2

LEMMA NextStored ==
    ASSUME TypeOK, [Next]_vars
    PROVE  stored' = stored \/ (SinkStores /\ UNCHANGED <<state, due, slots>>)
<1>1. CASE Drive
  BY <1>1 DEF Drive, Begin, BeginStopped, TurnIdle, TurnWaits, TurnGivesUp,
       WakeCancel, WakeMessage, Step, OnCouldNotStart, OnCreated, OnFailed, OnCancelled,
       OnResultUndone, OnResult, CheckpointNotBuilt, FailStep, OfferToSink, NoSink,
       FinishStep, host
<1>2. CASE WakeDeadline \/ SinkAnswers \/ HostCancels
  BY <1>2 DEF WakeDeadline, SinkAnswers, SinkStores, SinkAccepted, SinkRefused, FailStep,
              FinishStep, HostCancels, host
<1>3. CASE \E m \in Nodes : Instance(m)
  BY <1>3 DEF Instance, CreationAnswers, ClosesInput, Finishes, Forwards, host
<1>4. CASE UNCHANGED vars
  BY <1>4 DEF vars, host
<1> QED
  BY <1>1, <1>2, <1>3, <1>4 DEF Next

\* A checkpoint the sink stored names every node still due an update it holds.
THEOREM StoredCheckpointIsComplete == Spec => []StoredCoversDue
<1>1. Init => StoredInv
  <2> SUFFICES ASSUME Init PROVE StoredInv
    OBVIOUS
  <2>1. stored.state = {}
    BY DEF Init, NoCheckpoint
  <2> QED
    BY <2>1, InitFresh DEF StoredInv, StoredCoversDue
<1>2. StoredInv /\ [Next]_vars => StoredInv'
  <2> SUFFICES ASSUME StoredInv, [Next]_vars PROVE StoredInv'
    OBVIOUS
  <2>1. FreshInv' /\ FreshInv /\ DueInv /\ TypeOK
    BY NextFresh DEF StoredInv, FreshInv, DueInv
  <2>2. CASE SinkStores /\ UNCHANGED <<state, due, slots>>
    <3>1. \A n \in Nodes : due[n] # {} => n \in NonIdle
      BY <2>1 DEF DueInv, NoTargetLost, Reaches, NonIdle, Idle
    <3>2. stored'.state = state /\ stored'.nodes = NonIdle
      BY <2>2 DEF SinkStores, CurrentCheckpoint
    <3> QED
      BY <2>1, <2>2, <3>1, <3>2 DEF StoredInv, StoredCoversDue
  <2>3. CASE stored' = stored
    <3>1. state \subseteq state'
      BY <2>1, NextState, OnResultCommits
    <3>2. ASSUME NEW n \in Nodes, NEW u \in due'[n], u \in stored.state
          PROVE  u \in due[n]
      <4>1. CASE due'[n] \subseteq due[n]
        BY <3>2, <4>1
      <4>2. CASE OnResult /\ due'[n] \subseteq due[n] \cup {<<message.node, message.id>>}
        BY <2>1, <3>2, <4>2, OnResultCommits DEF StoredInv
      <4> QED
        BY <2>1, <4>1, <4>2, NextDueGrows
    <3> QED
      BY <2>1, <2>3, <3>1, <3>2 DEF StoredInv, StoredCoversDue
  <2> QED
    BY <2>1, <2>2, <2>3, NextStored
<1>3. StoredInv => StoredCoversDue
  BY DEF StoredInv
<1> QED
  BY <1>1, <1>2, <1>3, PTL DEF Spec

\* Nothing named is lost by the run or by its stored checkpoint.
THEOREM NothingOwedIsLost == Spec => []NothingOwedLost
  BY NoTargetIsLost, StoredCheckpointIsComplete, PTL DEF NothingOwedLost

\* The outcome of start and resume is complete and laid to who stopped the run.
THEOREM OutcomeTellsTheTruth == Spec => []OutcomeIsTrue
  BY OutcomeIsComplete, StopIsLaidToTheFirst, PTL DEF OutcomeIsTrue

-----------------------------------------------------------------------------
\* The run implements its contract.  Every step but a result and a conclusion
\* leaves the contract's variables alone.
ContractInv == FreshInv /\ (pc # "done" => outcome.kind = "None")

LEMMA OnlyResultsAndEnds ==
    ASSUME [Next]_vars
    PROVE  \/ UNCHANGED <<state, due, outcome>>
           \/ pc # "done" /\ OnResult
           \/ pc # "done" /\ pc' = "done" /\ Conclude /\ UNCHANGED <<state, due>>
<1>1. CASE BeginStopped \/ TurnIdle \/ TurnGivesUp \/ WakeDeadline
  BY <1>1 DEF BeginStopped, TurnIdle, TurnGivesUp, WakeDeadline, Conclude
<1>2. CASE Begin \/ TurnWaits \/ WakeCancel \/ WakeMessage \/ OfferToSink \/ NoSink
  BY <1>2 DEF Begin, TurnWaits, WakeCancel, WakeMessage, OfferToSink, NoSink, FinishStep
<1>3. CASE Step
  BY <1>3 DEF Step, OnCouldNotStart, OnCreated, OnFailed, OnCancelled, OnResultUndone,
              OnResult, Taken
<1>4. CASE CheckpointNotBuilt \/ SinkAnswers \/ HostCancels
  BY <1>4 DEF CheckpointNotBuilt, SinkAnswers, SinkStores, SinkAccepted, SinkRefused,
              FailStep, FinishStep, HostCancels, control
<1>5. CASE \E n \in Nodes : Instance(n)
  BY <1>5 DEF Instance, CreationAnswers, ClosesInput, Finishes, Forwards, control
<1>6. CASE UNCHANGED vars
  BY <1>6 DEF vars, control
<1> QED
  BY <1>1, <1>2, <1>3, <1>4, <1>5, <1>6 DEF Next, Drive

LEMMA CommitWitness ==
    ASSUME outcome.kind = "None", outcome' = outcome,
           NEW u \in state' \ state, NEW n \in Nodes, NEW T \in SUBSET Nodes,
           NEW paid \in SUBSET due[n],
           state' = state \cup {u},
           due' = [m \in Nodes |-> (IF m = n THEN due[m] \ paid ELSE due[m])
                                   \cup (IF m \in T THEN {u} ELSE {})]
    PROVE  Contract!Commit
<1>1. \E v \in state' \ state, k \in Nodes, S \in SUBSET Nodes :
      \E p \in SUBSET due[k] :
         /\ state' = state \cup {v}
         /\ due' = [m \in Nodes |-> (IF m = k THEN due[m] \ p ELSE due[m])
                                   \cup (IF m \in S THEN {v} ELSE {})]
  <2> WITNESS u \in state' \ state, n \in Nodes, T \in SUBSET Nodes
  <2> WITNESS paid \in SUBSET due[n]
  <2> QED
    OBVIOUS
<1> QED
  BY <1>1 DEF Contract!Commit

LEMMA OnResultPays ==
    ASSUME ContractInv, OnResult, outcome.kind = "None"
    PROVE  Contract!Commit
<1> DEFINE n == message.node
           u == <<n, id[n]>>
<1>1. /\ n \in Nodes /\ id[n] = message.id /\ u \notin state /\ state' = state \cup {u}
  BY OnResultCommits DEF ContractInv
<1>2. PICK T \in Targets(n) :
         due' = [m \in Nodes |-> (IF m = n THEN due[m] \ accepted[m] ELSE due[m])
                                 \cup (IF m \in T THEN {<<n, message.id>>} ELSE {})]
  BY DEF OnResult
<1> DEFINE S == T \cap Nodes
           paid == due[n] \cap accepted[n]
<1>3. u \in state' \ state /\ S \in SUBSET Nodes /\ paid \in SUBSET due[n] /\ n \in Nodes
  BY <1>1
<1>4. due' = [m \in Nodes |-> (IF m = n THEN due[m] \ paid ELSE due[m])
                               \cup (IF m \in S THEN {u} ELSE {})]
  BY <1>1, <1>2
<1>5. outcome' = outcome
  BY DEF OnResult
<1>6. state' = state \cup {u}
  BY <1>1
<1> HIDE DEF n, u, S, paid
<1> QED
  BY <1>3, <1>4, <1>5, <1>6, CommitWitness

LEMMA ConcludeReturns ==
    ASSUME ContractInv, Conclude, UNCHANGED <<state, due>>, outcome.kind = "None"
    PROVE  Contract!Return
<1>1. Contract!Owing \subseteq NonIdle
  BY DEF ContractInv, FreshInv, DueInv, NoTargetLost, Reaches, NonIdle, Idle, Contract!Owing
<1>2. /\ outcome'.kind = OutcomeKind(ReadToken, failures)
      /\ outcome'.nodes = NonIdle
  BY DEF Conclude
<1>3. outcome'.kind = "RunEnded" => NonIdle = {}
  BY <1>2 DEF OutcomeKind, NonIdle, AllIdle
<1>4. outcome'.kind \in {"RunEnded", "RunFailed", "RunCancelled"}
  BY <1>2 DEF OutcomeKind
<1>5. NonIdle \in SUBSET Nodes
  BY DEF NonIdle
<1> QED
  BY <1>1, <1>2, <1>3, <1>4, <1>5 DEF Contract!Return

\* Every behaviour of the run, its host, its sink and its instances is one the
\* contract of start and resume allows.
THEOREM RunKeepsContract == Spec => KeepsContract
<1>1. Init => ContractInv /\ Contract!InitContract
  <2> SUFFICES ASSUME Init PROVE ContractInv /\ Contract!InitContract
    OBVIOUS
  <2>1. PICK N \in Starts : due = [n \in Nodes |-> IF n \in N THEN {Given} ELSE {}]
    BY DEF Init
  <2>2. /\ state = {Given} /\ outcome.kind = "None" /\ outcome.nodes = {}
        /\ N \in SUBSET Nodes
    BY ExecutorAssumption DEF Init, NoOutcome
  <2>3. Contract!InitContract
    BY <2>1, <2>2 DEF Contract!InitContract
  <2> QED
    BY <2>2, <2>3, InitFresh DEF ContractInv
<1>2. ContractInv /\ [Next]_vars => ContractInv'
  <2> SUFFICES ASSUME ContractInv, [Next]_vars PROVE ContractInv'
    OBVIOUS
  <2>1. FreshInv'
    BY NextFresh DEF ContractInv
  <2>2. CASE pc' = "done"
    BY <2>1, <2>2 DEF ContractInv
  <2>3. CASE pc' # "done"
    <3>1. outcome' = outcome
      BY <2>3, OnlyResultsAndEnds DEF OnResult
    <3>2. CASE pc = "done"
      BY <2>3, <3>2 DEF Next, Drive, Begin, BeginStopped, TurnIdle, TurnWaits, TurnGivesUp,
         WakeCancel, WakeMessage, Step, OnCouldNotStart, OnCreated, OnFailed, OnCancelled,
         OnResultUndone, OnResult, Taken, CheckpointNotBuilt, OfferToSink, NoSink,
         WakeDeadline, SinkAnswers, SinkStores, SinkAccepted, SinkRefused, HostCancels,
         Instance, CreationAnswers, ClosesInput, Finishes, Forwards, vars, control
    <3> QED
      BY <2>1, <3>1, <3>2 DEF ContractInv
  <2> QED
    BY <2>2, <2>3
<1>3. ContractInv /\ [Next]_vars => [Contract!NextContract]_(Contract!contractVars)
  <2> SUFFICES ASSUME ContractInv, [Next]_vars
               PROVE  [Contract!NextContract]_(Contract!contractVars)
    OBVIOUS
  <2>1. CASE UNCHANGED <<state, due, outcome>>
    BY <2>1 DEF Contract!contractVars
  <2>2. CASE pc # "done" /\ OnResult
    BY <2>2, OnResultPays DEF ContractInv, Contract!NextContract
  <2>3. CASE pc # "done" /\ Conclude /\ UNCHANGED <<state, due>>
    BY <2>3, ConcludeReturns DEF ContractInv, Contract!NextContract
  <2> QED
    BY <2>1, <2>2, <2>3, OnlyResultsAndEnds
<1> QED
  BY <1>1, <1>2, <1>3, PTL DEF Spec, KeepsContract, Contract!SpecContract

-----------------------------------------------------------------------------
\* What a run that is stopping still gives.  Only HandOver makes creations or
\* gives the state, and a stopping run does not hand over.
LEMMA StopGivesNothing ==
    ASSUME TypeOK, [Next]_vars, phase # "Running", NEW n \in Nodes
    PROVE  /\ id'[n] = id[n]
           /\ accepted'[n] # accepted[n] =>
                  live[n] = "Creating" /\ accepted'[n] = firstInput[n]
<1>1. ReadToken # "Running"
  BY DEF ReadToken
<1>2. CASE OnCreated
  <2>1. message.node \in Nodes /\ live[message.node] = "Creating"
    BY <1>2, TakenType DEF OnCreated, OfCreation
  <2>2. ~GivesHeld(message.node)
    BY <1>1 DEF GivesHeld
  <2>3. \/ accepted' = accepted
        \/ accepted' = [accepted EXCEPT ![message.node] = firstInput[message.node]]
    BY <1>2, <2>2 DEF OnCreated
  <2>4. id' = id
    BY <1>2 DEF OnCreated
  <2> QED
    BY <2>1, <2>3, <2>4 DEF TypeOK
<1>3. CASE ~OnCreated
  <2> SUFFICES id' = id /\ accepted' = accepted
    OBVIOUS
  <2>1. CASE BeginStopped \/ TurnIdle \/ TurnWaits \/ TurnGivesUp \/ WakeCancel
             \/ WakeMessage \/ CheckpointNotBuilt \/ OfferToSink
    BY <2>1 DEF BeginStopped, TurnIdle, TurnWaits, TurnGivesUp, AbandonAllLive, WakeCancel,
                WakeMessage, CheckpointNotBuilt, FailStep, OfferToSink, slots, channel
  <2>2. CASE Begin \/ NoSink \/ SinkAccepted
    BY <1>1, <2>2 DEF Begin, NoSink, SinkAccepted, FinishStep, slots, channel
  <2>3. CASE Step
    BY <1>3, <2>3 DEF Step, OnCouldNotStart, OnFailed, OnCancelled, OnResultUndone,
                      OnResult, channel
  <2>4. CASE WakeDeadline \/ SinkStores \/ SinkRefused \/ HostCancels
    BY <2>4 DEF WakeDeadline, AbandonAllLive, SinkStores, SinkRefused, FailStep,
                HostCancels, slots, channel
  <2>5. CASE \E m \in Nodes : Instance(m)
    BY <2>5 DEF Instance, CreationAnswers, ClosesInput, Finishes, Forwards, slots
  <2>6. CASE UNCHANGED vars
    BY <2>6 DEF vars, slots, channel
  <2> QED
    BY <2>1, <2>2, <2>3, <2>4, <2>5, <2>6 DEF Next, Drive, SinkAnswers
<1> QED
  BY <1>2, <1>3

\* Once the run is stopping no instance is created, and an instance is given at
\* most the input it was created for.
THEOREM StoppingRunHoldsInputs == Spec => StopHoldsInputs
<1>1. TypeOK /\ [Next]_vars =>
         [phase # "Running" =>
             \A n \in Nodes :
                 /\ id'[n] = id[n]
                 /\ accepted'[n] # accepted[n] =>
                        live[n] = "Creating" /\ accepted'[n] = firstInput[n]]_vars
  BY StopGivesNothing
<1> QED
  BY <1>1, TypeCorrect, PTL DEF Spec, StopHoldsInputs

-----------------------------------------------------------------------------
\* The grace period.  A run at its beginning has no instance, and one without a
\* grace period does not wait once it has seen the stop.
GraceInv ==
    /\ pc = "begin" => \A n \in Nodes : live[n] = "Absent"
    /\ pc = "wait" /\ ZeroGrace => phase = "Running"

LEMMA NextGrace ==
    ASSUME GraceInv, [Next]_vars
    PROVE  GraceInv'
<1>1. CASE TurnWaits
  BY <1>1 DEF TurnWaits, GivesUp, GraceInv
<1>2. CASE UNCHANGED vars
  BY <1>2 DEF vars, control, slots, GraceInv
<1>3. CASE Begin \/ NoSink \/ SinkAccepted
  BY <1>3 DEF Begin, NoSink, SinkAccepted, FinishStep, HandOver, GraceInv
<1>4. CASE BeginStopped \/ TurnIdle \/ TurnGivesUp \/ WakeDeadline
  BY <1>4 DEF BeginStopped, TurnIdle, TurnGivesUp, WakeDeadline, Conclude, GraceInv
<1>5. CASE WakeCancel \/ WakeMessage \/ CheckpointNotBuilt \/ OfferToSink \/ SinkRefused
  BY <1>5 DEF WakeCancel, WakeMessage, CheckpointNotBuilt, OfferToSink, SinkRefused,
              FailStep, GraceInv
<1>6. CASE Step
  BY <1>6 DEF Step, OnCouldNotStart, OnCreated, OnFailed, OnCancelled, OnResultUndone,
              OnResult, FailNode, GraceInv
<1>7. CASE SinkStores \/ HostCancels \/ \E n \in Nodes : Instance(n)
  BY <1>7 DEF SinkStores, HostCancels, Instance, CreationAnswers, ClosesInput, Finishes,
              Forwards, control, slots, GraceInv
<1> QED
  BY <1>1, <1>2, <1>3, <1>4, <1>5, <1>6, <1>7 DEF Next, Drive, SinkAnswers

\* A step that takes a message, and one that concludes.
LEMMA StepKeepsGrace ==
    ASSUME TypeOK, GraceInv, [Next]_vars, <<pc, mailbox>>' # <<pc, mailbox>>
    PROVE  /\ pc' = "done" /\ ~ZeroGrace =>
                  \A i \in DOMAIN mailbox : live[mailbox[i].node] = "Absent"
           /\ pc = "wait" /\ pc' = "step" /\ ZeroGrace => phase = "Running"
<1>1. pc = "wait" /\ pc' = "step" /\ ZeroGrace => phase = "Running"
  BY DEF GraceInv
<1>2. ASSUME pc' = "done", ~ZeroGrace, NEW i \in DOMAIN mailbox
      PROVE  live[mailbox[i].node] = "Absent"
  <2>1. mailbox \in Seq(Message) /\ mailbox[i] \in Message /\ mailbox # <<>>
    BY <1>2 DEF TypeOK
  <2>2. mailbox[i].node \in Nodes
    BY <2>1 DEF Message
  <2>3. CASE BeginStopped
    BY <2>2, <2>3 DEF BeginStopped, GraceInv
  <2>4. CASE TurnIdle
    BY <2>2, <2>4 DEF TurnIdle, AllIdle, Idle
  <2>5. CASE TurnGivesUp
    BY <1>2, <2>2, <2>5 DEF TurnGivesUp, GivesUp, AnyLive
  <2>6. CASE WakeDeadline
    BY <2>1, <2>6 DEF WakeDeadline
  <2>7. CASE Begin \/ TurnWaits \/ WakeCancel \/ WakeMessage \/ OfferToSink
    BY <1>2, <2>7 DEF Begin, HandOver, TurnWaits, WakeCancel, WakeMessage, OfferToSink
  <2>8. CASE Step
    BY <1>2, <2>8 DEF Step, OnCouldNotStart, OnCreated, OnFailed, OnCancelled,
                      OnResultUndone, OnResult, FailNode
  <2>9. CASE CheckpointNotBuilt \/ NoSink \/ SinkAccepted \/ SinkRefused
    BY <1>2, <2>9 DEF CheckpointNotBuilt, NoSink, SinkAccepted, SinkRefused, FailStep,
                      FinishStep, HandOver
  <2>10. CASE SinkStores \/ HostCancels
    BY <2>10 DEF SinkStores, HostCancels, control
  <2>11. CASE \E n \in Nodes : Instance(n)
    BY <1>2, <2>11 DEF Instance, CreationAnswers, ClosesInput, Finishes, Forwards, control
  <2>12. CASE UNCHANGED vars
    BY <2>12 DEF vars, control
  <2> QED
    BY <2>3, <2>4, <2>5, <2>6, <2>7, <2>8, <2>9, <2>10, <2>11, <2>12
    DEF Next, Drive, SinkAnswers
<1> QED
  BY <1>1, <1>2

\* With a grace period a queued result is taken before the run concludes, and
\* without one no message is taken after the stop.
THEOREM GraceIsGiven == Spec => GraceIsKept
<1>1. Init => GraceInv
  BY DEF Init, GraceInv
<1>2. GraceInv /\ [Next]_vars => GraceInv'
  BY NextGrace
<1>3. TypeOK /\ GraceInv /\ [Next]_vars =>
         [/\ pc' = "done" /\ ~ZeroGrace =>
                \A i \in DOMAIN mailbox : live[mailbox[i].node] = "Absent"
          /\ pc = "wait" /\ pc' = "step" /\ ZeroGrace => phase = "Running"]_<<pc, mailbox>>
  BY StepKeepsGrace
<1> QED
  BY <1>1, <1>2, <1>3, TypeCorrect, PTL DEF Spec, GraceIsKept

-----------------------------------------------------------------------------
\* The host's restarts.  A lost run keeps the types of its data, which the next
\* run starts from.
RestOK ==
    /\ phase \in {"Running", "StoppedByHost", "StoppedByExecutor"}
    /\ state \in SUBSET Updates
    /\ live \in [Nodes -> {"Absent", "Creating", "Running"}]
    /\ id \in [Nodes -> Nat]
    /\ firstInput \in [Nodes -> SUBSET Updates]
    /\ held \in [Nodes -> BOOLEAN] /\ untaken \in [Nodes -> BOOLEAN]
    /\ failures \in Seq(FailureKinds)
    /\ mailbox \in Seq(Message)
    /\ message \in Message \cup {NoMessage}
    /\ origin \in [kind : {"Nodes", "Checkpoint"}, nodes : SUBSET Nodes, sink : BOOLEAN]
    /\ outcome \in [kind : {"None", "RunEnded", "RunFailed", "RunCancelled"},
                    state : SUBSET Updates, nodes : SUBSET Nodes,
                    due : [Nodes -> SUBSET Updates]]
    /\ token \in BOOLEAN /\ cause \in {"Nobody", "Host", "Executor", "HostMeanwhile"}
    /\ node \in [Nodes -> {"Unborn", "Working", "Gone"} \cup Endings]
    /\ inputOpen \in [Nodes -> BOOLEAN]
    /\ accepted \in [Nodes -> SUBSET Updates]
    /\ stored \in Checkpoint
    /\ due \in [Nodes -> SUBSET Updates]

\* What a checkpoint owes is in its state, and it names every node it owes to.
\* No instance still to come has an id of its updates.
SoundCheckpoint(c) ==
    /\ \A n \in Nodes : c.due[n] \subseteq c.state
    /\ \A n \in Nodes : c.due[n] # {} => n \in c.nodes
    /\ \A n \in Nodes : \A i \in Nat : <<n, i>> \in c.state => i <= id[n]

\* What holds of the runs, over the host's restarts.
RunsInv ==
    /\ RestOK
    /\ pc \in {"begin", "top", "wait", "step", "checkpoint", "sink", "done", Lost}
    /\ pc # Lost => FreshInv
    /\ pc # "done" => outcome.kind = "None"
    /\ pc = "done" => /\ outcome.due = due
                      /\ outcome.state \in {state, {}}
                      /\ \A n \in Nodes : due[n] # {} => n \in outcome.nodes
                      /\ outcome.kind = "RunEnded" => outcome.nodes = {}

\* What is left of the work since the stored checkpoint: an update answered is in
\* the state, and what is still due of the checkpoint's state the checkpoint owes.
AnswerInv ==
    /\ answered \subseteq Nodes \X Updates \X Updates
    /\ \A w \in answered : w[3] \in state
    /\ SoundCheckpoint(stored)
    /\ stored.state \subseteq state
    /\ \A n \in Nodes : due[n] \cap stored.state \subseteq stored.due[n]
    /\ RollbackIsOwed

HostInv == RunsInv /\ AnswerInv

LEMMA RestIsType ==
    ASSUME pc \in {"begin", "top", "wait", "step", "checkpoint", "sink", "done"}
    PROVE  TypeOK <=> RestOK
  BY DEF TypeOK, RestOK

LEMMA RunsType ==
    ASSUME RunsInv, pc # Lost
    PROVE  TypeOK /\ DueInv /\ FreshInv
  BY DEF RunsInv, FreshInv, DueInv

\* A step of the run keeps its outcome in line with what it owes.
LEMMA RunKeepsRuns ==
    ASSUME RunsInv, pc # Lost, [Next]_vars
    PROVE  RunsInv'
<1>1. FreshInv' /\ TypeOK'
  BY RunsType, NextFresh DEF FreshInv, DueInv
<1>2. RestOK' /\ pc' \in {"begin", "top", "wait", "step", "checkpoint", "sink", "done", Lost}
  BY <1>1 DEF TypeOK, RestOK
<1>3. CASE UNCHANGED vars
  BY <1>1, <1>2, <1>3 DEF vars, control, RunsInv
<1>4. CASE pc' # "done" /\ ~UNCHANGED vars
  <2>1. outcome' = outcome
    BY <1>4, OnlyResultsAndEnds DEF OnResult
  <2>2. pc # "done"
    BY <1>4 DEF Next, Drive, Begin, BeginStopped, TurnIdle, TurnWaits, TurnGivesUp,
       WakeCancel, WakeMessage, Step, OnCouldNotStart, OnCreated, OnFailed, OnCancelled,
       OnResultUndone, OnResult, Taken, CheckpointNotBuilt, OfferToSink, NoSink,
       WakeDeadline, SinkAnswers, SinkStores, SinkAccepted, SinkRefused, HostCancels,
       Instance, CreationAnswers, ClosesInput, Finishes, Forwards, control
  <2> QED
    BY <1>1, <1>2, <1>4, <2>1, <2>2 DEF RunsInv
<1>5. CASE pc' = "done" /\ ~UNCHANGED vars
  <2>1. Conclude /\ UNCHANGED <<state, due>>
    BY <1>5, OnlyConcludeEnds
  <2>2. /\ outcome'.due = due /\ outcome'.state \in {state, {}}
        /\ outcome'.nodes = NonIdle
        /\ outcome'.kind = OutcomeKind(ReadToken, failures)
    BY <2>1 DEF Conclude
  <2>3. \A n \in Nodes : due[n] # {} => n \in NonIdle
    BY RunsType DEF DueInv, NoTargetLost, Reaches, NonIdle, Idle
  <2>4. outcome'.kind = "RunEnded" => outcome'.nodes = {}
    BY <2>2 DEF OutcomeKind, NonIdle, AllIdle
  <2> QED
    BY <1>1, <1>2, <1>5, <2>1, <2>2, <2>3, <2>4 DEF RunsInv
<1> QED
  BY <1>3, <1>4, <1>5

LEMMA LosingKeepsRuns ==
    ASSUME RunsInv, HostLosesRun
    PROVE  RunsInv'
<1>1. /\ live' \in [Nodes -> {"Absent", "Creating", "Running"}]
      /\ mailbox' \in Seq(Message) /\ message' \in Message \cup {NoMessage}
  BY DEF HostLosesRun
<1>2. RestOK'
  BY <1>1 DEF RunsInv, RestOK, HostLosesRun, channel, host
<1> QED
  BY <1>2 DEF RunsInv, HostLosesRun, Lost

\* The next run starts from a sound checkpoint as a first run from its nodes.
LEMMA ResumeKeepsRuns ==
    ASSUME RunsInv, NEW c \in Checkpoint, SoundCheckpoint(c), Resume(c)
    PROVE  RunsInv' /\ GraceInv'
<1>1. c.state \in SUBSET Updates /\ c.nodes \in SUBSET Nodes /\ c.due \in [Nodes -> SUBSET Updates]
  BY DEF Checkpoint
<1>2. /\ pc' = "begin" /\ outcome' = NoOutcome /\ state' = c.state /\ due' = c.due
      /\ id' = id /\ live' = [n \in Nodes |-> "Absent"]
      /\ held' = [n \in Nodes |-> n \in c.nodes]
      /\ UNCHANGED <<firstInput, channel, stored>>
  BY DEF Resume
<1>3. outcome' \in [kind : {"None", "RunEnded", "RunFailed", "RunCancelled"},
                    state : SUBSET Updates, nodes : SUBSET Nodes,
                    due : [Nodes -> SUBSET Updates]]
  BY <1>2 DEF NoOutcome
<1>4. origin' \in [kind : {"Nodes", "Checkpoint"}, nodes : SUBSET Nodes, sink : BOOLEAN]
  BY <1>1 DEF Resume, RunsInv, RestOK
<1>5. /\ failures' \in Seq(FailureKinds) /\ mailbox' \in Seq(Message)
      /\ message' \in Message \cup {NoMessage} /\ phase' = "Running"
      /\ token' = FALSE /\ cause' = "Nobody" /\ untaken' \in [Nodes -> BOOLEAN]
  BY DEF Resume
<1>6. live' \in [Nodes -> {"Absent", "Creating", "Running"}] /\ held' \in [Nodes -> BOOLEAN]
  BY <1>2
<1>7. RestOK'
  BY <1>1, <1>2, <1>3, <1>4, <1>5, <1>6 DEF RunsInv, RestOK, channel
<1>8. TypeOK'
  BY <1>2, <1>7 DEF TypeOK, RestOK
<1>9. DueInv'
  BY <1>1, <1>2, <1>8 DEF DueInv, NoTargetLost, Reaches, SoundCheckpoint
<1>10. FreshInv'
  BY <1>2, <1>9 DEF FreshInv, SoundCheckpoint
<1>11. outcome'.kind = "None"
  BY <1>2 DEF NoOutcome
<1> QED
  BY <1>2, <1>7, <1>10, <1>11 DEF RunsInv, GraceInv

\* What a run that returned hands to its host is a sound checkpoint.
LEMMA OutcomeIsSound ==
    ASSUME RunsInv, pc = "done", outcome.state # {}
    PROVE  LET c == [state |-> outcome.state, nodes |-> outcome.nodes, due |-> outcome.due]
           IN  /\ c \in Checkpoint /\ SoundCheckpoint(c)
               /\ c.state = state /\ c.due = due
<1>1. outcome.state = state /\ outcome.due = due
  BY DEF RunsInv
<1>2. FreshInv /\ DueInv
  BY RunsType DEF Lost
<1>3. /\ outcome.state \in SUBSET Updates /\ outcome.nodes \in SUBSET Nodes
      /\ outcome.due \in [Nodes -> SUBSET Updates]
  BY DEF RunsInv, RestOK
<1>4. \A n \in Nodes : \A i \in Nat : <<n, i>> \in state => i <= id[n]
  BY <1>2 DEF FreshInv
<1>5. \A n \in Nodes : due[n] # {} => n \in outcome.nodes
  BY DEF RunsInv
<1> QED
  BY <1>1, <1>2, <1>3, <1>4, <1>5 DEF SoundCheckpoint, Checkpoint, DueInv

\* A step of a run keeps what the checkpoint stored owes: an answer is an update
\* of its own, and pays only what is due.
LEMMA RunKeepsAnswers ==
    ASSUME HostInv, RunStep
    PROVE  AnswerInv'
<1>1. /\ RunsInv /\ pc # Lost /\ TypeOK /\ FreshInv /\ DueInv /\ [Next]_vars /\ TypeOK'
  <2>1. RunsInv /\ pc # Lost /\ [Next]_vars
    BY DEF HostInv, RunStep
  <2> QED
    BY <2>1, RunsType, NextType
<1>2. AnswerInv
  BY DEF HostInv
<1>3. \A n \in Nodes : id[n] \in Nat /\ id'[n] \in Nat /\ id[n] <= id'[n]
  <2> SUFFICES ASSUME NEW n \in Nodes
               PROVE  id[n] \in Nat /\ id'[n] \in Nat /\ id[n] <= id'[n]
    OBVIOUS
  <2>1. id[n] \in Nat /\ id'[n] \in Nat
    BY <1>1 DEF TypeOK
  <2> QED
    BY <1>1, <2>1, NextSlot
<1>4. CASE state' = state
  <2>1. answered' = answered
    BY <1>4 DEF RunStep
  <2>2. ~OnResult
    BY <1>1, <1>4, OnResultCommits
  <2>3. \A n \in Nodes : due'[n] \subseteq due[n]
    BY <1>1, <2>2, NextDueGrows
  <2>4. CASE stored' = stored
    <3>1. SoundCheckpoint(stored)'
      <4> SUFFICES ASSUME NEW n \in Nodes, NEW i \in Nat, <<n, i>> \in stored.state
                   PROVE  i <= id'[n]
        BY <1>2, <2>4 DEF AnswerInv, SoundCheckpoint
      <4>1. i <= id[n]
        BY <1>2 DEF AnswerInv, SoundCheckpoint
      <4> QED
        BY <1>3, <4>1
    <3>2. RollbackIsOwed'
      BY <1>2, <2>1, <2>4 DEF AnswerInv, RollbackIsOwed
    <3>3. \A n \in Nodes : due'[n] \cap stored'.state \subseteq stored'.due[n]
      BY <1>2, <2>3, <2>4 DEF AnswerInv
    <3> QED
      BY <1>2, <1>4, <2>1, <2>4, <3>1, <3>2, <3>3 DEF AnswerInv
  <2>5. CASE SinkStores /\ UNCHANGED <<state, due, slots>>
    <3>1. /\ stored'.state = state /\ stored'.due = due /\ stored'.nodes = NonIdle
          /\ id' = id /\ due' = due
      BY <2>5 DEF SinkStores, CurrentCheckpoint, slots
    <3>2. \A n \in Nodes : due[n] # {} => n \in NonIdle
      BY <1>1 DEF DueInv, NoTargetLost, Reaches, NonIdle, Idle
    <3>3. SoundCheckpoint(stored)'
      BY <1>1, <3>1, <3>2 DEF SoundCheckpoint, DueInv, FreshInv
    <3>4. RollbackIsOwed'
      BY <1>2, <2>1, <3>1 DEF AnswerInv, RollbackIsOwed
    <3> QED
      BY <1>2, <1>4, <2>1, <3>1, <3>3, <3>4 DEF AnswerInv
  <2> QED
    BY <1>1, <2>4, <2>5, NextStored
<1>5. CASE state' # state
  <2> DEFINE n == message.node
             u == <<n, message.id>>
  <2>1. OnResult
    BY <1>1, <1>5, NextState
  <2>2. /\ n \in Nodes /\ message.id = id[n] /\ u \notin state /\ state' = state \cup {u}
        /\ id' = id
    BY <1>1, <2>1, OnResultCommits
  <2>3. u \in Updates
    BY <1>1, <2>2 DEF Updates, TypeOK
  <2>4. stored' = stored
    BY <1>1, <1>5, NextStored
  <2>5. answered' = answered \cup Answers
    BY <1>5 DEF RunStep
  <2>6. \A w \in Answers : w \in Nodes \X Updates \X Updates /\ w[1] = n /\ w[2] \in due[n]
                           /\ w[3] = u
    BY <1>1, <2>2, <2>3 DEF Answers, TypeOK
  <2>7. \A m \in Nodes : due'[m] \subseteq due[m] \cup {u}
    BY <1>1, <2>1, NextDueGrows
  <2>8. u \notin stored.state
    BY <1>2, <2>2 DEF AnswerInv
  <2>9. \A m \in Nodes : due'[m] \cap stored'.state \subseteq stored'.due[m]
    BY <1>2, <2>4, <2>7, <2>8 DEF AnswerInv
  <2>10. RollbackIsOwed'
    <3> SUFFICES ASSUME stored # NoCheckpoint, NEW w \in answered', w[2] \in stored.state,
                        w[3] \notin stored.state
                 PROVE  w[1] \in stored.nodes /\ w[2] \in stored.due[w[1]]
      BY <2>4 DEF RollbackIsOwed
    <3>1. CASE w \in answered
      BY <1>2, <3>1 DEF AnswerInv, RollbackIsOwed
    <3>2. CASE w \in Answers
      <4>1. w[2] \in stored.due[n] /\ w[1] = n
        BY <1>2, <2>2, <2>6, <3>2 DEF AnswerInv
      <4> QED
        BY <1>2, <2>2, <4>1 DEF AnswerInv, SoundCheckpoint
    <3> QED
      BY <2>5, <3>1, <3>2
  <2>11. answered' \subseteq Nodes \X Updates \X Updates /\ \A w \in answered' : w[3] \in state'
    BY <1>2, <2>2, <2>5, <2>6 DEF AnswerInv
  <2>12. SoundCheckpoint(stored)'
    BY <1>2, <2>2, <2>4 DEF AnswerInv, SoundCheckpoint
  <2>13. stored'.state \subseteq state'
    BY <1>2, <2>2, <2>4 DEF AnswerInv
  <2> QED
    BY <2>9, <2>10, <2>11, <2>12, <2>13 DEF AnswerInv
<1> QED
  BY <1>4, <1>5

\* The checkpoint resumed is the stored one, or a later state that owes what the
\* stored one does.
LEMMA ResumeKeepsAnswers ==
    ASSUME AnswerInv, NEW c \in Checkpoint, Resume(c), stored.state \subseteq c.state,
           \A n \in Nodes : c.due[n] \cap stored.state \subseteq stored.due[n]
    PROVE  AnswerInv'
<1>1. /\ state' = c.state /\ due' = c.due /\ id' = id /\ stored' = stored
      /\ answered' = {w \in answered : w[3] \in c.state}
  BY DEF Resume
<1>2. SoundCheckpoint(stored)'
  BY <1>1 DEF AnswerInv, SoundCheckpoint
<1>3. RollbackIsOwed'
  BY <1>1 DEF AnswerInv, RollbackIsOwed
<1> QED
  BY <1>1, <1>2, <1>3 DEF AnswerInv

LEMMA HostNext ==
    ASSUME HostInv, GraceInv, [NextHost]_hostVars
    PROVE  HostInv' /\ GraceInv'
<1>1. CASE RunStep
  <2>1. RunsInv /\ pc # Lost /\ [Next]_vars
    BY <1>1 DEF HostInv, RunStep
  <2> QED
    BY <1>1, <2>1, RunKeepsRuns, RunKeepsAnswers, NextGrace DEF HostInv
<1>2. CASE HostLosesRun
  <2>1. UNCHANGED <<state, due, id, stored, answered>>
    BY <1>2 DEF HostLosesRun, host
  <2>2. AnswerInv'
    BY <2>1 DEF HostInv, AnswerInv, RollbackIsOwed, SoundCheckpoint
  <2>3. GraceInv'
    BY <1>2 DEF HostLosesRun, GraceInv, Lost
  <2> QED
    BY <1>2, <2>2, <2>3, LosingKeepsRuns DEF HostInv
<1>3. CASE ResumeFromOutcome
  <2> DEFINE c == [state |-> outcome.state, nodes |-> outcome.nodes, due |-> outcome.due]
  <2>1. pc = "done" /\ outcome.state # {} /\ Resume(c)
    BY <1>3 DEF ResumeFromOutcome
  <2>2. c \in Checkpoint /\ SoundCheckpoint(c) /\ c.state = state /\ c.due = due
    BY <2>1, OutcomeIsSound DEF HostInv
  <2>3. AnswerInv /\ RunsInv
    BY DEF HostInv
  <2>4. /\ stored.state \subseteq c.state
        /\ \A n \in Nodes : c.due[n] \cap stored.state \subseteq stored.due[n]
    BY <2>2, <2>3 DEF AnswerInv
  <2> HIDE DEF c
  <2> QED
    BY <2>1, <2>2, <2>3, <2>4, ResumeKeepsRuns, ResumeKeepsAnswers DEF HostInv
<1>4. CASE ResumeFromSink
  <2>1. Resume(stored) /\ AnswerInv /\ RunsInv /\ stored \in Checkpoint
    BY <1>4 DEF ResumeFromSink, HostInv, RunsInv, RestOK
  <2>2. SoundCheckpoint(stored)
    BY <2>1 DEF AnswerInv
  <2> QED
    BY <2>1, <2>2, ResumeKeepsRuns, ResumeKeepsAnswers DEF HostInv
<1>5. CASE UNCHANGED hostVars
  <2>1. UNCHANGED vars /\ answered' = answered
    BY <1>5 DEF hostVars
  <2>2. UNCHANGED <<state, due, id, stored>>
    BY <2>1 DEF vars, slots, host
  <2>3. AnswerInv'
    BY <2>1, <2>2 DEF HostInv, AnswerInv, RollbackIsOwed, SoundCheckpoint
  <2>4. RunsInv'
    <3>1. CASE pc = Lost
      BY <2>1, <3>1 DEF HostInv, RunsInv, RestOK, vars, control, slots, channel, host
    <3>2. CASE pc # Lost
      BY <2>1, <3>2, RunKeepsRuns DEF HostInv
    <3> QED
      BY <3>1, <3>2
  <2>5. GraceInv'
    BY <2>1, NextGrace
  <2> QED
    BY <2>3, <2>4, <2>5 DEF HostInv
<1> QED
  BY <1>1, <1>2, <1>3, <1>4, <1>5 DEF NextHost

LEMMA InitHostInv == InitHost => HostInv /\ GraceInv
<1> SUFFICES ASSUME InitHost PROVE HostInv /\ GraceInv
  OBVIOUS
<1>1. Init /\ answered = {}
  BY DEF InitHost
<1>2. FreshInv /\ TypeOK
  BY <1>1, InitFresh DEF FreshInv, DueInv
<1>3. pc = "begin" /\ outcome.kind = "None" /\ stored = NoCheckpoint
      /\ \A n \in Nodes : live[n] = "Absent"
  BY <1>1 DEF Init, NoOutcome
<1>4. RestOK
  BY <1>2 DEF TypeOK, RestOK
<1>5. RunsInv
  BY <1>2, <1>3, <1>4 DEF RunsInv
<1>6. stored.state = {} /\ \A n \in Nodes : stored.due[n] = {}
  BY <1>3 DEF NoCheckpoint
<1>7. SoundCheckpoint(stored)
  BY <1>6 DEF SoundCheckpoint
<1>8. AnswerInv
  BY <1>1, <1>3, <1>6, <1>7 DEF AnswerInv, RollbackIsOwed
<1> QED
  BY <1>3, <1>5, <1>8 DEF HostInv, GraceInv

\* Over every crash and every restart no work is lost: what was answered after
\* the stored checkpoint the checkpoint still owes, and a run the host took up
\* again ends with every update answered by the nodes it was shown to.
THEOREM RestartsLoseNoWork == SpecHost => []NoWorkLostOverRestarts
<1>1. InitHost => HostInv /\ GraceInv
  BY InitHostInv
<1>2. (HostInv /\ GraceInv) /\ [NextHost]_hostVars => (HostInv /\ GraceInv)'
  BY HostNext
<1>3. HostInv => NoWorkLostOverRestarts
  <2> SUFFICES ASSUME HostInv, outcome.kind = "RunEnded" PROVE \A n \in Nodes : due[n] = {}
    BY DEF NoWorkLostOverRestarts, EndsOnlyAnswered, HostInv, AnswerInv
  <2> QED
    BY DEF HostInv, RunsInv
<1> QED
  BY <1>1, <1>2, <1>3, PTL DEF SpecHost

\* Every run of a host that restarts keeps its grace period.
THEOREM GraceIsGivenOverRestarts == SpecHost => GraceIsKept
<1>1. InitHost => HostInv /\ GraceInv
  BY InitHostInv
<1>2. (HostInv /\ GraceInv) /\ [NextHost]_hostVars => (HostInv /\ GraceInv)'
  BY HostNext
<1>3. HostInv /\ GraceInv /\ [NextHost]_hostVars =>
         [/\ pc' = "done" /\ ~ZeroGrace =>
                \A i \in DOMAIN mailbox : live[mailbox[i].node] = "Absent"
          /\ pc = "wait" /\ pc' = "step" /\ ZeroGrace => phase = "Running"]_<<pc, mailbox>>
  <2> SUFFICES ASSUME HostInv, GraceInv, [NextHost]_hostVars,
                      <<pc, mailbox>>' # <<pc, mailbox>>
               PROVE  /\ pc' = "done" /\ ~ZeroGrace =>
                             \A i \in DOMAIN mailbox : live[mailbox[i].node] = "Absent"
                      /\ pc = "wait" /\ pc' = "step" /\ ZeroGrace => phase = "Running"
    OBVIOUS
  <2>1. CASE RunStep
    <3>1. TypeOK /\ [Next]_vars
      BY <2>1, RunsType DEF RunStep, HostInv
    <3> QED
      BY <3>1, StepKeepsGrace
  <2>2. CASE HostLosesRun \/ ResumeFromOutcome \/ ResumeFromSink
    BY <2>2 DEF HostLosesRun, ResumeFromOutcome, ResumeFromSink, Resume, Lost
  <2>3. CASE UNCHANGED hostVars
    BY <2>3 DEF hostVars, vars, control
  <2> QED
    BY <2>1, <2>2, <2>3 DEF NextHost
<1> QED
  BY <1>1, <1>2, <1>3, PTL DEF SpecHost, GraceIsKept
=============================================================================
