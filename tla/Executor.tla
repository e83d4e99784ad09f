------------------------------ MODULE Executor ------------------------------
(***************************************************************************)
(* One run of br-graph-executor (src/crates/br-graph-executor/src/run): a   *)
(* single task that creates node instances, hands the state over to them,   *)
(* applies their results one message at a time, stops on the first failure  *)
(* or on the host's cancel, and concludes with an outcome.                  *)
(*                                                                         *)
(* The state of a run is abstracted to the set of what it is made of: what  *)
(* the host gave (Given) and one <<node, id>> per update applied.  An input *)
(* is the state it carries, so it shows a node the update u iff u is in it. *)
(* An instance id is the number of the creation among those of its node.    *)
(***************************************************************************)
EXTENDS Naturals, Sequences, FiniteSets

CONSTANTS
    Nodes,          \* the nodes of the graph
    Edges,          \* the targets each node's edge declares
    End,            \* Target::End
    Given,          \* the state the run starts from, as an element of the state
    MaxInstances,   \* bound: instances created of one node
    Starts,         \* the sets of nodes the host may start from
    Endings,        \* the terminal results an instance can come to
    Sinks,          \* whether RunConfig.sink is Some: the choices of a host
    ZeroGrace       \* RunConfig.grace is zero

Terminals == {"Result", "Failed", "Refused", "Cancelled", "Vanished"}

ASSUME ExecutorAssumption ==
    /\ Edges \in [Nodes -> SUBSET (Nodes \cup {End})]
    /\ End \notin Nodes /\ Given \notin Nodes \X Nat
    /\ MaxInstances \in Nat
    /\ Starts \subseteq (SUBSET Nodes) \ {{}}
    /\ Endings \subseteq Terminals
    /\ Sinks \subseteq BOOLEAN
    /\ ZeroGrace \in BOOLEAN

Updates == {Given} \cup (Nodes \X Nat)
Message == [node : Nodes, id : Nat,
            result : {"Instance", "CouldNotStart"} \cup Terminals]
Checkpoint == [state : SUBSET Updates, nodes : SUBSET Nodes,
               due : [Nodes -> SUBSET Updates]]

VARIABLES
    pc,         \* where the run task is
    phase,      \* Run.phase, with who triggered the stop
    state,      \* Run.state
    live,       \* NodeSlot.live
    id,         \* the id of the slot's latest instance
    firstInput, \* Live::Creating.first_input
    held,       \* NodeSlot.held
    untaken,    \* NodeSlot.untaken
    failures,   \* Run.failures
    mailbox,    \* the queue behind Run.sender and Run.receiver
    message,    \* the message taken from it, while its step waits to run
    origin,     \* what the run starts from: Nodes or a Checkpoint, and their names,
                \* and whether its configuration has a sink
    outcome,    \* what start or resume returned
    token,      \* the cancel token is triggered
    node,       \* the node side of the slot's instance
    inputOpen,  \* its channel accepts inputs
    accepted,   \* the latest input its channel accepted ({}: none)
    stored,     \* the checkpoint the sink stored last
    due,        \* history: updates whose edge named the node, not yet answered
    cause       \* history: who triggered the token

control == <<pc, phase, failures, message, outcome>>
slots == <<live, id, firstInput, held, untaken>>
channel == <<node, inputOpen, accepted>>
host == <<token, cause, stored, origin>>
vars == <<control, state, slots, mailbox, channel, host, due>>

FailureKinds == {"NodeCouldNotStart", "NodeFailed", "NodeRefusedInput", "NodeVanished",
                 "UpdateRefused", "EdgeFailed", "SinkRefused", "CheckpointNotBuilt"}
NoMessage == [node |-> Given, id |-> 0, result |-> "None"]
NoOutcome == [kind |-> "None", state |-> {}, nodes |-> {}, due |-> [n \in Nodes |-> {}]]
NoCheckpoint == [state |-> {}, nodes |-> {}, due |-> [n \in Nodes |-> {}]]

-----------------------------------------------------------------------------
\* slot.rs and mod.rs: what the run reads of its slots.

Idle(n) == live[n] = "Absent" /\ ~held[n] /\ ~untaken[n]
AllIdle == \A n \in Nodes : Idle(n)
AnyLive == \E n \in Nodes : live[n] # "Absent"
NonIdle == {n \in Nodes : ~Idle(n)}

\* stopping.rs: read_token, and the phase once fail has run.
BugIgnoresToken == phase
ReadToken == IF phase = "Running" /\ token THEN "StoppedByHost" ELSE phase
BugClaimsEveryStop == IF phase = "Running" THEN "StoppedByExecutor" ELSE phase
FailPhase == IF ReadToken = "Running" THEN "StoppedByExecutor" ELSE ReadToken

\* The host may trigger the token after fail has looked at it and before fail
\* triggers it: HostMeanwhile.
Fail(kind) ==
    /\ failures' = Append(failures, kind)
    /\ phase' = FailPhase
    /\ token' = TRUE
    /\ cause' \in IF token THEN {cause} ELSE {"Executor", "HostMeanwhile"}

FailNode(n, kind) ==
    /\ Fail(kind)
    /\ live' = [live EXCEPT ![n] = "Absent"]
    /\ untaken' = [untaken EXCEPT ![n] = TRUE]
    /\ pc' = "top"

BugNamesOnlyHeld == [state |-> state, nodes |-> {n \in Nodes : held[n]}, due |-> due]
CurrentCheckpoint == [state |-> state, nodes |-> NonIdle, due |-> due]

\* conclude.rs: the outcome when the run stops from the phase ph with the
\* failures fs, the slots being as they are (abandoning a live slot leaves it
\* not idle, so the checkpoint names the same nodes before and after).
OutcomeKind(ph, fs) ==
    IF AllIdle /\ fs = <<>> THEN "RunEnded"
    ELSE IF ph = "StoppedByExecutor" THEN "RunFailed" ELSE "RunCancelled"

\* Unless the run ended, a checkpoint is built; if that fails its state is left
\* unreadable ({}).  The checkpoint a resumed run started from is given back as
\* it is.
Conclude ==
    /\ \E readable \in BOOLEAN :
         /\ outcome' = [kind |-> OutcomeKind(ReadToken, failures),
                        state |-> IF readable THEN state ELSE {},
                        nodes |-> NonIdle, due |-> due]
         /\ failures' = IF readable THEN failures
                        ELSE Append(failures, "CheckpointNotBuilt")
         /\ ~readable => /\ OutcomeKind(ReadToken, failures) # "RunEnded"
                         /\ ~(pc = "begin" /\ origin.kind = "Checkpoint")
    /\ phase' = ReadToken
    /\ pc' = "done"

AbandonAllLive ==
    /\ untaken' = [n \in Nodes |-> untaken[n] \/ live[n] # "Absent"]
    /\ live' = [n \in Nodes |-> "Absent"]
    /\ UNCHANGED <<id, firstInput, held>>

\* handover.rs: every held slot, named by the step or not, is offered the
\* current state.  One creation or one give per slot, each on a channel of its
\* own, so their order shows nowhere.
Begins(n) == held[n] /\ live[n] = "Absent"
Takes(n) == held[n] /\ live[n] = "Running" /\ inputOpen[n]
BugReleasesRefused(n) == held[n] /\ live[n] \in {"Absent", "Running"}
Releases(n) == Begins(n) \/ Takes(n)

HandOver ==
    /\ live' = [n \in Nodes |-> IF Begins(n) THEN "Creating" ELSE live[n]]
    /\ id' = [n \in Nodes |-> IF Begins(n) THEN id[n] + 1 ELSE id[n]]
    /\ firstInput' = [n \in Nodes |-> IF Begins(n) THEN state ELSE firstInput[n]]
    /\ node' = [n \in Nodes |-> IF Begins(n) THEN "Unborn" ELSE node[n]]
    /\ inputOpen' = [n \in Nodes |-> inputOpen[n] /\ ~Begins(n)]
    /\ accepted' = [n \in Nodes |-> IF Begins(n) THEN {}
                                    ELSE IF Takes(n) THEN state ELSE accepted[n]]
    /\ held' = [n \in Nodes |-> held[n] /\ ~Releases(n)]
    /\ untaken' = untaken
    /\ phase' = "Running"
    /\ pc' = "top"

-----------------------------------------------------------------------------
\* mod.rs: drive.

\* A token already triggered concludes before anything is handed over.
Begin ==
    /\ pc = "begin" /\ ReadToken = "Running"
    /\ HandOver
    /\ UNCHANGED <<failures, message, outcome, state, mailbox, host, due>>

BeginStopped ==
    /\ pc = "begin" /\ ReadToken # "Running"
    /\ Conclude
    /\ UNCHANGED <<message, state, slots, mailbox, channel, host, due>>

\* The head of the loop.
TurnIdle ==
    /\ pc = "top" /\ AllIdle
    /\ Conclude
    /\ UNCHANGED <<message, state, slots, mailbox, channel, host, due>>

BugWaitsWithoutGrace == ReadToken # "Running" /\ ~AnyLive
GivesUp == ReadToken # "Running" /\ (~AnyLive \/ ZeroGrace)

TurnWaits ==
    /\ pc = "top" /\ ~AllIdle /\ ~GivesUp
    /\ phase' = ReadToken
    /\ pc' = "wait"
    /\ UNCHANGED <<failures, message, outcome, state, slots, mailbox, channel, host, due>>

TurnGivesUp ==
    /\ pc = "top" /\ ~AllIdle /\ GivesUp
    /\ AbandonAllLive
    /\ Conclude
    /\ UNCHANGED <<message, state, mailbox, channel, host, due>>

\* The biased selects: a cancel before a message, a message before the deadline.
WakeCancel ==
    /\ pc = "wait" /\ phase = "Running" /\ token
    /\ phase' = ReadToken
    /\ pc' = "top"
    /\ UNCHANGED <<failures, message, outcome, state, slots, mailbox, channel, host, due>>

WakeMessage ==
    /\ pc = "wait" /\ mailbox # <<>>
    /\ phase = "Running" => ~token
    /\ message' = Head(mailbox)
    /\ mailbox' = Tail(mailbox)
    /\ pc' = "step"
    /\ UNCHANGED <<phase, failures, outcome, state, slots, channel, host, due>>

WakeDeadline ==
    /\ pc = "wait" /\ phase # "Running" /\ mailbox = <<>>
    /\ AbandonAllLive
    /\ Conclude
    /\ UNCHANGED <<message, state, mailbox, channel, host, due>>

-----------------------------------------------------------------------------
\* One message handled: read_token, then on_created or on_ended.

Taken == pc = "step" /\ message' = NoMessage

\* The message is of the slot's current creation, or of its running instance;
\* the code drops any other; an instance is the only one of its slot.
OfCreation == live[message.node] = "Creating" /\ id[message.node] = message.id
OfInstance == live[message.node] = "Running" /\ id[message.node] = message.id

\* created.rs: no instance, or one that carries another id: the input is held.
OnCouldNotStart ==
    /\ Taken /\ message.result = "CouldNotStart" /\ OfCreation
    /\ FailNode(message.node, "NodeCouldNotStart")
    /\ held' = [held EXCEPT ![message.node] = TRUE]
    /\ UNCHANGED <<outcome, state, id, firstInput, mailbox, channel, stored, origin, due>>

\* settle_created: the first input, then the held one if the run goes on.  The
\* instance may close its input before the first, or between the two.
BugGivesHeldAnyway(n) == held[n]
GivesHeld(n) == held[n] /\ ReadToken = "Running"

OnCreated ==
    LET n == message.node
    IN /\ Taken /\ message.result = "Instance" /\ OfCreation
       /\ live' = [live EXCEPT ![n] = "Running"]
       /\ phase' = ReadToken
       /\ pc' = "top"
       /\ \/ /\ ~inputOpen[n]
             /\ held' = [held EXCEPT ![n] = TRUE]
             /\ UNCHANGED <<inputOpen, accepted>>
          \/ /\ inputOpen[n] /\ GivesHeld(n)
             /\ held' = [held EXCEPT ![n] = FALSE]
             /\ accepted' = [accepted EXCEPT ![n] = state]
             /\ UNCHANGED inputOpen
          \/ /\ inputOpen[n]
             /\ accepted' = [accepted EXCEPT ![n] = firstInput[n]]
             /\ IF GivesHeld(n) THEN inputOpen' = [inputOpen EXCEPT ![n] = FALSE]
                          ELSE UNCHANGED inputOpen
             /\ UNCHANGED held
       /\ UNCHANGED <<failures, outcome, state, id, firstInput, untaken, mailbox,
                      node, host, due>>

\* ended.rs: every ending but a Result.
OnFailed ==
    /\ Taken /\ OfInstance
    /\ \/ message.result = "Failed" /\ FailNode(message.node, "NodeFailed")
       \/ message.result = "Refused" /\ FailNode(message.node, "NodeRefusedInput")
       \/ message.result = "Vanished" /\ FailNode(message.node, "NodeVanished")
       \/ message.result = "Cancelled" /\ ~token /\ FailNode(message.node, "NodeFailed")
    /\ UNCHANGED <<outcome, state, id, firstInput, held, mailbox, channel, stored,
                   origin, due>>

OnCancelled ==
    /\ Taken /\ OfInstance /\ message.result = "Cancelled" /\ token
    /\ live' = [live EXCEPT ![message.node] = "Absent"]
    /\ untaken' = [untaken EXCEPT ![message.node] = TRUE]
    /\ phase' = ReadToken
    /\ pc' = "top"
    /\ UNCHANGED <<failures, outcome, state, id, firstInput, held, mailbox, channel,
                   host, due>>

\* result_step.rs: the update is refused or the edge fails; nothing is committed.
OnResultUndone ==
    /\ Taken /\ OfInstance /\ message.result = "Result"
    /\ \E kind \in {"UpdateRefused", "EdgeFailed"} : FailNode(message.node, kind)
    /\ UNCHANGED <<outcome, state, id, firstInput, held, mailbox, channel, stored,
                   origin, due>>

\* What evaluate_edge can answer: declared nodes, or End alone ({} here).  A
\* node is named again only while the bound leaves it an instance.
Targets(n) ==
    {T \in SUBSET (Edges[n] \ {End}) :
        /\ T = {} => End \in Edges[n]
        /\ \A t \in T : id[t] < MaxInstances}

\* The update and the edge are accepted: the state is committed, the targets
\* are held, and the step goes on to its checkpoint unless the run is over or
\* stopping.
BugGoesOnIfNamed(T) == T # {}
GoesOn(T) ==
    T # {} \/ held[message.node] \/ untaken[message.node]
    \/ \E m \in Nodes \ {message.node} : ~Idle(m)

OnResult ==
    LET n == message.node
        u == <<n, message.id>>
    IN /\ Taken /\ OfInstance /\ message.result = "Result"
       /\ \E T \in Targets(n) :
            /\ pc' = IF ReadToken = "Running" /\ GoesOn(T) THEN "checkpoint" ELSE "top"
            /\ held' = [m \in Nodes |-> held[m] \/ m \in T]
            /\ due' = [m \in Nodes |-> (IF m = n THEN due[m] \ accepted[n] ELSE due[m])
                                       \cup (IF m \in T THEN {u} ELSE {})]
       /\ state' = state \cup {u}
       /\ live' = [live EXCEPT ![n] = "Absent"]
       /\ phase' = ReadToken
       /\ UNCHANGED <<failures, outcome, id, firstInput, untaken, mailbox, channel, host>>

-----------------------------------------------------------------------------
\* checkpointing.rs: take_step_checkpoint, then the rest of the result step.

FailStep(kind) ==
    /\ Fail(kind)
    /\ pc' = "top"
    /\ UNCHANGED <<message, outcome, state, slots, mailbox, channel, stored, origin, due>>

CheckpointNotBuilt == pc = "checkpoint" /\ FailStep("CheckpointNotBuilt")

OfferToSink ==
    /\ pc = "checkpoint" /\ origin.sink
    /\ pc' = "sink"
    /\ UNCHANGED <<phase, failures, message, outcome, state, slots, mailbox, channel,
                   host, due>>

\* The step ends with the token read again and, unless it is triggered, the
\* held slots handed over.
FinishStep ==
    /\ IF ReadToken = "Running"
       THEN HandOver
       ELSE phase' = ReadToken /\ pc' = "top" /\ UNCHANGED <<slots, channel>>
    /\ UNCHANGED <<failures, message, outcome, state, mailbox, host, due>>

NoSink == pc = "checkpoint" /\ ~origin.sink /\ FinishStep
SinkAccepted == pc = "sink" /\ stored = CurrentCheckpoint /\ FinishStep
SinkRefused == pc = "sink" /\ FailStep("SinkRefused")

-----------------------------------------------------------------------------
\* Around the run: the sink, the host, and the nodes' instances.

\* The sink may store the checkpoint and then still refuse it or panic.
SinkStores ==
    /\ pc = "sink" /\ stored # CurrentCheckpoint
    /\ stored' = CurrentCheckpoint
    /\ UNCHANGED <<control, state, slots, mailbox, channel, token, cause, origin, due>>

HostCancels ==
    /\ pc # "done" /\ ~token
    /\ token' = TRUE
    /\ cause' = "Host"
    /\ UNCHANGED <<control, state, slots, mailbox, channel, stored, origin, due>>

Post(n, result) ==
    mailbox' = Append(mailbox, [node |-> n, id |-> id[n], result |-> result])

\* instances.rs: the creation task's one message.
CreationAnswers(n) ==
    /\ pc # "done" /\ live[n] = "Creating" /\ node[n] = "Unborn"
    /\ \/ /\ Post(n, "Instance")
          /\ node' = [node EXCEPT ![n] = "Working"]
          /\ inputOpen' = [inputOpen EXCEPT ![n] = TRUE]
       \/ /\ Post(n, "CouldNotStart")
          /\ node' = [node EXCEPT ![n] = "Gone"]
          /\ UNCHANGED inputOpen
    /\ UNCHANGED <<control, state, slots, accepted, host, due>>

\* An instance that closes without an input makes the run hold it again, so the
\* bound asks that another instance can still follow.
MayClose(n) == accepted[n] # {} \/ id[n] < MaxInstances

ClosesInput(n) ==
    /\ pc # "done" /\ live[n] # "Absent" /\ node[n] = "Working" /\ inputOpen[n]
    /\ MayClose(n)
    /\ inputOpen' = [inputOpen EXCEPT ![n] = FALSE]
    /\ UNCHANGED <<control, state, slots, mailbox, node, accepted, host, due>>

Finishes(n) ==
    /\ pc # "done" /\ live[n] # "Absent" /\ node[n] = "Working" /\ MayClose(n)
    /\ \E e \in Endings : node' = [node EXCEPT ![n] = e]
    /\ inputOpen' = [inputOpen EXCEPT ![n] = FALSE]
    /\ UNCHANGED <<control, state, slots, mailbox, accepted, host, due>>

\* The forwarder task of a running slot posts the one event it receives.
Forwards(n) ==
    /\ pc # "done" /\ live[n] = "Running" /\ node[n] \in Endings
    /\ Post(n, node[n])
    /\ node' = [node EXCEPT ![n] = "Gone"]
    /\ UNCHANGED <<control, state, slots, inputOpen, accepted, host, due>>

-----------------------------------------------------------------------------
\* start.rs and resume.rs let through a non-empty set of known nodes; drive
\* holds them first.
Init ==
    /\ \E kind \in {"Nodes", "Checkpoint"}, N \in Starts, sink \in Sinks :
         /\ origin = [kind |-> kind, nodes |-> N, sink |-> sink]
         /\ held = [n \in Nodes |-> n \in N]
         /\ due = [n \in Nodes |-> IF n \in N THEN {Given} ELSE {}]
    /\ pc = "begin" /\ phase = "Running"
    /\ state = {Given}
    /\ live = [n \in Nodes |-> "Absent"]
    /\ id = [n \in Nodes |-> 0]
    /\ firstInput = [n \in Nodes |-> {}]
    /\ untaken = [n \in Nodes |-> FALSE]
    /\ failures = <<>> /\ mailbox = <<>> /\ message = NoMessage
    /\ outcome = NoOutcome
    /\ node = [n \in Nodes |-> "Gone"]
    /\ inputOpen = [n \in Nodes |-> FALSE]
    /\ accepted = [n \in Nodes |-> {}]
    /\ token = FALSE /\ cause = "Nobody" /\ stored = NoCheckpoint

Step == OnCouldNotStart \/ OnCreated \/ OnFailed \/ OnCancelled
        \/ OnResultUndone \/ OnResult
Drive == Begin \/ BeginStopped \/ TurnIdle \/ TurnWaits \/ TurnGivesUp
         \/ WakeCancel \/ WakeMessage \/ Step
         \/ CheckpointNotBuilt \/ OfferToSink \/ NoSink
SinkAnswers == SinkStores \/ SinkAccepted \/ SinkRefused
Instance(n) == CreationAnswers(n) \/ ClosesInput(n) \/ Finishes(n) \/ Forwards(n)

Next ==
    \/ Drive \/ WakeDeadline \/ SinkAnswers \/ HostCancels
    \/ \E n \in Nodes : Instance(n)

\* The run task is scheduled, its timer fires and the sink answers.
Fairness == WF_vars(Drive) /\ WF_vars(WakeDeadline) /\ WF_vars(SinkAnswers)

\* What the nodes may add: every creation answers, every instance ends.
InstanceFairness ==
    \A n \in Nodes : WF_vars(CreationAnswers(n)) /\ WF_vars(Finishes(n) \/ Forwards(n))

Spec == Init /\ [][Next]_vars
FairSpec == Spec /\ Fairness
-----------------------------------------------------------------------------
TypeOK ==
    /\ pc \in {"begin", "top", "wait", "step", "checkpoint", "sink", "done"}
    /\ phase \in {"Running", "StoppedByHost", "StoppedByExecutor"}
    /\ state \in SUBSET Updates
    /\ live \in [Nodes -> {"Absent", "Creating", "Running"}]
    /\ id \in [Nodes -> Nat]
    /\ firstInput \in [Nodes -> SUBSET Updates]
    /\ held \in [Nodes -> BOOLEAN] /\ untaken \in [Nodes -> BOOLEAN]
    /\ failures \in Seq(FailureKinds)
    /\ mailbox \in Seq(Message)
    /\ message \in Message \cup {NoMessage}
    /\ origin \in [kind : {"Nodes", "Checkpoint"}, nodes : SUBSET Nodes, sink : BOOLEAN]
    /\ outcome \in [kind : {"None", "RunEnded", "RunFailed", "RunCancelled"},
                    state : SUBSET Updates, nodes : SUBSET Nodes,
                    due : [Nodes -> SUBSET Updates]]
    /\ token \in BOOLEAN /\ cause \in {"Nobody", "Host", "Executor", "HostMeanwhile"}
    /\ node \in [Nodes -> {"Unborn", "Working", "Gone"} \cup Endings]
    /\ inputOpen \in [Nodes -> BOOLEAN]
    /\ accepted \in [Nodes -> SUBSET Updates]
    /\ stored \in Checkpoint
    /\ due \in [Nodes -> SUBSET Updates]

\* Every update whose edge named a node is on its way to that node until a
\* result of the node that has seen it is applied: the slot is held or untaken,
\* or its instance is given a state that contains the update.  So no named
\* target is lost to coalescing, to a closed input or to a stop.
Reaches(n, u) ==
    \/ held[n] \/ untaken[n]
    \/ live[n] = "Creating" /\ u \in firstInput[n]
    \/ live[n] = "Running" /\ u \in accepted[n]
NoTargetLost == \A n \in Nodes : \A u \in due[n] : Reaches(n, u)

\* What the outcome owes: RunEnded with nothing due and no failure, any other
\* outcome with a checkpoint that names every node still due and holds every
\* update committed, unless the last failure says that it could not be built.
OutcomeOwesNothing ==
    pc = "done" =>
        /\ {n \in Nodes : outcome.due[n] # {}} \subseteq outcome.nodes
        /\ outcome.kind = "RunEnded" => outcome.nodes = {} /\ failures = <<>>
        /\ \/ outcome.state = state
           \/ outcome.state = {} /\ failures[Len(failures)] = "CheckpointNotBuilt"

\* A failure met before the host cancelled gives RunFailed, after it
\* RunCancelled, and neither outcome comes without its stop.
StopIsAttributed ==
    /\ phase = "StoppedByHost" => cause = "Host"
    /\ phase = "StoppedByExecutor" => cause \in {"Executor", "HostMeanwhile"}
    /\ failures # <<>> /\ pc # "done" => phase # "Running"
    /\ outcome.kind = "RunFailed" => phase = "StoppedByExecutor" /\ failures # <<>>
    /\ outcome.kind = "RunCancelled" => phase = "StoppedByHost"

\* The checkpoint the sink stored covers every node still due for an update it
\* contains: a host that lost the run starts again from it without losing one.
StoredCoversDue ==
    \A n \in Nodes : due[n] \cap stored.state # {} => n \in stored.nodes

\* Nothing an edge named is lost, neither by the run nor by a host that goes on
\* from the checkpoint the sink stored.
NothingOwedLost == NoTargetLost /\ StoredCoversDue

\* The outcome tells the truth: of what is still owed, and of who stopped the run.
OutcomeIsTrue == OutcomeOwesNothing /\ StopIsAttributed

\* An update is committed by the one result of the slot's instance, once, and
\* never in a step that is undone (one that leaves its slot untaken).
AppliedOnce ==
    [][state' # state =>
          \E n \in Nodes : /\ <<n, id[n]>> \notin state
                           /\ state' = state \cup {<<n, id[n]>>}
                           /\ live[n] = "Running" /\ live'[n] = "Absent"
                           /\ untaken' = untaken]_vars

\* Once the run is stopping nothing is created, and only an instance created
\* before is given an input: the one it was created for.
StopHoldsInputs ==
    [][phase # "Running" =>
          \A n \in Nodes :
              /\ id'[n] = id[n]
              /\ accepted'[n] # accepted[n] =>
                     live[n] = "Creating" /\ accepted'[n] = firstInput[n]]_vars

\* With a grace period a result queued before the deadline is never dropped;
\* with none, no message is taken once the run has seen the stop.
GraceIsKept ==
    [][/\ pc' = "done" /\ ~ZeroGrace =>
              \A i \in DOMAIN mailbox : live[mailbox[i].node] = "Absent"
       /\ pc = "wait" /\ pc' = "step" /\ ZeroGrace => phase = "Running"]_<<pc, mailbox>>

\* The run keeps the contract of start and resume.
Contract == INSTANCE RunContract
    WITH committed <- state, owed <- due, returned <- outcome.kind,
         resumable <- outcome.nodes
KeepsContract == Contract!SpecContract

\* Once the token is triggered the run returns, whatever its instances do.
CancelReturns == token ~> pc = "done"

\* If its creations answer and its instances end, the run returns.
RunReturns == InstanceFairness => <>(pc = "done")
=============================================================================
