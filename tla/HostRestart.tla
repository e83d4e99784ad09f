----------------------------- MODULE HostRestart -----------------------------
(***************************************************************************)
(* A host that runs a graph to its end over several runs of Executor: it    *)
(* may lose a run at any point (a crash, or the future of start dropped)    *)
(* and go on from the checkpoint its sink stored last, or take the          *)
(* checkpoint of a failed or cancelled run; resume starts the next run.     *)
(***************************************************************************)
EXTENDS Executor

CONSTANT MaxRuns    \* bound: runs the host makes of one graph
ASSUME MaxRunsAssumption == MaxRuns \in Nat \ {0}

VARIABLES
    runs,       \* the runs made so far
    answered    \* history: <<node, due update, update that answered it>>

hostVars == <<vars, runs, answered>>

Lost == "lost"  \* the pc of a run whose future was dropped

InitHost == Init /\ runs = 1 /\ answered = {}

\* The update of message.node answers what its instance was shown of what is due.
Answers ==
    {<<message.node, v, <<message.node, message.id>>>> :
        v \in due[message.node] \cap accepted[message.node]}

RunStep ==
    /\ pc # Lost
    /\ Next
    /\ answered' = IF state' # state THEN answered \cup Answers ELSE answered
    /\ runs' = runs

\* Dropping the future drops the live instances and aborts the run's tasks.
HostLosesRun ==
    /\ pc \notin {"done", Lost}
    /\ pc' = Lost
    /\ live' = [n \in Nodes |-> "Absent"]
    /\ mailbox' = <<>>
    /\ message' = NoMessage
    /\ UNCHANGED <<phase, failures, outcome, state, id, firstInput, held, untaken, channel,
                   host, due, runs, answered>>

\* resume.rs: node_names::check refuses a checkpoint that names no node; the
\* rest of the checks compare the checkpoint with a graph that has not changed.
Resume(checkpoint) ==
    /\ checkpoint.nodes # {}
    /\ runs < MaxRuns /\ runs' = runs + 1
    /\ origin' = [kind |-> "Checkpoint", nodes |-> checkpoint.nodes,
                    sink |-> origin.sink]
    /\ state' = checkpoint.state
    /\ due' = checkpoint.due
    /\ answered' = {w \in answered : w[3] \in checkpoint.state}
    /\ pc' = "begin" /\ phase' = "Running"
    /\ live' = [n \in Nodes |-> "Absent"]
    /\ held' = [n \in Nodes |-> n \in checkpoint.nodes]
    /\ untaken' = [n \in Nodes |-> FALSE]
    /\ failures' = <<>> /\ mailbox' = <<>> /\ message' = NoMessage
    /\ outcome' = NoOutcome
    /\ token' = FALSE /\ cause' = "Nobody"
    /\ UNCHANGED <<id, firstInput, channel, stored>>

ResumeFromOutcome ==
    /\ pc = "done" /\ outcome.kind \in {"RunFailed", "RunCancelled"}
    /\ outcome.state # {}  \* else StateRejected
    /\ Resume([state |-> outcome.state, nodes |-> outcome.nodes, due |-> outcome.due])

ResumeFromSink ==
    /\ pc \in {"done", Lost} /\ outcome.kind # "RunEnded"
    /\ stored # NoCheckpoint
    /\ Resume(stored)

NextHost == RunStep \/ HostLosesRun \/ ResumeFromOutcome \/ ResumeFromSink
SpecHost == InitHost /\ [][NextHost]_hostVars

-----------------------------------------------------------------------------
\* A restart loses no work: whatever was answered after the stored checkpoint,
\* for an update the checkpoint holds, the checkpoint still owes; so a run from
\* it answers it again, while what was answered before it is in its state.
RollbackIsOwed ==
    stored # NoCheckpoint =>
        \A w \in answered :
            w[2] \in stored.state /\ w[3] \notin stored.state =>
                w[1] \in stored.nodes /\ w[2] \in stored.due[w[1]]

\* A run the host takes up again ends only with every update of its state
\* answered by the nodes it was shown to, over all its runs.
EndsOnlyAnswered ==
    outcome.kind = "RunEnded" => \A n \in Nodes : due[n] = {}

\* No work is lost over the restarts of a run: neither between a stored checkpoint
\* and what was done after it, nor at the end of the last of the runs.
NoWorkLostOverRestarts == RollbackIsOwed /\ EndsOnlyAnswered
=============================================================================
