--------------------------------- MODULE Merger ---------------------------------
(***************************************************************************)
(* The merger node of br-flow-nodes (src/crates/br-flow-nodes/src/merger) in  *)
(* the graph around it: lanes whose updates hand the state over to it, the    *)
(* executor that gives it inputs and takes its event, and the node whose      *)
(* update shows the merge in the state, some time after the merger's empty    *)
(* one.  The state is the lanes that arrived and whether it shows the merge;  *)
(* ready is that Needed lanes arrived, spent that the merge is shown.         *)
(***************************************************************************)
EXTENDS Naturals, Sequences, FiniteSets

CONSTANTS
    Lanes,
    Needed,      \* how many of them the ready function asks for
    MaxUpdates   \* bound: updates of lanes

ASSUME MergerAssumption ==
    /\ IsFiniteSet(Lanes) /\ Needed \in 1..Cardinality(Lanes) /\ MaxUpdates \in Nat

VARIABLES
    policy,    \* Merger.late_input
    graph,     \* the state of the run: [lanes, shown]
    updates,   \* counter of the updates of lanes
    showing,   \* the merges whose showing update has not come
    owed,      \* an input the channel refused: the slot is held
    task,      \* where the instance's task is
    inputs,    \* what its channel accepted and it did not read
    answer,    \* the event it is to send, or sent
    cancelled, \* its cancel token is triggered
    endHeld,  \* the other end of the instance is held
    stopped,   \* the run stopped
    fired,     \* history: the inputs that were merged on
    merged     \* history: the lanes the state had when the last Result was applied

mergervars == <<policy, graph, updates, showing, owed, task, inputs, answer, cancelled, endHeld,
                stopped, fired, merged>>
around == <<policy, graph, updates, showing, owed, cancelled, endHeld, stopped, merged>>

MergerInit ==
    /\ policy \in {"Silent", "Fail", "FireAgain"}
    /\ graph = [lanes |-> {}, shown |-> FALSE] /\ updates = 0 /\ showing = 0 /\ owed = FALSE
    /\ task = "absent" /\ inputs = <<>> /\ answer = "none"
    /\ cancelled = FALSE /\ endHeld = TRUE /\ stopped = FALSE
    /\ fired = <<>> /\ merged = {}

-----------------------------------------------------------------------------
\* instance.rs.

IsReady(input) == Cardinality(input.lanes) >= Needed
IsSpent(input) == input.shown

BugSilentAlways(input) == IF ~IsSpent(input) /\ IsReady(input) THEN "Fire" ELSE "Wait"
Decide(input) ==
    CASE IsSpent(input) /\ policy = "Silent" -> "Wait"
      [] IsSpent(input) /\ policy = "Fail" -> "Refuse"
      [] OTHER -> IF IsReady(input) THEN "Fire" ELSE "Wait"

\* The signals of the select come first; else the next input is judged alone.
Signalled == ~endHeld \/ cancelled
HearsSignal ==
    /\ task = "reading" /\ Signalled
    /\ IF endHeld THEN task' = "settling" /\ answer' = "Cancelled" /\ UNCHANGED inputs
       ELSE task' = "ended" /\ inputs' = <<>> /\ UNCHANGED answer
    /\ UNCHANGED <<around, fired>>

Judges ==
    /\ task = "reading" /\ ~Signalled /\ inputs # <<>>
    /\ inputs' = Tail(inputs)
    /\ LET decision == Decide(Head(inputs)) IN
       /\ task' = IF decision = "Wait" THEN "reading" ELSE "settling"
       /\ answer' = CASE decision = "Wait" -> answer
                      [] decision = "Fire" -> "Result"
                      [] decision = "Refuse" -> "Refused"
       /\ fired' = IF decision = "Fire" THEN Append(fired, Head(inputs)) ELSE fired
    /\ UNCHANGED around

\* A panic of the ready or of the spent function drops the sender.
Panics ==
    /\ task = "reading" /\ ~Signalled /\ inputs # <<>>
    /\ task' = "ended" /\ answer' = "Vanished" /\ inputs' = <<>>
    /\ UNCHANGED <<around, fired>>

\* settle: the inputs accepted so far are read and are answered by the event too.
Closes ==
    /\ task = "settling"
    /\ task' = "closed" /\ inputs' = <<>>
    /\ UNCHANGED <<around, answer, fired>>

Sends ==
    /\ task = "closed"
    /\ task' = "ended"
    /\ UNCHANGED <<around, inputs, answer, fired>>

MergerTask == HearsSignal \/ Judges \/ Panics \/ Closes \/ Sends

-----------------------------------------------------------------------------
\* The executor and the other nodes, as Executor has them.

\* The state is given to the instance, to a new one, or kept for the next one.
HandsOver(state) ==
    CASE task = "absent" ->
            task' = "reading" /\ inputs' = <<state>> /\ owed' = FALSE
      [] task \in {"reading", "settling"} ->
            task' = task /\ inputs' = Append(inputs, state) /\ owed' = FALSE
      [] OTHER -> owed' = TRUE /\ UNCHANGED <<task, inputs>>

LaneArrives(l) ==
    /\ ~stopped /\ updates < MaxUpdates
    /\ updates' = updates + 1
    /\ graph' = [graph EXCEPT !.lanes = @ \cup {l}]
    /\ HandsOver(graph')
    /\ UNCHANGED <<policy, showing, answer, cancelled, endHeld, stopped, fired, merged>>

\* The node the merger's edge names, after a Result was applied.
ShowsMerge ==
    /\ ~stopped /\ showing > 0
    /\ showing' = showing - 1 /\ graph' = [graph EXCEPT !.shown = TRUE]
    /\ UNCHANGED <<policy, updates, owed, task, inputs, answer, cancelled, endHeld, stopped, fired, merged>>

TakesResult ==
    /\ task = "ended" /\ answer = "Result" /\ ~stopped
    /\ showing' = showing + 1 /\ owed' = FALSE /\ answer' = "none" /\ merged' = graph.lanes
    /\ IF owed THEN task' = "reading" /\ inputs' = <<graph>>
       ELSE task' = "absent" /\ UNCHANGED inputs
    /\ UNCHANGED <<policy, graph, updates, cancelled, endHeld, stopped, fired>>

TakesStop ==
    /\ task = "ended" /\ answer # "Result" /\ ~stopped
    /\ stopped' = TRUE
    /\ UNCHANGED <<policy, graph, updates, showing, owed, task, inputs, answer, cancelled, endHeld, fired, merged>>

\* The run is cancelled, and may not wait for the end of its instances.
RunCancels ==
    /\ ~stopped /\ ~cancelled /\ cancelled' = TRUE
    /\ UNCHANGED <<policy, graph, updates, showing, owed, task, inputs, answer, endHeld, stopped, fired, merged>>

RunLetsGo ==
    /\ ~stopped /\ cancelled
    /\ endHeld' = FALSE /\ stopped' = TRUE
    /\ UNCHANGED <<policy, graph, updates, showing, owed, task, inputs, answer, cancelled, fired, merged>>

MergerNext ==
    \/ MergerTask
    \/ (\E l \in Lanes : LaneArrives(l)) \/ ShowsMerge \/ TakesResult \/ TakesStop
    \/ RunCancels \/ RunLetsGo

\* The task is polled, and the executor takes what the forwarder brings it.
MergerFairness == WF_mergervars(MergerTask) /\ WF_mergervars(TakesResult)
MergerSpec == MergerInit /\ [][MergerNext]_mergervars /\ MergerFairness

-----------------------------------------------------------------------------
\* The update that shows a merge comes a step after the merge, and lanes go on
\* arriving in between and while the channel closes.  Whatever the order, a merger at
\* rest in a run that goes on left no lane out: the last merge was applied to a state
\* that held them all, or the lane is late and the policy is not to fire again; and
\* one that is silent or fails never merged on a state that showed the merge.
AtRest == task \in {"absent", "reading"} /\ inputs = <<>> /\ ~stopped /\ ~cancelled
MergeKept ==
    /\ AtRest /\ Cardinality(graph.lanes) >= Needed =>
           merged = graph.lanes \/ (policy = "Silent" /\ graph.shown)
    /\ policy # "FireAgain" => \A i \in DOMAIN fired : ~fired[i].shown

\* What is given to a merger is read, and a merger that is told to end does.
MergerHears ==
    /\ (inputs # <<>>) ~> (inputs = <<>>)
    /\ (task = "reading" /\ Signalled) ~> (task = "ended")
=============================================================================
