------------------------------- MODULE ToolRound -------------------------------
(***************************************************************************)
(* The tool nodes of one superstep of a ReAct loop (br-llm-graph, react/):   *)
(* tool_node.rs, the gate they share (tool_gate.rs) and, for a durable       *)
(* agent, the round they write together (round_writer.rs).  One task polls   *)
(* the nodes, the first time in the order of their registration; an action   *)
(* is what one poll of a call or of a node does.  The gate and the round are *)
(* kept under the superstep, and forgotten with their last holder.           *)
(***************************************************************************)
EXTENDS Naturals, FiniteSets, SequencesExt

CONSTANTS
    Nodes,   \* the number of tool nodes; a node is its place in the registration
    Calls,   \* the number of pending calls; a call is its place in the reply
    Owner,   \* the node whose tool a call names
    Width    \* max_concurrency

ASSUME ToolRoundAssumption ==
    /\ Nodes \in Nat \ {0} /\ Calls \in Nat \ {0} /\ Width \in Nat \ {0}
    /\ Owner \in [1..Calls -> 1..Nodes]

VARIABLES
    durable,  \* the agent has a thread
    node,     \* where each tool node is
    call,     \* where each call is
    gate,     \* the places: [free, queue, holders]
    awake,    \* the waiting calls whose waker was woken
    round,    \* the round: [deposits, outcome, wakers, holders]
    told,     \* the waiting nodes whose waker was woken
    item,     \* the calls whose results the item in the thread holds
    panicked, \* the store panicked while it took the item
    polled    \* the superstep is polled: it is not cancelled

toolvars == <<durable, node, call, gate, awake, round, told, item, panicked, polled>>

AllNodes == 1..Nodes
AllCalls == 1..Calls
CallsOf(n) == {c \in AllCalls : Owner[c] = n}

NewGate == [free |-> Width, queue |-> <<>>, holders |-> {}]
NewRound ==
    [deposits |-> [n \in AllNodes |-> "none"], outcome |-> "none", wakers |-> {}, holders |-> {}]

ToolInit ==
    /\ durable \in BOOLEAN
    /\ node = [n \in AllNodes |-> "new"] /\ call = [c \in AllCalls |-> "idle"]
    /\ gate = NewGate /\ awake = {}
    /\ round = NewRound /\ told = {}
    /\ item = {} /\ panicked = FALSE /\ polled = TRUE

Over(n) == node[n] \in {"done", "failed", "panicked", "cancelled"}
Answered == {"answered", "hook_failed", "not_started"}
HookFailed(n) == \E c \in CallsOf(n) : call[c] = "hook_failed"
Pending(n) == {c \in CallsOf(n) : call[c] \notin Answered}

-----------------------------------------------------------------------------
\* The gate.  Places are given to the first waiters in arrival order, which are woken.

BugPassForgotten(leaving) == {c \in leaving : call[c] = "running"}
Places(leaving) == {c \in leaving : call[c] \in {"running", "handed"}}

Woken(handed) == handed

\* What the calls of leaving leave: a waiter leaves the queue, a place goes to a
\* waiter that stays, or is free.
Without(queue, leaving) ==
    LET kept[i \in 0..Len(queue)] ==
          IF i = 0 THEN <<>>
          ELSE IF queue[i] \in leaving THEN kept[i - 1] ELSE Append(kept[i - 1], queue[i])
    IN kept[Len(queue)]
Staying(leaving) == Without(gate.queue, leaving)
Given(leaving) ==
    LET places == Cardinality(Places(leaving)) waiters == Len(Staying(leaving))
    IN IF places < waiters THEN places ELSE waiters
Handed(leaving) == {Staying(leaving)[i] : i \in 1..Given(leaving)}

GateWithout(leaving) ==
    [gate EXCEPT !.free = @ + (Cardinality(Places(leaving)) - Given(leaving)),
                 !.queue = SubSeq(Staying(leaving), Given(leaving) + 1, Len(Staying(leaving)))]

Released(leaving, to) ==
    /\ awake' = (awake \ leaving) \cup Woken(Handed(leaving))
    /\ call' = [c \in AllCalls |->
         CASE c \in leaving -> to [] c \in Handed(leaving) -> "handed" [] OTHER -> call[c]]

\* Lease::drop: the gate is forgotten with its last holder.
Unleased(g, n) == IF g.holders = {n} THEN NewGate ELSE [g EXCEPT !.holders = @ \ {n}]

-----------------------------------------------------------------------------
\* The round: deposit, finish, and the drop of a seat.

Finished(r, outcome) == [r EXCEPT !.outcome = outcome, !.wakers = {}]
Deposited(r, n, deposit) == [r EXCEPT !.deposits[n] = deposit]
Complete(r) == \A n \in AllNodes : r.deposits[n] # "none"

BugTakesFailed(r) == TRUE
Whole(r) == \A n \in AllNodes : r.deposits[n] = "results"
Results == {c \in AllCalls : round.deposits[Owner[c]] = "results"}

\* Seat::drop: a seat that has not deposited deposits a failure, and the last
\* deposit of a round that is not whole ends it; the round is forgotten with its
\* last seat.
Forgotten(r, n) == IF r.holders = {n} THEN NewRound ELSE [r EXCEPT !.holders = @ \ {n}]

Judged(r) == IF Complete(r) /\ ~Whole(r) THEN Finished(r, "not_written") ELSE r
Unseated(r, n) ==
    IF ~durable THEN r
    ELSE Forgotten(IF node[n] = "calls" THEN Judged(Deposited(r, n, "failed")) ELSE r, n)

BugWakesNoNode(r) == {}
WokenSeats(r) == round.wakers \ r.wakers
Rounded(r) == round' = r /\ told' = told \cup WokenSeats(r)

-----------------------------------------------------------------------------
\* ToolNode::run_calls.

\* The first poll of a node, after those of the nodes before it: it takes a lease of
\* the superstep's gate and, for a durable agent, a seat in its round.
Leased(g, n) == [g EXCEPT !.holders = @ \cup {n}]
SeatTaken(r, n) == IF durable THEN [r EXCEPT !.holders = @ \cup {n}] ELSE r
Enter(n) ==
    /\ node[n] = "new"
    /\ \A m \in AllNodes : m < n => node[m] # "new"
    /\ \A c \in AllCalls : Owner[c] < n /\ ~Over(Owner[c]) => call[c] # "idle"
    /\ node' = [node EXCEPT ![n] = "calls"]
    /\ gate' = Leased(gate, n) /\ round' = SeatTaken(round, n)
    /\ UNCHANGED <<durable, call, awake, told, item, panicked>>

Active(c) == node[Owner[c]] = "calls"

\* Gate::enter, polled: a free place, or one in the queue.
Enters(c) ==
    \/ /\ gate.free > 0
       /\ call' = [call EXCEPT ![c] = "running"]
       /\ gate' = [gate EXCEPT !.free = @ - 1]
    \/ /\ gate.free = 0
       /\ call' = [call EXCEPT ![c] = "queued"]
       /\ gate' = [gate EXCEPT !.queue = Append(@, c)]

\* The first poll of a call: answered when its tool is not enabled, not started
\* when a hook of its node failed, else it enters the gate.
CallStart(c) ==
    /\ Active(c) /\ call[c] = "idle"
    /\ \A d \in CallsOf(Owner[c]) : d < c => call[d] # "idle"
    /\ \/ call' = [call EXCEPT ![c] = "answered"] /\ UNCHANGED gate
       \/ /\ HookFailed(Owner[c])
          /\ call' = [call EXCEPT ![c] = "not_started"] /\ UNCHANGED gate
       \/ ~HookFailed(Owner[c]) /\ Enters(c)
    /\ UNCHANGED <<durable, node, awake, round, told, item, panicked>>

\* A waiter that was handed a place is polled: it runs, or gives the place back.
TakePlace(c) ==
    /\ Active(c) /\ call[c] = "handed" /\ c \in awake
    /\ IF HookFailed(Owner[c]) THEN Released({c}, "not_started") /\ gate' = GateWithout({c})
       ELSE /\ call' = [call EXCEPT ![c] = "running"]
            /\ awake' = awake \ {c}
            /\ UNCHANGED gate
    /\ UNCHANGED <<durable, node, round, told, item, panicked>>

\* judge_and_run ends: a result, a refusal or an error result, or the hook failed.
CallEnds(c) ==
    /\ Active(c) /\ call[c] = "running"
    /\ \E answer \in {"answered", "hook_failed"} : Released({c}, answer)
    /\ gate' = GateWithout({c})
    /\ UNCHANGED <<durable, node, round, told, item, panicked>>

\* Every call has its answer: the lease is dropped; a failed hook fails the node,
\* else it deposits its results, and the last one to deposit writes the round.
Collect(n) ==
    /\ node[n] = "calls" /\ Pending(n) = {}
    /\ gate' = Unleased(gate, n)
    /\ LET r == Deposited(round, n, "results") IN
       IF HookFailed(n)
       THEN node' = [node EXCEPT ![n] = "failed"] /\ Rounded(Unseated(round, n))
       ELSE IF ~durable
       THEN node' = [node EXCEPT ![n] = "done"] /\ UNCHANGED <<round, told>>
       ELSE IF Complete(r) /\ Whole(r)
       THEN node' = [node EXCEPT ![n] = "writing"] /\ Rounded(r)
       ELSE IF Complete(r)
       THEN node' = [node EXCEPT ![n] = "done"] /\ Rounded(Forgotten(Judged(r), n))
       ELSE /\ node' = [node EXCEPT ![n] = "waiting"]
            /\ Rounded([r EXCEPT !.wakers = @ \cup {n}])
    /\ UNCHANGED <<durable, call, awake, item, panicked>>

\* push_results ends for the node that writes: written, refused, or a panic.
StoreEnds(n) ==
    /\ node[n] = "writing"
    /\ \/ /\ node' = [node EXCEPT ![n] = "done"] /\ item' = Results
          /\ Rounded(Forgotten(Finished(round, "written"), n)) /\ UNCHANGED panicked
       \/ /\ node' = [node EXCEPT ![n] = "failed"] /\ item' \in {{}, Results}
          /\ Rounded(Forgotten(Finished(round, "store_failed"), n)) /\ UNCHANGED panicked
       \/ /\ node' = [node EXCEPT ![n] = "panicked"] /\ item' \in {{}, Results}
          /\ Rounded(Unseated(round, n)) /\ panicked' = TRUE
    /\ UNCHANGED <<durable, call, gate, awake>>

\* RoundEnd is ready.
Told(n) ==
    /\ node[n] = "waiting" /\ n \in told /\ round.outcome # "none"
    /\ node' = [node EXCEPT ![n] = IF round.outcome = "store_failed" THEN "failed" ELSE "done"]
    /\ round' = Unseated(round, n) /\ told' = told \ {n}
    /\ UNCHANGED <<durable, call, gate, awake, item, panicked>>

\* The future of a node is dropped, with its calls, its lease and its seat.
Dropped(n, to) ==
    /\ node' = [node EXCEPT ![n] = to]
    /\ Released(Pending(n), "dropped")
    /\ gate' = Unleased(GateWithout(Pending(n)), n)
    /\ Rounded(Unseated(round, n))

\* A hook or a tool panics in a poll of its call.
CallPanics(c) ==
    /\ Active(c) /\ call[c] = "running"
    /\ Dropped(Owner[c], "panicked")
    /\ UNCHANGED <<durable, item, panicked, polled>>

Poll ==
    /\ polled
    /\ \/ \E n \in AllNodes : Enter(n) \/ Collect(n) \/ StoreEnds(n) \/ Told(n)
       \/ \E c \in AllCalls : CallStart(c) \/ TakePlace(c) \/ CallEnds(c) \/ CallPanics(c)
    /\ UNCHANGED polled

\* The run is cancelled or dropped, and drops the nodes of the superstep.
Cancel ==
    /\ polled /\ polled' = FALSE
    /\ UNCHANGED <<durable, node, call, gate, awake, round, told, item, panicked>>

DropNode(n) ==
    /\ ~polled /\ ~Over(n)
    /\ Dropped(n, "cancelled")
    /\ item' \in IF node[n] = "writing" THEN {item, Results} ELSE {item}
    /\ UNCHANGED <<durable, panicked, polled>>

ToolNext == Poll \/ Cancel \/ \E n \in AllNodes : DropNode(n)

\* The superstep is polled while it is there: hooks, tools and the store answer,
\* and a task whose waker was woken is polled again.
ToolSpec == ToolInit /\ [][ToolNext]_toolvars /\ WF_toolvars(Poll)

-----------------------------------------------------------------------------
In(state) == {c \in AllCalls : call[c] = state}

\* The places of the gate are never lost and never made: over every order in which
\* calls arrive, end, are handed a place they no longer want, or are dropped with
\* their node, the free, held and handed ones add up to the width (GateState).
PlacesAddUp == gate.free + Cardinality(In("running")) + Cardinality(In("handed")) = Width

\* A place is free only when nobody waits, and those that wait are in the queue.
NoneWaitsForAFreePlace ==
    /\ gate.free > 0 => gate.queue = <<>>
    /\ ToSet(gate.queue) = In("queued")

\* The gate of a round loses no place and holds none back from a waiting call.
PlacesKept == PlacesAddUp /\ NoneWaitsForAFreePlace

\* The item of a round is written whole, and before any node gives back its updates:
\* a node is done with nothing in the thread only if another one failed.
ItemBeforeUpdates ==
    /\ item \in {{}, AllCalls}
    /\ durable /\ (\E n \in AllNodes : node[n] = "done") /\ item = {}
        => \E n \in AllNodes : Over(n) /\ node[n] # "done"

\* A round in which every node took its seat before one gave it up ends, whatever
\* the hooks, the tools and the cancel do, unless the store panics.
Seated == \A n \in AllNodes : node[n] # "new" /\ ~Over(n)
RoundEnds == Seated ~> ((\A n \in AllNodes : Over(n)) \/ panicked \/ ~polled)

\* What the comment of Seat says: no node waits for one that was dropped.
NoneWaitsForTheDropped ==
    \A n \in AllNodes : polled /\ node[n] = "waiting" /\ round.outcome = "none" =>
        \E m \in AllNodes : m # n /\ ~Over(m)
=============================================================================
