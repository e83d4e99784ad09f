# Verification of br-llm-graph-rs

TLA+ models of the graph runtime in this repository, the TLC runs that check
them on small instances, and TLAPS proofs of what holds for every instance.
`PROJECT.json` maps each definition to the lines it models and lists the runs,
the hazards, the findings and the theorems.

Paths below are relative to `src/crates/` unless they start with `src/`. "GC" is
`br-graph-contract/src`, "EX" is `br-graph-executor/src`, "LG" is
`br-llm-graph/src`.

## 1. The system

The repository holds two graph runtimes and what is built on them.

| Part | Where | State it keeps | Operations | Talks to |
|---|---|---|---|---|
| Cancel tokens | GC `cancel/` | a tree of shared nodes: a flag, weak children, wakers | `new`, `child`, `trigger`, `is_triggered`, the `Triggered` future, drops | everything that stops |
| Instance channel | GC `instance/` | one lock over the input queue, the two ends' states and their wakers | `give`, `next`, `close`, `drain`, `finish`, `recv`, `dropped`, drops of each end | a run on one side, a node on the other |
| Graph value | GC `graph/` | nodes, edges, start; checked when built | build, check, reachability, `evaluate_edge`, wire form | read by the executor |
| Run of the executor | EX `run/` | phase, state, one slot per node (`live`, `held`, `untaken`), failures, the message queue | `start`, `resume`, hand-over, results, failures, stop, checkpoints | instances by channels, the host's token, its sink, its observer |
| Resume | EX `resume.rs`, `checkpoint.rs` | the checkpoint | `resume` | the host |
| Map-reduce, merger | `br-flow-nodes/src` | one task per instance: its internal instances, the outcomes | first input, create, receive, reduce; ready and spent | a run above, internal instances below |
| Session and run of br-llm-graph | LG `session/`, `run/` | state, cursor, pending writes, pause flag, the control queue | `run_once`, `serve`, commands, supersteps, `resume` | nodes by futures, the host by a control channel and an observer |
| Maps, nested graphs | LG `graph/map.rs`, `graph/subgraph*` | recorded items, a window | the items of a map, a run inside a node | the run above |
| React and generator-critic agents | LG `react/` | the conversation in the state, a thread store | calls, tool rounds, limits, critiques | model client, tools, thread store |
| Agentic contract | `br-agentic-contract/src` | a conversation, a queue of inbox items | append, close, read, take, restore | the host's ports |
| Agentic nodes | `br-agentic-nodes/src` | a worker per instance | turn, steps, tool rounds, mail | the executor above, the ports below |

How they interact: a run of the executor creates an instance per node that is
named, gives it the state over its channel, and hears one terminal event back
through a forwarder task. The token of the run is a node of a cancel tree; each
instance gets a view of it and each map-reduce makes a child of that. A session
of br-llm-graph is the older, self-contained runtime: it polls node futures
itself, a superstep at a time.

### What is hard here

* *Order*: an input given, a channel closed, an event sent and a token triggered
  meet in any order; the run acts on what it read before an await (the sink, a
  creation).
* *Stops*: a failure and a host's cancel race; a grace timer races a queued
  result; a cancel must be heard while nodes hang.
* *Partial failure*: an update is applied and the edge then fails; the sink stores
  and then refuses; one node of a superstep, one item of a map or one tool of a
  round fails while the others run; a port fails having done its work or not.
* *Restart*: a run is lost between two stored checkpoints; a checkpoint of a
  resumed run is resumed again; a superstep, a map, a tool round or a turn is
  resumed half done; a thread is read again by an instance that did not write it.
* *Wake-ups*: wakers are registered under one lock and woken after it; a trigger
  spreads over a tree one lock at a time while the tree grows and is dropped; a
  place is handed to a call that is being dropped; a wait for mail goes to sleep.
* *Bounds*: the list of weak children, the live internal instances, the places of a
  round of tools, the rounds, judgments and revisions of a resumed call.
* *Two readings of one rule*: what a build checks and what a run then does must
  agree, for edges, for the mappings of a call and for the types of a state.

`PROJECT.json` lists each of these at its line under `hazards`, with the
properties that cover it.

### What makes each component correct

* Cancel tokens: once `trigger` returned, no descendant reads untriggered; a
  waiting future is woken; a token in use keeps its ancestors alive.
* Channel: inputs in order and none lost to a close; no lost wake-up; a sent event
  survives every drop but that of its receiver.
* Executor: an update is committed once; a node named by an edge is owed a look at
  the update until one of its results pays it; the outcome names all that is owed.
* Restart: what a lost run had answered since the checkpoint is owed again.
* Session: the supersteps applied are those the edges call for; what a node
  returned is not computed again; no input is lost; pause and cancel are obeyed.
* Map-reduce: the limit holds; a Result covers each element; nothing runs on after
  the end.
* Merger: no lane is left out, whatever arrives between the merge and the update
  that shows it.
* Graph value, calls of graphs: what is built is what the rules ask, and a run of it
  fails for none of the reasons the check is there for.
* Agentic contract and nodes: what the thread stores is a conversation the rules
  accept, whatever crashes; an item is marked read only once it is stored; a result
  leaves nothing unanswered and nothing open; a final answer is not asked for again.
* Mail: what arrived is unread or in the conversation, and documents reach the
  addressees only.
* Maps: what is forwarded was made for the item, and an item that ended is not run
  again.
* Tool rounds and agents of br-llm-graph: the item of a round is stored before any
  update of it; the conversation is the thread; the limits count what the thread
  holds; a turn has one writer; an answer once given is kept.

## 2. Modules and the code

| Module | Models | Extends |
|---|---|---|
| `Executor` | one run of br-graph-executor | |
| `RunContract` | what `start` and `resume` promise: the abstract specification `Executor` implements | |
| `HostRestart` | a host that loses, fails, cancels and resumes runs | `Executor` |
| `InstanceChannel` | `Core` of an instance, its two ends and their tasks | |
| `CancelTree` | the tree of cancel tokens | |
| `Session` | a session of br-llm-graph and the run under it | |
| `MapReduce`, `Merger` | an instance of each of the two flow nodes | |
| `Lists` | the filter of a list, and a stable sort | |
| `AgenticThread` | the conversation of a thread and the rules of an addition | `Lists` |
| `AgenticNode` | an instance of an agentic node, react or generator-critic, over its thread and its inbox, lost and started again | `AgenticThread` |
| `AgentMail` | the mail tools, the inbox in memory, the reads of each agent | `Lists` |
| `ToolRound` | the tool nodes of a superstep, their gate and the round they write | |
| `AgentTurns` | the turns of a call of an agent of br-llm-graph, and what is read from them | |
| `DurableAgent` | a call of a `ReactAgent` or a `GeneratorCritic`, in memory or durable, over failed, lost and repeated runs | `AgentTurns` |
| `ItemMap` | a map over the recorder of its superstep | |
| `Recorder` | the pending writes of a run, over the occurrences of a map in a map and of a called graph | |
| `Checks` | the first refusal of a list of checks | |
| `GraphCheck` | the build of a graph of br-graph-contract and its edges | `Checks`, `Lists` |
| `CallCheck` | a call of a graph of br-llm-graph: build, check, run, delivery | `Checks` |
| `MC*` | the small instances for TLC; `MCFlowNodes`, `MCAgenticNode`, `MCGraphCheck` and `MCItemMap` each run two independent systems side by side: a behaviour is of one of them | the modules named |
| `*_proofs` | theorems and proofs | the module named; `Executor_proofs` also `HostRestart`, `Contract_proofs` `InstanceChannel`, `CancelTree` and `GraphCheck`, `Nodes_proofs` `MapReduce`, `Merger` and `ToolRound`, `ItemMap_proofs` also `Recorder`, `Agentic_proofs` `AgenticNode` and `AgentMail`; `Lists_proofs` holds the lemmas about lists they share |

### Executor

The variables are those of `Run` and of `NodeSlot`, with the node's side of each
channel (`node`, `inputOpen`, `accepted`), the host's token and what its sink
holds. `pc` is where the task of `drive` is suspended or between which of its
calls: `begin`, `top` (the head of the loop), `wait` (the biased select), `step` (a
message taken), `checkpoint`, `sink` (awaiting the sink), `done`. Each handler of
a message is one action (`OnCreated`, `OnResult`, ...), guards and early returns
included; `HandOver` is `hand_over` over all slots, which ends every result step
and the start.

* *State* is a set: what the host gave, and one `<<node, id>>` for each update
  applied. That is all the properties need: which updates an input shows a node
  and which a checkpoint holds. An instance id is the number of the creation.
* *A refused input* is the closing of the channel before the give; `OnCreated` has
  the three outcomes of its two gives.
* *`fail`* reads the token and then triggers it; the host may do so in between
  (`HostMeanwhile`).
* *Not modelled*: the observer, which feeds nothing back; `mint_id`, which never
  fails; the clock (the deadline may pass at any time after a stop); two
  creations for one slot, which the code excludes.
* `due` and `cause` are history: what is owed to each node, and who triggered the
  token. A checkpoint carries `due` along so that a resumed run knows it.

A checkpoint that could not be built has the state `{}`.

### RunContract

Four variables: what is committed, what each node is owed, the kind of the
outcome, and the nodes it can be resumed from. A commit adds one update and pays
one node; a return of `RunEnded` owes nothing and any other names all that is
owed. `Executor!Contract` maps `committed <- state`, `owed <- due`,
`returned <- outcome.kind`, `resumable <- outcome.nodes`.

### HostRestart

Adds the host to `Executor`: the future of a run is dropped at any point
(`HostLosesRun`), and `Resume` starts the next run from the stored checkpoint or
from that of the outcome. `answered` is history: which update answered which. The
checks of `resume` that only refuse are left out, but for the checkpoint that
names no node and the unreadable state.

### InstanceChannel

One action per critical section of `Core.inner` (`give`, `poll_next`, `finish`,
`detach`, ...). The wakers are taken under the lock and woken after it: `waking`
holds them in between and `Wake` is a step of its own. The reader, the receiver
and each `Dropped` future are tasks that poll, park and poll again. A waker that
panics is caught by the code and is a wake here.

### CancelTree

`trigger` is a stack of tokens to fire (`pending`), one lock at a time (`Fire`).
`is_triggered` is a walk without a lock, one ancestor per step (`WalkUp`,
`WalkFinds`, `AtTop`). `poll_triggered` walks twice, before the lock of its token
and under it, and then registers. `Strong` is the count of `Arc`s as a predicate: a
token is freed when none is left, and it releases its parent. `above`, `returned`,
`mustSee` and `peak` are history.

### Session

`pc` tells whether the session rests, is served, runs a superstep, settles it or
drains the commands that came meanwhile. `steps` and `inputs` are the state: the
supersteps applied, each with the nodes it ran and those its edges leave owed, and
the user inputs. `body` is the stage of each node future of the superstep. `kept`
is the checkpoint a host holds, from an outcome or an observer's event, for
`Resume`. An input is good or bad: the state takes it or not. `expected`,
`returned` and `asked` are history. What is recorded below a node, and by the
run of a graph with private keys, is in `Recorder`.

### MapReduce

`pc` is where the task of `instance::run` is: `waiting` for its first input,
`mapping`, `starting` (`start_available`), `select` (about to poll its signals),
`arms` (signals polled, a join or a creation may be taken), `joining`
(`stop_cancelled`), `failing` (`stop_failed`), `done`. The biased select is two
steps, so a signal raised between its poll and the arm that is taken is missed as
in the code. A listening task that fails to join, which needs a runtime that shuts
down, is left out; an internal state is left out but for whose update made it.

### Merger

The graph around a merger is part of the module, as it is what makes the order
hard: `graph` is the state of the run, `LaneArrives` an update that hands the state
over, `owed` the slot that holds an input the channel refused, and `ShowsMerge` the
update of the node the merger's edge names. That node comes any time after the
merger's empty update, and lanes keep arriving in between. `ready` is that `Needed`
lanes arrived and `spent` that the merge is shown: a ready function that turns
false again, which `src/README.md:138` leaves to its author, is not modelled.
`merged` and `fired` are history.

### AgenticThread and AgenticNode

A conversation is a sequence of turns, each with an agent, a status and entries:
responses with their calls, results, incoming items. `AgenticThread` has the rules
(`rules.rs`, `thread_access.rs`) as predicates on an addition, and what a step reads
from a turn. In `AgenticNode`, `thread` is what the port stores and `copy` what the
instance holds: each addition is applied to `copy`, then written (`w.flight`), and the
write may fail or be dropped, landed or not. `w.pc` is the await the body is at:
`start.rs` reads the thread and closes what an earlier instance left open, `drain.rs`
takes the items at a boundary, `pass.rs` and `step.rs` make the steps, `tool_round.rs`
answers the calls, `generator_critic/` judges. `TakeCancel` may come at any await,
`Lose` at any point, and `Restart` starts another instance on what was stored.

Left out or made nondeterministic: the texts; the place on the ladder of clients a
failing model is retried along, kept as a count; what `structure.rs` and
`thinking.rs` refuse, which is a failure of the model; an object opened in the store
by a call that was dropped before its answer; a write that lands after the instance
that made it has ended; the errors of `discard` while it concludes.

### AgentMail

`arrived` is the inbox of `memory/inbox.rs`, in the order it numbers; an item is
named by its place, as a retried delivery of an id changes nothing. Each agent reads
a page at a time from its cursor (`desk`), stores what it took at a boundary, here in
one step that `AgenticNode` details, and marks it. An instance may be lost with its
page. `waits` is the watch channel of `wait`: subscribe, look, sleep; `Announce` rings it
once the inbox is unlocked, so another thread may look in between. The documents of
a mail are given only through the tool. Unparsable arguments of a tool and texts are
left out.

### ToolRound

One task polls the tool nodes of a superstep in the order of their registration; an
action is what one poll of a call or of a node does. `gate` is `tool_gate.rs` (free
places, the queue, the seats), `round` is `round_writer.rs` (deposits, the outcome, the
nodes that wait for it). `awake` and `told` are the wakers woken and not polled yet.
A hook may fail or panic, a node or the superstep may be dropped at any poll, the
store may refuse or panic.

### AgentTurns and DurableAgent

A turn is its author and its items; the parts of `round_limit_marks.rs`, `helpers.rs`
and `duo.rs` that read them are operators of `AgentTurns`. In `DurableAgent` an action
is a call of the thread store or of a model with what its node does until the next
one. `thread` outlives a run, `conv` and the other private keys do not. A call of the
store fails having been done or not; a run is lost at any point; the host may end the
turns; the next run enters on what the thread holds (`enter.rs`, `rehydrate.rs`) and may
read another limit. `kept` is `TurnClients`.

Left out: a step that calls tools carries no text; the rule check says the same of one
generation each time; the client of a turn is told by the round it was asked in; the
conditions a configuration is refused for; the hooks of a host.

One observation, not a divergence any document denies: with a limit raised between two
runs, `AnswerNode` reads the limit of the new run, so a refused round found in the thread
no longer counts as reaching it and the flag is not set again, while the comment in
LG `react/agent_answer.rs` says it is set "as the run that wrote it did".

### ItemMap

`item` is where each item of the window is, `entries` the pending writes of the map by
index, kept over attempts that fail, are cancelled or are lost. A map that stands in a
called graph restarts with its caller, so its list may differ from the recorded one:
`Recorded` is the witness that an entry is of the item now at its index. With `FailFast` an item already taken by `buffer_unordered` but not
polled before the first error still starts: the flag is read when it is first polled.

### Recorder

An occurrence is its key, a sequence of a node and an index or 0 (`OccurrenceKey`); the
graph has a plain node, a map whose body is a map, and a call of a graph with a map, all in
one superstep or not. `writes` is the recorder of the run, `gave` what each occurrence of
the superstep gave, `host` what a host keeps of the events `checkpoint` and `recorded`: it
may have lost any of the records when it resumes after a crash (`LoseRun`), and may change
the state when it resumes from an outcome (`ResumeRun`, then `edited`). An entry is told by
the item it is of and the superstep and lists it was made in, so that one used out of its
place shows. A graph with private keys starts with an empty recorder that stays so, and
resumes at its entry. Windows and ways of taking a failure are `ItemMap`'s; here a map waits
for all its items. `MaxSteps` and `MaxTries` bound the supersteps and the runs.

### GraphCheck and CallCheck

`GraphCheck` puts a declared shape, or a read document, in canonical order, checks it
rule after rule, floods it forward from the entries and back from `END`, and evaluates
edges of what was built. `Leads`, `FollowsRules` and `BuiltIfSound` are the reference: they
say the same of sets, with no order and no flood. `CallCheck` builds a called graph,
checks the call against both graphs, runs it over typed values and delivers its
updates. A batch is applied to a copy, update by update, and a superstep to a copy of the
state of the run, node by node in the order of the graph. `told` is what the observers
heard of the updates, `left` the state the run gave back last, of a checkpoint, its end or
its failure. Elements of lists are scalars; joins, the inputs a session holds (`Session`
has both), and the check of the nodes inside the called graph, are left out.

## 3. The runs

Each property is broken by at least one plausible bug of the code it is about
(`mutants` in `PROJECT.json`).

| Run | Bounds | Why they are enough |
|---|---|---|
| `executor` | nodes a, b that name each other; a also names itself; both may end; two instances of each; every non-empty start; results, failures and cancelled ends; a sink | a node is named while absent, while created, while running and by itself; a message of an earlier instance could meet a later one; both nodes are live when a stop comes |
| `host_restart` | two runs of that graph, with a sink and without, no grace | a checkpoint of a resumed run is itself a checkpoint, so the second run stands for the rest |
| `channel` | two inputs, one `Dropped` future | order needs two; futures do not interact |
| `cancel_tree` | three tokens in any shape, two triggers at a time, one future; or a root and four children with neither | a trigger that meets another's half-fired tree needs three levels and two calls; four children pass the threshold of the list |
| `session` | nodes a, b, a join j, labels x and y; three supersteps; two commands | a join deferred over a step and a pause, a fork, a self-loop, two ends at once |
| `flow_nodes` | map-reduce: three elements, limit 2, both modes; merger: two of three lanes, four updates, three policies | one element waits for a place while one ends and one is created; a lane is late both before and after the merge is shown |
| `agentic` | six nodes over both kinds, the endings, a rule critic, one or two items, up to two calls; one trouble; four scenes of two agents and three arrivals, a page of one | a restart after every write; an item that arrives in a drain; a page between two arrivals, one of them not for the reader |
| `tool_round`, `tool_round_dropped` | three nodes, five calls, two places | two nodes wait for places while a third holds them; a node waits for two others |
| `durable_agent` | every ending of a limit, in memory and durable, budgets 0 and 1, one revision; two runs; limit 1, three rounds | the round refused, one more, and a resume at every write between them |
| `item_map` | lists of none to four items of two values; windows 1, 2 and none; three attempts; a map in a map and a call over two sets of lists, two supersteps, two runs | an entry can be met by the same and by another value at its index; two attempts leave entries for a third; a node runs again in the next superstep, so an entry that stayed would be used |
| `graph_check` | graphs of up to three nodes with any cycle, malformed ones, documents; a called graph of two nodes and its variants, two supersteps | a node unreached, one that cannot end, cycles; each mapping wrong alone; both nodes in one superstep, one batch taken and one refused after its first update |

What they show:

* `executor`. `NothingOwedLost`: what an edge sent to a node is on its way until a
  result of the node that has seen it is applied, and a stored checkpoint or an outcome
  that is not `RunEnded` names all that is owed. `OutcomeIsTrue`: an update is committed
  once, and phase, failures and outcome agree on who stopped the run. `StopHoldsInputs`:
  no input is given after a stop. `KeepsContract`: the refinement of `RunContract`.
  `CancelReturns`: a triggered token brings the outcome even if every instance stays
  silent. `RunReturns`: if creations answer and instances end, the run returns.
* `host_restart`. `NoWorkLostOverRestarts`: what was answered after the stored checkpoint
  is owed by it, and the last run ends only with all answered. `GraceIsKept`, with a grace
  of zero, which this run has and `executor` has not: from the stop on no message is
  taken, whatever the queue holds. A positive grace is the `WakeDeadline` of `executor`.
* `channel`. `TakenInOrder` (with: a node that closed its input and found it empty
  has taken all that was accepted), `ReadyIsHeard`.
* `cancel_tree`. `SeenAfterReturn`, `ChildrenBounded`, `TriggerIsHeard`.
* `session`. `StepsFollowEdges`, `InputsKept`, `NotRunAgain`, `CancelIsHeard`.
* `flow_nodes`. `ResultIsWhole`, `NoneLeftBehind`; `MergeKept`: a merger at
  rest has merged all the lanes of the state, or the lane is late and the policy is
  silent; it merges on no state that shows the merge unless asked to. `TasksHear`:
  either node reads what it is given and ends when it is told to.
* `agentic`. `ReadIsStored`, `RulesKept`, `ResultIsClean`, `NotAskedAgain`, `Ends`;
  `MailReachesItsOwn`, `NoDeafSleeper`.
* `tool_round`. `PlacesKept`, `ItemBeforeUpdates`, `RoundEnds`.
* `durable_agent`. `ConversationIsThread`, `BudgetsHold`, `OneWriter`, `AnswerKept`.
* `item_map`. `GivesInOrder`: the updates of every item in the order of the list, none of
  another item, or the first error in that order. `ReusedIsOwn`: no pending write is used
  for another item, and none outlives its superstep, whatever was refused, cancelled or
  lost. `NotRunAgain`: the body of an item that ended is not run again for it.
* `graph_check`. `SoundGraphs`, and `SoundCalls`, of two parts. `CheckedCallsRun`: the
  check of a call and its run read the mappings alike. `GivesBackWhatItTold`: a state a
  called run gives back fits the schema, without the private keys, and is the start state
  after the updates its observers heard of, one by one: nothing of a superstep that failed
  is in it. That one batch is applied whole or not at all shows in no state of a called
  run, since a refused batch fails its superstep and the copy it was applied to is dropped.

Deadlock is not checked where the system stops by itself: a run returns, a channel
and a tree are dropped, an instance, a round, a call or a map ends, and the bounds stop
the rest. It is checked for `session`.

The bounds by name: `MaxInstances` (`Targets` and `MayClose` keep it: an edge names
a node only while an instance is left for it), `MaxRuns`, `MaxInputs`, `Tokens`,
`Slack` (the code's `PRUNE_SLACK`, smaller), `MaxSteps`, `MaxCommands`, `Elements`,
`MaxUpdates`, `MaxTrouble`, `MaxArrived`, `Runs`, `MaxRounds`, `Attempts`, `Steps`, `MaxTries`.

### Fairness

* `Executor`: the run task is scheduled, its timer fires, the sink answers
  (`take_step_checkpoint` awaits it with no timeout). Nothing is assumed of
  instances; `InstanceFairness` is a hypothesis inside `RunReturns` alone.
* `InstanceChannel`: a task made ready polls and a waker taken is woken, which is
  what a runtime does; nothing is assumed of gives, closes or drops.
* `CancelTree`: a call of `trigger` and a poll that have begun go on. Both are
  straight-line code.
* `Session`: the future of a run or of `serve` is polled. A node need not ever
  return.
* `MapReduce`: its task is polled when woken, and the runtime drops aborted tasks.
  That internal instances end and creations answer are hypotheses inside
  `EndsWhenTold`.
* `Merger`: its task is polled, and the executor takes what the forwarder brings it.
* `AgenticNode`: the instance is polled and its ports answer, if only with an error:
  models and tools are called under timeouts, and a port is a host's code the node
  awaits without one.
* `ToolRound`: the superstep is polled while it is there, so hooks, tools and the store
  answer. `RoundEnds` says what happens if the store panics: see below.

`AgentMail`, `DurableAgent`, `ItemMap`, `Recorder`, `GraphCheck` and `CallCheck` state safety only.

## 4. Findings

* `tool_round_dropped` (`NoneWaitsForTheDropped`): LG `react/round_writer.rs:122` says of
  `Seat` that one dropped before it deposits leaves a failure, "so the other tool nodes
  never wait for it". A seat is taken in the first poll of its node, and `Seat::drop` (line
  177) removes the round with its last holder. So when the first tool node ends in its first
  poll (a hook that fails or panics before it awaits), its seat is the only holder and the
  round goes with the failure in it. The next node makes a new round in which the place of
  the first stays empty, deposits and waits; only a cancel frees the run.

Four more disagreements between a document and the code, met while modelling. They are
read off the code and stand in no run:

* EX `run/stopping.rs:52`: `fail` reads the token and then triggers it, so a host that
  triggers it in between is first and the outcome is `RunFailed` all the same.
  `src/README.md:206` has the outcome decided by who triggered the token first.
* `br-flow-nodes/src/map_reduce/work.rs:47`: an invalid initial value gives `Failed` even if
  the token was triggered while the map function ran. `src/README.md:139` has the token win
  over a fault not yet taken.
* `br-agentic-nodes/src/generator_critic/execute.rs:79`: the counters `src/README.md:280`
  speaks of are those of an instance, so they start again with another one.
* LG `graph/map.rs:32`: "A record made on another value is ignored and replaced". The entry
  of an item of a map that is the body of a map (`m[0]/m[0]`) is witnessed by the inner item
  alone, so a host that resumes with another outer list and the same inner one has it used
  for another outer item. `ReusedIsOwn` leaves out the runs a host resumed so (`edited`).

## 5. What is proved

Every theorem is for every value of the constants that the named assumption of its
module allows: any graph, any number of instances, tokens, futures, elements, lanes,
items, tool nodes, commands or restarts. The assumptions are of shape: what a constant
is (`Edges` goes from nodes to nodes, a list is a sequence, `Nodes` and the items of
an inbox are finite), that a limit the code refuses at zero is not zero, and that a
model value which stands for nothing is not one of the others.

* `Executor_proofs`. `TypeCorrect`. `NoTargetIsLost`, from `DueInv`: `NoTargetLost`
  is not inductive, since it needs that what is due is in the state, so that any
  state handed over from now on shows it. `OutcomeIsComplete` builds on it: the outcome
  is made of the slots in the one step that ends the run. `StopIsLaidToTheFirst`, from
  `StopInv`: who triggered the token, the phase and the failures. `UpdatesAppliedOnce`,
  from `FreshInv`: an update carries an id not above that of its node's slot, and
  is in the state only once that instance is gone. `StoredCheckpointIsComplete`, from
  `StoredInv`: the stored state is part of the state, so an update new to the state
  is not in it. `NothingOwedIsLost` and `OutcomeTellsTheTruth` join these into the two
  invariants the run checks. `RunKeepsContract`: the refinement, initial states and each
  step. `StoppingRunHoldsInputs`: a run that stops hands no input over but the first
  one of an instance in creation. `GraceIsGiven`, from `GraceInv`: a run at its
  beginning has no instance, and one without a grace period does not wait once it has
  seen the stop.
* The same module on `HostRestart`. `RestartsLoseNoWork`, from `HostInv`: over runs that
  are lost, fail, are cancelled and are resumed, what was answered is in the state, and
  what is still due of the stored state the stored checkpoint owes, so that a rollback
  gives the work up with its state and never alone. `GraceIsGivenOverRestarts`.
* `Contract_proofs` on `InstanceChannel`. `ChannelTypeCorrect`; `WakeupIsNotLost`, from `WakeInv`
  (a parked task is registered or about to be woken, and a waker is registered only
  while the future is not ready); `InputsTakenInOrder`, from `OrderInv` (while the
  node works, taken and queued make up what was given); `SentEventIsKept`.
* `Contract_proofs` on `CancelTree`. `TreeTypeCorrect`; `TriggerIsSeen`, from `SeenInv` (a token
  whose trigger returned has its flag set, and the walk of a future that must see it
  still has a set flag at or above where it is); `TriggerSpreads`, the invariant
  `SpreadGoesOn` itself; `WaiterIsNotLost`, from `ParkInv` (a future under
  its lock has read its own token untriggered, a parked one is registered);
  `ChildrenAreBounded`, from `BoundInv`: a token is listed by no other than its parent, so
  a list grows only where it is pruned.
* `Contract_proofs` on `GraphCheck`. `GraphsSound`, for every graph of any number of nodes
  and edges, in whatever order it was declared: what is built follows the rules that are
  told without an order (`FollowsRules`), has no node a path from the entries misses and
  none from which no path leads to END; a refusal names what is so; and no answer of an
  edge leads a run where END is out of reach. The argument has three parts. `RulesChecked`:
  the checks, rule after rule and each with its first refusal, pass exactly the graphs that
  follow the rules. `CanonicalIsAlike` and `CanonicalLeadsAlike`: the sort of the canonical
  form is a permutation (`SortedPermutes`), and neither the rules nor the paths depend on
  the order. `GraphInv`: what a flood saw is on a path, and what it saw and is not in its
  frontier has all its neighbours seen; so when the frontier is empty, the nodes seen are
  closed under the edges, and `Leads` is the least such set (`ForwardMisses`,
  `BackwardMisses`).
* `Session_proofs`. `SessionInvariant` is the conjunction that is inductive:
  `TypeOK`, `StepsFollowEdges`, `CursorFitsState`, `PendingIsOfOpenStep` and `KeptInv`
  (the host's checkpoint has all of these too, so that a resume starts well). From
  it `SessionTypeCorrect`, `SessionFollowsEdges`, `SessionCursorFits`,
  `SessionPendingIsOpen`, `SessionNotRunAgain`; and `SessionPauseStops`, from `PauseInv`.
  `SessionInputsKept`, from `InputInv`: the inputs applied, those the open superstep holds
  and those in the channel are, in this order, the inputs sent, and no superstep that is
  closed holds any.
* `Nodes_proofs` on `MapReduce` and `Merger`. `MapReduceInvariant`: `Pool` (a creation in flight counts
  against the limit and has an element left to start) and `Collected` (the elements
  not started are those from `next` on, and one joined while the work goes on is in
  the outcomes). From it the type, `LimitIsKept`, `ResultCoversEveryElement` and
  `NothingIsLeftBehind`. `MergeIsKept`, from `MergerInv`: the last input a merger has not
  read shows the lanes the run has, so a merger that reads finds what was done last.
* `Nodes_proofs` on `ToolRound`. `PlacesAreKept`, from `GateInv`: the free places, the calls that run
  and those handed a place make up the width, no place is free while a call waits, and
  the queue is the calls that wait, each once. `ItemComesFirst`, from `RoundInv`: when
  what a round holds is taken for the thread, every node of it has deposited; a node that
  is done before the item is written belongs to a superstep that is lost.
* `ItemMap_proofs`. `MapGivesInOrder`, from `MapInv`: items are taken in their order, what
  an item gave is of that item, a stop is an error, the window is never idle, and what
  ended is recorded or of this attempt; `EndedIsNotRunAgain` from the same.
  `ReusedIsItsOwn`, from `RecInv`: the entries of the recorder and of the host are of the
  superstep that is open, and the host's are the recorder's of some earlier time.
* `DurableAgent_proofs`. `ReadsItsThread` and `TurnsHaveOneWriter`, from `Inv`:
  `ThreadInv` states at each step how far the conversation a node holds is behind the
  thread (not at all, or by the one turn or item whose write is answered), `RankInv`
  that the rank it writes at is the next one or that of the turn that awaits its end,
  `ClientInv` which turns the last client was asked for.
  `BudgetsAreKept`, from `BudgetInv`: `BudgetsHold` says what the next call may do, and
  whether it may depends on what was stored since the call began, by this run and by those
  before it. `OwnInv`: the turns of the run are within the limit of rounds, tools run
  only below it, and the limit answers only a turn it did not answer. `ConvInv`
  states the same of a conversation in memory. There the turns that were given are turns of
  this run too, and the host chooses them, not the agent; so this part has the
  hypothesis `OpeningsInLimit`, which the openings of the run fulfil and a durable agent
  does not need. `JudgeInv`: the turns of the thread are `Judged` (judgments within the
  budget, each of the generation just before it; a generation only first, after a rejection
  or to be revised; revisions in a row within theirs), the routing goes only where the turn it leads to
  may be written, and a turn that is open may become what it will be. Its steps rest
  on three lemmas: what a step makes of the thread (`Writes`: nothing, an item more of the
  open turn, its end, or a new turn), how the view a call has of the thread follows
  (`ViewMoves`), and that one more turn which may be written keeps the whole judged
  (`JudgedGrows`).
  `AnswersAreKept`, from `AnsweredInv`. A later run has lost all that the first one kept in
  memory, so what that one answered must be what the thread says: `FlagInv`, that the flag of
  the limit is set exactly if the limit answered the turn the react agent wrote, or for the
  critic only if it answered some turn of the call; `AnswerInv`, that an answer is given at
  a turn that is completed and is the last; `FinishInv`, that the routing which led to the
  end is decided by the stored turns and by what the rule check said (`Ends`). `GivenInv` joins
  them: since the answer, nothing is written, every later run goes no other way than to the
  node that answers, and the outputs are `ReactOut` or `CriticOut` of the thread. The theorem
  has two hypotheses of the model: the rule check says the same of a generation each time
  (`Rules`), and all runs read the same limit of rounds, `m = n` for any two of `Maxes`, as
  in the run of TLC. With another limit the code reads the flag of the answer by that one.
* `Agentic_proofs` on `AgenticNode`. `AgenticKeeps`, for every inbox, set of calls and
  configuration: the invariant `Keeps`, by one lemma for each action. Its parts are
  `MemoryFits`, the type; `Sync`, that the copy of the conversation a worker holds is the
  thread, or the thread with the addition in flight applied to it; `Place`, what
  the conversation is at each step: which turn is open, whether it has calls left, whether
  the model saw every stored item, whether it ends with an answer to restore;
  `DrainFits`, that what a drain read has each item once, the ones to mark are in the
  conversation and the ones to store are not; `Sound`, that a turn that ends with what
  the model was not shown is not one to restore, whatever another instance left; and
  `ResultFits`. None of the properties of the run is inductive without them: a worker
  decides on its copy, so what holds of the thread follows only from how far the copy is
  ahead of it. From it `MarkedIsStored`, `RulesAreKept`, `ResultLeavesAllClean` and
  `AnswerIsNotAskedAgain`.
* `Agentic_proofs` on `AgentMail`. `MailIsKept`: the invariant `MailKeeps`, one lemma for
  each action. Its core is `BoxFits`, for each agent: the conversation holds what arrived
  for it up to some arrival; what it marked or is about to mark is in the conversation; a
  read that goes on has, of all below what it has, what the conversation lacks, and its
  cursor is the greatest it has. The last makes the paging right: an item below the
  cursor that is neither read nor held cannot be, whatever arrives or is marked between
  two pages. From it `MailIsDelivered` (with `SameBeginning`: two rising lists of which
  one has all of the other below each of its own are the same up to its end) and, from
  `WaitFits`, `SleepersAreRung`.

An induction over data is needed where a filter or the first match of a list is
involved. The provers here have no rule for it, so the lemmas use that inclusion is
well founded on finite sets: any set of numbers has a least one (`LeastNumber`), and the
least index at which two lists or a list and its filter differ cannot be. That gives that
a sort has a place for each rank (`Lists`), what `InputsIn` (`Session`) finds in a queue that lost its head or got one more, what `Without`
(`ToolRound`) and `Among` (`Lists`, the rounds of a turn too) keep, and what the last turn of a speaker
(`DurableAgent`) is. Those
filters are recursive functions for this reason: `SelectSeq` has no definition the
prover sees.

Some of what is proved is in no run, since a theorem says more: the type invariants,
`NoLostWakeup`, `NoLostWaiter`, `EventKept`, `SpreadGoesOn`, `LimitKept`, `PauseStops`,
`PendingIsOfOpenStep`, the grace period over restarts, and the conjuncts of the two
invariants of `executor`.

Checked by TLC only:

* every liveness property: TLAPS has no rule here for fairness and `ENABLED`;
* `SoundCalls`: it follows a value through the check, the run and the delivery of a call,
  which apply folds over lists of mappings and updates; a fold has no definition the
  provers see.

## 6. What is not modelled

The components of status `not_modelled` in `PROJECT.json`, with the reason for each: the
observer, whose channel never feeds back into a run; values and errors without control;
the description of a graph, a formatting; wrappers of types; test support, examples and
release scripts. Of the components that are `partly` modelled:

* Resume of the executor: the comparisons that only refuse.
* Session: the supersteps of a nested run, one node of `Recorder`, and what its caller
  makes of its failure; the limit and the count node.
* Stores in memory: the record of calls and the streams.
* Agentic nodes: the sandbox, the sinks, ids, the parsing of structured answers.
* React and generator-critic agents of br-llm-graph: hooks, the given context, the checks
  of a configuration, the view of the critic; a call outside an agent (`llm_call.rs`).
* Graph value: reading a document as text.
* `ToolRound`: what happens after a panic of the store while it takes the results of a
  round: the nodes that wait are not told, as nothing catches it, and wait until the
  superstep is dropped. `RoundEnds` excludes it by name.

## 7. Plan

Done: the modules of section 3 with their runs; proofs about `Executor` with
`HostRestart`, `InstanceChannel`, `CancelTree`, `GraphCheck`, `Session`, `MapReduce` with `Merger`,
`ItemMap` with `Recorder`, `ToolRound`, `DurableAgent`, `AgenticNode` and
`AgentMail`.

Left: `Subgraph`, a run inside a node, composed with `Session`.
