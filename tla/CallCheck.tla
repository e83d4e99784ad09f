--------------------------------- MODULE CallCheck ---------------------------------
(***************************************************************************)
(* A call of a graph from a node of another one in br-llm-graph: the build of   *)
(* the called graph (graph/builder.rs, graph/signature.rs), the check of the     *)
(* call against the two graphs (graph/subgraph/check.rs), its run                *)
(* (graph/subgraph/run.rs, run/settle.rs) over typed states (state), and what it *)
(* leaves in the caller's state.  A value is told by its kind; the elements of    *)
(* a list are scalars.                                                          *)
(***************************************************************************)
EXTENDS Naturals, Sequences, SequencesExt, Checks

CONSTANTS
    Cases,   \* a graph as declared, a call of it, and where the call stands
    Caller,  \* the run schema of the graph of the call
    Batches, \* what a node of the called graph may return
    Given,   \* what an edge of the called graph may return
    Steps    \* bound: supersteps of the called graph

VARIABLES
    case,    \* the case: [graph, call, site]
    stage,   \* "declared", "refused", "checked", "child", "deliver" or "done"
    child,   \* the values of the run of the called graph
    active,  \* its nodes to run
    told,    \* the updates its observers were told of
    left,    \* the state it gave back last: of a checkpoint, its end or its failure
    steps,
    failure, \* how the called graph failed
    updates, \* what the call gives
    caller,  \* the values of the caller
    fault    \* why the build refused, or the error of the call

callvars == <<case, stage, child, active, told, left, steps, failure, updates, caller, fault>>

Scalar(tag) == [tag |-> tag, element |-> "none"]
ListOf(tag) == [tag |-> "list", element |-> tag]
NoKind == Scalar("none")
ValueOf(tag) == [tag |-> tag, items |-> <<>>]
NoValue == ValueOf("none")
Matches(v, kind) == v.tag = kind.tag /\ \A i \in DOMAIN v.items : v.items[i] = kind.element
Neutral(kind) == ValueOf(kind.tag)

Look(f, key, none) == IF key \in DOMAIN f THEN f[key] ELSE none
Merge(f, g) == [k \in DOMAIN f \cup DOMAIN g |-> IF k \in DOMAIN g THEN g[k] ELSE f[k]]
Keys(s) == {s[i].key : i \in DOMAIN s}
Twice(s, i) == \E j \in 1..i - 1 : s[j] = s[i]
KeyTwice(s, i) == \E j \in 1..i - 1 : s[j].key = s[i].key
Fits(values, kinds) ==
    DOMAIN values = DOMAIN kinds /\ \A k \in DOMAIN kinds : Matches(values[k], kinds[k])

-----------------------------------------------------------------------------
\* GraphBuilder::build
DefaultValue(schema, key) == Look(schema.defaults, key, Neutral(schema.state[key]))
CheckDefaults(schema) ==
    FirstOf(<<Refusal(~DOMAIN schema.defaults \subseteq DOMAIN schema.state, "UnknownKey", "default"),
              Refusal(\E k \in DOMAIN schema.defaults :
                         ~Matches(schema.defaults[k], Look(schema.state, k, NoKind)), "KindMismatch", "default")>>)

Resolve(g) ==
    LET KeyCheck(keys, i, twice) ==
            FirstOf(<<Refusal(keys[i] \notin DOMAIN g.schema.state, "UnknownKey", keys[i]),
                      Refusal(Twice(keys, i), twice, keys[i])>>)
    IN FirstOf([i \in DOMAIN g.inputs |-> KeyCheck(g.inputs, i, "DuplicateInput")]
               \o [i \in DOMAIN g.outputs |-> KeyCheck(g.outputs, i, "DuplicateOutput")])

RunKinds(g) == Merge(g.schema.state, g.private)
NodesOf(g) == {g.nodes[i] : i \in DOMAIN g.nodes}
FromOf(g) == {g.edges[i].from : i \in DOMAIN g.edges}
EdgeFrom(g, i) ==
    LET from == g.edges[i].from IN
    FirstOf(<<Refusal(from \notin NodesOf(g), "EdgeFromUnknownNode", from),
              Refusal(\E j \in 1..i - 1 : g.edges[j].from = from, "DuplicateEdge", from)>>)
DeclaredTo(g, i) ==
    LET e == g.edges[i] IN
    Refusal(e.declares /\ \E t \in e.targets : t.to = "node" /\ t.name \notin NodesOf(g),
            "EdgeToUnknownNode", e.from)
BuildGraph(g) ==
    FirstOf(<<CheckDefaults(g.schema), Resolve(g),
              Refusal(DOMAIN g.private \cap DOMAIN g.schema.state # {}, "KeyCollision", "private")>>
            \o [i \in DOMAIN g.nodes |-> Refusal(Twice(g.nodes, i), "DuplicateNode", g.nodes[i])]
            \o <<Refusal(g.entry = "none", "MissingEntry", "none"),
                 Refusal(g.entry \notin NodesOf(g), "UnknownEntry", g.entry)>>
            \o [i \in DOMAIN g.edges |-> EdgeFrom(g, i)]
            \o [i \in DOMAIN g.nodes |-> Refusal(g.nodes[i] \notin FromOf(g), "NodeWithoutEdge", g.nodes[i])]
            \o [i \in DOMAIN g.edges |-> DeclaredTo(g, i)])

-----------------------------------------------------------------------------
\* check_call: every mapping of the call, against the two graphs.
SourceFits(source, kind) ==
    CASE source.from = "state" -> Look(Caller.state, source.key, NoKind) = kind
      [] source.from = "config" -> Look(Caller.config, source.key, NoKind) = kind
      [] source.from = "const" -> Matches(source.value, kind)
      [] source.from = "reason" -> kind = Scalar("str")

CheckMapped(mappings, declared, not, twice, mismatch, unmapped) ==
    LET MappingCheck(i) ==
            FirstOf(<<Refusal(mappings[i].key \notin DOMAIN declared, not, mappings[i].key),
                      Refusal(KeyTwice(mappings, i), twice, mappings[i].key),
                      Refusal(~SourceFits(mappings[i].source, Look(declared, mappings[i].key, NoKind)),
                              mismatch, mappings[i].key)>>)
    IN FirstOf([i \in DOMAIN mappings |-> MappingCheck(i)]
               \o <<Refusal(~DOMAIN declared \subseteq Keys(mappings), unmapped, "key")>>)

Receives(target) ==
    LET kind == Look(Caller.state, target.key, NoKind) IN
    IF target.op = "Set" THEN kind
    ELSE IF kind.tag = "list" THEN Scalar(kind.element) ELSE NoKind

CheckTarget(kind, target, appendsOnly) ==
    FirstOf(<<Refusal(appendsOnly /\ target.op = "Set", "MapBodySet", target.key),
              Refusal(Receives(target) # kind \/ kind = NoKind, "SubGraphTargetMismatch", target.key)>>)
BugNeverTwice(targets, i) == FALSE
SetTwice(targets, i) ==
    targets[i].op = "Set" /\ \E j \in 1..i - 1 : targets[j] = targets[i]

CheckOutputs(g, call, appendsOnly) ==
    LET outputs == {g.outputs[i] : i \in DOMAIN g.outputs}
        targets == [i \in DOMAIN call.outputs |-> call.outputs[i].target] \o call.end
        OutputCheck(i) ==
            LET key == call.outputs[i].key IN
            FirstOf(<<Refusal(key \notin outputs, "SubGraphNotAnOutput", key),
                      CheckTarget(Look(g.schema.state, key, NoKind), targets[i], appendsOnly),
                      Refusal(SetTwice(targets, i), "SubGraphSetTwice", key)>>)
        EndCheck(i) ==
            FirstOf(<<CheckTarget(Scalar("str"), call.end[i], appendsOnly),
                      Refusal(SetTwice(targets, Len(call.outputs) + i), "SubGraphSetTwice", "end")>>)
    IN FirstOf([i \in DOMAIN call.outputs |-> OutputCheck(i)] \o [i \in DOMAIN call.end |-> EndCheck(i)])

CheckCaptures(captures, appendsOnly) ==
    LET targets == [i \in DOMAIN captures |-> captures[i].target]
        CaptureCheck(i) ==
            FirstOf(<<Refusal(appendsOnly /\ targets[i].op = "Set", "MapBodySet", targets[i].key),
                      Refusal(Receives(targets[i]) = NoKind \/ ~SourceFits(captures[i].source, Receives(targets[i])),
                              "CaptureMismatch", targets[i].key),
                      Refusal(SetTwice(targets, i), "CaptureSetTwice", targets[i].key)>>)
    IN FirstOf([i \in DOMAIN captures |-> CaptureCheck(i)])

InputKinds(g) == [k \in {g.inputs[i] : i \in DOMAIN g.inputs} |-> Look(g.schema.state, k, NoKind)]
CheckCall(g, call, appendsOnly) ==
    FirstOf(<<CheckMapped(call.inputs, InputKinds(g), "SubGraphNotAnInput", "SubGraphInputTwice",
                          "SubGraphSourceMismatch", "SubGraphInputUnmapped"),
              CheckMapped(call.config, g.schema.config, "SubGraphNotAConfig", "SubGraphConfigTwice",
                          "SubGraphConfigMismatch", "SubGraphConfigUnmapped"),
              CheckOutputs(g, call, appendsOnly),
              CheckCaptures(call.captures, appendsOnly)>>)

Build ==
    /\ stage = "declared"
    /\ fault' = FirstOf(<<BuildGraph(case.graph), CheckCall(case.graph, case.call, case.site = "map")>>)
    /\ stage' = IF fault' = Ok THEN "checked" ELSE "refused"
    /\ UNCHANGED <<case, child, active, told, left, steps, failure, updates, caller>>

-----------------------------------------------------------------------------
\* SubGraph::run: the inputs and the configuration are resolved, the child starts.
CallerConfig == [k \in DOMAIN Caller.config |-> Neutral(Caller.config[k])]
SourceValue(source) ==
    CASE source.from = "state" -> Look(caller, source.key, NoValue)
      [] source.from = "config" -> Look(CallerConfig, source.key, NoValue)
      [] source.from = "const" -> source.value
      [] source.from = "reason" -> ValueOf("str")

CheckSources(mappings) ==
    FirstOf([i \in DOMAIN mappings |->
               Refusal(SourceValue(mappings[i].source) = NoValue, "UnknownKey", mappings[i].key)])
ValueIn(mappings, key) ==
    SourceValue(mappings[SelectLastInSeq(mappings, LAMBDA m : m.key = key)].source)

\* Graph::start_state
StartValues(g, inputs) ==
    [k \in DOMAIN g.schema.state |->
        IF k \in Keys(inputs) THEN ValueIn(inputs, k) ELSE DefaultValue(g.schema, k)]
CheckStart(g, inputs) ==
    LET InputCheck(i) ==
            LET key == inputs[i].key IN
            FirstOf(<<Refusal(KeyTwice(inputs, i), "InputGivenTwice", key),
                      Refusal(key \notin DOMAIN g.schema.state, "UnknownKey", key),
                      Refusal(key \notin DOMAIN InputKinds(g), "NotAnInput", key),
                      Refusal(~Matches(SourceValue(inputs[i].source), Look(g.schema.state, key, NoKind)),
                              "KindMismatch", key)>>)
    IN FirstOf([i \in DOMAIN inputs |-> InputCheck(i)]
               \o <<Refusal(~DOMAIN InputKinds(g) \subseteq Keys(inputs), "MissingInput", "key"),
                    Refusal(~Fits(StartValues(g, inputs), g.schema.state), "KindMismatch", "key")>>)

CheckConfig(g, mappings) ==
    FirstOf(<<Refusal(~Keys(mappings) \subseteq DOMAIN g.schema.config, "UnknownKey", "config"),
              Refusal(\E k \in Keys(mappings) :
                         ~Matches(ValueIn(mappings, k), Look(g.schema.config, k, NoKind)), "KindMismatch", "config"),
              Refusal(~DOMAIN g.schema.config \subseteq Keys(mappings), "MissingKey", "config")>>)

\* The private keys, added to the state of a run and taken out of what it gives back.
Enters(g, values) == Merge([k \in DOMAIN g.private |-> Neutral(g.private[k])], values)
BugLeaves(g, values) == values
Leaves(g, values) == [k \in DOMAIN values \cap DOMAIN g.schema.state |-> values[k]]

StartRun ==
    /\ stage = "checked"
    /\ LET g == case.graph
           refused == FirstOf(<<CheckSources(case.call.inputs), CheckStart(g, case.call.inputs),
                                CheckSources(case.call.config), CheckConfig(g, case.call.config)>>)
       IN IF refused # Ok
          THEN /\ stage' = "done" /\ fault' = refused
               /\ UNCHANGED <<child, active>>
          ELSE /\ stage' = "child" /\ active' = {g.entry}
               /\ child' = Enters(g, StartValues(g, case.call.inputs))
               /\ UNCHANGED fault
    /\ UNCHANGED <<case, told, left, steps, failure, updates, caller>>

\* State::apply_batch
AppendCheck(kinds, update) ==
    LET kind == Look(kinds, update.key, NoKind) IN
    FirstOf(<<Refusal(kind = NoKind, "UnknownKey", update.key),
              Refusal(kind.tag # "list", "AppendNotList", update.key),
              Refusal(~Matches(update.value, Scalar(kind.element)), "KindMismatch", update.key)>>)
UpdateCheck(kinds, update) ==
    LET kind == Look(kinds, update.key, NoKind) IN
    CASE update.op = "Set" ->
             FirstOf(<<Refusal(kind = NoKind, "UnknownKey", update.key),
                       Refusal(~Matches(update.value, kind), "KindMismatch", update.key)>>)
      [] update.op = "Append" -> AppendCheck(kinds, update)
      [] OTHER -> Refusal(kind # Scalar("conversation"), "NotConversation", update.key)
SetConflict(batch) ==
    FirstOf([i \in DOMAIN batch |->
               Refusal(batch[i].op = "Set" /\ \E j \in 1..i - 1 : batch[j].op = "Set" /\ batch[j].key = batch[i].key,
                       "SetConflict", batch[i].key)])
Written(values, update) ==
    CASE update.op = "Set" -> [values EXCEPT ![update.key] = update.value]
      [] update.op = "Append" -> [values EXCEPT ![update.key].items = Append(@, update.value.tag)]
      [] OTHER -> values

\* One update after the other on a copy, up to the first that is refused.
Copy(values) == [values |-> values, refused |-> Ok]
ApplyOne(kinds, working, update) ==
    IF working.refused # Ok THEN working
    ELSE IF UpdateCheck(kinds, update) # Ok THEN [working EXCEPT !.refused = UpdateCheck(kinds, update)]
    ELSE [working EXCEPT !.values = Written(@, update)]
ApplyEach(kinds, values, batch) ==
    FoldLeft(LAMBDA working, update : ApplyOne(kinds, working, update), Copy(values), batch)
ApplyBatch(kinds, values, batch) ==
    LET working == ApplyEach(kinds, values, batch)
        refused == FirstOf(<<SetConflict(batch), working.refused>>)
    IN [values |-> IF refused = Ok THEN working.values ELSE values, refused |-> refused]

\* settle: the nodes in graph order, then their edges.
EdgeOfNode(g, node) == SelectInSeq(g.edges, LAMBDA e : e.from = node)
TargetsCheck(g, node, given) ==
    IF EdgeOfNode(g, node) = 0 THEN Refusal(TRUE, "NodeWithoutEdge", node)
    ELSE LET edge == g.edges[EdgeOfNode(g, node)] IN
         FirstOf(<<Refusal(given = {}, "EmptyEdge", node),
                   Refusal(edge.declares /\ ~given \subseteq edge.targets, "UndeclaredTarget", node),
                   Refusal(\E t \in given : t.to = "node" /\ t.name \notin NodesOf(g), "UnknownNode", node)>>)

Ran(g) == SelectSeq(g.nodes, LAMBDA n : n \in active)
ApplyNode(g, next, node, batch) ==
    LET taken == ApplyBatch(RunKinds(g), next.values, batch) IN
    [values |-> taken.values,
     applied |-> next.applied \o IF taken.refused = Ok THEN batch ELSE <<>>,
     refused |-> FirstOf(<<next.refused, Refusal(taken.refused # Ok, "NodeFailed", node)>>)]
Settle(g, batch, given) ==
    LET order == Ran(g)
        next == FoldLeft(LAMBDA n, node : ApplyNode(g, n, node, batch[node]),
                         [values |-> child, applied |-> <<>>, refused |-> Ok], order)
        edges == [i \in DOMAIN order |-> TargetsCheck(g, order[i], given[order[i]])]
        targets == UNION {given[n] : n \in active}
        ends == {t \in targets : t.to = "end"}
        refused == FirstOf(<<next.refused>> \o edges
                           \o <<Refusal(ends = targets /\ \E a, b \in ends : a # b, "AmbiguousEnd", "end")>>)
    IN [next EXCEPT !.refused = refused]

\* What the call gives, once its child ended or failed.
Update(op, key, value) == [op |-> op, key |-> key, value |-> value]
TargetUpdate(target, value) == Update(target.op, target.key, value)
Outputs(values) ==
    LET call == case.call IN
    [i \in DOMAIN call.outputs |-> TargetUpdate(call.outputs[i].target, values[call.outputs[i].key])]
    \o [i \in DOMAIN call.end |-> TargetUpdate(call.end[i], ValueOf("str"))]
Captured(captures) ==
    [i \in DOMAIN captures |-> TargetUpdate(captures[i].target, SourceValue(captures[i].source))]

Gives(batch) == stage' = "deliver" /\ updates' = batch /\ UNCHANGED fault
Fails(error) == stage' = "done" /\ fault' = error /\ UNCHANGED updates

ChildEnds ==
    LET outputs == {case.call.outputs[i].key : i \in DOMAIN case.call.outputs}
    IN IF outputs \subseteq DOMAIN left' THEN Gives(Outputs(left'))
       ELSE Fails(Refusal(TRUE, "UnknownKey", "output"))

ChildFails(error) ==
    /\ failure' = error /\ left' = Leaves(case.graph, child)
    /\ IF ~case.call.capture THEN Fails(Refusal(TRUE, "SubGraphFailed", error.error))
       ELSE IF CheckSources(case.call.captures) # Ok THEN Fails(CheckSources(case.call.captures))
       ELSE Gives(Captured(case.call.captures))
    /\ UNCHANGED <<child, active, told>>

Superstep(batch, given) ==
    /\ stage = "child" /\ steps < Steps /\ steps' = steps + 1
    /\ LET settled == Settle(case.graph, batch, given)
           targets == UNION {given[n] : n \in active}
       IN IF settled.refused # Ok THEN ChildFails(settled.refused)
          ELSE /\ child' = settled.values /\ told' = told \o settled.applied
               /\ left' = Leaves(case.graph, child') /\ UNCHANGED failure
               /\ active' = {t.name : t \in {t \in targets : t.to = "node"}}
               /\ IF active' = {} THEN ChildEnds ELSE UNCHANGED <<stage, updates, fault>>
    /\ UNCHANGED <<case, caller>>

\* A node of the child returns an error of its own.
NodeFails ==
    /\ stage = "child"
    /\ ChildFails(Refusal(TRUE, "NodeFailed", "node"))
    /\ UNCHANGED <<case, steps, caller>>

\* A map checks what each of its two items gives, then forwards it.
CheckAppends(batch) ==
    FirstOf([i \in DOMAIN batch |->
               IF batch[i].op = "Append" THEN AppendCheck(Caller.state, batch[i])
               ELSE Refusal(TRUE, "MapBodyNotAppend", batch[i].key)])
ItemCheck == IF case.site = "map" THEN CheckAppends(updates) ELSE Ok
Forwarded == IF case.site = "map" THEN updates \o updates ELSE updates

\* The run of the caller applies what its node gave.
Deliver ==
    /\ stage = "deliver" /\ stage' = "done"
    /\ LET taken == ApplyBatch(Caller.state, caller, Forwarded)
       IN /\ fault' = FirstOf(<<ItemCheck, taken.refused>>)
          /\ caller' = IF ItemCheck = Ok THEN taken.values ELSE caller
    /\ UNCHANGED <<case, child, active, told, left, steps, failure, updates>>

CallIdle ==
    /\ stage = "none" /\ case = <<>> /\ child = <<>> /\ active = {} /\ steps = 0
    /\ told = <<>> /\ left = <<>> /\ failure = Ok /\ updates = <<>> /\ caller = <<>> /\ fault = Ok
CallInit ==
    /\ case \in Cases /\ stage = "declared"
    /\ child = <<>> /\ active = {} /\ told = <<>> /\ left = <<>> /\ steps = 0
    /\ failure = Ok /\ updates = <<>> /\ fault = Ok
    /\ caller = [k \in DOMAIN Caller.state |-> Neutral(Caller.state[k])]

CallNext ==
    \/ Build \/ StartRun \/ NodeFails \/ Deliver
    \/ \E batch \in [active -> Batches], given \in [active -> Given] : Superstep(batch, given)

CallSpec == CallInit /\ [][CallNext]_callvars

-----------------------------------------------------------------------------
\* A call whose graph was built and whose mappings were checked does not fail for a
\* key, a kind or a conflict of its own: it gives its updates and the caller takes them,
\* or it fails because a node or an edge of the called graph did.
CheckedCallsRun ==
    /\ stage = "done" => fault.error \in {"none", "SubGraphFailed"}
    /\ failure.error \in {"none", "NodeFailed", "EmptyEdge", "UndeclaredTarget", "AmbiguousEnd", "UnknownNode"}
    /\ failure.error = "UnknownNode" =>
         \E i \in DOMAIN case.graph.edges : ~case.graph.edges[i].declares /\ case.graph.edges[i].from = failure.name

\* What a run of a called graph gives back, the state of a checkpoint, of its end or of its
\* failure, holds a value of its kind for every key of its schema and no private key.  It is
\* what its start state becomes under the updates its observers were told of, one by one and
\* none refused: nothing of a superstep that failed is in it, though another node's batch
\* was already applied, and no applied update is untold or told out of order.  The caller's
\* state fits its schema whatever was delivered.
GivesBackWhatItTold ==
    /\ stage \in {"child", "deliver"} /\ left # <<>> =>
         LET start == Enters(case.graph, StartValues(case.graph, case.call.inputs))
             replayed == ApplyEach(RunKinds(case.graph), start, told)
         IN /\ Fits(left, case.graph.schema.state)
            /\ replayed.refused = Ok
            /\ \A k \in DOMAIN case.graph.schema.state : left[k] = replayed.values[k]
    /\ stage # "none" => Fits(caller, Caller.state)

\* A call that was checked runs as it was checked, and its run gives back no more and no
\* less than what it told.
SoundCalls == CheckedCallsRun /\ GivesBackWhatItTold
=============================================================================
