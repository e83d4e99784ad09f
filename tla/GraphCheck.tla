--------------------------------- MODULE GraphCheck ---------------------------------
(***************************************************************************)
(* The graph value of br-graph-contract                                       *)
(* (src/crates/br-graph-contract/src/graph): a declared shape, or a document   *)
(* read, is put in canonical order, checked rule after rule, then by two        *)
(* floods, one from the entries and one back from END.  A graph that passed is  *)
(* built, and its edges are evaluated.                                        *)
(* Names are numbers, of which Malformed are no identifier; END is no name.     *)
(***************************************************************************)
EXTENDS Lists, SequencesExt, Checks

CONSTANTS
    Sources,   \* what is built: [shape, keys], keys being <<>> for a builder
    Malformed, \* the names, kinds and versions names.rs refuses
    Returned   \* what the code of an edge may return: sequences of targets

END == 0
Shapes == [version : Nat,
           nodes : Seq([name : Nat \ {END}, kind : Nat, subkind : Nat]),
           edges : Seq([name : Nat, source : Nat \ {END}, targets : Seq(Nat)]),
           entries : Seq(Nat \ {END})]
ASSUME GraphCheckAssumption == END \notin Malformed /\ \A s \in Sources : s.shape \in Shapes

VARIABLES
    source,    \* what was declared, or the document
    structure, \* its canonical form
    phase,     \* "declared", "forward", "backward", "built" or "refused"
    seen,      \* flood: the nodes seen
    frontier,  \* flood: those whose neighbours are still to be seen
    verdict,   \* what the build gave
    answer     \* what the last evaluation of an edge gave

gvars == <<source, structure, phase, seen, frontier, verdict, answer>>

Before(s, i) == {s[j] : j \in 1..i - 1}
Names(g) == {g.nodes[i].name : i \in DOMAIN g.nodes}
Entries(g) == {g.entries[i] : i \in DOMAIN g.entries}
EdgesOf(g) == {g.edges[i] : i \in DOMAIN g.edges}
TargetsOf(e) == {e.targets[i] : i \in DOMAIN e.targets}

-----------------------------------------------------------------------------
\* Structure::from_shape: the order of the declarations is forgotten.
ByName(s) == Sorted(s, [i \in DOMAIN s |-> s[i].name])
Canonical(g) ==
    [version |-> g.version, nodes |-> ByName(g.nodes), edges |-> ByName(g.edges),
     entries |-> Sorted(g.entries, g.entries)]

\* A field given twice, missing or unknown makes a document malformed.
Fields == {"version", "entries", "nodes", "edges"}
IsMalformed(keys) ==
    keys # <<>> /\ ({keys[i] : i \in DOMAIN keys} # Fields \/ ~IsInjective(keys))

NodeCheck(nodes, i) ==
    LET node == nodes[i] IN
    FirstOf(<<Refusal(node.name \in Malformed, "InvalidNodeName", node.name),
              Refusal(node.kind \in Malformed, "InvalidNodeKind", node.name),
              Refusal(node.subkind \in Malformed, "InvalidNodeSubkind", node.name),
              Refusal(\E j \in 1..i - 1 : nodes[j].name = node.name, "DuplicateNodeName", node.name)>>)
CheckNodes(g) ==
    FirstOf(<<Refusal(g.nodes = <<>>, "NoNodes", END)>>
            \o [i \in DOMAIN g.nodes |-> NodeCheck(g.nodes, i)])

EntryCheck(g, i) ==
    FirstOf(<<Refusal(g.entries[i] \in Before(g.entries, i), "DuplicateEntry", g.entries[i]),
              Refusal(g.entries[i] \notin Names(g), "EntryNotANode", g.entries[i])>>)
CheckEntries(g) ==
    FirstOf(<<Refusal(g.entries = <<>>, "NoEntry", END)>>
            \o [i \in DOMAIN g.entries |-> EntryCheck(g, i)])

TargetCheck(g, e, i) ==
    FirstOf(<<Refusal(e.targets[i] \in Before(e.targets, i), "DuplicateTarget", e.name),
              Refusal(e.targets[i] \notin Names(g) \cup {END}, "UnknownTarget", e.name)>>)
CheckTargets(g, e) ==
    FirstOf(<<Refusal(e.targets = <<>>, "EmptyTargets", e.name)>>
            \o [i \in DOMAIN e.targets |-> TargetCheck(g, e, i)])

EdgeCheck(g, i) ==
    LET edge == g.edges[i] IN
    FirstOf(<<Refusal(edge.name \in Malformed, "InvalidEdgeName", edge.name),
              Refusal(\E j \in 1..i - 1 : g.edges[j].name = edge.name, "DuplicateEdgeName", edge.name),
              Refusal(edge.source \notin Names(g), "EdgeSourceNotANode", edge.name),
              Refusal(\E j \in 1..i - 1 : g.edges[j].source = edge.source, "NodeWithSeveralEdges", edge.source),
              CheckTargets(g, edge)>>)
WithoutEdge(g, i) ==
    LET name == g.nodes[i].name IN
    Refusal(\A e \in EdgesOf(g) : e.source # name, "NodeWithoutEdge", name)
CheckEdges(g) ==
    FirstOf([i \in DOMAIN g.edges |-> EdgeCheck(g, i)] \o [i \in DOMAIN g.nodes |-> WithoutEdge(g, i)])

Validate(g) ==
    LET checks == <<Refusal(g.version \in Malformed, "InvalidVersion", END), CheckNodes(g)>>
    IN IF FirstOf(checks) # Ok THEN FirstOf(checks) ELSE FirstOf(<<CheckEntries(g), CheckEdges(g)>>)

-----------------------------------------------------------------------------
Targets(g, n) == UNION {TargetsOf(e) : e \in {e \in EdgesOf(g) : e.source = n}}
Forward(g, n) == Targets(g, n) \cap Names(g)
Backward(g, n) == {o \in Names(g) : n \in Targets(g, o)}
BugExits(g) == {n \in Names(g) : Targets(g, n) = {END}}
Exits(g) == {n \in Names(g) : END \in Targets(g, n)}

\* What an evaluation gives: the targets chosen, or why it failed.
Failed(why) == [failed |-> why, targets |-> <<>>]
Chose(targets) == [failed |-> "none", targets |-> targets]

GraphInit ==
    /\ source \in Sources
    /\ structure = source.shape /\ phase = "declared"
    /\ seen = {} /\ frontier = {} /\ verdict = Ok /\ answer = Chose(<<>>)

Seed(to, nodes) == phase' = to /\ seen' = nodes /\ frontier' = nodes /\ UNCHANGED verdict
Refuse(what) == phase' = "refused" /\ verdict' = what /\ UNCHANGED <<seen, frontier>>

Check ==
    /\ phase = "declared"
    /\ structure' = Canonical(source.shape)
    /\ IF IsMalformed(source.keys) THEN Refuse([error |-> "Malformed", name |-> END])
       ELSE IF Validate(structure') # Ok THEN Refuse(Validate(structure'))
       ELSE Seed("forward", Entries(structure'))
    /\ UNCHANGED <<source, answer>>

\* One round of a flood; the order of its stack is left free.
Neighbours(n) == IF phase = "forward" THEN Forward(structure, n) ELSE Backward(structure, n)
Visit(n) ==
    /\ seen' = seen \cup Neighbours(n)
    /\ frontier' = (frontier \ {n}) \cup (Neighbours(n) \ seen)
Pop(n) ==
    /\ phase \in {"forward", "backward"} /\ n \in frontier
    /\ Visit(n)
    /\ UNCHANGED <<source, structure, phase, verdict, answer>>

Missed == Names(structure) \ seen
First(names) == CHOOSE n \in names : \A o \in names : n <= o

EndForward ==
    /\ phase = "forward" /\ frontier = {}
    /\ IF Missed # {} THEN Refuse([error |-> "UnreachableNode", name |-> First(Missed)])
       ELSE Seed("backward", Exits(structure))
    /\ UNCHANGED <<source, structure, answer>>

EndBackward ==
    /\ phase = "backward" /\ frontier = {}
    /\ IF Missed # {} THEN Refuse([error |-> "EndUnreachable", name |-> First(Missed)])
       ELSE phase' = "built" /\ UNCHANGED <<seen, frontier, verdict>>
    /\ UNCHANGED <<source, structure, answer>>

\* Graph::evaluate_edge: what the edge of a node chose among what it declared.
EdgeOf(n) == CHOOSE e \in EdgesOf(structure) : e.source = n
Chosen(n, returned) ==
    LET declared == EdgeOf(n).targets IN
    IF \E i \in DOMAIN returned : returned[i] \notin TargetsOf(EdgeOf(n))
    THEN Failed("UndeclaredTarget")
    ELSE Chose(Among(declared, {returned[i] : i \in DOMAIN returned}))
Evaluated(n, returned) ==
    IF n \notin Names(structure) THEN Failed("UnknownNode")
    ELSE IF returned = <<>> THEN Failed("EmptyTargets")
    ELSE IF \E i, j \in DOMAIN returned : returned[i] = END /\ returned[j] # END
         THEN Failed("EndMixedWithNodes")
    ELSE Chosen(n, returned)

Evaluate(n, returned) ==
    /\ phase = "built" /\ answer' = Evaluated(n, returned)
    /\ UNCHANGED <<source, structure, phase, seen, frontier, verdict>>

GraphNext ==
    \/ Check \/ EndForward \/ EndBackward
    \/ \E n \in frontier : Pop(n)
    \/ \E n \in Names(structure) \cup Malformed, returned \in Returned : Evaluate(n, returned)

GraphSpec == GraphInit /\ [][GraphNext]_gvars
-----------------------------------------------------------------------------
GraphTypeOK ==
    /\ phase \in {"declared", "forward", "backward", "built", "refused"}
    /\ frontier \subseteq seen /\ seen \subseteq Names(structure)

\* What reach.rs computes, without its floods: the targets that are in every set that
\* holds the seeds and all that its members lead to.
Leads(g, seeds) ==
    {t \in Names(g) \cup {END} :
        \A set \in SUBSET (Names(g) \cup {END}) :
            (seeds \subseteq set /\ \A m \in set : Targets(g, m) \subseteq set) => t \in set}
Unreached(g) == Names(g) \ Leads(g, Entries(g))
Endless(g) == {n \in Names(g) : END \notin Leads(g, {n})}

\* The rules of a graph, told of sets: what a shape says, not how it was declared.
Unique(s) == \A i, j \in DOMAIN s : s[i].name = s[j].name => i = j
FollowsRules(g) ==
    /\ {g.version} \cup Names(g) \cup UNION {{e.name} : e \in EdgesOf(g)} \subseteq Nat \ Malformed
    /\ \A i \in DOMAIN g.nodes : {g.nodes[i].kind, g.nodes[i].subkind} \cap Malformed = {}
    /\ Unique(g.nodes) /\ Unique(g.edges) /\ IsInjective(g.entries)
    /\ Entries(g) # {} /\ Entries(g) \subseteq Names(g)
    /\ \A n \in Names(g) : \E i \in DOMAIN g.edges :
          /\ g.edges[i].source = n /\ \A j \in DOMAIN g.edges : g.edges[j].source = n => i = j
    /\ \A e \in EdgesOf(g) :
          /\ e.source \in Names(g) /\ IsInjective(e.targets)
          /\ TargetsOf(e) # {} /\ TargetsOf(e) \subseteq Names(g) \cup {END}

\* A graph is built when, and only when, its shape follows every rule, every node is
\* reached from an entry and END from every node, over the cycles it may have; a
\* refusal for reach blames the first node, by name, that is not reached.
BuiltIfSound ==
    LET g == source.shape IN
    /\ phase = "built" => FollowsRules(g) /\ Unreached(g) = {} /\ Endless(g) = {}
    /\ phase = "refused" =>
         \/ IsMalformed(source.keys)
         \/ ~FollowsRules(g) /\ verdict.error \notin {"UnreachableNode", "EndUnreachable"}
         \/ /\ FollowsRules(g) /\ Unreached(g) # {}
            /\ verdict = [error |-> "UnreachableNode", name |-> First(Unreached(g))]
         \/ /\ FollowsRules(g) /\ Unreached(g) = {} /\ Endless(g) # {}
            /\ verdict = [error |-> "EndUnreachable", name |-> First(Endless(g))]

\* A run that follows what the edges of a built graph answer never stands where END is
\* out of reach: an edge answers END alone, or nodes from which END is reached, once each.
NeverStranded ==
    phase = "built" =>
        \/ answer.targets = <<END>>
        \/ IsInjective(answer.targets) /\ TargetsOf(answer) \subseteq Names(structure) \ Endless(structure)

\* What is built is what the rules ask, and no run on it is led where it cannot end.
SoundGraphs == BuiltIfSound /\ NeverStranded
=============================================================================
