------------------------------- MODULE MCGraphCheck -------------------------------
(***************************************************************************)
(* The checks of both graph crates over families of declared graphs: a          *)
(* behaviour builds one graph of br-graph-contract, or one call of br-llm-graph. *)
(***************************************************************************)
EXTENDS GraphCheck, CallCheck

MCNode(n) == [name |-> n, kind |-> 1, subkind |-> 1]
MCEdge(n, from, targets) == [name |-> n, source |-> from, targets |-> targets]
MCShape(nodes, edges, entries) == [version |-> 1, nodes |-> nodes, edges |-> edges, entries |-> entries]
MCBuilt(shape) == [shape |-> shape, keys |-> <<>>]

\* Ways three nodes lead to each other and to END, from several sets of entries.
MCOrdered == {<<0>>, <<1>>, <<2>>, <<3>>, <<1, 0>>, <<0, 2>>, <<3, 0>>, <<2, 1>>, <<1, 3>>, <<2, 3>>,
              <<0, 1, 2>>, <<3, 2, 1>>, <<0, 3, 1, 2>>}
MCWhole ==
    {MCBuilt(MCShape(<<MCNode(3), MCNode(1), MCNode(2)>>,
                     <<MCEdge(2, 1, a), MCEdge(3, 2, b), MCEdge(1, 3, c)>>, entries)) :
        a \in MCOrdered, b \in MCOrdered, c \in MCOrdered, entries \in {<<1>>, <<3, 2>>, <<3, 1, 2>>}}

\* Shapes that break the rules, one or several at once; 9 is no identifier.
MCPairs(S) == {<<>>} \cup {<<s>> : s \in S} \cup {<<s, t>> : s, t \in S}
MCOdd ==
    {MCBuilt(MCShape(nodes, edges, entries)) :
        nodes \in {<<>>, <<MCNode(1), MCNode(1)>>, <<MCNode(2), MCNode(1)>>, <<MCNode(1), MCNode(9)>>,
                   <<[MCNode(1) EXCEPT !.kind = 9]>>, <<[MCNode(1) EXCEPT !.subkind = 9]>>, <<MCNode(1)>>},
        edges \in MCPairs({MCEdge(1, 1, <<0>>), MCEdge(1, 2, <<1, 1>>), MCEdge(2, 1, <<>>),
                           MCEdge(2, 2, <<2, 0>>), MCEdge(9, 2, <<3>>), MCEdge(3, 3, <<0>>)}),
        entries \in {<<>>, <<1>>, <<2>>, <<1, 1>>}}
MCPlain == MCShape(<<MCNode(1)>>, <<MCEdge(1, 1, <<0, 1>>)>>, <<1>>)
MCDocuments ==
    {[shape |-> shape, keys |-> keys] :
        shape \in {MCPlain, [MCPlain EXCEPT !.version = 9], [MCPlain EXCEPT !.entries = <<>>]},
        keys \in {<<"nodes", "edges", "version", "entries">>, <<"nodes", "edges", "version">>,
                  <<"nodes", "edges", "version", "entries", "nodes">>,
                  <<"nodes", "edges", "version", "entries", "colour">>}}
MCSources == MCWhole \cup MCOdd \cup MCDocuments
MCReturned == {<<>>, <<0>>, <<0, 1>>, <<2, 1, 2>>, <<3>>, <<4>>}

-----------------------------------------------------------------------------
MCCaller == [state |-> [n |-> Scalar("int"), t |-> Scalar("str"), ns |-> ListOf("int"), ts |-> ListOf("str")],
             config |-> [c |-> Scalar("int")]]

MCAt(from, key) == [from |-> from, key |-> key, value |-> NoValue]
MCConst(value) == [from |-> "const", key |-> "none", value |-> value]
MCMap(key, from) == [key |-> key, source |-> from]
MCTo(op, key) == [op |-> op, key |-> key]
MCOut(key, target) == [key |-> key, target |-> target]
MCCapture(target, from) == [target |-> target, source |-> from]
MCGo(name) == [to |-> "node", name |-> name]
MCEnd(label) == [to |-> "end", name |-> label]
MCFrom(from, declares, targets) == [from |-> from, declares |-> declares, targets |-> targets]

\* A graph of two nodes, an input "a", an output "r", a list "h" and a private "p",
\* and what is wrong with it in its variants.
MCGraph ==
    [schema |-> [state |-> [a |-> Scalar("int"), r |-> Scalar("str"), h |-> ListOf("int")],
                 config |-> [k |-> Scalar("int")], defaults |-> [r |-> ValueOf("str")]],
     private |-> [p |-> Scalar("conversation")],
     inputs |-> <<"a">>, outputs |-> <<"r", "h">>, entry |-> "x", nodes |-> <<"x", "y">>,
     edges |-> <<MCFrom("x", TRUE, {MCGo("x"), MCGo("y"), MCEnd("done"), MCEnd("kept")}), MCFrom("y", FALSE, {})>>]
MCGraphs ==
    {MCGraph,
     [MCGraph EXCEPT !.schema.defaults = [r |-> ValueOf("int")]], [MCGraph EXCEPT !.schema.defaults = [z |-> ValueOf("int")]],
     [MCGraph EXCEPT !.private = [r |-> Scalar("str")]], [MCGraph EXCEPT !.outputs = <<"r", "p">>],
     [MCGraph EXCEPT !.inputs = <<"a", "a">>], [MCGraph EXCEPT !.inputs = <<>>], [MCGraph EXCEPT !.inputs = <<"a", "h">>],
     [MCGraph EXCEPT !.entry = "none"], [MCGraph EXCEPT !.entry = "z"], [MCGraph EXCEPT !.nodes = <<"x", "y", "x">>],
     [MCGraph EXCEPT !.edges = <<MCFrom("x", TRUE, {MCGo("z")}), MCFrom("y", TRUE, {MCEnd("done")})>>],
     [MCGraph EXCEPT !.edges = <<MCFrom("x", TRUE, {MCGo("y")})>>],
     [MCGraph EXCEPT !.edges = Append(@, MCFrom("y", TRUE, {MCEnd("done")}))],
     [MCGraph EXCEPT !.edges = Append(@, MCFrom("z", TRUE, {MCEnd("done")}))]}

MCInputs ==
    {<<>>, <<MCMap("a", MCAt("state", "n"))>>, <<MCMap("a", MCAt("state", "t"))>>, <<MCMap("a", MCAt("state", "z"))>>,
     <<MCMap("a", MCAt("config", "c"))>>, <<MCMap("r", MCAt("state", "t"))>>,
     <<MCMap("a", MCConst(ValueOf("int"))), MCMap("a", MCAt("state", "n"))>>,
     <<MCMap("a", MCConst(ValueOf("int"))), MCMap("h", MCConst([tag |-> "list", items |-> <<"int", "str">>]))>>,
     <<MCMap("a", MCConst(ValueOf("int"))), MCMap("h", MCConst([tag |-> "list", items |-> <<"int">>]))>>}
MCConfigs ==
    {<<>>, <<MCMap("k", MCAt("config", "c"))>>, <<MCMap("k", MCAt("state", "t"))>>, <<MCMap("z", MCAt("config", "c"))>>,
     <<MCMap("k", MCAt("config", "c")), MCMap("k", MCAt("state", "n"))>>}
MCOutputs ==
    {<<>>, <<MCOut("p", MCTo("Set", "t"))>>, <<MCOut("r", MCTo("Set", "t"))>>, <<MCOut("r", MCTo("Append", "ts"))>>,
     <<MCOut("r", MCTo("Append", "ns"))>>, <<MCOut("r", MCTo("Set", "t")), MCOut("r", MCTo("Set", "t"))>>,
     <<MCOut("r", MCTo("Append", "ts")), MCOut("h", MCTo("Set", "ns"))>>, <<MCOut("h", MCTo("Append", "ns"))>>,
     <<MCOut("a", MCTo("Set", "n"))>>}
MCEnds == {<<>>, <<MCTo("Set", "t")>>, <<MCTo("Append", "ts")>>, <<MCTo("Set", "n")>>}
MCCaptures ==
    {<<>>, <<MCCapture(MCTo("Set", "t"), MCAt("reason", "none"))>>, <<MCCapture(MCTo("Append", "ts"), MCAt("state", "t"))>>,
     <<MCCapture(MCTo("Set", "n"), MCAt("reason", "none"))>>, <<MCCapture(MCTo("Append", "ns"), MCConst(ValueOf("int")))>>,
     <<MCCapture(MCTo("Set", "t"), MCAt("state", "z"))>>,
     <<MCCapture(MCTo("Set", "n"), MCConst(ValueOf("int"))), MCCapture(MCTo("Set", "n"), MCAt("state", "n"))>>}

MCCall(inputs, config, outputs, end, capture, captures) ==
    [inputs |-> inputs, config |-> config, outputs |-> outputs, end |-> end,
     capture |-> capture, captures |-> IF capture THEN captures ELSE <<>>]
MCGoodIn == <<MCMap("a", MCAt("state", "n"))>>
MCGoodConfig == <<MCMap("k", MCAt("config", "c"))>>
MCCalls ==
    {MCCall(i, c, <<>>, <<>>, FALSE, <<>>) : i \in MCInputs, c \in MCConfigs}
    \cup {MCCall(MCGoodIn, MCGoodConfig, o, e, FALSE, <<>>) : o \in MCOutputs, e \in MCEnds}
    \cup {MCCall(MCGoodIn, MCGoodConfig, o, <<>>, TRUE, c) : o \in {<<>>, <<MCOut("r", MCTo("Set", "t"))>>}, c \in MCCaptures}
MCCases == [graph : MCGraphs, call : MCCalls, site : {"graph", "map"}]

MCUpdate(op, key, tag) == Update(op, key, ValueOf(tag))
MCBatches ==
    {<<>>, <<MCUpdate("Set", "a", "str")>>, <<MCUpdate("Append", "h", "str")>>, <<MCUpdate("Append", "a", "int")>>,
     <<MCUpdate("Set", "z", "int")>>, <<MCUpdate("Input", "p", "none")>>, <<MCUpdate("Input", "a", "none")>>,
     <<MCUpdate("Set", "r", "str"), MCUpdate("Set", "r", "str")>>,
     <<MCUpdate("Append", "h", "int"), MCUpdate("Set", "r", "str")>>,
     <<MCUpdate("Append", "h", "int"), MCUpdate("Set", "a", "str")>>, <<MCUpdate("Set", "h", "list")>>}
MCGiven == {{}, {MCGo("y")}, {MCGo("z")}, {MCEnd("done")}, {MCEnd("other")}, {MCEnd("done"), MCEnd("kept")},
            {MCGo("y"), MCEnd("done")}, {MCGo("x"), MCGo("y")}}

-----------------------------------------------------------------------------
GraphIdle ==
    /\ source = <<>> /\ structure = <<>> /\ phase = "none" /\ seen = {} /\ frontier = {}
    /\ verdict = Ok /\ answer = Failed("none")

MCInit == \/ GraphInit /\ CallIdle
          \/ CallInit /\ GraphIdle
GraphStep == phase # "none" /\ GraphNext /\ UNCHANGED callvars
CallStep == phase = "none" /\ CallNext /\ UNCHANGED gvars
MCNext == GraphStep \/ CallStep
MCSpec == MCInit /\ [][MCNext]_<<gvars, callvars>>
=============================================================================
