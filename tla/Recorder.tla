-------------------------------- MODULE Recorder --------------------------------
(***************************************************************************)
(* The pending writes of a run of br-llm-graph (src/crates/br-llm-graph/src/   *)
(* run/pending.rs, graph/context.rs): what is recorded of the occurrences that *)
(* finished in the superstep that is open, what of it a resumed run uses, and  *)
(* what is dropped.  The graph has a plain node, a map directly in a map, and  *)
(* a call of a graph with a map; ItemMap details one map.                      *)
(*                                                                         *)
(* An occurrence is a sequence of segments, a node and the index of the item    *)
(* or 0.  The state of the run is abstracted to the supersteps applied and the   *)
(* lists its maps find.                                                        *)
(***************************************************************************)
EXTENDS Naturals, Sequences, FiniteSets, SequencesExt

CONSTANTS
    Worlds,    \* the lists the maps may find: [outer, inner, called]
    Foreign,   \* an item that is on no list
    MaxSteps,  \* bound: supersteps applied
    MaxTries   \* bound: runs of the graph

ASSUME RecorderAssumption ==
    /\ MaxSteps \in Nat /\ MaxTries \in Nat \ {0}
    /\ \A w \in Worlds : \A l \in {w.outer, w.inner, w.called} :
         l \in Seq({l[i] : i \in DOMAIN l} \ {Foreign})
    /\ Foreign # "none"

VARIABLES
    private,   \* the graph has private keys
    world,     \* the superstep the state is at, and its lists
    active,    \* Cursor.active
    writes,    \* the recorder of the run: PendingWrites
    phase,     \* "head" before a superstep, "run" in it, "over" with a checkpoint, "ended"
    body,      \* the occurrences that began in this superstep
    gave,      \* what those that ended gave: the world it was made in, and for which item
    host,      \* what a host keeps of the events: the last checkpoint and the records since
    tries,
    edited     \* history: the host resumed with other lists

recvars == <<private, world, active, writes, phase, body, gave, host, tries, edited>>
fixed == <<private, world, active, phase, tries, edited>>

Plain == <<<<"p", 0>>>>
Fan == <<<<"m", 0>>>>
Call == <<<<"c", 0>>>>
Names == {"p", "m", "c"}
EntryNode == "m"
NoItem == "none"
Empty == <<>>

-----------------------------------------------------------------------------
\* OccurrenceKey: the item of a node takes the place of the node's segment, that of an
\* item is pushed below it.
OfNode(run, n) == Append(run, <<n, 0>>)
OfItem(key, i) ==
    IF Last(key)[2] = 0
    THEN Append(Front(key), <<Last(key)[1], i>>)
    ELSE Append(key, <<Last(key)[1], i>>)
StartsWith(key, prefix) == IsPrefix(prefix, key)
IsBelow(key, prefix) == StartsWith(key, prefix) /\ key # prefix

\* PendingWrites.
Insert(pending, key, entry) ==
    [k \in DOMAIN pending \cup {key} |-> IF k = key THEN entry ELSE pending[k]]
Only(pending, keys) == [k \in DOMAIN pending \cap keys |-> pending[k]]
Matching(pending, key, witness) == key \in DOMAIN pending /\ pending[key].witness = witness
DropBelow(pending, key) == Only(pending, {k \in DOMAIN pending : ~IsBelow(k, key)})
BugDropsNodesOnly(pending, run, nodes) ==
    Only(pending, {k \in DOMAIN pending : \A n \in nodes : k # OfNode(run, n)})
DropNodes(pending, run, nodes) ==
    Only(pending, {k \in DOMAIN pending :
                     StartsWith(k, run) => k[Len(run) + 1][1] \notin nodes})
Forget(pending, run, nodes) ==
    Only(pending, {k \in DOMAIN pending : \A n \in nodes : k # OfNode(run, n)})

-----------------------------------------------------------------------------
\* What an occurrence runs on, and what runs below it.
Path(key) == [i \in DOMAIN key |-> key[i][1]]
Parts(key) ==
    CASE Path(key) = <<"m">> ->
           {OfItem(key, i) : i \in DOMAIN IF key = Fan THEN world.lists.outer ELSE world.lists.inner}
      [] key = Call -> {OfNode(Call, "x")}
      [] key = OfNode(Call, "x") -> {OfItem(key, i) : i \in DOMAIN world.lists.called}
      [] OTHER -> {}
Witness(key) ==
    LET i == Last(key)[2]
    IN IF i = 0 THEN NoItem
       ELSE CASE Path(key) = <<"m">> -> world.lists.outer[i]
              [] Path(key) = <<"m", "m">> -> world.lists.inner[i]
              [] OTHER -> world.lists.called[i]

\* Recording is off in the run of a graph with private keys, and inside a called graph.
IsRecorded(key) == ~private /\ ~IsBelow(key, Call)
MayReuse(key) == IsRecorded(key) /\ Matching(writes, key, Witness(key))

Entry(key) == [witness |-> Witness(key), made |-> world]
OfActive == {OfNode(<<>>, n) : n \in active}
IsOver(key) == key \in DOMAIN body /\ body[key] \in {"ended", "failed"}

\* Observer::recorded: items, and nodes with siblings; the host keeps what it is told.
Told(key) == key \in OfActive => Cardinality(active) > 1

Begins(key) ==
    /\ body' = [k \in DOMAIN body \cup {key} \cup Parts(key) |->
                  IF k = key THEN "running" ELSE IF k \in DOMAIN body THEN body[k] ELSE "ready"]
    /\ writes' = IF key = Call THEN DropBelow(writes, key) ELSE writes
    /\ UNCHANGED <<fixed, gave, host>>

EndsWith(key, entry) ==
    /\ body' = [body EXCEPT ![key] = "ended"]
    /\ gave' = Insert(gave, key, entry)
    /\ UNCHANGED fixed

-----------------------------------------------------------------------------
\* run and run_nested: the recorder is the run's own, seeded with what it is given.
Seed(given) == IF private THEN Empty ELSE given
Cursor(nodes) == IF private /\ nodes # {} THEN {EntryNode} ELSE nodes

\* A host may hand over entries of an older checkpoint: of another item, or from inside
\* a called graph, which older versions recorded.
Given ==
    LET old == [made |-> [step |-> MaxSteps + 1, lists |-> world.lists], witness |-> Foreign]
    IN {Empty, Insert(Insert(Empty, OfItem(Fan, 1), old), OfItem(OfNode(Call, "x"), 1), old)}

RecInit ==
    /\ private \in BOOLEAN
    /\ world \in [step : {0}, lists : Worlds]
    /\ active \in (SUBSET Names) \ {{}}
    /\ \E given \in Given : writes = Seed(given)
    /\ host = [world |-> world, active |-> active, pending |-> writes]
    /\ phase = "head" /\ body = Empty /\ gave = Empty
    /\ tries = 1 /\ edited = FALSE

\* A superstep: each active node in its own occurrence.
BeginStep ==
    /\ phase = "head" /\ phase' = "run"
    /\ body' = [k \in OfActive |-> "ready"] /\ gave' = Empty
    /\ UNCHANGED <<private, world, active, writes, host, tries, edited>>

Reuses(key) ==
    /\ phase = "run" /\ body[key] = "ready" /\ MayReuse(key)
    /\ EndsWith(key, writes[key])
    /\ UNCHANGED <<writes, host>>

Runs(key) == phase = "run" /\ body[key] = "ready" /\ ~MayReuse(key) /\ Begins(key)

PartsOver(key) == phase = "run" /\ body[key] = "running" /\ \A part \in Parts(key) : IsOver(part)

Finishes(key) ==
    /\ PartsOver(key) /\ \A part \in Parts(key) : body[part] = "ended"
    /\ EndsWith(key, Entry(key))
    /\ writes' = IF IsRecorded(key) THEN Insert(writes, key, Entry(key)) ELSE writes
    /\ host' = IF IsRecorded(key) /\ Told(key)
               THEN [host EXCEPT !.pending = Insert(@, key, Entry(key))] ELSE host

\* An error or a panic records nothing; a map fails when an item of it did, and what
\* calls a body may refuse what the body gave.
Breaks(key) ==
    /\ PartsOver(key)
    /\ \/ Parts(key) = {} \/ key \notin {Fan, OfNode(Call, "x")}
       \/ \E part \in Parts(key) : body[part] = "failed"
    /\ body' = [body EXCEPT ![key] = "failed"]
    /\ UNCHANGED <<fixed, writes, gave, host>>

-----------------------------------------------------------------------------
\* settle, once the nodes are over: the superstep is applied as a whole or not at all.
StepOver == phase = "run" /\ \A key \in OfActive : IsOver(key)
Returned == {n \in active : body[OfNode(<<>>, n)] = "ended"}

\* A node failed, updates were refused, or an edge or the end could not be resolved:
\* the nodes whose updates are refused are forgotten.
FailStep ==
    /\ StepOver /\ phase' = "over"
    /\ \E refused \in SUBSET Returned : writes' = Forget(writes, <<>>, refused)
    /\ UNCHANGED <<private, world, active, body, gave, host, tries, edited>>

\* The host hears of the checkpoint, and the run goes on, pauses or ends.
ApplyStep ==
    /\ StepOver /\ Returned = active /\ world.step < MaxSteps
    /\ \E lists \in Worlds : world' = [step |-> world.step + 1, lists |-> lists]
    /\ writes' = DropNodes(writes, <<>>, active)
    /\ active' \in SUBSET Names
    /\ phase' \in IF active' = {} THEN {"ended"} ELSE {"head", "over"}
    /\ host' = [world |-> world', active |-> Cursor(active'), pending |-> Empty]
    /\ body' = Empty /\ gave' = Empty /\ edited' = FALSE
    /\ UNCHANGED <<private, tries>>

CancelRun ==
    /\ phase = "run" /\ phase' = "over"
    /\ UNCHANGED <<private, world, active, writes, body, gave, host, tries, edited>>

Restarts(from, nodes, pending) ==
    /\ tries < MaxTries /\ tries' = tries + 1
    /\ world' = from /\ active' = Cursor(nodes) /\ writes' = Seed(pending)
    /\ phase' = "head" /\ body' = Empty /\ gave' = Empty
    /\ host' = [world |-> from, active |-> active', pending |-> writes']
    /\ UNCHANGED private

\* From the checkpoint of the outcome, whose state the host may have changed.
ResumeRun ==
    /\ phase = "over"
    /\ \E lists \in Worlds :
         /\ Restarts([world EXCEPT !.lists = lists], active, writes)
         /\ edited' = (edited \/ lists # world.lists)

\* The process is lost: from what the host kept of the events.
LoseRun ==
    /\ phase \in {"head", "run"}
    /\ \E kept \in SUBSET DOMAIN host.pending :
         Restarts(host.world, host.active, Only(host.pending, kept))
    /\ UNCHANGED edited

RecNext ==
    \/ BeginStep \/ FailStep \/ ApplyStep \/ CancelRun \/ ResumeRun \/ LoseRun
    \/ \E key \in DOMAIN body : Reuses(key) \/ Runs(key) \/ Finishes(key) \/ Breaks(key)
RecSpec == RecInit /\ [][RecNext]_recvars

-----------------------------------------------------------------------------
\* What an occurrence gives was made for the item it is of, in the superstep that is
\* open: no entry outlives its superstep, whatever failed, was cancelled, refused or lost
\* in between.  It was made on the very lists of the state, unless the host resumed with
\* others; and inside a called graph whatever the host did.
ReusedIsOwn ==
    phase = "run" =>
        \A key \in DOMAIN gave :
            /\ gave[key].witness = Witness(key)
            /\ gave[key].made.step = world.step
            /\ ~edited \/ IsBelow(key, Call) => gave[key].made = world
=============================================================================
