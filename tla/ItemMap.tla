--------------------------------- MODULE ItemMap ---------------------------------
(***************************************************************************)
(* A map of br-llm-graph (src/crates/br-llm-graph/src/graph/map.rs): a body   *)
(* run over each item of a list, within a window, and what it records of them *)
(* in the pending writes of its run, over attempts that fail, are cancelled    *)
(* or are lost.  The map may stand in a called graph (graph/subgraph), which   *)
(* restarts whole: its list may then differ from an attempt to the next, as    *)
(* it may when the host resumes with another state.                           *)
(***************************************************************************)
EXTENDS Naturals, Sequences, FiniteSets

CONSTANTS
    Lists,    \* the lists the map may find
    Widths,   \* max_concurrency, 0 for None
    Attempts  \* bound: runs of the map

ASSUME ItemMapAssumption ==
    /\ \A l \in Lists : l \in Seq({l[i] : i \in DOMAIN l})
    /\ Widths \subseteq Nat /\ Attempts \in Nat \ {0}

VARIABLES
    conf,     \* on_item_failure, max_concurrency, and whether the map is in a called graph
    list,     \* the items of this attempt
    item,     \* the runs of the items, by index
    result,   \* what the ended ones gave: updates, or an error
    stop,     \* the flag of FailFast
    entries,  \* PendingWrites: the entry of each index
    pc,       \* "idle" before and between attempts
    out,      \* what the map gave: the updates forwarded, or the error
    attempt,
    ended     \* history: the items that ended and were not lost, by index

vars == <<conf, list, item, result, stop, entries, pc, out, attempt, ended>>

Policies == {"Finish", "FailFast", "Capture"}
\* Updates are told by the item they were made for, and errors by its index.
Updates(v, by) == [item |-> v, by |-> by]
Error(i) == [error |-> i]
IsError(r) == "error" \in DOMAIN r
NoOut == [none |-> TRUE]

Items == DOMAIN list
InProgress(it) == {i \in DOMAIN it : it[i] \in {"pulled", "running"}}

Min2(a, b) == IF a < b THEN a ELSE b

Init ==
    /\ conf \in [policy : Policies, width : Widths, called : BOOLEAN]
    /\ list \in Lists
    /\ item = <<>> /\ result = <<>> /\ stop = FALSE /\ entries = <<>>
    /\ pc = "idle" /\ out = NoOut /\ attempt = 0 /\ ended = <<>>

-----------------------------------------------------------------------------
\* The stream: items are taken in order while there is room and no stop.
Width == IF conf.width # 0 THEN conf.width ELSE IF list = <<>> THEN 1 ELSE Len(list)

Taken(it) == {i \in DOMAIN it : it[i] # "waiting"}
Fill(it, stopped) ==
    LET upto == Min2(Len(list), Cardinality(Taken(it)) + Width - Cardinality(InProgress(it)))
    IN [i \in Items |-> IF it[i] = "waiting" /\ i <= upto /\ ~stopped THEN "pulled" ELSE it[i]]

\* An item ends: the stream gives its result, and takes the next.
Ends(i, r, stopped) ==
    /\ stop' = stopped
    /\ item' = Fill([item EXCEPT ![i] = "ended"], stopped)
    /\ result' = [result EXCEPT ![i] = r]
    /\ UNCHANGED <<conf, list, pc, out, attempt>>

\* A called graph starts: SubGraph drops what is recorded below it, and records nothing.
Recording == ~conf.called
Kept == IF conf.called THEN <<>> ELSE entries

Start ==
    /\ pc = "idle" /\ attempt < Attempts
    /\ pc' = "map" /\ attempt' = attempt + 1
    /\ item' = Fill([i \in Items |-> "waiting"], FALSE)
    /\ result' = [i \in Items |-> NoOut] /\ stop' = FALSE
    /\ entries' = Kept /\ ended' = IF conf.called THEN <<>> ELSE ended
    /\ UNCHANGED <<conf, list, out>>

-----------------------------------------------------------------------------
\* Context::recorded_item: the entry stands for the item it was recorded on only.
BugAnyWitness(i) == Recording /\ i \in DOMAIN entries
Recorded(i) == Recording /\ i \in DOMAIN entries /\ entries[i].item = list[i]

With(f, i, v) == [j \in DOMAIN f \cup {i} |-> IF j = i THEN v ELSE f[j]]

Reuse(i) ==
    /\ pc = "map" /\ item[i] = "pulled" /\ Recorded(i)
    /\ Ends(i, entries[i], stop)
    /\ UNCHANGED <<entries, ended>>

StartBody(i) ==
    /\ pc = "map" /\ item[i] = "pulled" /\ ~Recorded(i)
    /\ item' = [item EXCEPT ![i] = "running"]
    /\ UNCHANGED <<conf, list, result, stop, entries, pc, out, attempt, ended>>

Records(i, updates) ==
    /\ entries' = IF Recording THEN With(entries, i, updates) ELSE entries
    /\ ended' = With(ended, i, list[i])
    /\ Ends(i, updates, stop)

Fails(i) ==
    /\ Ends(i, Error(i), stop \/ conf.policy = "FailFast")
    /\ UNCHANGED <<entries, ended>>

BodyReturns(i) ==
    /\ pc = "map" /\ item[i] = "running"
    /\ Records(i, Updates(list[i], "body"))

\* An update that is no append to a list: an error no policy captures.
BodyReturnsOther(i) ==
    /\ pc = "map" /\ item[i] = "running" /\ Fails(i)

BugCapturesUnrecorded(i) ==
    /\ ended' = With(ended, i, list[i])
    /\ Ends(i, Updates(list[i], "capture"), stop)
    /\ UNCHANGED entries
Captured(i) == Records(i, Updates(list[i], "capture"))

BodyFails(i) ==
    /\ pc = "map" /\ item[i] = "running"
    /\ IF conf.policy = "Capture" THEN Captured(i) ELSE Fails(i)

-----------------------------------------------------------------------------
\* The end of the map, whatever ends it.
Leaves(to, gives) ==
    /\ pc' = to /\ out' = gives
    /\ UNCHANGED <<conf, list, item, result, stop, entries, attempt, ended>>

FirstError == CHOOSE i \in Items : IsError(result[i]) /\ \A j \in Items : IsError(result[j]) => i <= j

Returns ==
    /\ pc = "map" /\ InProgress(item) = {}
    /\ IF \E i \in Items : IsError(result[i])
       THEN Leaves("over", Error(FirstError))
       ELSE Leaves("done", [updates |-> result])

BodyPanics(i) ==
    /\ pc = "map" /\ item[i] = "running"
    /\ Leaves("over", [panic |-> i])

\* The run is cancelled: the futures of the items are dropped with the map's.
Cancel == pc = "map" /\ Leaves("over", NoOut)

\* Resumed from the checkpoint of the outcome, or, when the process was lost, from
\* the entries the host kept of those the observer was told.
\* The host, or what comes before the map in the called graph, may change the list.
Resume ==
    /\ pc \in {"map", "over"} /\ attempt < Attempts
    /\ \E kept \in IF pc = "over" THEN {DOMAIN entries} ELSE SUBSET DOMAIN entries :
         /\ entries' = [i \in kept |-> entries[i]]
         /\ ended' = [i \in DOMAIN ended \cap kept |-> ended[i]]
    /\ list' \in Lists
    /\ pc' = "idle" /\ item' = <<>> /\ result' = <<>> /\ stop' = FALSE /\ out' = NoOut
    /\ UNCHANGED <<conf, attempt>>

Next ==
    \/ Start \/ Returns \/ Cancel \/ Resume
    \/ \E i \in Items :
         \/ Reuse(i) \/ StartBody(i) \/ BodyPanics(i)
         \/ BodyReturns(i) \/ BodyReturnsOther(i) \/ BodyFails(i)

Spec == Init /\ [][Next]_vars

-----------------------------------------------------------------------------
Result == [item : UNION {{l[i] : i \in DOMAIN l} : l \in Lists}, by : {"body", "capture"}]
TypeOK ==
    /\ conf \in [policy : Policies, width : Widths, called : BOOLEAN] /\ list \in Lists
    /\ pc \in {"idle", "map", "over", "done"} /\ stop \in BOOLEAN /\ attempt \in 0..Attempts
    /\ \A i \in DOMAIN entries : entries[i] \in Result
    /\ pc = "map" => item \in [Items -> {"waiting", "pulled", "running", "ended"}]

\* A map that returns gives the updates of every item of its list, in the order of
\* the list, and none that was recorded for another item.
ForwardsItems ==
    pc = "done" => /\ DOMAIN out.updates = Items
                   /\ \A i \in Items : out.updates[i].item = list[i]

\* The body of an item that ended is not run again for it, a captured failure
\* included, in this attempt or a later one; in a called graph only the latter may.
NotRunAgain ==
    [][\A i \in Items :
         pc = "map" /\ pc' = "map" /\ item[i] # "running" /\ item'[i] = "running" =>
           ~(i \in DOMAIN ended /\ ended[i] = list[i])]_vars

\* What a failed map tells: the first error in the order of the list.  With Finish
\* every item ended, with FailFast the items that did not start are the last.
FailsAsAsked ==
    pc = "over" /\ IsError(out) =>
        /\ IsError(result[out.error])
        /\ \A i \in 1..out.error - 1 : item[i] = "ended" /\ ~IsError(result[i])
        /\ conf.policy # "FailFast" => \A i \in Items : item[i] = "ended"

\* Whatever the order the items end in, what the map gives is of its list.
GivesInOrder == ForwardsItems /\ FailsAsAsked
=============================================================================
