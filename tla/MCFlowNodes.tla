---- MODULE MCFlowNodes ----
(***************************************************************************)
(* Small instances of the two flow nodes: a behaviour is one of a map-reduce   *)
(* instance, or one of a merger in its graph.                                 *)
(***************************************************************************)
EXTENDS MapReduce, Merger

CONSTANT none   \* no merger: the behaviour is of a map-reduce instance

MergerIdle ==
    /\ policy = none /\ graph = [lanes |-> {}, shown |-> FALSE]
    /\ updates = 0 /\ showing = 0 /\ owed = FALSE
    /\ task = "absent" /\ inputs = <<>> /\ answer = "none"
    /\ cancelled = FALSE /\ endHeld = TRUE /\ stopped = FALSE
    /\ fired = <<>> /\ merged = {}
MapIdle ==
    /\ strict = FALSE /\ pc = "done" /\ creation = "none" /\ next = Elements + 1
    /\ child = [p \in Positions |-> "joined"]
    /\ sent = [p \in Positions |-> "Result"]
    /\ done = Positions /\ failures = {}
    /\ scope = TRUE /\ token = FALSE /\ attached = TRUE /\ outcome = "Result"

MCInit == \/ Init /\ MergerIdle
          \/ MergerInit /\ MapIdle
MapStep == policy = none /\ Next /\ UNCHANGED mergervars
MergerStep == policy # none /\ MergerNext /\ UNCHANGED vars
MCNext == MapStep \/ MergerStep
MCSpec == MCInit /\ [][MCNext]_<<vars, mergervars>> /\ Fairness /\ MergerFairness

\* The task of either node ends when it is told to, whatever it waits for: a dropped or
\* cancelled map-reduce with its internal instances, a merger that reads its inputs.
TasksHear == EndsWhenTold /\ MergerHears
====
