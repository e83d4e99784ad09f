------------------------------- MODULE MapReduce -------------------------------
(***************************************************************************)
(* One instance of the map-reduce node of br-flow-nodes                     *)
(* (src/crates/br-flow-nodes/src/map_reduce): a task that runs one internal *)
(* instance per element of a list, at most Limit at a time, while they end, *)
(* fail or vanish and while the outer instance is cancelled or dropped.     *)
(*                                                                         *)
(* An element is its position; an internal state is left out, but for its   *)
(* being the one the element's instance brought it to.                      *)
(***************************************************************************)
EXTENDS Naturals, FiniteSets

CONSTANTS
    Elements,   \* how many the map function answers
    Limit       \* Rules.limit

ASSUME MapReduceAssumption ==
    /\ Elements \in Nat
    /\ Limit \in Nat \ {0}

Positions == 1..Elements
Faults == {"Failed", "Refused", "Vanished"}

VARIABLES
    strict,     \* Work.fault_mode is FaultMode::Strict
    pc,         \* where the task is
    creation,   \* the creation in flight, in start
    next,       \* Work.next, counted from 1
    child,      \* the internal instance of each element
    sent,       \* what it ended with
    done,       \* the positions whose state is the one their instance made
    failures,   \* the positions of Work.failures that are Some
    scope,      \* the child token was triggered by the node itself
    token,      \* the cancel token of the outer instance is triggered
    attached,   \* the other end of the outer instance is held
    outcome     \* the event sent, or Silent: none will be

ends == <<child, sent>>
collected == <<done, failures>>
outside == <<token, attached, strict>>
vars == <<pc, creation, next, ends, collected, scope, outside, outcome>>

\* Work.children holds the tasks that listen to the instances.
Live == {p \in Positions : child[p] \in {"working", "ended"}}
Triggered == token \/ scope

-----------------------------------------------------------------------------
\* How the task comes to its end: drive, settle and the drop of Work.

Ends(event) ==
    /\ pc' = "done" /\ outcome' = event /\ creation' = "none"
    /\ UNCHANGED <<next, ends, collected, outside>>

Return(event) == Ends(event) /\ scope' = TRUE

\* Halt::Cancel and Halt::Fault; the creation in flight is dropped.
HaltCancel == pc' = "joining" /\ creation' = "none" /\ UNCHANGED <<next, scope, outcome>>
HaltFault ==
    pc' = "failing" /\ creation' = "none" /\ scope' = TRUE /\ UNCHANGED <<next, outcome>>

-----------------------------------------------------------------------------
\* instance.rs: the first input; and the initial states, one of which may be
\* invalid.  A panic of the map function drops the sender.

FirstInput ==
    /\ pc = "waiting" /\ attached /\ ~token
    /\ pc' = "mapping"
    /\ UNCHANGED <<creation, next, ends, collected, scope, outside, outcome>>

NoInput ==
    /\ pc = "waiting" /\ (~attached \/ token)
    /\ Ends(IF attached THEN "Cancelled" ELSE "Silent")
    /\ UNCHANGED scope

Map ==
    /\ pc = "mapping"
    /\ \/ /\ pc' = "starting"
          /\ UNCHANGED <<creation, next, ends, collected, scope, outside, outcome>>
       \/ \E event \in {"Failed", "Silent"} : Ends(event) /\ UNCHANGED scope

-----------------------------------------------------------------------------
\* work.rs and child.rs: start_available, the selects, and what they take.

Startable == next <= Elements /\ Cardinality(Live) < Limit

Start ==
    /\ pc = "starting" /\ Startable
    /\ IF Triggered THEN HaltCancel
       ELSE pc' = "select" /\ creation' = "running" /\ UNCHANGED <<next, scope, outcome>>
    /\ UNCHANGED <<ends, collected, outside>>

StartedAll ==
    /\ pc = "starting" /\ ~Startable /\ Live # {}
    /\ pc' = "select"
    /\ UNCHANGED <<creation, next, ends, collected, scope, outside, outcome>>

\* finish: the reduce function may panic, which drops the sender.
Finish ==
    /\ pc = "starting" /\ ~Startable /\ Live = {}
    /\ IF Triggered THEN Return("Cancelled")
       ELSE \E event \in {"Result", "Silent"} : Return(event)

\* A biased select polls the signals first; one raised after that is missed
\* until the next poll.
Select ==
    /\ pc = "select"
    /\ \/ ~attached /\ Return("Silent")
       \/ /\ attached /\ token
          /\ HaltCancel /\ UNCHANGED <<ends, collected, outside>>
       \/ /\ attached /\ ~token
          /\ pc' = "arms"
          /\ UNCHANGED <<creation, next, ends, collected, scope, outside, outcome>>

Joinable(p) == child[p] = "ended"
Ready == creation \in {"created", "failed"}

Park ==
    /\ pc = "arms" /\ ~Ready /\ \A p \in Positions : ~Joinable(p)
    /\ pc' = "select"
    /\ UNCHANGED <<creation, next, ends, collected, scope, outside, outcome>>

\* receive: what an instance ended with, at its own position.
GoesOn ==
    /\ pc' = IF creation = "none" THEN "starting" ELSE "select"
    /\ UNCHANGED <<creation, next, scope, outcome>>

BugRecordsLatest(p) == done' = done \cup {next - 1} /\ UNCHANGED failures
Applies(p) == done' = done \cup {p} /\ UNCHANGED failures

\* element_end: a fault, which a refused update is too.
Faulty(p) ==
    \/ sent[p] \in Faults \cup {"Result"}
    \/ sent[p] = "Cancelled" /\ ~Triggered

Receive(p) ==
    /\ pc = "arms" /\ Joinable(p)
    /\ child' = [child EXCEPT ![p] = "joined"]
    /\ \/ sent[p] = "Result" /\ Applies(p) /\ GoesOn
       \/ sent[p] = "Cancelled" /\ Triggered /\ HaltCancel /\ UNCHANGED collected
       \/ Faulty(p) /\ strict /\ HaltFault /\ UNCHANGED collected
       \/ Faulty(p) /\ ~strict /\ GoesOn /\ failures' = failures \cup {p} /\ UNCHANGED done
    /\ UNCHANGED <<sent, outside>>

\* The creation panicked, was refused, or answered another id.
CreationFailed ==
    /\ pc = "arms" /\ creation = "failed" /\ \A p \in Positions : ~Joinable(p)
    /\ HaltFault
    /\ UNCHANGED <<ends, collected, outside>>

\* The instance may have closed its input between its creation and its give.
Give ==
    /\ pc = "arms" /\ creation = "created" /\ \A p \in Positions : ~Joinable(p)
    /\ \/ HaltFault /\ UNCHANGED child
       \/ /\ child' = [child EXCEPT ![next] = "working"]
          /\ next' = next + 1
          /\ pc' = "starting" /\ creation' = "none"
          /\ UNCHANGED <<scope, outcome>>
    /\ UNCHANGED <<sent, collected, outside>>

\* stop_failed: the listening tasks are aborted, each one drops its instance,
\* and all of them are awaited.
BugNotAwaited == pc = "failing" /\ Return("Failed")
Failed == pc = "failing" /\ Live = {} /\ Return("Failed")

\* stop_cancelled: what the live instances send is discarded.
Discard(p) ==
    /\ pc = "joining" /\ Joinable(p)
    /\ child' = [child EXCEPT ![p] = "joined"]
    /\ UNCHANGED <<pc, creation, next, sent, collected, scope, outside, outcome>>

BugIgnoresDrop == pc = "joining" /\ Live = {} /\ Return("Cancelled")
Joined ==
    /\ pc = "joining"
    /\ \/ ~attached /\ Return("Silent")
       \/ attached /\ Live = {} /\ Return("Cancelled")

-----------------------------------------------------------------------------
\* Around the task: the runtime, the internal node, and the outer executor.

\* The tasks of a JoinSet that was shut down or dropped are dropped by the
\* runtime, with what they hold.
Aborts(p) ==
    /\ p \in Live /\ (pc = "failing" \/ pc = "done")
    /\ child' = [child EXCEPT ![p] = "dropped"]
    /\ UNCHANGED <<pc, creation, next, sent, collected, scope, outside, outcome>>

CreationAnswers ==
    /\ creation = "running"
    /\ creation' \in {"created", "failed"}
    /\ UNCHANGED <<pc, next, ends, collected, scope, outside, outcome>>

ChildEnds(p) ==
    /\ child[p] = "working"
    /\ child' = [child EXCEPT ![p] = "ended"]
    /\ \E e \in Faults \cup {"Result", "Cancelled"} : sent' = [sent EXCEPT ![p] = e]
    /\ UNCHANGED <<pc, creation, next, collected, scope, outside, outcome>>

TokenTriggered ==
    /\ pc # "done" /\ ~token /\ token' = TRUE
    /\ UNCHANGED <<pc, creation, next, ends, collected, scope, attached, strict, outcome>>

EndDropped ==
    /\ pc # "done" /\ attached /\ attached' = FALSE
    /\ UNCHANGED <<pc, creation, next, ends, collected, scope, token, strict, outcome>>

Init ==
    /\ strict \in BOOLEAN
    /\ pc = "waiting" /\ creation = "none" /\ next = 1
    /\ child = [p \in Positions |-> "unborn"]
    /\ sent = [p \in Positions |-> "nothing"]
    /\ done = {} /\ failures = {}
    /\ scope = FALSE /\ token = FALSE /\ attached = TRUE
    /\ outcome = "None"

Task ==
    \/ FirstInput \/ NoInput \/ Map
    \/ Start \/ StartedAll \/ Finish
    \/ Select \/ Park \/ (\E p \in Positions : Receive(p)) \/ CreationFailed \/ Give
    \/ Failed \/ (\E p \in Positions : Discard(p)) \/ Joined

Next ==
    \/ Task \/ CreationAnswers \/ TokenTriggered \/ EndDropped
    \/ \E p \in Positions : Aborts(p) \/ ChildEnds(p)

\* The task is polled when a signal, a join or a creation wakes it, and the
\* runtime drops the tasks that were aborted.
Fairness == WF_vars(Task) /\ \A p \in Positions : WF_vars(Aborts(p))
Spec == Init /\ [][Next]_vars
FairSpec == Spec /\ Fairness

-----------------------------------------------------------------------------
TypeOK ==
    /\ pc \in {"waiting", "mapping", "starting", "select", "arms", "joining", "failing", "done"}
    /\ creation \in {"none", "running", "created", "failed"}
    /\ next \in 1..(Elements + 1)
    /\ child \in [Positions -> {"unborn", "working", "ended", "joined", "dropped"}]
    /\ sent \in [Positions -> Faults \cup {"nothing", "Result", "Cancelled"}]
    /\ done \subseteq Positions /\ failures \subseteq Positions
    /\ strict \in BOOLEAN /\ scope \in BOOLEAN /\ token \in BOOLEAN /\ attached \in BOOLEAN
    /\ outcome \in {"None", "Result", "Cancelled", "Failed", "Silent"}

\* Never more internal instances than the limit, the one being created counted,
\* whatever ends while a creation is in flight.
LimitKept ==
    Cardinality(Live) + (IF creation = "none" THEN 0 ELSE 1) <= Limit

\* The Result joins one end of every element, at its own position: the state a
\* Result of that element's instance led to, or a failure, and in Strict none.
ResultIsWhole ==
    outcome = "Result" =>
        /\ done \cup failures = Positions /\ done \cap failures = {}
        /\ \A p \in done : sent[p] = "Result"
        /\ strict => failures = {}

\* Once a terminal event is sent no internal instance is left, and none is being
\* created; one abandoned by a drop or a panic reads its token as triggered.
NoneLeftBehind ==
    pc = "done" =>
        /\ creation = "none"
        /\ outcome # "Silent" => Live = {}
        /\ Live # {} => scope

\* A dropped instance ends its task and its internal instances without their
\* help, a cancelled one if the live ones end, and a started one always does if
\* besides its creations answer.
ChildrenEnd == \A p \in Positions : WF_vars(ChildEnds(p))
EndsWhenTold ==
    /\ ~attached ~> pc = "done" /\ Live = {}
    /\ ChildrenEnd => (token ~> pc = "done")
    /\ ChildrenEnd /\ WF_vars(CreationAnswers) => (pc = "mapping" ~> pc = "done")

=============================================================================
