------------------------------- MODULE Session -------------------------------
(***************************************************************************)
(* A session of br-llm-graph and the run under it (src/crates/br-llm-graph/ *)
(* src/session and src/run): a graph advanced superstep by superstep, the   *)
(* commands of the host heard while it runs, the pending writes of a        *)
(* superstep that is still open, and the checkpoints a host resumes from.   *)
(*                                                                         *)
(* The state of the graph is abstracted to what it is made of: the          *)
(* supersteps applied to it (the nodes that ran, and the nodes its edges    *)
(* leave owed a run) and the user inputs applied to it.                     *)
(***************************************************************************)
EXTENDS Naturals, Sequences, FiniteSets

CONSTANTS
    Nodes,       \* the nodes of the graph
    Joins,       \* those registered as joins
    Entry,       \* the entry
    Targets,     \* the targets the edge of each node may answer
    Labels,      \* the end labels among them
    MaxSteps,    \* bound: supersteps applied
    MaxCommands  \* bound: commands the host sends

ASSUME SessionAssumption ==
    /\ Joins \subseteq Nodes /\ Entry \in Nodes /\ Nodes \cap Labels = {}
    /\ Targets \in [Nodes -> SUBSET (Nodes \cup Labels)]
    /\ MaxSteps \in Nat /\ MaxCommands \in Nat
    /\ IsFiniteSet(Nodes)

VARIABLES
    pc,         \* where the session is
    serving,    \* it was handed to serve
    paused,     \* Session.paused
    cursor,     \* Session.cursor, empty for None
    steps,      \* Session.state and the run's: the supersteps applied
    inputs,     \* the same: the user inputs applied
    pending,    \* Session.pending and the run's recorder: the nodes it holds
    queue,      \* the control channel
    active,     \* the run's cursor
    deferred,
    body,       \* the node futures of the superstep
    held,       \* its held_inputs
    pause,      \* its pause flag
    kept,       \* the checkpoint the host keeps of outcomes and observer events
    expected,   \* history: the inputs sent and not refused
    returned,   \* history: nodes whose updates of this superstep are not lost
    asked,      \* history: a pause was sent before the superstep settles
    sent        \* counter of the commands

state == <<steps, inputs>>
run == <<active, deferred, body, held, pause>>
session == <<serving, paused, cursor>>
history == <<expected, returned, asked, sent>>
vars == <<pc, session, state, pending, queue, run, kept, history>>

Cursor == [active : SUBSET Nodes, deferred : SUBSET Nodes]
NoCursor == [active |-> {}, deferred |-> {}]
At(A, D) == [active |-> A, deferred |-> D]
\* A command of the control channel; an input is told by its rank, and good if
\* the state takes it.
Command == [kind : {"Input", "Pause", "Resume", "Cancel"}, rank : Nat, good : BOOLEAN]
Is(kind) == queue # <<>> /\ Head(queue).kind = kind

\* The nodes owed a run by the edges of the i-th superstep of S; a run that ended
\* starts again from the entry.
OwedAfter(S, i) == IF i = 0 \/ S[i].owed = {} THEN {Entry} ELSE S[i].owed
Owed == OwedAfter(steps, Len(steps))

\* apply_batch takes a batch whole or not at all.
Takes(batch) == \A i \in DOMAIN batch : batch[i].good
InputsIn(Q) ==
    LET found[i \in 0..Len(Q)] ==
          IF i = 0 THEN <<>>
          ELSE IF Q[i].kind = "Input" THEN Append(found[i - 1], Q[i]) ELSE found[i - 1]
    IN found[Len(Q)]

Running == {n \in Nodes : body[n] = "running"}
NoBodies == [n \in Nodes |-> "none"]

-----------------------------------------------------------------------------
\* session/mod.rs: run_once, and what it makes of the outcome.

StartRun ==
    /\ active' = IF cursor = NoCursor THEN {Entry} ELSE cursor.active
    /\ deferred' = cursor.deferred
    /\ cursor' = NoCursor
    /\ pc' = "head"
    /\ UNCHANGED <<body, held, pause>>

Leave(onServe) ==
    /\ pc' = IF serving THEN onServe ELSE "idle"
    /\ active' = {} /\ deferred' = {} /\ body' = NoBodies
    /\ held' = <<>> /\ pause' = FALSE

\* The checkpoint of the outcome becomes the session's and the host's.
Absorb(onServe, at) ==
    /\ Leave(onServe)
    /\ cursor' = at
    /\ kept' = [steps |-> steps', inputs |-> inputs', cursor |-> at, pending |-> pending']

\* loop.rs: cancelled, with the inputs held so far, or failed if they are
\* refused.
BugCancelDropsInputs ==
    /\ inputs' = inputs /\ paused' = FALSE /\ expected' = expected
    /\ UNCHANGED <<steps, pending, returned>>
    /\ Absorb("gone", At(active, deferred))
Cancelled ==
    /\ IF Takes(held)
       THEN inputs' = inputs \o held /\ paused' = FALSE /\ expected' = expected
       ELSE inputs' = inputs /\ paused' = paused
            /\ expected' = inputs \o InputsIn(queue')
    /\ UNCHANGED <<steps, pending, returned>>
    /\ Absorb("gone", At(active, deferred))

\* fail, after with_inputs.
Failed ==
    /\ IF Takes(held)
       THEN inputs' = inputs \o held /\ expected' = expected
       ELSE inputs' = inputs /\ expected' = inputs \o InputsIn(queue)
    /\ UNCHANGED <<steps, paused, queue>>
    /\ Absorb("gone", At(active, deferred))

-----------------------------------------------------------------------------
\* superstep.rs: every node of the superstep starts, but one whose updates an
\* earlier attempt recorded.
BugRunsRecorded(n) == "running"
FirstPoll(n) == IF n \in pending THEN "done" ELSE "running"

StartStep ==
    /\ pc = "head" /\ pc' = "nodes"
    /\ body' = [n \in Nodes |-> IF n \in active THEN FirstPoll(n) ELSE "none"]
    /\ held' = <<>> /\ pause' = FALSE
    /\ asked' = \E i \in DOMAIN queue : queue[i].kind = "Pause"
    /\ UNCHANGED <<session, state, pending, queue, active, deferred, kept, expected,
                   returned, sent>>

\* A node records its updates as it finishes; the host is told if it has
\* siblings.
NodeReturns(n) ==
    /\ pc = "nodes" /\ body[n] = "running"
    /\ body' = [body EXCEPT ![n] = "done"]
    /\ pending' = pending \cup {n}
    /\ returned' = returned \cup {n}
    /\ kept' = IF active = {n} THEN kept ELSE [kept EXCEPT !.pending = @ \cup {n}]
    /\ UNCHANGED <<pc, session, state, queue, active, deferred, held, pause,
                   expected, asked, sent>>

\* An error or a caught panic.
NodeFails(n) ==
    /\ pc = "nodes" /\ body[n] = "running"
    /\ body' = [body EXCEPT ![n] = "failed"]
    /\ UNCHANGED <<pc, session, state, pending, queue, active, deferred, held, pause,
                   kept, history>>

StepDone ==
    /\ pc = "nodes" /\ Running = {}
    /\ pc' = "drain"
    /\ UNCHANGED <<session, state, pending, queue, run, kept, history>>

\* The select polls the nodes first: a command is taken while one still runs;
\* the queue is drained once none does.
Listens == \/ pc = "nodes" /\ Running # {}
           \/ pc = "drain"

TakeInput ==
    /\ Listens /\ Is("Input")
    /\ held' = Append(held, Head(queue)) /\ queue' = Tail(queue)
    /\ UNCHANGED <<pc, session, state, pending, active, deferred, body, pause, kept,
                   history>>

\* A resume is ignored while a run goes on.
TakePause ==
    /\ Listens /\ (Is("Pause") \/ Is("Resume"))
    /\ pause' = (pause \/ Is("Pause"))
    /\ queue' = Tail(queue)
    /\ UNCHANGED <<pc, session, state, pending, active, deferred, body, held, kept,
                   history>>

BugCancelAfterStep ==
    /\ pc = "drain" /\ Is("Cancel")
    /\ queue' = Tail(queue)
    /\ Cancelled
    /\ UNCHANGED <<serving, asked, sent>>
TakeCancel ==
    /\ Listens /\ Is("Cancel")
    /\ queue' = Tail(queue)
    /\ Cancelled
    /\ UNCHANGED <<serving, asked, sent>>

DrainDone ==
    /\ pc = "drain" /\ queue = <<>>
    /\ pc' = "settle"
    /\ UNCHANGED <<session, state, pending, queue, run, kept, history>>

-----------------------------------------------------------------------------
\* settle.rs, on a copy of the state: nodes, inputs, edges, end.

\* A node failed, or its updates are refused, which forgets its entry.
StepFails ==
    /\ pc = "settle"
    /\ \E R \in SUBSET {n \in active : body[n] = "done"} :
         /\ R # {} \/ \E n \in active : body[n] = "failed"
         /\ pending' = pending \ R
         /\ returned' = returned \ R
    /\ Failed
    /\ UNCHANGED <<serving, asked, sent>>

AllReturned == \A n \in active : body[n] = "done"

\* The inputs are refused, or an edge: its error, no target, one it does not
\* declare, an unknown one.
InputsOrEdgeFail ==
    /\ pc = "settle" /\ AllReturned
    /\ pending' = pending /\ returned' = returned
    /\ Failed
    /\ UNCHANGED <<serving, asked, sent>>

\* next_sets: the joins wait while another node is left to run.
BugDropsDeferred(produced) ==
    IF produced \ Joins = {} THEN At(produced, {})
    ELSE At(produced \ Joins, produced \cap Joins)
NextSets(produced) ==
    LET next == produced \cup deferred
    IN IF next \ Joins = {} THEN At(next, {}) ELSE At(next \ Joins, next \cap Joins)

DropPending == pending \ active

\* The targets the edges answer: each of them at least one of those it may.
\* The nodes among them are produced; the end labels count when no node is left.
Chosen == {T \in SUBSET UNION {Targets[n] : n \in active} :
              \A n \in active : T \cap Targets[n] # {}}

Applies(T) ==
    /\ pc = "settle" /\ AllReturned /\ Takes(held)
    /\ Len(steps) < MaxSteps
    /\ steps' = Append(steps, [ran |-> active, owed |-> (Owed \ active) \cup (T \ Labels)])
    /\ inputs' = inputs \o held
    /\ returned' = {}

StepContinues ==
    \E T \in Chosen :
        LET next == NextSets(T \ Labels)
        IN /\ Applies(T) /\ next # NoCursor
           /\ pending' = DropPending
           /\ IF pause
              THEN /\ Absorb("waiting", next)
                   /\ paused' = TRUE
              ELSE /\ pc' = "head"
                   /\ active' = next.active /\ deferred' = next.deferred
                   /\ body' = NoBodies /\ held' = <<>>
                   /\ kept' = [steps |-> steps', inputs |-> inputs',
                               cursor |-> next, pending |-> {}]
                   /\ UNCHANGED <<cursor, paused, pause>>
           /\ UNCHANGED <<serving, queue, expected, asked, sent>>

StepEnds ==
    \E T \in Chosen :
        /\ Applies(T) /\ NextSets(T \ Labels) = NoCursor
        /\ Cardinality(T \cap Labels) = 1
        /\ pending' = {}
        /\ Absorb("waiting", NoCursor)
        /\ paused' = FALSE
        /\ UNCHANGED <<serving, queue, expected, asked, sent>>

\* AmbiguousEnd.
StepEndsTwice ==
    /\ \E T \in Chosen :
         /\ pc = "settle" /\ AllReturned /\ Takes(held)
         /\ NextSets(T \ Labels) = NoCursor /\ Cardinality(T \cap Labels) > 1
    /\ pending' = pending /\ returned' = returned
    /\ Failed
    /\ UNCHANGED <<serving, asked, sent>>

-----------------------------------------------------------------------------
\* The host: run_once, serve, the commands, a crash and a resume.

RunOnce ==
    /\ pc = "idle" /\ StartRun
    /\ UNCHANGED <<serving, paused, state, pending, queue, kept, history>>

ServeNow ==
    /\ pc = "idle" /\ serving' = TRUE /\ StartRun
    /\ UNCHANGED <<paused, state, pending, queue, kept, history>>

ServeOnInput ==
    /\ pc = "idle" /\ serving' = TRUE /\ pc' = "waiting"
    /\ UNCHANGED <<paused, cursor, state, pending, queue, run, kept, history>>

\* serve between two runs.
ServeInput ==
    /\ pc = "waiting" /\ Is("Input") /\ Head(queue).good
    /\ queue' = Tail(queue)
    /\ inputs' = Append(inputs, Head(queue))
    /\ IF paused THEN UNCHANGED <<pc, cursor, run>> ELSE StartRun
    /\ UNCHANGED <<serving, paused, steps, pending, kept, history>>

ServeRefuses ==
    /\ pc = "waiting" /\ Is("Input") /\ ~Head(queue).good
    /\ queue' = Tail(queue)
    /\ expected' = inputs \o InputsIn(Tail(queue))
    /\ UNCHANGED <<state, pending>>
    /\ Absorb("gone", cursor)
    /\ UNCHANGED <<serving, paused, returned, asked, sent>>

ServePause ==
    /\ pc = "waiting" /\ Is("Pause")
    /\ queue' = Tail(queue) /\ paused' = TRUE
    /\ UNCHANGED <<pc, serving, cursor, state, pending, run, kept, history>>

ServeResume ==
    /\ pc = "waiting" /\ Is("Resume")
    /\ queue' = Tail(queue) /\ paused' = FALSE
    /\ IF paused THEN StartRun ELSE UNCHANGED <<pc, cursor, run>>
    /\ UNCHANGED <<serving, state, pending, kept, history>>

ServeCancel ==
    /\ pc = "waiting" /\ Is("Cancel")
    /\ queue' = Tail(queue)
    /\ UNCHANGED <<state, pending>>
    /\ Absorb("gone", cursor)
    /\ UNCHANGED <<serving, paused, history>>

HostSends ==
    /\ pc # "gone" /\ sent < MaxCommands /\ sent' = sent + 1
    /\ \E kind \in {"Input", "Pause", "Resume", "Cancel"}, good \in BOOLEAN :
       LET c == [kind |-> kind, rank |-> IF kind = "Input" THEN sent' ELSE 0, good |-> good]
       IN
         /\ kind = "Input" \/ good
         /\ queue' = Append(queue, c)
         /\ expected' = IF c.kind = "Input" THEN Append(expected, c) ELSE expected
         /\ asked' = (asked \/ (kind = "Pause" /\ pc \in {"nodes", "drain"}))
    /\ UNCHANGED <<pc, session, state, pending, run, kept, returned>>

\* The host stops, or drops the future of a run: the session is lost.
HostCrashes ==
    /\ pc # "gone" /\ pc' = "gone"
    /\ active' = {} /\ deferred' = {} /\ body' = NoBodies /\ held' = <<>> /\ pause' = FALSE
    /\ returned' = kept.pending
    /\ UNCHANGED <<session, state, pending, queue, kept, expected, asked, sent>>

\* Session::resume from the checkpoint the host keeps, on a new channel.
Resume ==
    /\ pc = "gone" /\ pc' = "idle"
    /\ serving' = FALSE /\ paused' = FALSE
    /\ cursor' = kept.cursor /\ pending' = kept.pending
    /\ steps' = kept.steps /\ inputs' = kept.inputs
    /\ queue' = <<>> /\ expected' = kept.inputs
    /\ UNCHANGED <<run, kept, returned, asked, sent>>

-----------------------------------------------------------------------------
Init ==
    /\ pc = "idle" /\ serving = FALSE /\ paused = FALSE /\ cursor = NoCursor
    /\ steps = <<>> /\ inputs = <<>> /\ pending = {} /\ queue = <<>>
    /\ active = {} /\ deferred = {} /\ body = NoBodies /\ held = <<>> /\ pause = FALSE
    /\ kept = [steps |-> <<>>, inputs |-> <<>>, cursor |-> NoCursor, pending |-> {}]
    /\ expected = <<>> /\ returned = {} /\ asked = FALSE /\ sent = 0

NodeStep(n) == NodeReturns(n) \/ NodeFails(n)
RunStep == StartStep \/ StepDone \/ TakeInput \/ TakePause \/ TakeCancel \/ DrainDone
           \/ StepFails \/ InputsOrEdgeFail \/ StepContinues \/ StepEnds \/ StepEndsTwice
ServeStep == ServeInput \/ ServeRefuses \/ ServePause \/ ServeResume \/ ServeCancel
HostStep == RunOnce \/ ServeNow \/ ServeOnInput \/ HostSends \/ HostCrashes \/ Resume

Next == RunStep \/ ServeStep \/ HostStep \/ \E n \in Nodes : NodeStep(n)

\* The task of the run is polled, and goes on with a command or a finished step.
Fairness == WF_vars(RunStep) /\ WF_vars(ServeStep)

Spec == Init /\ [][Next]_vars
FairSpec == Spec /\ Fairness

-----------------------------------------------------------------------------
InRun == {"head", "nodes", "drain", "settle"}
Superstep == [ran : SUBSET Nodes, owed : SUBSET Nodes]
TypeOK ==
    /\ pc \in InRun \cup {"idle", "waiting", "gone"}
    /\ serving \in BOOLEAN /\ paused \in BOOLEAN /\ pause \in BOOLEAN
    /\ cursor \in Cursor
    /\ steps \in Seq(Superstep)
    /\ inputs \in Seq(Command) /\ held \in Seq(Command)
    /\ pending \in SUBSET Nodes /\ returned \in SUBSET Nodes
    /\ queue \in Seq(Command)
    /\ active \in SUBSET Nodes /\ deferred \in SUBSET Nodes
    /\ active # {} <=> pc \in InRun
    /\ body \in [Nodes -> {"none", "running", "done", "failed"}]
    /\ kept \in [steps : Seq(Superstep),
                 inputs : Seq(Command), cursor : Cursor, pending : SUBSET Nodes]
    /\ asked \in BOOLEAN /\ sent \in Nat

\* The supersteps of a state, over failures, cancels, pauses, crashes and
\* resumes, are those its edges call for: each ran exactly the nodes owed a run,
\* its joins only when nothing else was owed, and none is skipped or repeated.
Ready(owed) == IF owed \subseteq Joins THEN owed ELSE owed \ Joins
StepsFollowEdges == \A i \in DOMAIN steps : steps[i].ran = Ready(OwedAfter(steps, i - 1))

\* The same of what comes next: the cursor of a run, of the session between two
\* runs, and of the checkpoint the host keeps, name what the state owes.
Fits(at, owed) ==
    IF at = NoCursor THEN owed = {Entry} ELSE at = At(Ready(owed), owed \ Ready(owed))
CursorFitsState ==
    /\ pc \in InRun =>
           active = Ready(Owed) /\ deferred = Owed \ active
    /\ pc \in {"idle", "waiting"} => Fits(cursor, Owed)
    /\ Fits(kept.cursor, OwedAfter(kept.steps, Len(kept.steps)))

\* What is pending is of the superstep that is open: an entry never outlives the
\* superstep it belongs to, nor is it offered to another.
PendingIsOfOpenStep ==
    /\ pc # "gone" => pending \subseteq Ready(Owed)
    /\ kept.pending \subseteq Ready(OwedAfter(kept.steps, Len(kept.steps)))

\* A node that returned its updates is not run again for the same superstep,
\* unless they were refused or a crash lost them unseen.
NotRunAgain ==
    [][\A n \in Nodes : body[n] # "running" /\ body'[n] = "running" => n \notin returned]_vars

\* Every input the host sent is applied once, in the order sent, whatever
\* becomes of the supersteps meanwhile, unless a batch of them was refused or
\* the session is gone.
InputsKept == pc # "gone" => inputs \o held \o InputsIn(queue) = expected

\* A cancel is heard however long the nodes take: serving ends.
Cancelling == \E i \in DOMAIN queue : queue[i].kind = "Cancel"
CancelIsHeard == (serving /\ Cancelling) ~> pc = "gone"

\* A pause sent before a superstep settles stops the run at its end, whatever
\* was sent after it: no further superstep starts.
PauseStops == [][pc = "settle" /\ pc' = "head" => ~asked]_vars
=============================================================================
