------------------------------ MODULE AgenticNode ------------------------------
(***************************************************************************)
(* An instance of an agentic node (br-agentic-nodes: run.rs, worker.rs,      *)
(* start.rs, pass.rs, step.rs, tool_round.rs, drain.rs, react.rs,            *)
(* generator_critic/) over the thread access and the inbox of                *)
(* br-agentic-contract.  Each addition goes to the copy of the conversation  *)
(* and then to the thread; the call to the thread may fail, or be dropped by *)
(* a cancel, having landed or not.  The instance may be lost at any point,   *)
(* and another one then starts from the thread and the inbox.                *)
(***************************************************************************)
EXTENDS AgenticThread, FiniteSets

CONSTANTS
    Requests,      \* the items that ask for work: mails, messages of humans
    Clients,       \* the length of a fallback list
    RoundLimit, RefusalLimit,
    Configs,       \* the nodes and their surroundings, see ConfigType
    MaxTrouble     \* bound: the calls of ports that fail and the instances after the first

\* A limit is at least 1.
Limits == Nat \ {0}
RoundLimitEndings == {"FinalGeneration", "KeepRejectedGeneration", "Fail"}
StepLimitEndings == {"WithoutCriticCall", "WithCriticCall"}

\* steps: the step limit; inbox: there is an inbox port; rule: a programmatic critic; rounds, limit: the
\* endings at the round limit and at the step limit; items: what is delivered;
\* answers: what the model may answer.
ConfigType ==
    [kind : {"react", "gc"}, steps : Limits, inbox : BOOLEAN, rule : BOOLEAN,
     rounds : RoundLimitEndings, limit : StepLimitEndings,
     items : SUBSET Items, answers : SUBSET [calls : SUBSET Calls, more : BOOLEAN]]

ASSUME AgenticAssumption ==
    /\ Requests \subseteq Items
    /\ Clients \in Nat \ {0} /\ {RoundLimit, RefusalLimit} \subseteq Limits
    /\ \A c \in Configs : c \in ConfigType /\ IsFiniteSet(c.items)
    /\ MaxTrouble \in Nat

VARIABLES
    config,
    thread,    \* the stored conversation
    inbox,     \* the items that are delivered, in order; a read gives those that are there
    read,      \* the items marked read
    objects,   \* the entries this instance opened in the store and did not end
    copy,      \* Session::conversation
    count,     \* Steps and Counters: [steps, rounds, refusals]
    w,         \* the rest of the instance's memory, and where it is
    faults, restarts

vars == <<config, thread, inbox, read, objects, copy, count, w, faults, restarts>>
durable == <<thread, read>>
world == <<config, inbox, restarts>>

None == [k |-> "none"]

\* An instance that has its input.  after: where a drain or a message returns to;
\* turn: the turn of the pass, 0 before its first step; left, unknown: calls of the
\* round; marks, fresh, got: of the drain; tracked: Session::responses, results;
Created ==
    [pc |-> "start", after |-> "start", flight |-> None, why |-> "none", event |-> "none",
     queue |-> <<>>, spawned |-> FALSE, reading |-> <<>>,
     marks |-> <<>>, fresh |-> <<>>, got |-> {},
     turn |-> 0, left |-> {}, unknown |-> {}, tracked |-> {},
     settled |-> 0, tried |-> 0, end |-> "none",
     drainFirst |-> FALSE, scheduled |-> FALSE, last |-> FALSE]

Zero == [steps |-> 0, rounds |-> 0, refusals |-> 0]

Init ==
    /\ config \in Configs
    /\ thread = <<>> /\ copy = <<>>
    /\ inbox \in SetToSeqs(config.items) /\ read = {} /\ objects = {}
    /\ count = Zero /\ w = Created
    /\ faults = 0 /\ restarts = 0

-----------------------------------------------------------------------------
\* The ways a step of the instance ends.

Stopped(why) == [w EXCEPT !.pc = "closing", !.why = why, !.spawned = FALSE, !.reading = <<>>]
Goto(pc) == [w EXCEPT !.pc = pc]
Ended(event) == [w EXCEPT !.pc = "done", !.event = event, !.spawned = FALSE, !.reading = <<>>, !.tracked = {}]
Draining(after) == [w EXCEPT !.pc = "refresh", !.after = after]

At(pc) == w.pc = pc /\ w.flight = None
Remaining == config.steps - count.steps
Trouble == faults + restarts < MaxTrouble
Faulty == Trouble /\ faults' = faults + 1

\* A fault of a port, of the model, of a tool or of a critic: Stop::Fault.
Fault ==
    /\ w' = Stopped("failed")
    /\ UNCHANGED <<thread, read, objects, copy, count, world>>

\* Session: the copy takes the addition first, then the port is called.
Write(add, next) ==
    /\ IF Accepts(copy, add)
       THEN copy' = Applied(copy, add) /\ w' = [next EXCEPT !.flight = add]
       ELSE copy' = copy /\ w' = Stopped("rules")
    /\ UNCHANGED <<thread, read, objects, world>>

\* An object: the response of the client now tried, or the result of a call.
Object(add) ==
    CASE add.k = "entry" /\ add.entry.t = "response" -> {w.tried}
      [] add.k = "entry" /\ add.entry.t = "result" -> {add.entry.call}
      [] OTHER -> {}

Landed ==
    /\ Accepts(thread, w.flight)
    /\ thread' = Applied(thread, w.flight)
    /\ objects' = objects \ Object(w.flight)

WriteOk ==
    /\ w.flight # None
    /\ Landed
    /\ w' = [w EXCEPT !.flight = None, !.tracked = @ \ Object(w.flight)]
    /\ UNCHANGED <<read, copy, count, world, faults>>

\* An error of the port is a fault, but in conclude, which goes on.
WriteFails ==
    /\ w.flight # None
    /\ \/ ~Accepts(thread, w.flight) /\ UNCHANGED <<thread, objects, faults>>
       \/ Faulty /\ (Landed \/ UNCHANGED <<thread, objects>>)
    /\ w' = [(IF w.pc = "closing" THEN w ELSE Stopped("failed")) EXCEPT
                !.flight = None]
    /\ UNCHANGED <<read, copy, count, world>>

-----------------------------------------------------------------------------
\* Worker::open and Worker::begin.

Open ==
    /\ At("start")
    /\ \/ copy' = thread /\ w' = Goto("interrupt") /\ UNCHANGED faults
       \/ Faulty /\ w' = Ended("Failed") /\ UNCHANGED copy
    /\ UNCHANGED <<durable, objects, count, world>>

BugLeavesOpenTurns ==
    /\ At("interrupt") /\ w' = Goto("ports")
    /\ UNCHANGED <<durable, objects, copy, count, world, faults>>

\* close_open_turns, strict.
Interrupt ==
    /\ At("interrupt")
    /\ \/ \E n \in OpenTurns(copy) : Write(Closure(n, copy[n].agent, "Interrupted"), w)
       \/ /\ OpenTurns(copy) = {}
          /\ w' = Goto("ports")
          /\ UNCHANGED <<durable, objects, copy, world>>
    /\ UNCHANGED <<count, faults>>

Unread == Among(inbox, Items \ read)

\* What a read gives of the items that are unread: those delivered by then, on the
\* pages before one that fails.
Pages(items) == {SubSeq(items, 1, n) : n \in 0..Len(items)}

Pushed(queue, items) == queue \o Among(items, Items \ ToSet(queue))

\* The ports of the seats, the tools and the workspace; then drain_at_start.
Begin ==
    /\ At("ports")
    /\ \/ Faulty /\ Fault
       \/ /\ \E items \in Pages(Unread) :
                w' = [Draining("enter") EXCEPT !.queue = IF config.inbox THEN items ELSE <<>>]
          /\ UNCHANGED <<durable, objects, copy, count, world, faults>>

-----------------------------------------------------------------------------
\* Worker::drain: the background read, then store_at_boundary.

\* drain_before_final: what is stored is given to the model in another pass.
BugForgetsStored(stored) == "finish"
NextPass(stored) == IF stored THEN "pass" ELSE "finish"

\* Where a drain leads, by the place that asked for it.
Drained ==
    LET stored == w.got # {}
        asked == w.got \cap Requests # {}
    IN CASE w.after = "again" -> Goto(NextPass(stored))
         [] w.after = "validated" /\ stored ->
                [Goto("pass") EXCEPT !.drainFirst = FALSE, !.scheduled = FALSE]
         [] w.after = "validated" /\ ~stored -> Goto("finish")
         [] w.after = "pass" -> [Goto("pass") EXCEPT !.scheduled = @ /\ ~asked]
         [] OTHER -> Goto(w.after)

\* refresh_read: takes a read that has ended, and spawns the next one.  A read
\* sees the inbox as it was when it was spawned (reading) or as it is now.
Refresh ==
    /\ At("refresh")
    /\ \E ended \in (IF w.spawned THEN BOOLEAN ELSE {FALSE}) :
       \E items \in (IF ended THEN Pages(w.reading) \cup Pages(Unread) ELSE {<<>>}) :
        LET queue == Pushed(w.queue, items)
            start == [Goto("drain") EXCEPT
                        !.queue = <<>>, !.got = {}, !.spawned = config.inbox,
                        !.reading = IF w.spawned /\ ~ended THEN @ ELSE Unread,
                        !.marks = Among(queue, Held(copy)),
                        !.fresh = Among(queue, Items \ Held(copy))]
        IN \/ w' = start /\ UNCHANGED faults
           \/ queue # <<>> /\ Faulty /\ w' = Stopped("failed")
    /\ UNCHANGED <<durable, objects, copy, count, world>>

BugMarksWhileWriting ==
    /\ w.pc = "drain" /\ w.marks # <<>>
    /\ read' = read \cup {Head(w.marks)} /\ w' = [w EXCEPT !.marks = Tail(@)]
    /\ UNCHANGED <<thread, objects, copy, count, world, faults>>

\* A mark that fails changes nothing and is only reported.
Mark ==
    /\ At("drain") /\ w.marks # <<>>
    /\ \/ read' = read \cup {Head(w.marks)} /\ UNCHANGED faults
       \/ Faulty /\ UNCHANGED read
    /\ w' = [w EXCEPT !.marks = Tail(@)]
    /\ UNCHANGED <<thread, objects, copy, count, world>>

StoreInOpenTurn ==
    /\ At("drain") /\ w.marks = <<>> /\ w.fresh # <<>>
    /\ \E n \in OpenAiTurn(copy) :
        Write(TurnEntry(n, "main", Incoming(Head(w.fresh))),
              [w EXCEPT !.marks = <<Head(w.fresh)>>, !.fresh = Tail(@),
                        !.got = @ \cup {Head(w.fresh)}])
    /\ UNCHANGED <<count, faults>>

StoreInNewInputTurn ==
    /\ At("drain") /\ w.marks = <<>> /\ w.fresh # <<>>
    /\ OpenAiTurn(copy) = {}
    /\ Write(InputTurn(w.fresh),
             [w EXCEPT !.marks = w.fresh, !.fresh = <<>>, !.got = ToSet(w.fresh)])
    /\ UNCHANGED <<count, faults>>

DrainDone ==
    /\ At("drain") /\ w.marks = <<>> /\ w.fresh = <<>>
    /\ w' = [Drained EXCEPT !.got = {}]
    /\ count' = IF w.got \cap Requests = {} THEN count
                ELSE [count EXCEPT !.rounds = 0, !.refusals = 0]
    /\ UNCHANGED <<durable, objects, copy, world, faults>>

-----------------------------------------------------------------------------
\* Worker::restored, and the pass.

Restored ==
    IF copy = <<>> \/ copy[Len(copy)].agent # "main" THEN "none"
    ELSE LET turn == copy[Len(copy)] IN
         IF Responses(turn) # {} /\ turn.closed = "BudgetExhausted" THEN "limit"
         ELSE IF IsFinal(turn) THEN "final" ELSE "none"

BugAsksAgain == "pass"
EnterAt ==
    IF Restored = "none" THEN "pass" ELSE IF config.kind = "react" THEN "finish" ELSE "judge"

Enter ==
    /\ At("enter")
    /\ w' = [Goto(EnterAt) EXCEPT !.end = Restored]
    /\ UNCHANGED <<durable, objects, copy, count, world, faults>>

BugDrainsForEver ==
    /\ At("pass")
    /\ w' = IF w.drainFirst THEN Draining("pass")
            ELSE [Goto("call") EXCEPT !.turn = 0, !.tried = 0, !.last = w.scheduled]
    /\ UNCHANGED <<durable, objects, copy, count, world, faults>>

\* The top of the loop of a body: a generator-critic drains first when told to,
\* and begins each pass with a new slot.
BeginPass ==
    /\ At("pass")
    /\ w' = IF w.drainFirst THEN [Draining("pass") EXCEPT !.drainFirst = FALSE]
            ELSE [Goto("call") EXCEPT
                    !.turn = 0, !.tried = 0, !.last = w.scheduled,
                    !.settled = IF config.kind = "gc" THEN 0 ELSE @]
    /\ UNCHANGED <<durable, objects, copy, count, world, faults>>

TurnId == IF w.turn = 0 THEN Len(copy) + 1 ELSE w.turn

OpenResponse ==
    /\ At("call")
    /\ \/ Faulty /\ Fault
       \/ /\ objects' = objects \cup {w.tried}
          /\ w' = [Goto("model") EXCEPT !.tracked = @ \cup {w.tried}]
          /\ UNCHANGED <<durable, copy, count, world, faults>>

\* Slot::candidate: the settled client, or the clients of the list in order.
\* Worker::step: the answer is an entry of the turn of the pass, which the first one opens.
CompletesStep(answer) ==
    Write(TurnEntry(TurnId, "main", Response(answer.calls, answer.more)),
          [Goto("stepped") EXCEPT !.turn = TurnId,
                                  !.settled = IF @ = 0 THEN w.tried + 1 ELSE @])
ModelAnswers ==
    /\ At("model")
    /\ \E answer \in config.answers : CompletesStep(answer)
    /\ UNCHANGED <<count, faults>>

Discarded == objects \ {w.tried}

MaySwitch == w.settled = 0 /\ w.tried + 1 < Clients

\* A failure, a timeout or a broken rule of the answer: the entry is discarded,
\* and the next client is called while no client is settled.
ModelFails ==
    /\ At("model")
    /\ \/ /\ objects' = Discarded
          /\ w' = [(IF MaySwitch
                    THEN [Goto("call") EXCEPT !.tried = @ + 1]
                    ELSE Stopped("failed")) EXCEPT !.tracked = @ \ {w.tried}]
          /\ UNCHANGED faults
       \/ Faulty /\ w' = [Stopped("failed") EXCEPT !.tracked = @ \ {w.tried}]
                 /\ UNCHANGED objects
    /\ UNCHANGED <<durable, copy, count, world>>

LastCalls == Outstanding(copy[w.turn])

PassEnds(closure, end) ==
    Write(Closure(w.turn, "main", closure), [Goto("passed") EXCEPT !.end = end])

Stepped ==
    /\ At("stepped")
    /\ count' = [count EXCEPT !.steps = @ + 1]
    /\ CASE IsFinal(copy[w.turn]) -> PassEnds("Completed", "final")
         [] ~IsFinal(copy[w.turn]) /\ Remaining = 1 -> PassEnds("BudgetExhausted", "limit")
         [] OTHER ->
                /\ w' = IF LastCalls # {} THEN [Goto("open_results") EXCEPT !.left = LastCalls]
                        ELSE Goto("call")
                /\ UNCHANGED <<durable, objects, copy, world>>
    /\ UNCHANGED faults

-----------------------------------------------------------------------------
\* Worker::tool_round.

OpenResult ==
    /\ At("open_results")
    /\ \/ Faulty /\ Fault
       \/ \E c \in w.left, unknown \in SUBSET LastCalls :
            /\ objects' = objects \cup {c}
            /\ w' = [(IF w.left = {c}
                      THEN [Goto("tools") EXCEPT !.left = LastCalls, !.unknown = unknown]
                      ELSE [w EXCEPT !.left = @ \ {c}]) EXCEPT !.tracked = @ \cup {c}]
            /\ UNCHANGED <<durable, copy, count, world, faults>>

ResultOf(c) ==
    Write(TurnEntry(w.turn, "main", Result(c)), [w EXCEPT !.left = @ \ {c}, !.unknown = @ \ {c}])

AnswerUnknown ==
    /\ At("tools")
    /\ \E c \in w.unknown : ResultOf(c)
    /\ UNCHANGED <<count, faults>>

\* The tools run together; the results are taken as they come.  A tool over its
\* timeout has a result too.
ToolEnds ==
    /\ At("tools") /\ w.unknown = {}
    /\ \E c \in w.left : ResultOf(c)
    /\ UNCHANGED <<count, faults>>

\* A tool faults or panics, or the token is read after a tool ended.
ToolStops ==
    /\ At("tools") /\ w.unknown = {} /\ w.left # {}
    /\ \E why \in {"failed", "cancelled"} : w' = Stopped(why)
    /\ UNCHANGED <<durable, objects, copy, count, world, faults>>

RoundDone ==
    /\ At("tools") /\ w.left = {}
    /\ w' = IF AtBoundary(copy[w.turn]) THEN Draining("call") ELSE Goto("call")
    /\ UNCHANGED <<durable, objects, copy, count, world, faults>>

-----------------------------------------------------------------------------
\* ReactBody::execute after a pass, GcBody::judge.

ReactPassed ==
    /\ At("passed") /\ config.kind = "react"
    /\ w' = IF w.end = "final" /\ config.inbox /\ Remaining > 0
            THEN Draining("again") ELSE Goto("finish")
    /\ UNCHANGED <<durable, objects, copy, count, world, faults>>

GcPassed ==
    /\ At("passed") /\ config.kind = "gc"
    /\ w' = Goto("judge")
    /\ UNCHANGED <<durable, objects, copy, count, world, faults>>

\* ask: an answer of the critic, or a fault when no client gives one.
Asked(validated, rejected) ==
    \/ validated
    \/ rejected
    \/ Fault /\ UNCHANGED faults

FinishNow ==
    /\ w' = Goto("finish")
    /\ UNCHANGED <<durable, objects, copy, count, world, faults>>

JudgeAtLimit ==
    /\ At("judge") /\ w.end = "limit"
    /\ IF w.last \/ config.limit = "WithoutCriticCall" THEN FinishNow
       ELSE Asked(FinishNow, FALSE)

\* store_message: a turn of the critic with its message, and its closure.
Say(agent, next) ==
    Write(TurnEntry(Len(copy) + 1, agent, Response({}, FALSE)),
          [Goto("said") EXCEPT !.after = next])

Said ==
    /\ At("said")
    /\ Write(Closure(Len(copy), copy[Len(copy)].agent, "Completed"), Goto(w.after))
    /\ UNCHANGED <<count, faults>>

RuleAccepts ==
    /\ At("judge") /\ w.end = "final"
    /\ count' = IF config.rule THEN [count EXCEPT !.refusals = 0] ELSE count
    /\ w' = Goto("ask")
    /\ UNCHANGED <<durable, objects, copy, world, faults>>

RuleRefuses ==
    /\ At("judge") /\ w.end = "final" /\ config.rule
    /\ \/ Say("programmatic_critic", "refused") /\ UNCHANGED <<count, faults>>
       \/ Fault /\ UNCHANGED faults

RefusedOut == count.refusals + 1 >= RefusalLimit \/ Remaining = 0

Refused ==
    /\ At("refused")
    /\ count' = [count EXCEPT !.refusals = @ + 1]
    /\ w' = IF RefusedOut THEN Stopped("failed")
            ELSE [Goto("pass") EXCEPT !.drainFirst = TRUE]
    /\ UNCHANGED <<durable, objects, copy, world, faults>>

AtLimit == count.rounds >= RoundLimit

Validated ==
    /\ w' = IF config.inbox /\ Remaining > 0 THEN Draining("validated") ELSE Goto("finish")
    /\ UNCHANGED <<durable, objects, copy, count, world, faults>>

Rejected ==
    /\ count' = [count EXCEPT !.rounds = @ + 1]
    /\ IF count.rounds + 1 >= RoundLimit /\ config.rounds = "Fail"
       THEN w' = Stopped("failed") /\ UNCHANGED <<durable, objects, copy, world>>
       ELSE Say("critic", "rejected")
    /\ UNCHANGED faults

Ask ==
    /\ At("ask")
    /\ IF w.last THEN FinishNow ELSE Asked(Validated, Rejected)

Judge == JudgeAtLimit \/ RuleAccepts \/ RuleRefuses \/ Ask

AfterRejection ==
    /\ At("rejected")
    /\ w' = IF Remaining > 0 /\ (AtLimit => config.rounds = "FinalGeneration")
            THEN [Goto("pass") EXCEPT !.drainFirst = TRUE, !.scheduled = AtLimit]
            ELSE Goto("finish")
    /\ UNCHANGED <<durable, objects, copy, count, world, faults>>

-----------------------------------------------------------------------------
\* The end: the outcome port, the files, ending::result; or conclude.

Delivered == IF w.tracked = {} THEN "Result" ELSE "Failed"
Finish ==
    /\ At("finish")
    /\ \/ Faulty /\ Fault
       \/ /\ w' = Ended(Delivered)
          /\ objects' = objects \ w.tracked
          /\ UNCHANGED <<durable, copy, count, world, faults>>
       \/ Faulty /\ w.tracked # {} /\ w' = Ended("Failed")
          /\ UNCHANGED <<durable, objects, copy, count, world>>

\* discard_all, whose errors are not read, and close_open_turns, not strict.
Conclude ==
    /\ At("closing")
    /\ LET reason == IF w.why = "cancelled" THEN "Cancelled" ELSE "Failed" IN
       \/ \E n \in OpenTurns(copy) : Write(Closure(n, copy[n].agent, reason), w)
       \/ /\ OpenTurns(copy) = {}
          /\ w' = Ended(reason)
          /\ objects' = objects \ w.tracked
          /\ UNCHANGED <<durable, copy, world>>
    /\ UNCHANGED <<count, faults>>

\* Signals::race drops the work where it waits: a write in flight has landed or not.
Dropped(next) ==
    /\ Landed \/ UNCHANGED <<thread, objects>>
    /\ w' = [next EXCEPT !.flight = None]
    /\ UNCHANGED <<read, copy, count, world, faults>>

Working == w.pc \notin {"closing", "done", "lost"}

\* The token may be triggered at any time.
TakeCancel ==
    /\ Working
    /\ Dropped(IF w.pc = "start" THEN Ended("Cancelled") ELSE Stopped("cancelled"))

-----------------------------------------------------------------------------
\* The environment.

\* The consumer drops the instance, or the process ends.
Lose ==
    /\ w.pc \notin {"done", "lost"}
    /\ Trouble
    /\ Dropped([Created EXCEPT !.pc = "lost"])

Restart ==
    /\ w.pc \in {"done", "lost"}
    /\ Trouble /\ restarts' = restarts + 1
    /\ w' = Created /\ copy' = <<>> /\ count' = Zero /\ objects' = {}
    /\ UNCHANGED <<config, durable, inbox, faults>>

Instance ==
    \/ Open \/ Interrupt \/ Begin
    \/ Refresh \/ Mark \/ StoreInOpenTurn \/ StoreInNewInputTurn \/ DrainDone
    \/ Enter \/ BeginPass \/ OpenResponse \/ ModelAnswers \/ ModelFails \/ Stepped
    \/ OpenResult \/ AnswerUnknown \/ ToolEnds \/ ToolStops \/ RoundDone
    \/ ReactPassed \/ GcPassed \/ Judge \/ Refused
    \/ Said \/ AfterRejection \/ Finish \/ Conclude

Port == WriteOk \/ WriteFails

Next == Instance \/ Port \/ TakeCancel \/ Lose \/ Restart

\* The ports answer, the model and the tools have timeouts, the task is polled.
Fairness == WF_vars(Instance) /\ WF_vars(Port)

Spec == Init /\ [][Next]_vars /\ Fairness

-----------------------------------------------------------------------------
\* An item is marked read only once the thread holds it: whatever fails, is dropped
\* or restarts, no item is lost between the inbox and the conversation (Run::mark).
ReadIsStored == read \subseteq Held(thread)

\* No step of the instance is one that the rules of the conversation refuse: no
\* item stored twice, no incoming entry or call of the model with calls left open,
\* no closure of a closed turn, whatever an earlier instance left in the thread.
RulesKept == w.why # "rules"

\* The items of the conversation that no response of the agent follows.
Unanswered ==
    {i \in Items : \E n \in DOMAIN thread : \E k \in DOMAIN thread[n].entries :
        /\ thread[n].entries[k] = Incoming(i)
        /\ \A m \in n..Len(thread) : thread[m].agent = "main" =>
               \A j \in Responses(thread[m]) : m = n /\ j < k}

\* A result is given on a conversation where every stored item was before the
\* model: a drain is always followed by another step (ReactBody, GcBody::validated).
StoredIsAnswered == w.event = "Result" => Unanswered = {}

\* A result leaves no turn open in the thread and no object open in the store.
ResultLeavesNothingOpen == w.event = "Result" => OpenTurns(thread) = {} /\ objects = {}

\* A result is given on a whole conversation and leaves nothing behind it.
ResultIsClean == StoredIsAnswered /\ ResultLeavesNothingOpen

\* A pass never begins on a conversation that ends with the answer of the agent:
\* after a restart a final answer is used, and not asked for again (restored).
NotAskedAgain ==
    [][w.pc = "call" /\ w'.pc = "model" /\ w.turn = 0 => Restored = "none"]_vars

\* Whatever the model, the tools, the critics and the ports answer, an instance
\* that is not lost ends: the step limit bounds every loop of the bodies.
Ends == (w.pc = "start") ~> (w.pc \in {"done", "lost"})
=============================================================================
