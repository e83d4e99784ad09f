------------------------------ MODULE DurableAgent ------------------------------
(***************************************************************************)
(* One call of an agent of br-llm-graph (react/): a ReactAgent or a           *)
(* GeneratorCritic, in memory or durable, over runs that fail, are lost and   *)
(* are started again.  An action is a call of the thread store or of a model  *)
(* with what its node does until the next one; the updates of a node are      *)
(* applied with the last of them.  A run that ends loses `conversation` and   *)
(* the other private keys; the thread stays.  Tool calls are one action here: *)
(* ToolRound models them.                                                     *)
(***************************************************************************)
EXTENDS AgentTurns

CONSTANTS
    Confs,     \* how agents are built and called
    Maxes,     \* the round limits a run may read
    Openings,  \* what an agent in memory finds in its opening: items of turns
    Runs,      \* bound: runs of the call
    MaxRounds  \* bound: rounds of a turn in which the model calls tools

OnLimits == {"None", "Error", "Continue", "End"}
ReactConf == [agent : {"react"}, durable : BOOLEAN, onLimit : OnLimits]
CriticConf == [agent : {"critic"}, durable : BOOLEAN, onLimit : OnLimits,
               budget : Nat, revisions : Nat, final : BOOLEAN, retries : Nat]

ASSUME DurableAgentAssumption ==
    /\ Confs \subseteq ReactConf \cup CriticConf /\ Maxes \subseteq Nat \ {0}
    /\ Openings \subseteq Seq([by : {"generator", "critic"}, items : Seq(Items)])
    /\ Runs \in Nat \ {0} /\ MaxRounds \in Nat

VARIABLES
    conf,      \* how the agent is built
    max,       \* max_rounds, as this run reads it
    thread,    \* the thread: the turns of the call, a sequence by rank
    stored,    \* the thread holds the inputs of the opening
    conv,      \* `conversation`: the turns, by rank
    position,  \* turn_rank: [rank, answered]
    listed,    \* call_turns
    flag,      \* the flag of the round limit
    pc,        \* the node that runs, and which call of it
    writing,   \* what is being written: [rank, new, item]
    ruling,    \* what the rule check says of each generation
    out,       \* the outputs
    run,       \* the runs so far
    kept,      \* TurnClients: the client kept for a turn
    served,    \* history: [rank, client] of the calls of a model for the last turn called
    attempt    \* the attempt at the verdict being asked for

vars == <<conf, max, thread, stored, conv, position, listed, flag, pc, writing, ruling, out, run,
          kept, served, attempt>>
clients == <<kept, served>>
private == <<conv, position, listed, flag>>
fixed == <<conf, max, run>>

Over == {"done", "failed", "lost"}
NoOut == [label |-> "none"]
None == [rank |-> 0, new |-> FALSE, item |-> "none"]

\* The private keys of a run that begins, at their neutral values.
Position(rank, answered) == [rank |-> rank, answered |-> answered]
NewKeys(c, p, l, f) == c = <<>> /\ p = Position(1, FALSE) /\ l = {} /\ f = FALSE

Init ==
    /\ conf \in Confs /\ max \in Maxes
    /\ thread = <<>> /\ stored = FALSE
    /\ NewKeys(conv, position, listed, flag)
    /\ pc = "enter" /\ writing = None /\ ruling = <<>> /\ out = NoOut /\ run = 1
    /\ kept = {} /\ served = {} /\ attempt = 1

-----------------------------------------------------------------------------
\* The store.  A call that fails may have been done.

NewTurn(by) == [by |-> by, items |-> <<>>, partial |-> TRUE, status |-> "streaming", run |-> run]
Open(rank, by) == [r \in 1..rank |-> IF r = rank THEN NewTurn(by) ELSE thread[r]]
Push(rank, item) ==
    [thread EXCEPT ![rank].items = Append(@, item), ![rank].partial = FALSE]
Complete(rank) == [thread EXCEPT ![rank].status = "completed"]

View(th) == [r \in {q \in DOMAIN th : th[q].items # <<>>} |-> [by |-> th[r].by, items |-> th[r].items]]

Failed == pc' = "failed" /\ UNCHANGED <<private, writing, ruling>>

Stores(th, then) ==
    /\ \/ thread' = th /\ then
       \/ conf.durable /\ thread' \in {thread, th} /\ Failed
    /\ UNCHANGED <<fixed, stored, out>>

\* The updates of a node: an item pushed into a turn of the conversation, a new turn.
Pushed(rank, item) ==
    conv' = [conv EXCEPT ![rank].items = Append(@, item)]
Added(rank, by, item) ==
    conv' = [r \in DOMAIN conv \cup {rank} |->
               IF r = rank THEN [by |-> by, items |-> <<item>>] ELSE conv[r]]

-----------------------------------------------------------------------------
\* The routing.

Author == "generator"
Turn(c) == c[LastBy(c, Author)]

\* The edge after the model.
CompletedRounds(c) == AnsweredRounds(Turn(c))
LimitReached(c) == conf.onLimit # "None" /\ CompletedRounds(c) >= max

AfterLoop == IF conf.agent = "react" THEN "answer" ELSE "check"
AfterTools == "llm"
AfterLimit == IF conf.onLimit = "End" THEN AfterLoop ELSE "llm"

AnsweredByLimit(c) == ReachedIn(Turn(c), max)

BugLimitsAgain(c) == "limit"
Limited(c) ==
    CASE conf.onLimit = "End" -> "limit"
      [] conf.onLimit = "Continue" /\ ~AnsweredByLimit(c) -> "limit"
      [] OTHER -> "failed"
AfterModel(c) ==
    IF ~AwaitsResults(Turn(c)) THEN AfterLoop
    ELSE IF LimitReached(c) THEN Limited(c) ELSE "tools"

\* Router.
AfterPass(c, l) == IF Critiques(c, l) < conf.budget THEN "critique" ELSE "finish"
AfterRejection(c, l) ==
    IF Critiques(c, l) < conf.budget \/ (conf.final /\ Critiques(c, l) = conf.budget)
    THEN "llm" ELSE "finish"
RevisionFound(c, l) ==
    IF RevisionsInARow(c, l) - 1 < conf.revisions THEN "llm" ELSE AfterPass(c, l)

EntryRoute(c, l) ==
    CASE LastKind(c, l) = "none" -> "llm"
      [] LastKind(c, l) = "generation" -> "check"
      [] LastKind(c, l) = "critique" -> AfterRejection(c, l)
      [] LastKind(c, l) = "revision" -> RevisionFound(c, l)
      [] LastKind(c, l) = "acceptance" -> "finish"
AfterCheck(c, l) ==
    CASE LastKind(c, l) = "revision" -> "llm"
      [] LastKind(c, l) = "critique" -> AfterRejection(c, l)
      [] LastKind(c, l) = "generation" -> AfterPass(c, l)
      [] OTHER -> "finish"
AfterCritique(c, l) ==
    IF LastKind(c, l) = "critique" THEN AfterRejection(c, l) ELSE "finish"

-----------------------------------------------------------------------------
\* EnterNode and RouteNode.

Route(answered) ==
    pc' = IF conf.agent = "critic" THEN EntryRoute(conv', listed')
          ELSE IF answered THEN "answer" ELSE "llm"

\* The ranks found in the thread end at the first it does not hold.
BugNeverAnswered(th) == FALSE
Answered(th) == conf.agent = "react" /\ th # <<>> /\ Last(th).status = "completed"

StandsAt(th) == IF Answered(th) THEN Len(th) ELSE Len(th) + 1

Entered(th) ==
    /\ conv' = View(th)
    /\ listed' = DOMAIN conv'
    /\ position' = Position(StandsAt(th), Answered(th))
    /\ flag' = FALSE
    /\ Route(Answered(th))
    /\ UNCHANGED <<writing, ruling>>

OpenTurnFound == thread # <<>> /\ Last(thread).status = "streaming"

\* In memory: the opening's turns of the agent have ranks of 0 and below.
EnterInMemory ==
    /\ pc = "enter" /\ ~conf.durable
    /\ \E opening \in Openings :
         conv' = [r \in (1 - Len(opening))..0 |-> opening[r + Len(opening)]]
    /\ listed' = {r \in DOMAIN conv' : Kind(conv'[r]) # "none"}
    /\ position' = Position(1, FALSE) /\ flag' = FALSE
    /\ Route(FALSE)
    /\ UNCHANGED <<fixed, thread, stored, writing, ruling, out>>

\* Durable: the thread is created or read, and the inputs it lacks are stored.
StoreInputs ==
    /\ pc = "enter" /\ conf.durable /\ ~stored
    /\ \/ stored' = TRUE /\ pc' = "enter"
       \/ stored' \in BOOLEAN /\ pc' = "failed"
    /\ UNCHANGED <<fixed, thread, private, writing, ruling, out>>

EnterThread ==
    /\ pc = "enter" /\ conf.durable /\ stored
    /\ ~OpenTurnFound
    /\ Stores(thread, Entered(thread))

\* The last turn of the call is found open: it is failed, and the thread read again.
BugLeavesOpen(th) == {th}
Ended(th) ==
    {[th EXCEPT ![Len(th)].items = items, ![Len(th)].partial = FALSE,
                ![Len(th)].status = "failed"] : items \in Repaired(Last(th))}

FailOpenTurn ==
    /\ pc = "enter" /\ conf.durable /\ stored
    /\ OpenTurnFound
    /\ \E th \in Ended(thread) : Stores(th, Entered(th))

-----------------------------------------------------------------------------
\* LlmNode.

\* Where the reply goes: a turn that awaits a step, or a new one.
Continued ==
    {r \in DOMAIN conv :
       /\ AwaitsStep(conv[r])
       /\ \/ ~conf.durable /\ r = LastBy(conv, Author)
          \/ r = position.rank}
NewRank == IF position.rank \in DOMAIN conv THEN position.rank + 1 ELSE position.rank

\* The client of a call of the model: the one kept for the turn, else the one the
\* model function gives for the round of the turn at which it is asked.
BugKeepsAnyTurn(rank) == kept
Kept(rank) == {c \in kept : c.turn = rank}
Client(rank, round) ==
    IF Kept(rank) # {} THEN CHOOSE c \in Kept(rank) : TRUE ELSE [turn |-> rank, asked |-> round]
Asks(rank, round) ==
    /\ kept' = {Client(rank, round)}
    /\ served' = {s \in served : s.rank = rank} \cup {[rank |-> rank, client |-> Client(rank, round)]}

\* A reply that calls no tool ends the turn, and lets its client go.
LetsGo(item) == kept' = (IF item = "call" THEN kept ELSE {}) /\ served' = served

CallModel ==
    /\ pc = "llm" /\ Continued # {}
    /\ pc' = "stream"
    /\ writing' = [rank |-> Max(Continued), new |-> FALSE, item |-> "none"]
    /\ thread' = IF conf.durable THEN [thread EXCEPT ![writing'.rank].partial = TRUE] ELSE thread
    /\ Asks(Max(Continued), AnsweredRounds(conv[Max(Continued)]))
    /\ UNCHANGED <<fixed, stored, private, ruling, out>>

Streams(rank) ==
    /\ pc' = "stream" /\ writing' = [rank |-> rank, new |-> TRUE, item |-> "none"]
    /\ UNCHANGED <<private, ruling>>
OpenTurn ==
    /\ pc = "llm" /\ Continued = {}
    /\ Stores(IF conf.durable THEN Open(NewRank, Author) ELSE thread, Streams(NewRank))
    /\ Asks(NewRank, 0)

\* What the node gives back, applied.
Reply(item) ==
    LET r == writing.rank IN
    /\ IF writing.new
       THEN /\ Added(r, Author, item)
            /\ listed' = listed \cup {r}
            /\ position' = [position EXCEPT !.rank = r]
       ELSE Pushed(r, item) /\ UNCHANGED <<listed, position>>
    /\ pc' = AfterModel(conv') /\ writing' = None
    /\ UNCHANGED <<flag, ruling>>

MayCallTools ==
    writing.rank \in DOMAIN conv => AnsweredRounds(conv[writing.rank]) < MaxRounds

Completes(item) ==
    /\ pc' = "complete" /\ writing' = [writing EXCEPT !.item = item]
    /\ UNCHANGED <<private, ruling>>

\* The reply ends, the model fails, or the store refuses an event of it.
Streamed(item) ==
    /\ pc = "stream"
    /\ item = "call" => MayCallTools
    /\ LetsGo(item)
    /\ IF ~conf.durable THEN Stores(thread, Reply(item))
       ELSE Stores(Push(writing.rank, item), IF item = "call" THEN Reply(item) ELSE Completes(item))

ModelFails ==
    /\ pc = "stream" /\ Failed
    /\ UNCHANGED <<fixed, thread, stored, out>>

CompleteTurn ==
    /\ pc = "complete"
    /\ Stores(Complete(writing.rank), Reply(writing.item))

-----------------------------------------------------------------------------
\* ToolNode and LimitNode.

Answers(item) ==
    /\ Pushed(LastBy(conv, Author), item)
    /\ flag' = (flag \/ item = "refused")
    /\ pc' = (IF item = "refused" THEN AfterLimit ELSE AfterTools) /\ UNCHANGED <<position, listed, writing, ruling>>
Closes ==
    /\ pc' = "closing" /\ UNCHANGED <<private, writing, ruling>>

Answering(item, then) ==
    LET r == LastBy(conv, Author) IN
    Stores(IF conf.durable THEN Push(r, item) ELSE thread, then)

RunTools == pc = "tools" /\ Answering("ran", Answers("ran"))
ToolFails ==
    /\ pc = "tools" /\ Failed
    /\ UNCHANGED <<fixed, thread, stored, out>>

RefuseCalls ==
    /\ pc = "limit"
    /\ Answering("refused", IF conf.onLimit = "End" THEN Closes ELSE Answers("refused"))

\* End: the turn is closed without the model, then completed.
Close ==
    /\ pc = "closing"
    /\ Answering("closing", pc' = "closed" /\ UNCHANGED <<private, writing, ruling>>)

Cuts ==
    /\ conv' = [conv EXCEPT ![LastBy(conv, Author)].items = @ \o <<"refused", "closing">>]
    /\ flag' = TRUE /\ pc' = AfterLimit
    /\ UNCHANGED <<position, listed, writing, ruling>>
CompleteCut ==
    /\ pc = "closed"
    /\ Stores(IF conf.durable THEN Complete(LastBy(conv, Author)) ELSE thread, Cuts)

-----------------------------------------------------------------------------
\* CheckNode, CritiqueNode and record.

Goes(to) == pc' = to /\ UNCHANGED <<private, writing>>
Records(kind) ==
    /\ pc' = "record" /\ writing' = [rank |-> NewRank, new |-> TRUE, item |-> kind]
    /\ UNCHANGED private

\* The rule check is a function of what it reads: it says the same of a generation
\* each time it is asked.
Rules(judged, revises) ==
    /\ judged \in DOMAIN ruling => ruling[judged] = revises
    /\ ruling' = [r \in DOMAIN ruling \cup {judged} |-> IF r = judged THEN revises ELSE ruling[r]]

Check ==
    /\ pc = "check"
    /\ LET judged == LastGeneration(conv, listed) IN
       IF Empty(conv[judged], conf)
       THEN /\ IF Critiques(conv, listed) < conf.budget THEN Records("critique")
               ELSE Goes(AfterCheck(conv, listed))
            /\ UNCHANGED ruling
       ELSE \E revises \in BOOLEAN :
              /\ Rules(judged, revises)
              /\ IF revises /\ RevisionsInARow(conv, listed) < conf.revisions
                 THEN Records("revision") ELSE Goes(AfterCheck(conv, listed))
    /\ UNCHANGED <<fixed, thread, stored, out>>

\* The rule check, the call of the critic or the reader of its verdict fails.
JudgeFails ==
    /\ pc \in {"check", "critique"} /\ Failed
    /\ UNCHANGED <<fixed, thread, stored, out>>

\* VerdictForm::read: a reply without a structured block, with one of another shape,
\* or that rejects without saying why, is no verdict.
Reading(reply) ==
    CASE reply = "accepts" -> "acceptance"
      [] reply = "rejects" -> "critique"
      [] reply \in {"rejects_blank", "no_block", "misshapen"} -> "unreadable"

\* An unreadable verdict is asked for again, and never recorded.
Critique ==
    /\ pc = "critique"
    /\ \E reply \in {"accepts", "rejects", "rejects_blank", "no_block", "misshapen"} :
         IF Reading(reply) # "unreadable"
         THEN Records(Reading(reply)) /\ attempt' = 1 /\ UNCHANGED ruling
         ELSE IF attempt <= conf.retries
         THEN Goes("critique") /\ attempt' = attempt + 1 /\ UNCHANGED ruling
         ELSE Failed /\ UNCHANGED attempt
    /\ UNCHANGED <<fixed, thread, stored, out>>

Recorded ==
    LET r == writing.rank IN
    /\ Added(r, "critic", writing.item)
    /\ listed' = listed \cup {r}
    /\ position' = [position EXCEPT !.rank = r]
    /\ pc' = IF writing.item = "acceptance" THEN AfterCritique(conv', listed')
             ELSE AfterCheck(conv', listed')
    /\ writing' = None /\ UNCHANGED <<flag, ruling>>

Record ==
    /\ pc = "record"
    /\ IF conf.durable
       THEN Stores(Open(writing.rank, "critic"),
                   pc' = "recording" /\ UNCHANGED <<private, writing, ruling>>)
       ELSE Stores(thread, Recorded)

RecordStep ==
    /\ pc = "recording"
    /\ Stores(Push(writing.rank, writing.item),
              pc' = "recorded" /\ UNCHANGED <<private, writing, ruling>>)

CompleteRecord ==
    /\ pc = "recorded"
    /\ Stores(Complete(writing.rank), Recorded)

-----------------------------------------------------------------------------
\* AnswerNode and FinishNode.

Told(answer, label, reached) ==
    /\ flag' = (flag \/ reached)
    /\ out' = [label |-> label, answer |-> answer, flag |-> flag']
    /\ pc' = "done"
    /\ UNCHANGED <<fixed, thread, stored, conv, position, listed, writing, ruling>>

ReachedInTurn(r) == conf.onLimit \in {"Continue", "End"} /\ ReachedIn(conv[r], max)

GiveAnswer ==
    /\ pc = "answer"
    /\ LET r == IF position.answered THEN position.rank ELSE LastBy(conv, Author) IN
       Told(r, "done", position.answered /\ ReachedInTurn(r))

Finish ==
    /\ pc = "finish"
    /\ LET r == LastGeneration(conv, listed)
           validated == LastKind(conv, listed) = "acceptance"
       IN Told(IF Cut(conv[r], conf) THEN 0 ELSE r,
               IF validated THEN "validated" ELSE "exhausted",
               \E g \in OfKind(conv, listed, "generation") : ReachedInTurn(g))

-----------------------------------------------------------------------------
Generate == CallModel \/ OpenTurn \/ (\E item \in Replies : Streamed(item))

Step ==
    \/ EnterInMemory \/ StoreInputs \/ EnterThread \/ FailOpenTurn
    \/ CompleteTurn
    \/ RunTools \/ RefuseCalls \/ Close \/ CompleteCut
    \/ Check \/ Record \/ RecordStep \/ CompleteRecord
    \/ GiveAnswer \/ Finish

\* What a node asks of others fails.
Fail == ModelFails \/ ToolFails \/ JudgeFails

\* The run is cancelled, dropped or lost with its process.
Lose ==
    /\ pc \notin Over /\ pc' = "lost"
    /\ UNCHANGED <<fixed, thread, stored, private, writing, ruling, out>>

\* The host may end a turn a run left open.
HostEnds ==
    /\ pc \in {"failed", "lost"} /\ OpenTurnFound
    /\ thread' \in Ended(thread)
    /\ UNCHANGED <<fixed, stored, private, pc, writing, ruling, out>>

\* The call is run again, with the round limit as it is read then.
Restart ==
    /\ pc \in Over /\ run < Runs
    /\ run' = run + 1 /\ max' \in Maxes
    /\ NewKeys(conv', position', listed', flag')
    /\ pc' = "enter" /\ writing' = None /\ ruling' = IF conf.durable THEN ruling ELSE <<>>
    /\ kept' = {} /\ served' = {} /\ attempt' = 1
    /\ UNCHANGED <<conf, thread, stored, out>>

Next ==
    \/ Generate /\ UNCHANGED attempt
    \/ Restart
    \/ Critique /\ UNCHANGED clients
    \/ (Step \/ Fail \/ Lose \/ HostEnds) /\ UNCHANGED <<clients, attempt>>

Spec == Init /\ [][Next]_vars

-----------------------------------------------------------------------------
\* What a node reads is what is stored: between two calls of the store the
\* conversation in memory is the thread, and the call stands at its last turn.
AtNode == {"llm", "tools", "limit", "check", "critique", "answer", "finish"}
ConversationIsThread ==
    conf.durable /\ pc \in AtNode =>
        /\ conv = View(thread)
        /\ \A r \in DOMAIN thread : thread[r].status = "streaming" =>
              r = Len(thread) /\ thread[r].run = run
        /\ position.rank \in {Len(thread), Len(thread) + 1}

\* Tools never run past the limit of the run, and the limit refuses a turn once:
\* a turn this run opened has at most one round more than it allows.
TurnsOfRun ==
    IF conf.durable THEN {thread[r] : r \in {q \in DOMAIN thread : thread[q].run = run}}
    ELSE {conv[r] : r \in DOMAIN conv}
LimitHolds ==
    conf.onLimit # "None" => \A t \in TurnsOfRun :
        /\ \A i \in DOMAIN Rounds(t) : i > max => Rounds(t)[i] # "ran"
        /\ Cardinality({i \in DOMAIN Rounds(t) : i > max /\ Rounds(t)[i] = "refused"}) <= 1

\* The turns of the thread are those of an uninterrupted call: a judgment is of the
\* generation before it, a generation answers the rejection before it, they keep to
\* the budget and to the revisions in a row, and nothing follows an acceptance.
JudgedOnce ==
    LET v == View(thread)  l == DOMAIN v
        Upto(r) == {q \in l : q <= r}
        Follows(r) == LastKind(v, {q \in l : q < r})
    IN conf.agent = "critic" =>
        /\ \A r \in CallTurns(v, l) :
             IF Kind(v[r]) = "generation" THEN Follows(r) \in {"none", "critique", "revision"}
             ELSE Follows(r) = "generation"
        /\ Critiques(v, l) <= conf.budget
        /\ conf.final \/ \A r \in OfKind(v, l, "generation") :
             Follows(r) = "critique" => Critiques(v, Upto(r)) < conf.budget
        /\ \A r \in l : RevisionsInARow(v, Upto(r)) <= conf.revisions

\* The bounds of a call count what its thread holds, not what an attempt did: rounds
\* refused once, judgments of the critic and revisions within what was asked.
BudgetsHold == LimitHolds /\ JudgedOnce

\* A turn is written only by the run that opened it: a later one, or the host, only
\* has it repaired and closed, and a closed turn is never changed.
NeverContinued ==
    \A r \in DOMAIN thread : thread'[r] # thread[r] =>
        /\ thread[r].status = "streaming"
        /\ thread[r].run = run \/ thread'[r].status = "failed"

\* A turn is run by one client: the one the model gave at the turn's first round in
\* this run, whatever it would give at the others and to the other turns.
OneClient ==
    \A s \in served :
        /\ s.client.turn = s.rank
        /\ \A t \in served : t.client = s.client

\* What a turn holds has one writer: a run, and a client.
OneWriter == [][NeverContinued /\ OneClient']_vars

\* A call that was answered is answered the same when it is run again.
AnswerKept == [][conf.durable /\ out # NoOut => out' = out]_vars
=============================================================================
