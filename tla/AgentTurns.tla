------------------------------- MODULE AgentTurns -------------------------------
(***************************************************************************)
(* The turns of one call of an agent of br-llm-graph (react/), and what its  *)
(* nodes read from them.  A turn is its author and its items: steps that call *)
(* tools, answer, or judge an answer, and the results of tool calls.  The     *)
(* turns of a call are told apart by their rank; those an agent in memory     *)
(* finds in its opening have ranks of 0 and below.                            *)
(***************************************************************************)
EXTENDS Integers, FiniteSets, SequencesExt, FiniteSetsExt, Lists

Replies == {"call", "text", "blank"}                 \* a step of a model
Judgments == {"critique", "revision", "acceptance"}  \* a step of the critic
Results == {"ran", "refused", "interrupted"}         \* by a tool, the limit node, the store
Items == Replies \cup Judgments \cup Results \cup {"closing", "partial"}

\* TurnState of br-llm-messages.
AwaitsResults(t) == Last(t.items) = "call"
AwaitsStep(t) == Last(t.items) \in Results

\* ThreadStore::end_turn of a turn that did not end: the calls without a result are
\* answered, and the step under way is kept or not.
Repaired(t) ==
    LET kept == {t.items} \cup IF ~t.partial THEN {}
                              ELSE {Append(t.items, i) : i \in
                                      IF t.by = "critic" THEN {"partial"} ELSE {"text", "blank"}}
    IN {IF items # <<>> /\ Last(items) = "call" THEN Append(items, "interrupted") ELSE items
          : items \in kept}

-----------------------------------------------------------------------------
\* The rounds of a turn.
Rounds(t) == Among(t.items, Results)
AnsweredRounds(t) == Len(Rounds(t))

ReachedIn(t, max) == \E i \in DOMAIN Rounds(t) : i > max /\ Rounds(t)[i] = "refused"

CutByLimit(t) ==
    Len(t.items) > 1 /\ Last(t.items) = "closing" /\ t.items[Len(t.items) - 1] = "refused"

Steps(t) == Among(t.items, Items \ Results)
Answer(t) == IF Steps(t) = <<>> THEN "none" ELSE Last(Steps(t))

-----------------------------------------------------------------------------
\* A conversation is a function from the ranks of its turns.
TurnsBy(conv, author) == {r \in DOMAIN conv : conv[r].by = author}
LastBy(conv, author) == IF TurnsBy(conv, author) = {} THEN -9 ELSE Max(TurnsBy(conv, author))

\* Duo::kind: a turn of the critic is a judgment only by the step it ends with.
Kind(t) ==
    IF t.by = "generator" THEN "generation"
    ELSE IF Answer(t) \in Judgments THEN Answer(t) ELSE "none"

CallTurns(conv, listed) == {r \in listed : r \in DOMAIN conv /\ Kind(conv[r]) # "none"}
OfKind(conv, listed, kind) == {r \in CallTurns(conv, listed) : Kind(conv[r]) = kind}
LastKind(conv, listed) ==
    LET turns == CallTurns(conv, listed) IN IF turns = {} THEN "none" ELSE Kind(conv[Max(turns)])
LastGeneration(conv, listed) == Max(OfKind(conv, listed, "generation"))
Critiques(conv, listed) == Cardinality(OfKind(conv, listed, "critique"))
RevisionsInARow(conv, listed) ==
    Cardinality({r \in OfKind(conv, listed, "revision") :
                   \A c \in OfKind(conv, listed, "critique") : c < r})

Cut(t, conf) == conf.onLimit = "End" /\ t.by = "generator" /\ CutByLimit(t)
Empty(t, conf) == Cut(t, conf) \/ Answer(t) \in {"none", "blank", "call"}
=============================================================================
