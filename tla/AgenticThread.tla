----------------------------- MODULE AgenticThread -----------------------------
(***************************************************************************)
(* The conversation of a thread and the rules an addition to it obeys       *)
(* (br-agentic-contract, rules.rs over the rules of br-llm-messages, as the *)
(* code in src/ uses them).  A conversation is a sequence of turns; the id   *)
(* of a turn is its place.  Texts and ids of entries are left out but for    *)
(* what tells items and calls apart; a call is named within its response.    *)
(***************************************************************************)
EXTENDS Lists, SequencesExt

CONSTANTS Items, Calls

\* The agents of a node: the one that makes steps, the critic, the programmatic critic.
Agents == {"main", "critic", "programmatic_critic"}

Response(calls, more) == [t |-> "response", calls |-> calls, more |-> more]
Result(call) == [t |-> "result", call |-> call]
Incoming(item) == [t |-> "incoming", item |-> item]
Entries ==
    [t : {"response"}, calls : SUBSET Calls, more : BOOLEAN]
        \cup [t : {"result"}, call : Calls] \cup [t : {"incoming"}, item : Items]

-----------------------------------------------------------------------------
\* TurnState: what the entries of an AI turn leave to do.

Responses(turn) == {i \in DOMAIN turn.entries : turn.entries[i].t = "response"}
IsLastResponse(turn, i) == i \in Responses(turn) /\ \A k \in Responses(turn) : k <= i

Outstanding(turn) ==
    {c \in Calls : \E i \in DOMAIN turn.entries :
        /\ IsLastResponse(turn, i) /\ c \in turn.entries[i].calls
        /\ \A k \in DOMAIN turn.entries : k > i => turn.entries[k] # Result(c)}

\* step.rs: at_boundary, is_final.  more: the last response ends with a
\* continuation of the provider or leaves an execution of it pending.
AtBoundary(turn) ==
    /\ Outstanding(turn) = {}
    /\ \A i \in DOMAIN turn.entries : IsLastResponse(turn, i) => ~turn.entries[i].more

IsFinal(turn) ==
    /\ AtBoundary(turn)
    /\ \E i \in DOMAIN turn.entries : IsLastResponse(turn, i) /\ turn.entries[i].calls = {}

-----------------------------------------------------------------------------
\* Session::holds, holds_incoming, open_ai_turn.

Held(conv) ==
    {i \in Items : \E n \in DOMAIN conv : Incoming(i) \in ToSet(conv[n].entries)}

OpenTurns(conv) == {n \in DOMAIN conv : conv[n].agent \in Agents /\ conv[n].closed = "open"}
OpenAiTurn(conv) == {n \in OpenTurns(conv) : conv[n].agent = "main"}

\* The additions, and what the rules make of each.
InputTurn(items) == [k |-> "input", entries |-> [i \in DOMAIN items |-> Incoming(items[i])]]
TurnEntry(id, agent, entry) == [k |-> "entry", id |-> id, agent |-> agent, entry |-> entry]
Closure(id, agent, reason) == [k |-> "close", id |-> id, agent |-> agent, reason |-> reason]

Existing(conv, add) == add.id \in DOMAIN conv /\ conv[add.id].agent = add.agent

MayFollow(conv, turn, entry) ==
    /\ turn.closed = "open"
    /\ entry.t = "response" => Outstanding(turn) = {}
    /\ entry.t = "result" => entry.call \in Outstanding(turn)
    /\ entry.t = "incoming" => AtBoundary(turn) /\ entry.item \notin Held(conv)

Accepts(conv, add) ==
    \/ add.k = "input" /\ \A i \in DOMAIN add.entries : add.entries[i].item \notin Held(conv)
    \/ add.k = "entry" /\ Existing(conv, add) /\ MayFollow(conv, conv[add.id], add.entry)
    \/ add.k = "entry" /\ add.id = Len(conv) + 1 /\ add.entry.t # "result"
    \/ add.k = "close" /\ Existing(conv, add) /\ conv[add.id].closed = "open"

Opened(agent, entries, closed) == [agent |-> agent, entries |-> entries, closed |-> closed]

\* apply_input_turn, apply_entry, apply_closure, apply_response, apply_results.
Applied(conv, add) ==
    CASE add.k = "input" -> Append(conv, Opened("input", add.entries, "input"))
      [] add.k = "entry" /\ add.id \in DOMAIN conv ->
            [conv EXCEPT ![add.id].entries = Append(@, add.entry)]
      [] add.k = "entry" /\ add.id \notin DOMAIN conv ->
            Append(conv, Opened(add.agent, <<add.entry>>, "open"))
      [] add.k = "close" -> [conv EXCEPT ![add.id].closed = add.reason]
=============================================================================
