----------------------------- MODULE Agentic_proofs -----------------------------
(***************************************************************************)
(* Proofs about an instance of an agentic node over its thread and its inbox,   *)
(* lost and started again: for every set of items, calls and configurations,    *)
(* every answer and every port that fails; and about the mail between agents,   *)
(* for every set of them, every draft and every size of a page.               *)
(***************************************************************************)
EXTENDS AgenticNode, AgentMail, Lists_proofs

\* What the thread and the memory of an instance are made of.
Critics == {"critic", "programmatic_critic"}
Closings == {"open", "input", "Completed", "BudgetExhausted", "Interrupted", "Cancelled", "Failed"}
Turns == [agent : Agents \cup {"input"}, entries : Seq(Entries), closed : Closings]
Conversations == Seq(Turns)

Additions ==
    {InputTurn(items) : items \in Seq(Items)}
        \cup {TurnEntry(id, agent, entry) : id \in Nat, agent \in Agents, entry \in Entries}
        \cup {Closure(id, agent, reason) : id \in Nat, agent \in Agents, reason \in Closings}

Steps ==
    {"start", "interrupt", "ports", "refresh", "drain", "enter", "pass", "call", "model", "stepped",
     "open_results", "tools", "passed", "judge", "ask", "said", "refused", "rejected", "finish",
     "closing", "done", "lost"}
Afters == {"start", "enter", "again", "validated", "pass", "call", "refused", "rejected"}

Memory ==
    [pc : Steps, after : Afters, flight : Additions \cup {None},
     why : {"none", "failed", "cancelled", "rules"},
     event : {"none", "Result", "Failed", "Cancelled"},
     queue : Seq(Items), spawned : BOOLEAN, reading : Seq(Items),
     marks : Seq(Items), fresh : Seq(Items), got : SUBSET Items,
     turn : Nat, left : SUBSET Calls, unknown : SUBSET Calls, tracked : SUBSET (Nat \cup Calls),
     settled : Nat, tried : Nat, end : {"none", "limit", "final"},
     drainFirst : BOOLEAN, scheduled : BOOLEAN, last : BOOLEAN]

-----------------------------------------------------------------------------
(***************************************************************************)
(* What is true of the conversation at each step of the instance.              *)
(***************************************************************************)
\* No turn is open; the last one is, of the agent of the steps, and no other.
NoneOpen(conv) == OpenTurns(conv) = {}
Within(conv, n) ==
    /\ n \in DOMAIN conv /\ n = Len(conv) /\ OpenTurns(conv) \subseteq {n}
    /\ conv[n].agent = "main" /\ conv[n].closed = "open"

IsIncoming(entry) == \E i \in Items : entry = Incoming(i)
LastIsResponse(turn) == Len(turn.entries) \in Responses(turn)
Asking(turn) == \E i \in DOMAIN turn.entries : IsLastResponse(turn, i) /\ turn.entries[i].calls # {}

\* Every incoming entry is before a response of the agent.
Clear(conv) ==
    \A n \in DOMAIN conv : \A k \in DOMAIN conv[n].entries :
        IsIncoming(conv[n].entries[k]) =>
            \E m \in DOMAIN conv : /\ conv[m].agent = "main"
                                   /\ \/ m > n /\ Responses(conv[m]) # {}
                                      \/ m = n /\ \E j \in Responses(conv[m]) : j > k

\* A turn that ends with what the model was not shown is not one to restore.
Loose(turn) ==
    \E k \in DOMAIN turn.entries :
        IsIncoming(turn.entries[k]) /\ \A j \in Responses(turn) : j < k
Whole(turn) == Loose(turn) => turn.closed # "BudgetExhausted" /\ ~IsFinal(turn)
Sound(conv) == \A n \in DOMAIN conv : conv[n].agent = "main" => Whole(conv[n])

LastAgent(conv) == conv[Len(conv)].agent
Restorable(conv) ==
    /\ conv # <<>> /\ LastAgent(conv) = "main"
    /\ \/ Responses(conv[Len(conv)]) # {} /\ conv[Len(conv)].closed = "BudgetExhausted"
       \/ IsFinal(conv[Len(conv)])

\* Where the instance drains, and what for.
Drains(u) == u.pc \in {"refresh", "drain"}
DrainsFor(u, places) == Drains(u) /\ u.after \in places
InStep(u) == u.pc \in {"call", "model"}

QuietAt(u) ==
    \/ u.pc \in {"ports", "enter", "pass", "passed", "judge", "ask", "finish", "refused", "rejected"}
    \/ DrainsFor(u, {"enter", "again", "validated", "pass"})
    \/ InStep(u) /\ u.turn = 0
BusyAt(u) ==
    \/ u.pc \in {"stepped", "open_results", "tools"}
    \/ DrainsFor(u, {"call"})
    \/ InStep(u) /\ u.turn # 0
AsksAt(u) == u.pc \in {"open_results", "tools"} \/ DrainsFor(u, {"call"})
ClearAt(u) ==
    \/ u.pc \in {"stepped", "passed", "judge", "ask", "said", "refused", "rejected", "finish"}
    \/ u.pc = "refresh" /\ u.after \in {"again", "validated"}
    \/ u.pc = "drain" /\ u.after \in {"again", "validated"} /\ u.got = {}
NewAt(u) ==
    \/ u.pc = "pass" \/ DrainsFor(u, {"pass"})
    \/ InStep(u) /\ u.turn = 0
FilledAt(u) == u.pc = "drain" /\ u.after \in {"again", "validated"} /\ u.got # {}

Place(conv, u) ==
    /\ Drains(u) => u.after \in {"enter", "again", "validated", "pass", "call"}
    /\ QuietAt(u) => NoneOpen(conv)
    /\ BusyAt(u) => Within(conv, u.turn)
    /\ InStep(u) /\ u.turn # 0 => Outstanding(conv[u.turn]) = {}
    /\ u.pc = "stepped" => LastIsResponse(conv[u.turn])
    /\ AsksAt(u) => Asking(conv[u.turn])
    /\ DrainsFor(u, {"call"}) => AtBoundary(conv[u.turn])
    /\ u.pc = "tools" => u.left = Outstanding(conv[u.turn]) /\ u.unknown \subseteq u.left
    /\ ClearAt(u) => Clear(conv)
    /\ NewAt(u) => ~Restorable(conv)
    /\ FilledAt(u) => conv # <<>> /\ LastAgent(conv) = "input"
    /\ u.pc = "said" => /\ conv # <<>> /\ LastAgent(conv) \in Critics
                        /\ conv[Len(conv)].closed = "open"
                        /\ OpenTurns(conv) \subseteq {Len(conv)}
                        /\ u.after \in {"refused", "rejected"}
    /\ u.pc \in {"refused", "rejected"} => conv # <<>> /\ LastAgent(conv) \in Critics

\* What a drain has read is of the inbox, each item once.
DrainFits(conv, u) ==
    /\ Apart(u.queue) /\ Apart(u.reading)
    /\ u.pc = "drain" => /\ ToSet(u.marks) \subseteq Held(conv)
                         /\ Apart(u.fresh) /\ ToSet(u.fresh) \cap Held(conv) = {}

-----------------------------------------------------------------------------
\* The copy of the conversation is the thread, or has what is in flight before it.
Alive(u) == u.pc \notin {"start", "closing", "done", "lost"}
Sync ==
    /\ Alive(w) /\ w.flight = None => copy = thread
    /\ Alive(w) /\ w.flight # None => copy = Applied(thread, w.flight) /\ Held(thread) \subseteq Held(copy)
    /\ w.pc = "closing" /\ w.flight # None =>
         \E id \in Nat, agent \in Agents, reason \in {"Cancelled", "Failed"} :
            w.flight = Closure(id, agent, reason)
    /\ w.pc \in {"start", "done", "lost"} => w.flight = None

MemoryFits ==
    /\ config \in Configs /\ inbox \in Seq(Items) /\ Apart(inbox)
    /\ thread \in Conversations /\ copy \in Conversations /\ w \in Memory

\* What this instance opened in the store it has in mind; a result has none of it.
ResultFits ==
    /\ w.pc \notin {"closing", "done", "lost"} => objects \subseteq w.tracked
    /\ w.event = "Result" => w.pc = "done" /\ NoneOpen(thread) /\ Clear(thread) /\ objects = {}

Keeps ==
    /\ MemoryFits /\ Sync
    /\ Sound(thread) /\ Sound(copy)
    /\ Place(copy, w) /\ DrainFits(copy, w)
    /\ ReadIsStored /\ RulesKept /\ ResultFits

-----------------------------------------------------------------------------
(***************************************************************************)
(* One turn: what one more entry, or a closure, makes of it.                  *)
(***************************************************************************)
LEMMA KindsOfEntries ==
    /\ \A calls \in SUBSET Calls, more \in BOOLEAN :
          Response(calls, more) \in Entries /\ ~IsIncoming(Response(calls, more))
    /\ \A c \in Calls : Result(c) \in Entries /\ ~IsIncoming(Result(c))
    /\ \A i \in Items : Incoming(i) \in Entries /\ IsIncoming(Incoming(i))
    /\ \A e : IsIncoming(e) => e.t = "incoming"
<1>1. \A i \in Items : Incoming(i).t = "incoming" /\ Incoming(i) \in Entries
  BY DEF Incoming, Entries
<1>2. \A e : IsIncoming(e) => e.t = "incoming" BY <1>1 DEF IsIncoming
<1>3. \A calls \in SUBSET Calls, more \in BOOLEAN :
        Response(calls, more).t = "response" /\ Response(calls, more) \in Entries
  BY DEF Response, Entries
<1>4. \A c \in Calls : Result(c).t = "result" /\ Result(c) \in Entries BY DEF Result, Entries
<1> QED BY <1>1, <1>2, <1>3, <1>4 DEF IsIncoming

LEMMA IncomingIsItsItem ==
    ASSUME NEW i, NEW k, Incoming(i) = Incoming(k)
    PROVE  i = k
<1>1. Incoming(i).item = i /\ Incoming(k).item = k BY DEF Incoming
<1> QED BY <1>1

Longer(turn, entry) == [turn EXCEPT !.entries = Append(@, entry)]
Closed(turn, reason) == [turn EXCEPT !.closed = reason]

LEMMA LongerIs ==
    ASSUME NEW turn \in Turns, NEW entry \in Entries
    PROVE  LET next == Longer(turn, entry) size == Len(turn.entries) IN
           /\ next \in Turns /\ next.agent = turn.agent /\ next.closed = turn.closed
           /\ size \in Nat /\ DOMAIN turn.entries = 1..size
           /\ DOMAIN next.entries = 1..(size + 1) /\ Len(next.entries) = size + 1
           /\ next.entries[size + 1] = entry
           /\ \A k \in 1..size : next.entries[k] = turn.entries[k]
<1>1. turn.entries \in Seq(Entries) BY DEF Turns
<1>2. Longer(turn, entry).entries = Append(turn.entries, entry) BY DEF Longer, Turns
<1>3. Append(turn.entries, entry) \in Seq(Entries) BY <1>1
<1>4. Longer(turn, entry) \in Turns BY <1>2, <1>3 DEF Longer, Turns
<1>5. Longer(turn, entry).agent = turn.agent /\ Longer(turn, entry).closed = turn.closed
  BY DEF Longer, Turns
<1> QED BY <1>1, <1>2, <1>4, <1>5

LEMMA ClosedIs ==
    ASSUME NEW turn \in Turns, NEW reason \in Closings
    PROVE  LET next == Closed(turn, reason) IN
           /\ next \in Turns /\ next.agent = turn.agent /\ next.closed = reason
           /\ next.entries = turn.entries
BY DEF Closed, Turns

\* A turn has one last response at most.
LEMMA OneLastResponse ==
    ASSUME NEW turn \in Turns, NEW i, NEW j, IsLastResponse(turn, i), IsLastResponse(turn, j)
    PROVE  i = j
<1>1. turn.entries \in Seq(Entries) BY DEF Turns
<1>2. Responses(turn) \subseteq Nat BY <1>1 DEF Responses
<1> QED BY <1>2 DEF IsLastResponse

LEMMA AskingIsNotFinal ==
    ASSUME NEW turn \in Turns, Asking(turn)
    PROVE  ~IsFinal(turn)
<1>1. PICK i \in DOMAIN turn.entries : IsLastResponse(turn, i) /\ turn.entries[i].calls # {}
  BY DEF Asking
<1> QED BY <1>1, OneLastResponse DEF IsFinal

\* One more response is the last one, and shows all that came before it.
LEMMA ResponseEnds ==
    ASSUME NEW turn \in Turns, NEW calls \in SUBSET Calls, NEW more \in BOOLEAN
    PROVE  LET next == Longer(turn, Response(calls, more)) size == Len(turn.entries) IN
           /\ LastIsResponse(next) /\ size + 1 \in Responses(next)
           /\ ~Loose(next)
<1> DEFINE entry == Response(calls, more)
           next == Longer(turn, entry)
           size == Len(turn.entries)
<1>1. entry \in Entries /\ ~IsIncoming(entry) /\ entry.t = "response"
  BY KindsOfEntries DEF Response
<1>2. /\ size \in Nat /\ DOMAIN next.entries = 1..(size + 1) /\ Len(next.entries) = size + 1
      /\ next.entries[size + 1] = entry
  BY <1>1, LongerIs
<1>3. size + 1 \in Responses(next) BY <1>1, <1>2 DEF Responses
<1>4. ~Loose(next)
  <2> SUFFICES ASSUME NEW k \in DOMAIN next.entries, IsIncoming(next.entries[k]),
                      \A j \in Responses(next) : j < k
               PROVE  FALSE
    BY DEF Loose
  <2> QED BY <1>2, <1>3
<1> QED BY <1>2, <1>3, <1>4 DEF LastIsResponse

\* An entry that is no response leaves the responses as they are.
LEMMA ResponsesStay ==
    ASSUME NEW turn \in Turns, NEW entry \in Entries, entry.t # "response"
    PROVE  LET next == Longer(turn, entry) IN
           /\ Responses(next) = Responses(turn)
           /\ \A i : IsLastResponse(next, i) <=> IsLastResponse(turn, i)
           /\ \A i \in Responses(turn) : next.entries[i] = turn.entries[i]
           /\ Asking(turn) => Asking(next)
<1> DEFINE next == Longer(turn, entry)
           size == Len(turn.entries)
<1>1. /\ size \in Nat /\ DOMAIN turn.entries = 1..size /\ DOMAIN next.entries = 1..(size + 1)
      /\ next.entries[size + 1] = entry /\ \A k \in 1..size : next.entries[k] = turn.entries[k]
  BY LongerIs
<1> HIDE DEF next, size
<1>2. \A k \in 1..(size + 1) : k = size + 1 \/ k \in 1..size BY <1>1
<1>3. 1..size \subseteq 1..(size + 1) BY <1>1
<1>4. Responses(next) = Responses(turn) BY <1>1, <1>2, <1>3 DEF Responses
<1>5. \A i : IsLastResponse(next, i) <=> IsLastResponse(turn, i) BY <1>4 DEF IsLastResponse
<1>6. \A i \in Responses(turn) : next.entries[i] = turn.entries[i] /\ i \in DOMAIN next.entries
  BY <1>1, <1>3 DEF Responses
<1>7. Asking(turn) => Asking(next)
  <2> SUFFICES ASSUME Asking(turn) PROVE Asking(next) OBVIOUS
  <2>1. PICK i \in DOMAIN turn.entries : IsLastResponse(turn, i) /\ turn.entries[i].calls # {}
    BY DEF Asking
  <2>2. i \in Responses(turn) BY <2>1 DEF IsLastResponse
  <2> QED BY <2>1, <2>2, <1>5, <1>6 DEF Asking
<1> QED BY <1>4, <1>5, <1>6, <1>7 DEF next

LEMMA ResultAnswers ==
    ASSUME NEW turn \in Turns, NEW c \in Calls
    PROVE  LET next == Longer(turn, Result(c)) IN
           Outstanding(next) = Outstanding(turn) \ {c} /\ (Loose(next) => Loose(turn))
<1> DEFINE entry == Result(c)
           next == Longer(turn, entry)
           size == Len(turn.entries)
<1>1. entry \in Entries /\ ~IsIncoming(entry) /\ entry.t # "response"
  BY KindsOfEntries DEF Result
<1>2. /\ size \in Nat /\ DOMAIN turn.entries = 1..size /\ DOMAIN next.entries = 1..(size + 1)
      /\ next.entries[size + 1] = entry /\ \A k \in 1..size : next.entries[k] = turn.entries[k]
  BY <1>1, LongerIs
<1>3. /\ Responses(next) = Responses(turn)
      /\ \A i : IsLastResponse(next, i) <=> IsLastResponse(turn, i)
  BY <1>1, ResponsesStay
<1> HIDE DEF next, size, entry
<1>4. /\ \A k \in 1..(size + 1) : k = size + 1 \/ k \in 1..size
      /\ 1..size \subseteq 1..(size + 1) /\ size + 1 \in 1..(size + 1)
  BY <1>2
<1>5. \A i : IsLastResponse(turn, i) => i \in 1..size /\ i < size + 1
  BY <1>2 DEF IsLastResponse, Responses
<1>6. \A d \in Calls : entry = Result(d) <=> c = d
  <2>1. \A d : Result(d).call = d BY DEF Result
  <2> QED BY <2>1 DEF entry
<1>7. ASSUME NEW d \in Outstanding(next) PROVE d \in Outstanding(turn) /\ d # c
  <2>1. d \in Calls BY <1>7 DEF Outstanding
  <2>2. PICK i \in DOMAIN next.entries :
          /\ IsLastResponse(next, i) /\ d \in next.entries[i].calls
          /\ \A k \in DOMAIN next.entries : k > i => next.entries[k] # Result(d)
    BY <1>7 DEF Outstanding
  <2>3. IsLastResponse(turn, i) /\ i \in 1..size /\ i < size + 1 BY <2>2, <1>3, <1>5
  <2>4. next.entries[size + 1] # Result(d) BY <2>2, <2>3, <1>2, <1>4
  <2>5. \A k \in 1..size : k > i => turn.entries[k] # Result(d) BY <2>2, <1>2, <1>4
  <2> QED BY <2>1, <2>2, <2>3, <2>4, <2>5, <1>2, <1>6 DEF Outstanding
<1>8. ASSUME NEW d \in Outstanding(turn), d # c PROVE d \in Outstanding(next)
  <2>1. d \in Calls BY <1>8 DEF Outstanding
  <2>2. PICK i \in DOMAIN turn.entries :
          /\ IsLastResponse(turn, i) /\ d \in turn.entries[i].calls
          /\ \A k \in DOMAIN turn.entries : k > i => turn.entries[k] # Result(d)
    BY <1>8 DEF Outstanding
  <2>3. IsLastResponse(next, i) /\ i \in 1..size /\ d \in next.entries[i].calls
    BY <2>2, <1>2, <1>3
  <2>4. \A k \in 1..(size + 1) : k > i => next.entries[k] # Result(d)
    BY <2>1, <2>2, <1>2, <1>4, <1>6, <1>8
  <2> QED BY <2>1, <2>3, <2>4, <1>2, <1>4 DEF Outstanding
<1>9. Loose(next) => Loose(turn)
  <2> SUFFICES ASSUME NEW k \in DOMAIN next.entries, IsIncoming(next.entries[k]),
                      \A j \in Responses(next) : j < k
               PROVE  Loose(turn)
    BY DEF Loose
  <2>1. k \in 1..size BY <1>1, <1>2, <1>4 DEF entry
  <2> QED BY <2>1, <1>2, <1>3 DEF Loose
<1> QED BY <1>7, <1>8, <1>9 DEF next, entry

LEMMA IncomingWaits ==
    ASSUME NEW turn \in Turns, NEW i \in Items
    PROVE  LET next == Longer(turn, Incoming(i)) IN
           /\ Outstanding(next) = Outstanding(turn)
           /\ AtBoundary(turn) => AtBoundary(next)
<1> DEFINE entry == Incoming(i)
           next == Longer(turn, entry)
           size == Len(turn.entries)
<1>1. entry \in Entries /\ entry.t = "incoming" BY KindsOfEntries DEF Incoming
<1>2. /\ size \in Nat /\ DOMAIN turn.entries = 1..size /\ DOMAIN next.entries = 1..(size + 1)
      /\ next.entries[size + 1] = entry /\ \A k \in 1..size : next.entries[k] = turn.entries[k]
  BY <1>1, LongerIs
<1>3. /\ Responses(next) = Responses(turn)
      /\ \A k : IsLastResponse(next, k) <=> IsLastResponse(turn, k)
  BY <1>1, ResponsesStay
<1> HIDE DEF next, size, entry
<1>4. /\ \A k \in 1..(size + 1) : k = size + 1 \/ k \in 1..size
      /\ 1..size \subseteq 1..(size + 1)
  BY <1>2
<1>5. \A k : IsLastResponse(turn, k) => k \in 1..size
  BY <1>2 DEF IsLastResponse, Responses
<1>6. \A d : entry # Result(d)
  <2>1. \A d : Result(d).t = "result" BY DEF Result
  <2> QED BY <2>1, <1>1
<1>7. ASSUME NEW d \in Outstanding(next) PROVE d \in Outstanding(turn)
  <2>1. d \in Calls BY <1>7 DEF Outstanding
  <2>2. PICK k \in DOMAIN next.entries :
          /\ IsLastResponse(next, k) /\ d \in next.entries[k].calls
          /\ \A m \in DOMAIN next.entries : m > k => next.entries[m] # Result(d)
    BY <1>7 DEF Outstanding
  <2>3. IsLastResponse(turn, k) /\ k \in 1..size BY <2>2, <1>3, <1>5
  <2>4. \A m \in 1..size : m > k => turn.entries[m] # Result(d) BY <2>2, <1>2, <1>4
  <2> QED BY <2>1, <2>2, <2>3, <2>4, <1>2 DEF Outstanding
<1>8. ASSUME NEW d \in Outstanding(turn) PROVE d \in Outstanding(next)
  <2>1. d \in Calls BY <1>8 DEF Outstanding
  <2>2. PICK k \in DOMAIN turn.entries :
          /\ IsLastResponse(turn, k) /\ d \in turn.entries[k].calls
          /\ \A m \in DOMAIN turn.entries : m > k => turn.entries[m] # Result(d)
    BY <1>8 DEF Outstanding
  <2>3. IsLastResponse(next, k) /\ k \in 1..size /\ d \in next.entries[k].calls
    BY <2>2, <1>2, <1>3
  <2>4. \A m \in 1..(size + 1) : m > k => next.entries[m] # Result(d)
    BY <2>2, <1>2, <1>4, <1>6
  <2> QED BY <2>1, <2>3, <2>4, <1>2, <1>4 DEF Outstanding
<1>9. Outstanding(next) = Outstanding(turn) BY <1>7, <1>8
<1>10. AtBoundary(turn) => AtBoundary(next)
  <2>1. \A k \in DOMAIN next.entries : IsLastResponse(next, k) =>
          k \in DOMAIN turn.entries /\ IsLastResponse(turn, k) /\ next.entries[k] = turn.entries[k]
    BY <1>2, <1>3, <1>5
  <2> QED BY <1>9, <2>1 DEF AtBoundary
<1> QED BY <1>9, <1>10 DEF next, entry

-----------------------------------------------------------------------------
(***************************************************************************)
(* The conversation: a turn at its end, or a turn in the place of another.     *)
(***************************************************************************)
HeldBy(turn) == {i \in Items : Incoming(i) \in ToSet(turn.entries)}

Added(conv, next, turn) ==
    /\ Len(conv) \in Nat /\ DOMAIN conv = 1..Len(conv)
    /\ Len(next) = Len(conv) + 1 /\ DOMAIN next = 1..(Len(conv) + 1)
    /\ next[Len(conv) + 1] = turn
    /\ \A n \in 1..Len(conv) : next[n] = conv[n]

Changed(conv, next, id, turn) ==
    /\ Len(conv) \in Nat /\ DOMAIN conv = 1..Len(conv)
    /\ Len(next) = Len(conv) /\ DOMAIN next = 1..Len(conv)
    /\ id \in 1..Len(conv) /\ next[id] = turn
    /\ \A n \in 1..Len(conv) : n # id => next[n] = conv[n]

LEMMA HeldIs ==
    ASSUME NEW conv
    PROVE  \A i : i \in Held(conv) <=> \E n \in DOMAIN conv : i \in HeldBy(conv[n])
BY DEF Held, HeldBy

LEMMA AddedHeld ==
    ASSUME NEW conv, NEW next, NEW turn, Added(conv, next, turn)
    PROVE  Held(next) = Held(conv) \cup HeldBy(turn)
<1>1. \A n \in 1..(Len(conv) + 1) : n = Len(conv) + 1 \/ n \in 1..Len(conv) BY DEF Added
<1>2. 1..Len(conv) \subseteq 1..(Len(conv) + 1) /\ Len(conv) + 1 \in 1..(Len(conv) + 1)
  BY DEF Added
<1>3. ASSUME NEW i \in Held(next) PROVE i \in Held(conv) \cup HeldBy(turn)
  <2>1. PICK n \in DOMAIN next : i \in HeldBy(next[n]) BY <1>3, HeldIs
  <2> QED BY <2>1, <1>1, HeldIs DEF Added
<1>4. ASSUME NEW i \in Held(conv) PROVE i \in Held(next)
  <2>1. PICK n \in DOMAIN conv : i \in HeldBy(conv[n]) BY <1>4, HeldIs
  <2> QED BY <2>1, <1>2, HeldIs DEF Added
<1>5. ASSUME NEW i \in HeldBy(turn) PROVE i \in Held(next) BY <1>2, <1>5, HeldIs DEF Added
<1> QED BY <1>3, <1>4, <1>5

LEMMA ChangedHeld ==
    ASSUME NEW conv, NEW next, NEW id, NEW turn, Changed(conv, next, id, turn),
           HeldBy(conv[id]) \subseteq HeldBy(turn)
    PROVE  Held(next) = Held(conv) \cup HeldBy(turn)
<1>1. ASSUME NEW i \in Held(next) PROVE i \in Held(conv) \cup HeldBy(turn)
  <2>1. PICK n \in DOMAIN next : i \in HeldBy(next[n]) BY <1>1, HeldIs
  <2> QED BY <2>1, HeldIs DEF Changed
<1>2. ASSUME NEW i \in Held(conv) PROVE i \in Held(next)
  <2>1. PICK n \in DOMAIN conv : i \in HeldBy(conv[n]) BY <1>2, HeldIs
  <2>2. i \in HeldBy(next[n]) /\ n \in DOMAIN next BY <2>1 DEF Changed
  <2> QED BY <2>2, HeldIs
<1>3. ASSUME NEW i \in HeldBy(turn) PROVE i \in Held(next) BY <1>3, HeldIs DEF Changed
<1> QED BY <1>1, <1>2, <1>3

LEMMA LongerHeld ==
    ASSUME NEW turn \in Turns, NEW entry \in Entries
    PROVE  HeldBy(Longer(turn, entry)) = HeldBy(turn) \cup {i \in Items : Incoming(i) = entry}
<1> DEFINE next == Longer(turn, entry)
           size == Len(turn.entries)
<1>1. /\ size \in Nat /\ DOMAIN turn.entries = 1..size /\ DOMAIN next.entries = 1..(size + 1)
      /\ next.entries[size + 1] = entry /\ \A k \in 1..size : next.entries[k] = turn.entries[k]
  BY LongerIs
<1> HIDE DEF next, size
<1>2. /\ \A k \in 1..(size + 1) : k = size + 1 \/ k \in 1..size
      /\ 1..size \subseteq 1..(size + 1) /\ size + 1 \in 1..(size + 1)
  BY <1>1
<1>3. \A e : e \in ToSet(next.entries) <=> e = entry \/ e \in ToSet(turn.entries)
  <2>1. ASSUME NEW e \in ToSet(next.entries) PROVE e = entry \/ e \in ToSet(turn.entries)
    BY <1>1, <1>2, <2>1 DEF ToSet
  <2>2. ASSUME NEW e \in ToSet(turn.entries) PROVE e \in ToSet(next.entries)
    <3>1. PICK k \in 1..size : e = turn.entries[k] BY <1>1, <2>2 DEF ToSet
    <3> QED BY <3>1, <1>1, <1>2 DEF ToSet
  <2>3. entry \in ToSet(next.entries) BY <1>1, <1>2 DEF ToSet
  <2> QED BY <2>1, <2>2, <2>3
<1> QED BY <1>3 DEF HeldBy, next

LEMMA AddedOpen ==
    ASSUME NEW conv, NEW next, NEW turn, Added(conv, next, turn)
    PROVE  OpenTurns(next) = IF turn.agent \in Agents /\ turn.closed = "open"
                             THEN OpenTurns(conv) \cup {Len(conv) + 1} ELSE OpenTurns(conv)
<1>1. \A n \in 1..(Len(conv) + 1) : n = Len(conv) + 1 \/ n \in 1..Len(conv) BY DEF Added
<1>2. 1..Len(conv) \subseteq 1..(Len(conv) + 1) /\ Len(conv) + 1 \in 1..(Len(conv) + 1)
  BY DEF Added
<1>3. \A n : n \in OpenTurns(next) <=>
        \/ n \in OpenTurns(conv)
        \/ n = Len(conv) + 1 /\ turn.agent \in Agents /\ turn.closed = "open"
  BY <1>1, <1>2 DEF Added, OpenTurns
<1> QED BY <1>3

LEMMA ChangedOpen ==
    ASSUME NEW conv, NEW next, NEW id, NEW turn, Changed(conv, next, id, turn),
           turn.agent = conv[id].agent
    PROVE  /\ turn.closed = conv[id].closed => OpenTurns(next) = OpenTurns(conv)
           /\ turn.closed # "open" => OpenTurns(next) = OpenTurns(conv) \ {id}
<1>1. \A n \in DOMAIN conv : n # id => next[n] = conv[n] BY DEF Changed
<1>2. DOMAIN next = DOMAIN conv /\ next[id] = turn BY DEF Changed
<1>3. ASSUME turn.closed = conv[id].closed PROVE OpenTurns(next) = OpenTurns(conv)
  BY <1>1, <1>2, <1>3 DEF OpenTurns
<1>4. ASSUME turn.closed # "open" PROVE OpenTurns(next) = OpenTurns(conv) \ {id}
  BY <1>1, <1>2, <1>4 DEF OpenTurns
<1> QED BY <1>3, <1>4

LEMMA AddedSound ==
    ASSUME NEW conv, NEW next, NEW turn, Added(conv, next, turn), Sound(conv),
           turn.agent = "main" => Whole(turn)
    PROVE  Sound(next)
<1>1. \A n \in 1..(Len(conv) + 1) : n = Len(conv) + 1 \/ n \in 1..Len(conv) BY DEF Added
<1> QED BY <1>1 DEF Added, Sound

LEMMA ChangedSound ==
    ASSUME NEW conv, NEW next, NEW id, NEW turn, Changed(conv, next, id, turn), Sound(conv),
           turn.agent = "main" => Whole(turn)
    PROVE  Sound(next)
BY DEF Changed, Sound

\* What the agent answered last, it answered with all before it in sight.
LEMMA LastAnswers ==
    ASSUME NEW conv \in Conversations, conv # <<>>, LastAgent(conv) = "main",
           Responses(conv[Len(conv)]) # {}, ~Loose(conv[Len(conv)])
    PROVE  Clear(conv)
<1> DEFINE size == Len(conv)
<1>1. size \in Nat /\ DOMAIN conv = 1..size /\ size \in 1..size BY DEF Conversations
<1> SUFFICES ASSUME NEW n \in DOMAIN conv, NEW k \in DOMAIN conv[n].entries,
                    IsIncoming(conv[n].entries[k])
             PROVE  \E m \in DOMAIN conv :
                      /\ conv[m].agent = "main"
                      /\ \/ m > n /\ Responses(conv[m]) # {}
                         \/ m = n /\ \E j \in Responses(conv[m]) : j > k
  BY DEF Clear
<1>2. CASE n # size
  <2>1. size > n BY <1>1, <1>2
  <2> QED BY <1>1, <2>1 DEF LastAgent
<1>3. CASE n = size
  <2>1. PICK j \in Responses(conv[n]) : ~(j < k) BY <1>3 DEF Loose
  <2>2. conv[n] \in Turns /\ conv[n].entries \in Seq(Entries)
    <3>1. conv[n] \in Turns BY DEF Conversations
    <3> QED BY <3>1 DEF Turns
  <2>3. j \in Nat /\ k \in Nat BY <2>1, <2>2 DEF Responses
  <2>4. conv[n].entries[j].t = "response" /\ conv[n].entries[k].t = "incoming"
    BY <2>1, KindsOfEntries DEF Responses
  <2>5. j > k BY <2>1, <2>3, <2>4
  <2> QED BY <2>1, <2>5, <1>1, <1>3 DEF LastAgent
<1> QED BY <1>2, <1>3

LEMMA AddedClear ==
    ASSUME NEW conv, NEW next, NEW turn, Added(conv, next, turn), Clear(conv),
           \A k \in DOMAIN turn.entries : ~IsIncoming(turn.entries[k])
    PROVE  Clear(next)
<1>1. \A n \in 1..(Len(conv) + 1) : n = Len(conv) + 1 \/ n \in 1..Len(conv) BY DEF Added
<1>2. 1..Len(conv) \subseteq 1..(Len(conv) + 1) BY DEF Added
<1> SUFFICES ASSUME NEW n \in DOMAIN next, NEW k \in DOMAIN next[n].entries,
                    IsIncoming(next[n].entries[k])
             PROVE  \E m \in DOMAIN next :
                      /\ next[m].agent = "main"
                      /\ \/ m > n /\ Responses(next[m]) # {}
                         \/ m = n /\ \E j \in Responses(next[m]) : j > k
  BY DEF Clear
<1>3. n \in 1..Len(conv) /\ next[n] = conv[n] BY <1>1 DEF Added
<1>4. PICK m \in DOMAIN conv :
        /\ conv[m].agent = "main"
        /\ \/ m > n /\ Responses(conv[m]) # {}
           \/ m = n /\ \E j \in Responses(conv[m]) : j > k
  BY <1>3, ZenonT(30) DEF Clear, Added
<1>5. m \in DOMAIN next /\ next[m] = conv[m] BY <1>2, <1>4 DEF Added
<1> QED BY <1>4, <1>5

LEMMA ClosedClear ==
    ASSUME NEW conv, NEW next, NEW id, NEW turn, Changed(conv, next, id, turn), Clear(conv),
           turn.agent = conv[id].agent, turn.entries = conv[id].entries
    PROVE  Clear(next)
<1>1. /\ DOMAIN next = DOMAIN conv
      /\ \A n \in DOMAIN conv : next[n].agent = conv[n].agent /\ next[n].entries = conv[n].entries
  BY DEF Changed
<1>2. \A n \in DOMAIN conv : Responses(next[n]) = Responses(conv[n]) BY <1>1 DEF Responses
<1> SUFFICES ASSUME NEW n \in DOMAIN next, NEW k \in DOMAIN next[n].entries,
                    IsIncoming(next[n].entries[k])
             PROVE  \E m \in DOMAIN next :
                      /\ next[m].agent = "main"
                      /\ \/ m > n /\ Responses(next[m]) # {}
                         \/ m = n /\ \E j \in Responses(next[m]) : j > k
  BY DEF Clear
<1>3. n \in DOMAIN conv /\ k \in DOMAIN conv[n].entries /\ IsIncoming(conv[n].entries[k])
  BY <1>1
<1>4. PICK m \in DOMAIN conv :
        /\ conv[m].agent = "main"
        /\ \/ m > n /\ Responses(conv[m]) # {}
           \/ m = n /\ \E j \in Responses(conv[m]) : j > k
  BY <1>3 DEF Clear
<1>5. m \in DOMAIN next /\ next[m].agent = "main" /\ Responses(next[m]) = Responses(conv[m])
  BY <1>1, <1>2, <1>4
<1> QED BY <1>4, <1>5

\* A clear conversation has no item unanswered.
LEMMA ClearIsAnswered ==
    ASSUME thread \in Conversations, Clear(thread)
    PROVE  Unanswered = {}
<1> SUFFICES ASSUME NEW i \in Items, NEW n \in DOMAIN thread, NEW k \in DOMAIN thread[n].entries,
                    thread[n].entries[k] = Incoming(i),
                    \A m \in n..Len(thread) : thread[m].agent = "main" =>
                      \A j \in Responses(thread[m]) : m = n /\ j < k
             PROVE  FALSE
  BY DEF Unanswered
<1>1. IsIncoming(thread[n].entries[k]) BY DEF IsIncoming
<1>2. PICK m \in DOMAIN thread : /\ thread[m].agent = "main"
                                 /\ \/ m > n /\ Responses(thread[m]) # {}
                                    \/ m = n /\ \E j \in Responses(thread[m]) : j > k
  BY <1>1 DEF Clear
<1>3. m \in n..Len(thread) /\ n \in Nat BY <1>2 DEF Conversations
<1>4. CASE m > n BY <1>2, <1>3, <1>4
<1>5. CASE m = n /\ \E j \in Responses(thread[m]) : j > k
  <2>1. PICK j \in Responses(thread[m]) : j > k BY <1>5
  <2>2. thread[n] \in Turns /\ thread[n].entries \in Seq(Entries)
    <3>1. thread[n] \in Turns BY DEF Conversations
    <3> QED BY <3>1 DEF Turns
  <2>3. j \in Nat /\ k \in Nat BY <1>5, <2>1, <2>2 DEF Responses
  <2>4. j < k BY <1>2, <1>3, <2>1
  <2> QED BY <2>1, <2>3, <2>4
<1> QED BY <1>2, <1>4, <1>5

-----------------------------------------------------------------------------
(***************************************************************************)
(* What each addition makes of the conversation.                              *)
(***************************************************************************)
LEMMA AppendedTurn ==
    ASSUME NEW conv \in Conversations, NEW turn \in Turns
    PROVE  Append(conv, turn) \in Conversations /\ Added(conv, Append(conv, turn), turn)
<1>1. Append(conv, turn) \in Conversations BY DEF Conversations
<1>2. /\ Len(conv) \in Nat /\ DOMAIN conv = 1..Len(conv)
      /\ Len(Append(conv, turn)) = Len(conv) + 1
      /\ DOMAIN Append(conv, turn) = 1..(Len(conv) + 1)
      /\ Append(conv, turn)[Len(conv) + 1] = turn
      /\ \A n \in 1..Len(conv) : Append(conv, turn)[n] = conv[n]
  BY DEF Conversations
<1> QED BY <1>1, <1>2 DEF Added

LEMMA ReplacedTurn ==
    ASSUME NEW conv \in Conversations, NEW id \in DOMAIN conv, NEW turn \in Turns
    PROVE  /\ [conv EXCEPT ![id] = turn] \in Conversations
           /\ Changed(conv, [conv EXCEPT ![id] = turn], id, turn)
<1>1. Len(conv) \in Nat /\ DOMAIN conv = 1..Len(conv) /\ conv \in [1..Len(conv) -> Turns]
  BY DEF Conversations
<1> DEFINE next == [conv EXCEPT ![id] = turn]
<1>2. next \in [1..Len(conv) -> Turns] BY <1>1
<1>3. next \in Conversations /\ Len(next) = Len(conv) BY <1>1, <1>2 DEF Conversations
<1>4. next[id] = turn /\ \A n \in 1..Len(conv) : n # id => next[n] = conv[n] BY <1>1
<1> HIDE DEF next
<1>5. next \in Conversations /\ Changed(conv, next, id, turn) BY <1>1, <1>2, <1>3, <1>4 DEF Changed
<1> QED BY <1>5 DEF next

InputOf(items) == Opened("input", InputTurn(items).entries, "input")
LEMMA InputIsAdded ==
    ASSUME NEW conv \in Conversations, NEW items \in Seq(Items)
    PROVE  LET next == Applied(conv, InputTurn(items)) IN
           /\ next \in Conversations /\ Added(conv, next, InputOf(items))
           /\ Accepts(conv, InputTurn(items)) <=> ToSet(items) \cap Held(conv) = {}
           /\ HeldBy(InputOf(items)) = ToSet(items)
<1> DEFINE add == InputTurn(items)
           next == Applied(conv, add)
<1>1. /\ add.k = "input" /\ add.entries = [i \in DOMAIN items |-> Incoming(items[i])]
  BY DEF InputTurn
<1>2. add.entries \in Seq(Entries)
  <2>1. Len(items) \in Nat /\ DOMAIN items = 1..Len(items) /\ \A i \in DOMAIN items : items[i] \in Items
    OBVIOUS
  <2>2. add.entries \in [1..Len(items) -> Entries] BY <1>1, <2>1, KindsOfEntries
  <2> QED BY <2>1, <2>2
<1>3. InputOf(items) \in Turns /\ InputOf(items).entries = add.entries
  BY <1>2 DEF InputOf, Opened, Turns, Closings
<1>4. next = Append(conv, InputOf(items)) BY <1>1 DEF Applied, InputOf
<1>5. next \in Conversations /\ Added(conv, next, InputOf(items)) BY <1>3, <1>4, AppendedTurn
<1>6. \A i \in DOMAIN items : add.entries[i].item = items[i] /\ items[i] \in Items
  BY <1>1 DEF Incoming
<1>7. Accepts(conv, add) <=> ToSet(items) \cap Held(conv) = {}
  <2>1. Accepts(conv, add) <=> \A i \in DOMAIN items : items[i] \notin Held(conv)
    BY <1>1, <1>6 DEF Accepts
  <2> QED BY <2>1 DEF ToSet
<1>8. HeldBy(InputOf(items)) = ToSet(items)
  <2>1. \A i : Incoming(i) \in ToSet(add.entries) <=> \E k \in DOMAIN items : Incoming(i) = Incoming(items[k])
    BY <1>1 DEF ToSet
  <2>2. \A i : Incoming(i) \in ToSet(add.entries) <=> \E k \in DOMAIN items : i = items[k]
    BY <2>1, IncomingIsItsItem
  <2> QED BY <2>2, <1>3, <1>6 DEF HeldBy, ToSet
<1> QED BY <1>5, <1>7, <1>8

LEMMA EntryIsAdded ==
    ASSUME NEW conv \in Conversations, NEW id \in DOMAIN conv, NEW entry \in Entries, NEW agent
    PROVE  LET next == Applied(conv, TurnEntry(id, agent, entry)) IN
           /\ next \in Conversations /\ Changed(conv, next, id, Longer(conv[id], entry))
<1> DEFINE add == TurnEntry(id, agent, entry)
           next == Applied(conv, add)
<1>1. add.k = "entry" /\ add.id = id /\ add.entry = entry /\ add.agent = agent BY DEF TurnEntry
<1>2. conv[id] \in Turns BY DEF Conversations
<1>3. Longer(conv[id], entry) \in Turns BY <1>2, LongerIs
<1>4. Applied(conv, add) = [conv EXCEPT ![id] = Longer(conv[id], entry)]
  <2>1. Applied(conv, add) = [conv EXCEPT ![add.id].entries = Append(@, add.entry)]
    <3> HIDE DEF add
    <3> QED BY <1>1 DEF Applied
  <2> QED BY <2>1, <1>1 DEF Longer
<1> QED BY <1>3, <1>4, ReplacedTurn

LEMMA EntryOpensTurn ==
    ASSUME NEW conv \in Conversations, NEW entry \in Entries, NEW agent \in Agents
    PROVE  LET next == Applied(conv, TurnEntry(Len(conv) + 1, agent, entry))
               turn == Opened(agent, <<entry>>, "open") IN
           /\ next \in Conversations /\ Added(conv, next, turn)
           /\ turn \in Turns /\ turn.agent = agent /\ turn.closed = "open" /\ turn.entries = <<entry>>
           /\ entry.t # "result" => Accepts(conv, TurnEntry(Len(conv) + 1, agent, entry))
<1> DEFINE add == TurnEntry(Len(conv) + 1, agent, entry)
           turn == Opened(agent, <<entry>>, "open")
<1>1. add.k = "entry" /\ add.id = Len(conv) + 1 /\ add.entry = entry /\ add.agent = agent
  BY DEF TurnEntry
<1>2. <<entry>> \in Seq(Entries) OBVIOUS
<1>3. turn \in Turns /\ turn.agent = agent /\ turn.closed = "open" /\ turn.entries = <<entry>>
  BY <1>2 DEF Opened, Turns, Closings
<1>4. Len(conv) \in Nat /\ DOMAIN conv = 1..Len(conv) BY DEF Conversations
<1>5. add.id \notin DOMAIN conv BY <1>1, <1>4
<1> HIDE DEF add
<1>6. Applied(conv, add) = Append(conv, Opened(add.agent, <<add.entry>>, "open"))
  BY <1>1, <1>5 DEF Applied
<1>7. Applied(conv, add) = Append(conv, turn) BY <1>6, <1>1
<1>8. entry.t # "result" => Accepts(conv, add) BY <1>1 DEF Accepts
<1> HIDE DEF turn
<1>9. Append(conv, turn) \in Conversations /\ Added(conv, Append(conv, turn), turn)
  BY <1>3, AppendedTurn
<1> QED BY <1>3, <1>7, <1>8, <1>9 DEF add, turn

LEMMA TurnIsClosed ==
    ASSUME NEW conv \in Conversations, NEW id \in DOMAIN conv, NEW agent, NEW reason \in Closings
    PROVE  LET next == Applied(conv, Closure(id, agent, reason)) IN
           /\ next \in Conversations /\ Changed(conv, next, id, Closed(conv[id], reason))
           /\ Accepts(conv, Closure(id, agent, reason)) <=>
                conv[id].agent = agent /\ conv[id].closed = "open"
<1> DEFINE add == Closure(id, agent, reason)
<1>1. add.k = "close" /\ add.id = id /\ add.reason = reason /\ add.agent = agent BY DEF Closure
<1>2. conv[id] \in Turns BY DEF Conversations
<1>3. Closed(conv[id], reason) \in Turns BY <1>2, ClosedIs
<1>4. Applied(conv, add) = [conv EXCEPT ![id] = Closed(conv[id], reason)]
  <2>1. Applied(conv, add) = [conv EXCEPT ![add.id].closed = add.reason]
    <3> HIDE DEF add
    <3> QED BY <1>1 DEF Applied
  <2> QED BY <2>1, <1>1 DEF Closed
<1>5. Accepts(conv, add) <=> conv[id].agent = agent /\ conv[id].closed = "open"
  <2> HIDE DEF add
  <2> QED BY <1>1 DEF Accepts, Existing
<1> QED BY <1>3, <1>4, <1>5, ReplacedTurn

-----------------------------------------------------------------------------
(***************************************************************************)
(* What each write of the instance makes of a conversation it is accepted on.   *)
(***************************************************************************)
Grows(conv, next) ==
    /\ next \in Conversations /\ Held(conv) \subseteq Held(next)
    /\ Sound(conv) => Sound(next)

Takes(conv, add) == Accepts(conv, add) /\ Grows(conv, Applied(conv, add))

LEMMA LastOfAdded ==
    ASSUME NEW conv, NEW next, NEW turn, Added(conv, next, turn)
    PROVE  next # <<>> /\ next[Len(next)] = turn /\ LastAgent(next) = turn.agent
           /\ Len(next) \in DOMAIN next
<1>1. Len(next) = Len(conv) + 1 /\ Len(next) # 0 /\ next[Len(next)] = turn BY DEF Added
<1>2. Len(next) \in DOMAIN next BY <1>1 DEF Added
<1> QED BY <1>1, <1>2 DEF LastAgent

LEMMA InputStored ==
    ASSUME NEW conv \in Conversations, NEW items \in Seq(Items), ToSet(items) \cap Held(conv) = {}
    PROVE  LET next == Applied(conv, InputTurn(items)) IN
           /\ Takes(conv, InputTurn(items))
           /\ Held(next) = Held(conv) \cup ToSet(items)
           /\ NoneOpen(conv) => NoneOpen(next)
           /\ next # <<>> /\ LastAgent(next) = "input" /\ ~Restorable(next)
<1> DEFINE add == InputTurn(items)
           next == Applied(conv, add)
           turn == InputOf(items)
<1>1. /\ next \in Conversations /\ Added(conv, next, turn) /\ Accepts(conv, add)
      /\ HeldBy(turn) = ToSet(items)
  BY InputIsAdded
<1>2. turn.agent = "input" /\ turn.agent \notin Agents BY DEF InputOf, Opened, Agents
<1> HIDE DEF next, add, turn
<1>3. Held(next) = Held(conv) \cup ToSet(items) BY <1>1, AddedHeld
<1>4. OpenTurns(next) = OpenTurns(conv) BY <1>1, <1>2, AddedOpen
<1>5. Sound(conv) => Sound(next) BY <1>1, <1>2, AddedSound
<1>6. next # <<>> /\ LastAgent(next) = "input" BY <1>1, <1>2, LastOfAdded
<1>7. ~Restorable(next) BY <1>6 DEF Restorable
<1>8. Takes(conv, add) BY <1>1, <1>3, <1>5 DEF Takes, Grows, next
<1> QED BY <1>3, <1>4, <1>6, <1>7, <1>8 DEF NoneOpen, next, add

\* What is common to one more entry of the open turn of the agent.
LEMMA OpenTurnGrows ==
    ASSUME NEW conv \in Conversations, NEW n, Within(conv, n), NEW entry \in Entries
    PROVE  LET next == Applied(conv, TurnEntry(n, "main", entry)) turn == Longer(conv[n], entry) IN
           /\ conv[n] \in Turns /\ next \in Conversations
           /\ next[n] = turn /\ Within(next, n)
           /\ Held(next) = Held(conv) \cup {i \in Items : Incoming(i) = entry}
           /\ Whole(turn) /\ Sound(conv) => Sound(next)
           /\ next # <<>> /\ n = Len(next) /\ LastAgent(next) = "main"
<1> DEFINE next == Applied(conv, TurnEntry(n, "main", entry))
           turn == Longer(conv[n], entry)
<1>1. n \in DOMAIN conv /\ conv[n].agent = "main" /\ conv[n].closed = "open" /\ n = Len(conv)
      /\ OpenTurns(conv) \subseteq {n}
  BY DEF Within
<1>2. conv[n] \in Turns BY <1>1 DEF Conversations
<1>3. turn.agent = "main" /\ turn.closed = "open" BY <1>1, <1>2, LongerIs
<1>4. next \in Conversations /\ Changed(conv, next, n, turn) BY <1>1, EntryIsAdded
<1>5. HeldBy(turn) = HeldBy(conv[n]) \cup {i \in Items : Incoming(i) = entry} BY <1>2, LongerHeld
<1> HIDE DEF next, turn
<1>6. Held(next) = Held(conv) \cup HeldBy(turn) BY <1>4, <1>5, ChangedHeld
<1>7. HeldBy(conv[n]) \subseteq Held(conv) BY <1>1, HeldIs
<1>8. OpenTurns(next) = OpenTurns(conv) BY <1>1, <1>3, <1>4, ChangedOpen
<1>9. Within(next, n) BY <1>1, <1>3, <1>4, <1>8 DEF Within, Changed
<1>10. Whole(turn) /\ Sound(conv) => Sound(next) BY <1>4, ChangedSound
<1>11. next[n] = turn /\ n = Len(next) /\ LastAgent(next) = "main"
  BY <1>1, <1>3, <1>4 DEF Changed, LastAgent
<1>12. next # <<>> BY <1>11, <1>1, <1>4 DEF Changed
<1> QED BY <1>2, <1>4, <1>5, <1>6, <1>7, <1>9, <1>10, <1>11, <1>12 DEF next, turn

\* MayFollow, for an entry of a turn that is there.
LEMMA EntryAccepted ==
    ASSUME NEW conv, NEW n, Within(conv, n), NEW entry, MayFollow(conv, conv[n], entry)
    PROVE  Accepts(conv, TurnEntry(n, "main", entry))
<1> DEFINE add == TurnEntry(n, "main", entry)
<1>1. add.k = "entry" /\ add.id = n /\ add.entry = entry /\ add.agent = "main" BY DEF TurnEntry
<1> HIDE DEF add
<1>2. Accepts(conv, add) BY <1>1 DEF Accepts, Existing, Within
<1> QED BY <1>2 DEF add

LEMMA IncomingStored ==
    ASSUME NEW conv \in Conversations, NEW n, Within(conv, n), Asking(conv[n]), AtBoundary(conv[n]),
           NEW i \in Items, i \notin Held(conv)
    PROVE  LET next == Applied(conv, TurnEntry(n, "main", Incoming(i))) IN
           /\ Takes(conv, TurnEntry(n, "main", Incoming(i)))
           /\ Held(next) = Held(conv) \cup {i}
           /\ Within(next, n) /\ Asking(next[n]) /\ AtBoundary(next[n])
<1> DEFINE entry == Incoming(i)
           next == Applied(conv, TurnEntry(n, "main", entry))
           turn == Longer(conv[n], entry)
<1>1. entry \in Entries /\ entry.t = "incoming" /\ entry.item = i BY KindsOfEntries DEF Incoming
<1>2. /\ conv[n] \in Turns /\ next \in Conversations /\ next[n] = turn /\ Within(next, n)
      /\ Held(next) = Held(conv) \cup {k \in Items : Incoming(k) = entry}
      /\ Whole(turn) /\ Sound(conv) => Sound(next)
  BY <1>1, OpenTurnGrows
<1>3. {k \in Items : Incoming(k) = entry} = {i} BY IncomingIsItsItem
<1>4. Asking(turn) BY <1>1, <1>2, ResponsesStay
<1>5. AtBoundary(turn) BY <1>2, IncomingWaits
<1>6. turn \in Turns /\ turn.closed = "open" BY <1>1, <1>2, LongerIs DEF Within
<1>7. Whole(turn) BY <1>4, <1>6, AskingIsNotFinal DEF Whole
<1>8. MayFollow(conv, conv[n], entry)
  <2> HIDE DEF entry
  <2> QED BY <1>1 DEF MayFollow, Within
<1>9. Accepts(conv, TurnEntry(n, "main", entry)) BY <1>8, EntryAccepted
<1> HIDE DEF next, turn
<1>10. Takes(conv, TurnEntry(n, "main", entry)) BY <1>2, <1>7, <1>9 DEF Takes, Grows, next
<1> QED BY <1>2, <1>3, <1>4, <1>5, <1>10 DEF next

LEMMA ResponseStored ==
    ASSUME NEW conv \in Conversations, NEW n, Within(conv, n), Outstanding(conv[n]) = {},
           NEW calls \in SUBSET Calls, NEW more \in BOOLEAN
    PROVE  LET next == Applied(conv, TurnEntry(n, "main", Response(calls, more))) IN
           /\ Takes(conv, TurnEntry(n, "main", Response(calls, more)))
           /\ Within(next, n) /\ LastIsResponse(next[n]) /\ Clear(next)
<1> DEFINE entry == Response(calls, more)
           next == Applied(conv, TurnEntry(n, "main", entry))
           turn == Longer(conv[n], entry)
<1>1. entry \in Entries /\ entry.t = "response" BY KindsOfEntries DEF Response
<1>2. /\ conv[n] \in Turns /\ next \in Conversations /\ next[n] = turn /\ Within(next, n)
      /\ Held(conv) \subseteq Held(next)
      /\ Whole(turn) /\ Sound(conv) => Sound(next)
      /\ next # <<>> /\ n = Len(next) /\ LastAgent(next) = "main"
  BY <1>1, OpenTurnGrows
<1>3. LastIsResponse(turn) /\ Responses(turn) # {} /\ ~Loose(turn) BY <1>2, ResponseEnds
<1>4. MayFollow(conv, conv[n], entry)
  <2> HIDE DEF entry
  <2> QED BY <1>1 DEF MayFollow, Within
<1>5. Accepts(conv, TurnEntry(n, "main", entry)) BY <1>4, EntryAccepted
<1> HIDE DEF next, turn
<1>6. Clear(next) BY <1>2, <1>3, LastAnswers
<1>7. Takes(conv, TurnEntry(n, "main", entry)) BY <1>2, <1>3, <1>5 DEF Takes, Grows, next, Whole
<1> QED BY <1>2, <1>3, <1>6, <1>7 DEF next

LEMMA ResultStored ==
    ASSUME NEW conv \in Conversations, NEW n, Within(conv, n), Asking(conv[n]),
           NEW c \in Outstanding(conv[n])
    PROVE  LET next == Applied(conv, TurnEntry(n, "main", Result(c))) IN
           /\ Takes(conv, TurnEntry(n, "main", Result(c)))
           /\ Within(next, n) /\ Asking(next[n])
           /\ Outstanding(next[n]) = Outstanding(conv[n]) \ {c}
<1> DEFINE entry == Result(c)
           next == Applied(conv, TurnEntry(n, "main", entry))
           turn == Longer(conv[n], entry)
<1>1. c \in Calls BY DEF Outstanding
<1>2. entry \in Entries /\ entry.t = "result" /\ entry.call = c BY <1>1, KindsOfEntries DEF Result
<1>3. /\ conv[n] \in Turns /\ next \in Conversations /\ next[n] = turn /\ Within(next, n)
      /\ Held(conv) \subseteq Held(next)
      /\ Whole(turn) /\ Sound(conv) => Sound(next)
  BY <1>2, OpenTurnGrows
<1>4. Asking(turn) BY <1>2, <1>3, ResponsesStay
<1>5. Outstanding(turn) = Outstanding(conv[n]) \ {c} BY <1>1, <1>3, ResultAnswers
<1>6. turn \in Turns /\ turn.closed = "open" BY <1>2, <1>3, LongerIs DEF Within
<1>7. Whole(turn) BY <1>4, <1>6, AskingIsNotFinal DEF Whole
<1>8. MayFollow(conv, conv[n], entry)
  <2> HIDE DEF entry
  <2> QED BY <1>2 DEF MayFollow, Within
<1>9. Accepts(conv, TurnEntry(n, "main", entry)) BY <1>8, EntryAccepted
<1> HIDE DEF next, turn
<1>10. Takes(conv, TurnEntry(n, "main", entry)) BY <1>3, <1>7, <1>9 DEF Takes, Grows, next
<1> QED BY <1>3, <1>4, <1>5, <1>10 DEF next

\* What is common to a turn that a response opens: a step's, or a critic's message.
LEMMA ResponseOpensTurn ==
    ASSUME NEW conv \in Conversations, NoneOpen(conv), NEW agent \in Agents,
           NEW calls \in SUBSET Calls, NEW more \in BOOLEAN
    PROVE  LET id == Len(conv) + 1
               next == Applied(conv, TurnEntry(id, agent, Response(calls, more))) IN
           /\ Takes(conv, TurnEntry(id, agent, Response(calls, more)))
           /\ id \in Nat /\ id # 0 /\ id \in DOMAIN next /\ id = Len(next) /\ next # <<>>
           /\ OpenTurns(next) = {id} /\ LastAgent(next) = agent
           /\ next[id].agent = agent /\ next[id].closed = "open"
           /\ LastIsResponse(next[id]) /\ Responses(next[id]) # {} /\ ~Loose(next[id])
           /\ Clear(conv) => Clear(next)
<1> DEFINE id == Len(conv) + 1
           entry == Response(calls, more)
           add == TurnEntry(id, agent, entry)
           next == Applied(conv, add)
           turn == Opened(agent, <<entry>>, "open")
<1>1. entry \in Entries /\ entry.t = "response" /\ ~IsIncoming(entry)
  BY KindsOfEntries DEF Response
<1>2. /\ next \in Conversations /\ Added(conv, next, turn)
      /\ turn \in Turns /\ turn.agent = agent /\ turn.closed = "open" /\ turn.entries = <<entry>>
      /\ Accepts(conv, add)
  <2> HIDE DEF entry
  <2> QED BY <1>1, EntryOpensTurn
<1> HIDE DEF next, turn, add, entry
<1>3. DOMAIN turn.entries = {1} /\ Len(turn.entries) = 1 /\ turn.entries[1] = entry BY <1>2
<1>4. Responses(turn) = {1} BY <1>1, <1>3 DEF Responses
<1>5. LastIsResponse(turn) BY <1>3, <1>4 DEF LastIsResponse
<1>6. \A k \in DOMAIN turn.entries : ~IsIncoming(turn.entries[k]) BY <1>1, <1>3
<1>7. ~Loose(turn) BY <1>6 DEF Loose
<1>8. OpenTurns(next) = {id} BY <1>2, AddedOpen DEF NoneOpen
<1>9. Sound(conv) => Sound(next) BY <1>2, <1>7, AddedSound DEF Whole
<1>10. Held(conv) \subseteq Held(next) BY <1>2, AddedHeld
<1>11. Clear(conv) => Clear(next) BY <1>2, <1>6, AddedClear
<1>12. next # <<>> /\ next[Len(next)] = turn /\ LastAgent(next) = agent /\ Len(next) \in DOMAIN next
  BY <1>2, LastOfAdded
<1>13. id \in Nat /\ id # 0 /\ id = Len(next) BY <1>2 DEF Added
<1>14. Takes(conv, add) BY <1>2, <1>9, <1>10 DEF Takes, Grows, next
<1> QED BY <1>2, <1>4, <1>5, <1>7, <1>8, <1>11, <1>12, <1>13, <1>14 DEF next, add, entry

LEMMA ResponseOpens ==
    ASSUME NEW conv \in Conversations, NoneOpen(conv),
           NEW calls \in SUBSET Calls, NEW more \in BOOLEAN
    PROVE  LET id == Len(conv) + 1
               next == Applied(conv, TurnEntry(id, "main", Response(calls, more))) IN
           /\ Takes(conv, TurnEntry(id, "main", Response(calls, more)))
           /\ id \in Nat /\ id # 0
           /\ Within(next, id) /\ LastIsResponse(next[id]) /\ Clear(next)
<1> DEFINE id == Len(conv) + 1
           add == TurnEntry(id, "main", Response(calls, more))
           next == Applied(conv, add)
<1>0. calls \in SUBSET Calls /\ more \in BOOLEAN /\ conv \in Conversations /\ NoneOpen(conv) OBVIOUS
<1>1. "main" \in Agents BY DEF Agents
<1>2. /\ Takes(conv, add)
      /\ id \in Nat /\ id # 0 /\ id \in DOMAIN next /\ id = Len(next) /\ next # <<>>
      /\ OpenTurns(next) = {id} /\ LastAgent(next) = "main"
      /\ next[id].agent = "main" /\ next[id].closed = "open"
      /\ LastIsResponse(next[id]) /\ Responses(next[id]) # {} /\ ~Loose(next[id])
      /\ Clear(conv) => Clear(next)
  BY <1>0, <1>1, ResponseOpensTurn
<1> HIDE DEF add, id
<1>3. next \in Conversations BY <1>2 DEF Takes, Grows
<1> HIDE DEF next
<1>4. Within(next, id) BY <1>2 DEF Within
<1>5. Clear(next) BY <1>2, <1>3, LastAnswers
<1> QED BY <1>2, <1>4, <1>5 DEF next, add, id

LEMMA MessageOpens ==
    ASSUME NEW conv \in Conversations, NoneOpen(conv), Clear(conv), NEW agent \in Critics
    PROVE  LET add == TurnEntry(Len(conv) + 1, agent, Response({}, FALSE))
               next == Applied(conv, add) IN
           /\ Takes(conv, add)
           /\ next # <<>> /\ LastAgent(next) \in Critics /\ next[Len(next)].closed = "open"
           /\ OpenTurns(next) \subseteq {Len(next)} /\ Clear(next)
<1>1. agent \in Agents /\ {} \in SUBSET Calls /\ FALSE \in BOOLEAN BY DEF Agents, Critics
<1> DEFINE id == Len(conv) + 1
           add == TurnEntry(id, agent, Response({}, FALSE))
           next == Applied(conv, add)
<1>2. /\ Takes(conv, add) /\ id = Len(next) /\ next # <<>>
      /\ OpenTurns(next) = {id} /\ LastAgent(next) = agent
      /\ next[id].closed = "open" /\ Clear(next)
  BY <1>1, ResponseOpensTurn, ZenonT(30)
<1> HIDE DEF next, add
<1> QED BY <1>2 DEF next, add

\* The closure of an open turn.
LEMMA TurnCloses ==
    ASSUME NEW conv \in Conversations, NEW id \in OpenTurns(conv), NEW reason \in Closings \ {"open"},
           conv[id].agent = "main" => Whole(Closed(conv[id], reason))
    PROVE  LET add == Closure(id, conv[id].agent, reason)
               next == Applied(conv, add) IN
           /\ Takes(conv, add)
           /\ OpenTurns(next) = OpenTurns(conv) \ {id}
           /\ Clear(conv) => Clear(next)
           /\ conv # <<>> => next # <<>> /\ Len(next) = Len(conv) /\ LastAgent(next) = LastAgent(conv)
<1> DEFINE agent == conv[id].agent
           add == Closure(id, agent, reason)
           next == Applied(conv, add)
           turn == Closed(conv[id], reason)
<1>1. id \in DOMAIN conv /\ conv[id].closed = "open" /\ conv[id] \in Turns
  BY DEF OpenTurns, Conversations
<1>2. turn.agent = agent /\ turn.closed = reason /\ turn.entries = conv[id].entries BY <1>1, ClosedIs
<1>3. /\ next \in Conversations /\ Changed(conv, next, id, turn)
      /\ Accepts(conv, add) <=> conv[id].agent = agent /\ conv[id].closed = "open"
  <2> HIDE DEF agent
  <2> QED BY <1>1, TurnIsClosed
<1>4. Accepts(conv, add) BY <1>1, <1>3
<1>5. turn.agent = "main" => Whole(turn) BY <1>2
<1> HIDE DEF next, add, turn
<1>6. HeldBy(conv[id]) = HeldBy(turn) BY <1>2 DEF HeldBy
<1>7. Held(conv) \subseteq Held(next) BY <1>3, <1>6, ChangedHeld
<1>8. OpenTurns(next) = OpenTurns(conv) \ {id} BY <1>2, <1>3, ChangedOpen
<1>9. Sound(conv) => Sound(next) BY <1>3, <1>5, ChangedSound
<1>10. Clear(conv) => Clear(next) BY <1>2, <1>3, ClosedClear
<1>11. Takes(conv, add) BY <1>3, <1>4, <1>7, <1>9 DEF Takes, Grows, next
<1>12. ASSUME conv # <<>>
       PROVE  next # <<>> /\ Len(next) = Len(conv) /\ LastAgent(next) = LastAgent(conv)
  <2>1. Len(next) = Len(conv) /\ Len(conv) \in DOMAIN conv
    BY <1>3, <1>12 DEF Changed, Conversations
  <2>2. next # <<>> BY <2>1, <1>3 DEF Changed
  <2>3. next[Len(conv)].agent = conv[Len(conv)].agent
    <3>1. CASE id = Len(conv) BY <3>1, <1>2, <1>3 DEF Changed
    <3>2. CASE id # Len(conv) BY <3>2, <1>3, <2>1 DEF Changed
    <3> QED BY <3>1, <3>2
  <2> QED BY <2>1, <2>2, <2>3 DEF LastAgent
<1> QED BY <1>8, <1>10, <1>11, <1>12 DEF next, add

LEMMA PassCloses ==
    ASSUME NEW conv \in Conversations, NEW n, Within(conv, n), LastIsResponse(conv[n]),
           NEW reason \in {"Completed", "BudgetExhausted"}
    PROVE  LET add == Closure(n, "main", reason)
               next == Applied(conv, add) IN
           /\ Takes(conv, add) /\ NoneOpen(next)
           /\ Clear(conv) => Clear(next)
<1>1. n \in OpenTurns(conv) /\ OpenTurns(conv) \subseteq {n} /\ conv[n].agent = "main"
  BY DEF Within, OpenTurns, Agents
<1>2. conv[n] \in Turns BY DEF Within, Conversations
<1>3. reason \in Closings \ {"open"} /\ reason \in Closings BY DEF Closings
<1> DEFINE turn == Closed(conv[n], reason)
<1>4. turn.entries = conv[n].entries BY <1>2, <1>3, ClosedIs
<1>5. ~Loose(turn)
  <2> SUFFICES ASSUME NEW k \in DOMAIN turn.entries, IsIncoming(turn.entries[k]),
                      \A j \in Responses(turn) : j < k
               PROVE  FALSE
    BY DEF Loose
  <2>1. conv[n].entries \in Seq(Entries) BY <1>2 DEF Turns
  <2>2. Len(conv[n].entries) \in Responses(turn) BY <1>4 DEF LastIsResponse, Responses
  <2>3. k \in 1..Len(conv[n].entries) /\ Len(conv[n].entries) < k BY <1>4, <2>1, <2>2
  <2> QED BY <2>1, <2>3
<1>6. Whole(turn) BY <1>5 DEF Whole
<1> HIDE DEF turn
<1> DEFINE add == Closure(n, "main", reason)
           next == Applied(conv, add)
<1>7. Takes(conv, add) /\ OpenTurns(next) = OpenTurns(conv) \ {n} /\ (Clear(conv) => Clear(next))
  BY <1>1, <1>3, <1>6, TurnCloses DEF turn
<1> HIDE DEF next, add
<1>8. NoneOpen(next) BY <1>1, <1>7 DEF NoneOpen
<1> QED BY <1>7, <1>8 DEF next, add

\* A turn that was left open is closed as what it is: not one to restore if it was not.
LEMMA LeftTurnCloses ==
    ASSUME NEW conv \in Conversations, Sound(conv), NEW id \in OpenTurns(conv),
           NEW reason \in {"Interrupted", "Cancelled", "Failed"}
    PROVE  Takes(conv, Closure(id, conv[id].agent, reason))
<1>1. id \in DOMAIN conv /\ conv[id] \in Turns BY DEF OpenTurns, Conversations
<1>2. reason \in Closings \ {"open"} /\ reason \in Closings /\ reason # "BudgetExhausted" BY DEF Closings
<1> DEFINE turn == Closed(conv[id], reason)
<1>3. turn.entries = conv[id].entries /\ turn.closed = reason BY <1>1, <1>2, ClosedIs
<1>4. Responses(turn) = Responses(conv[id]) BY <1>3 DEF Responses
<1>5. \A i : IsLastResponse(turn, i) <=> IsLastResponse(conv[id], i) BY <1>4 DEF IsLastResponse
<1>6. Outstanding(turn) = Outstanding(conv[id]) BY <1>3, <1>5 DEF Outstanding
<1>7. IsFinal(turn) <=> IsFinal(conv[id]) BY <1>3, <1>5, <1>6 DEF IsFinal, AtBoundary
<1>8. Loose(turn) <=> Loose(conv[id]) BY <1>3, <1>4 DEF Loose
<1>9. conv[id].agent = "main" => Whole(turn) BY <1>1, <1>2, <1>3, <1>7, <1>8 DEF Whole, Sound
<1> HIDE DEF turn
<1> QED BY <1>2, <1>9, TurnCloses DEF turn

\* The message of a critic is closed.
LEMMA MessageCloses ==
    ASSUME NEW conv \in Conversations, conv # <<>>, LastAgent(conv) \in Critics,
           conv[Len(conv)].closed = "open", OpenTurns(conv) \subseteq {Len(conv)}
    PROVE  LET add == Closure(Len(conv), LastAgent(conv), "Completed")
               next == Applied(conv, add) IN
           /\ Takes(conv, add) /\ NoneOpen(next)
           /\ next # <<>> /\ LastAgent(next) = LastAgent(conv)
           /\ Clear(conv) => Clear(next)
<1> DEFINE n == Len(conv)
           add == Closure(n, conv[n].agent, "Completed")
           next == Applied(conv, add)
<1>1. n \in OpenTurns(conv)
  <2>1. n \in DOMAIN conv BY DEF Conversations
  <2> QED BY <2>1 DEF OpenTurns, LastAgent, Critics, Agents
<1>2. conv[n].agent # "main" BY DEF LastAgent, Critics
<1>3. "Completed" \in Closings \ {"open"} BY DEF Closings
<1> HIDE DEF n
<1>4. /\ Takes(conv, add) /\ OpenTurns(next) = OpenTurns(conv) \ {n} /\ (Clear(conv) => Clear(next))
      /\ next # <<>> /\ LastAgent(next) = LastAgent(conv)
  BY <1>1, <1>2, <1>3, TurnCloses
<1> HIDE DEF next, add
<1>5. NoneOpen(next) BY <1>4 DEF NoneOpen, n
<1> QED BY <1>4, <1>5 DEF next, add, n, LastAgent

-----------------------------------------------------------------------------
(***************************************************************************)
(* Place, step by step.                                                       *)
(***************************************************************************)
LEMMA PlacesOfSteps ==
    ASSUME NEW conv, NEW u
    PROVE  /\ ~Alive(u) \/ u.pc = "interrupt" => Place(conv, u)
           /\ u.pc \in {"ports", "enter"} => (Place(conv, u) <=> NoneOpen(conv))
           /\ u.pc \in {"passed", "judge", "ask", "finish"} =>
                (Place(conv, u) <=> NoneOpen(conv) /\ Clear(conv))
           /\ u.pc = "pass" => (Place(conv, u) <=> NoneOpen(conv) /\ ~Restorable(conv))
           /\ InStep(u) /\ u.turn = 0 => (Place(conv, u) <=> NoneOpen(conv) /\ ~Restorable(conv))
           /\ InStep(u) /\ u.turn # 0 =>
                (Place(conv, u) <=> Within(conv, u.turn) /\ Outstanding(conv[u.turn]) = {})
           /\ u.pc = "stepped" =>
                (Place(conv, u) <=> Within(conv, u.turn) /\ LastIsResponse(conv[u.turn]) /\ Clear(conv))
           /\ u.pc = "open_results" =>
                (Place(conv, u) <=> Within(conv, u.turn) /\ Asking(conv[u.turn]))
           /\ u.pc = "tools" =>
                (Place(conv, u) <=> /\ Within(conv, u.turn) /\ Asking(conv[u.turn])
                                    /\ u.left = Outstanding(conv[u.turn]) /\ u.unknown \subseteq u.left)
           /\ u.pc = "said" =>
                (Place(conv, u) <=> /\ conv # <<>> /\ LastAgent(conv) \in Critics
                                    /\ conv[Len(conv)].closed = "open"
                                    /\ OpenTurns(conv) \subseteq {Len(conv)}
                                    /\ u.after \in {"refused", "rejected"} /\ Clear(conv))
           /\ u.pc \in {"refused", "rejected"} =>
                (Place(conv, u) <=> /\ NoneOpen(conv) /\ Clear(conv)
                                    /\ conv # <<>> /\ LastAgent(conv) \in Critics)
BY DEF Place, Alive, Drains, DrainsFor, InStep, QuietAt, BusyAt, AsksAt, ClearAt, NewAt, FilledAt

LEMMA DrainPlaces ==
    ASSUME NEW conv, NEW u, Drains(u)
    PROVE  /\ Place(conv, u) => u.after \in {"enter", "again", "validated", "pass", "call"}
           /\ u.after = "enter" => (Place(conv, u) <=> NoneOpen(conv))
           /\ u.after = "pass" => (Place(conv, u) <=> NoneOpen(conv) /\ ~Restorable(conv))
           /\ u.after = "call" =>
                (Place(conv, u) <=> /\ Within(conv, u.turn) /\ Asking(conv[u.turn])
                                    /\ AtBoundary(conv[u.turn]))
           /\ u.after \in {"again", "validated"} /\ (u.pc = "refresh" \/ u.got = {}) =>
                (Place(conv, u) <=> NoneOpen(conv) /\ Clear(conv))
           /\ u.after \in {"again", "validated"} /\ u.pc = "drain" /\ u.got # {} =>
                (Place(conv, u) <=> NoneOpen(conv) /\ conv # <<>> /\ LastAgent(conv) = "input")
BY DEF Place, Drains, DrainsFor, InStep, QuietAt, BusyAt, AsksAt, ClearAt, NewAt, FilledAt

LEMMA SamePlace ==
    ASSUME NEW conv, NEW u, NEW v, Place(conv, u), v.pc = u.pc, v.after = u.after, v.turn = u.turn,
           v.got = u.got, v.left = u.left, v.unknown = u.unknown
    PROVE  Place(conv, v)
BY DEF Place, Drains, DrainsFor, InStep, QuietAt, BusyAt, AsksAt, ClearAt, NewAt, FilledAt

\* restored.
LEMMA RestoredIs ==
    Restored # "none" <=> Restorable(copy)
BY DEF Restored, Restorable, LastAgent

LEMMA RestorableIsClear ==
    ASSUME NEW conv \in Conversations, Sound(conv), Restorable(conv)
    PROVE  Clear(conv)
<1> DEFINE turn == conv[Len(conv)]
<1>1. conv # <<>> /\ LastAgent(conv) = "main" BY DEF Restorable
<1>2. Len(conv) \in DOMAIN conv BY <1>1 DEF Conversations
<1>3. Whole(turn) BY <1>1, <1>2 DEF Sound, LastAgent
<1>4. Responses(turn) # {}
  <2>1. CASE IsFinal(turn) BY <2>1 DEF IsFinal, IsLastResponse
  <2>2. CASE ~IsFinal(turn) BY <2>2 DEF Restorable
  <2> QED BY <2>1, <2>2
<1>5. ~Loose(turn) BY <1>3 DEF Restorable, Whole
<1> HIDE DEF turn
<1> QED BY <1>1, <1>4, <1>5, LastAnswers DEF turn

-----------------------------------------------------------------------------
(***************************************************************************)
(* How a step of each kind keeps the invariant.                               *)
(***************************************************************************)
LEMMA AdditionsAreOther ==
    /\ \A add \in Additions : add # None
    /\ ~Accepts(thread, None)
<1>1. None.k = "none" BY DEF None
<1>2. \A items : InputTurn(items).k = "input" BY DEF InputTurn
<1>3. \A id, agent, entry : TurnEntry(id, agent, entry).k = "entry" BY DEF TurnEntry
<1>4. \A id, agent, reason : Closure(id, agent, reason).k = "close" BY DEF Closure
<1>5. \A add \in Additions : add.k # "none" BY <1>2, <1>3, <1>4 DEF Additions
<1>6. ~Accepts(thread, None)
  <2> HIDE DEF None
  <2> QED BY <1>1 DEF Accepts
<1>7. \A add \in Additions : add # None
  <2> HIDE DEF None
  <2> QED BY <1>1, <1>5
<1> QED BY <1>6, <1>7

\* A step of the instance alone, whose memory is then u.
Moved ==
    /\ UNCHANGED <<config, inbox, thread, copy, read>>
    /\ w' \in Memory /\ Alive(w') /\ w'.flight = None
    /\ w'.why = w.why /\ w'.event = w.event
    /\ objects' \subseteq w'.tracked

LEMMA MoveKeeps ==
    ASSUME Keeps, Alive(w), w.flight = None, Moved, Place(copy, w'), DrainFits(copy, w')
    PROVE  Keeps'
<1>1. MemoryFits' BY DEF Keeps, Moved, MemoryFits
<1>2. Sync' BY DEF Keeps, Moved, Sync, Alive
<1>3. (Sound(thread) /\ Sound(copy) /\ ReadIsStored /\ RulesKept)'
  BY DEF Keeps, Moved, Sound, ReadIsStored, RulesKept
<1>4. (Place(copy, w) /\ DrainFits(copy, w))'
  <2>1. copy' = copy BY DEF Moved
  <2> QED BY <2>1
<1>5. ResultFits' BY DEF Keeps, Moved, ResultFits, Alive
<1> QED BY <1>1, <1>2, <1>3, <1>4, <1>5 DEF Keeps

\* A step that does not read or drain.
LEMMA StepKeeps ==
    ASSUME Keeps, Alive(w), w.flight = None, Moved, Place(copy, w'),
           w'.pc # "drain", w'.queue = w.queue, w'.reading = w.reading
    PROVE  Keeps'
<1>1. DrainFits(copy, w') BY DEF Keeps, DrainFits
<1> QED BY <1>1, MoveKeeps

\* A write: what is in flight is what the copy has more.
LEMMA WriteKeeps ==
    ASSUME Keeps, Alive(w), w.flight = None, NEW add \in Additions, NEW next \in Memory,
           Write(add, next), Takes(copy, add), Alive(next), next.why = w.why, next.event = w.event,
           next.tracked = w.tracked, Place(Applied(copy, add), next), DrainFits(Applied(copy, add), next)
    PROVE  Keeps'
<1>1. Accepts(copy, add) /\ Grows(copy, Applied(copy, add)) BY DEF Takes
<1>2. /\ copy' = Applied(copy, add) /\ w' = [next EXCEPT !.flight = add]
      /\ UNCHANGED <<thread, read, objects, config, inbox>>
  BY <1>1 DEF Write, world
<1>3. /\ w' \in Memory /\ w'.flight = add
      /\ w'.pc = next.pc /\ w'.after = next.after /\ w'.turn = next.turn /\ w'.got = next.got
      /\ w'.left = next.left /\ w'.unknown = next.unknown
      /\ w'.why = next.why /\ w'.event = next.event /\ w'.tracked = next.tracked
      /\ w'.queue = next.queue /\ w'.reading = next.reading
      /\ w'.marks = next.marks /\ w'.fresh = next.fresh
  BY <1>2 DEF Memory
<1>4. add # None BY AdditionsAreOther
<1>5. MemoryFits' BY <1>1, <1>2, <1>3 DEF Keeps, MemoryFits, Grows
<1>6. copy = thread BY DEF Keeps, Sync
<1>7. Sync' BY <1>1, <1>2, <1>3, <1>4, <1>6 DEF Sync, Alive, Grows
<1>8. (Sound(thread) /\ Sound(copy))'
  <2>1. Sound(copy) /\ Sound(thread) BY DEF Keeps
  <2>2. Sound(copy') BY <1>1, <1>2, <2>1 DEF Grows
  <2>3. Sound(thread') BY <1>2, <2>1
  <2> QED BY <2>2, <2>3
<1>9. (ReadIsStored /\ RulesKept)' BY <1>2, <1>3 DEF Keeps, ReadIsStored, RulesKept
<1>10. Place(copy, w)'
  <2>1. Place(copy', w') BY <1>2, <1>3, SamePlace
  <2> QED BY <2>1
<1>11. DrainFits(copy, w)'
  <2>1. DrainFits(copy', w') BY <1>2, <1>3 DEF DrainFits
  <2> QED BY <2>1
<1>12. ResultFits' BY <1>2, <1>3 DEF Keeps, ResultFits, Alive
<1> QED BY <1>5, <1>7, <1>8, <1>9, <1>10, <1>11, <1>12 DEF Keeps

\* What was in flight lands: the thread has no less, and no more than the copy.
LEMMA LandedKeeps ==
    ASSUME Keeps, Landed
    PROVE  /\ w.flight # None
           /\ thread' \in Conversations /\ Sound(thread') /\ Held(thread) \subseteq Held(thread')
           /\ Alive(w) => thread' = copy
<1>1. w.flight # None BY AdditionsAreOther DEF Landed
<1>2. Accepts(thread, w.flight) /\ thread' = Applied(thread, w.flight) BY DEF Landed
<1>3. CASE Alive(w) BY <1>1, <1>2, <1>3 DEF Keeps, Sync, MemoryFits
<1>4. CASE w.pc = "closing"
  <2>1. PICK id \in Nat, agent \in Agents, reason \in {"Cancelled", "Failed"} :
          w.flight = Closure(id, agent, reason)
    BY <1>1, <1>4 DEF Keeps, Sync
  <2>2. Closure(id, agent, reason).k = "close" /\ Closure(id, agent, reason).id = id
        /\ Closure(id, agent, reason).agent = agent
    BY DEF Closure
  <2>3. id \in DOMAIN thread /\ thread[id].agent = agent /\ thread[id].closed = "open"
    <3> DEFINE add == Closure(id, agent, reason)
    <3> HIDE DEF add
    <3>1. Accepts(thread, add) BY <1>2, <2>1 DEF add
    <3> QED BY <3>1, <2>2 DEF Accepts, Existing, add
  <2>4. id \in OpenTurns(thread) BY <2>3 DEF OpenTurns
  <2>5. Takes(thread, Closure(id, thread[id].agent, reason))
    BY <2>4, LeftTurnCloses DEF Keeps, MemoryFits
  <2> QED BY <1>1, <1>2, <1>4, <2>1, <2>3, <2>5 DEF Takes, Grows, Keeps, Alive
<1>5. CASE w.pc \in {"start", "done", "lost"} BY <1>1, <1>5 DEF Keeps, Sync
<1> QED BY <1>3, <1>4, <1>5 DEF Alive

\* The instance stops: what was in flight has landed or not.
LEMMA StopKeeps ==
    ASSUME Keeps, UNCHANGED <<config, inbox, read>>,
           thread' \in Conversations, Sound(thread'), Held(thread) \subseteq Held(thread'),
           copy' \in Conversations, Sound(copy'),
           w' \in Memory, ~Alive(w'), w'.flight = None, w'.why # "rules", w'.event # "Result",
           w'.pc = "start" => objects' = {}, Apart(w'.queue), Apart(w'.reading)
    PROVE  Keeps'
<1>1. MemoryFits' /\ Sync' BY DEF Keeps, MemoryFits, Sync, Alive
<1>2. (ReadIsStored /\ RulesKept)' BY DEF Keeps, ReadIsStored, RulesKept
<1>3. Place(copy', w') BY PlacesOfSteps
<1>4. DrainFits(copy', w') BY DEF DrainFits, Alive
<1>5. ResultFits' BY DEF ResultFits, Alive
<1> QED BY <1>1, <1>2, <1>3, <1>4, <1>5 DEF Keeps

\* Where the instance is put.
LEMMA Settings ==
    ASSUME w \in Memory
    PROVE  /\ \A pc \in Steps : LET u == Goto(pc) IN
                /\ u \in Memory /\ u.pc = pc /\ u.flight = w.flight /\ u.why = w.why /\ u.event = w.event
                /\ u.tracked = w.tracked /\ u.queue = w.queue /\ u.reading = w.reading
                /\ u.turn = w.turn /\ u.after = w.after /\ u.left = w.left /\ u.unknown = w.unknown
           /\ \A after \in Afters : LET u == Draining(after) IN
                /\ u \in Memory /\ u.pc = "refresh" /\ u.after = after
                /\ u.flight = w.flight /\ u.why = w.why /\ u.event = w.event
                /\ u.tracked = w.tracked /\ u.queue = w.queue /\ u.reading = w.reading
                /\ u.turn = w.turn
<1>1. ASSUME NEW pc \in Steps
      PROVE  LET u == Goto(pc) IN
             /\ u \in Memory /\ u.pc = pc /\ u.flight = w.flight /\ u.why = w.why /\ u.event = w.event
             /\ u.tracked = w.tracked /\ u.queue = w.queue /\ u.reading = w.reading
             /\ u.turn = w.turn /\ u.after = w.after /\ u.left = w.left /\ u.unknown = w.unknown
  BY DEF Goto, Memory
<1>2. ASSUME NEW after \in Afters
      PROVE  LET u == Draining(after) IN
             /\ u \in Memory /\ u.pc = "refresh" /\ u.after = after
             /\ u.flight = w.flight /\ u.why = w.why /\ u.event = w.event
             /\ u.tracked = w.tracked /\ u.queue = w.queue /\ u.reading = w.reading
             /\ u.turn = w.turn
  BY DEF Draining, Memory, Steps
<1> QED BY <1>1, <1>2

LEMMA Stops ==
    ASSUME w \in Memory
    PROVE  /\ \A why \in {"failed", "cancelled", "rules"} : LET u == Stopped(why) IN
                /\ u \in Memory /\ u.pc = "closing" /\ u.flight = w.flight /\ u.why = why
                /\ u.event = w.event /\ u.queue = w.queue /\ u.reading = <<>>
           /\ \A event \in {"Result", "Failed", "Cancelled"} : LET u == Ended(event) IN
                /\ u \in Memory /\ u.pc = "done" /\ u.flight = w.flight /\ u.why = w.why
                /\ u.event = event /\ u.queue = w.queue /\ u.reading = <<>>
<1>0. <<>> \in Seq(Items) /\ "closing" \in Steps /\ "done" \in Steps BY DEF Steps
<1>1. ASSUME NEW why \in {"failed", "cancelled", "rules"}
      PROVE  LET u == Stopped(why) IN
             /\ u \in Memory /\ u.pc = "closing" /\ u.flight = w.flight /\ u.why = why
             /\ u.event = w.event /\ u.queue = w.queue /\ u.reading = <<>>
  BY <1>0 DEF Stopped, Memory
<1>2. ASSUME NEW event \in {"Result", "Failed", "Cancelled"}
      PROVE  LET u == Ended(event) IN
             /\ u \in Memory /\ u.pc = "done" /\ u.flight = w.flight /\ u.why = w.why
             /\ u.event = event /\ u.queue = w.queue /\ u.reading = <<>>
  BY <1>0 DEF Ended, Memory
<1> QED BY <1>1, <1>2

LEMMA CreatedIs ==
    /\ Created \in Memory /\ Created.pc = "start" /\ Created.flight = None
    /\ Created.why = "none" /\ Created.event = "none" /\ Created.queue = <<>> /\ Created.reading = <<>>
<1>1. <<>> \in Seq(Items) /\ "start" \in Steps /\ "start" \in Afters BY DEF Steps, Afters
<1>2. 0 \in Nat /\ {} \in SUBSET Items /\ {} \in SUBSET Calls /\ {} \in SUBSET (Nat \cup Calls) OBVIOUS
<1> QED BY <1>1, <1>2 DEF Created, Memory

LEMMA NothingIsApart == Apart(<<>>)
BY DEF Apart

\* A step of the instance alone that gives up.
LEMMA FaultKeeps ==
    ASSUME Keeps, Alive(w), w.flight = None, UNCHANGED <<config, inbox, thread, copy, read>>,
           w' \in Memory, w'.pc = "closing", w'.flight = None, w'.why \in {"failed", "cancelled"},
           w'.event = w.event, w'.queue = w.queue, w'.reading = <<>>
    PROVE  Keeps'
<1>1. w.event # "Result" /\ Apart(w.queue) BY DEF Keeps, ResultFits, Alive, DrainFits
<1>2. /\ thread' \in Conversations /\ Sound(thread') /\ Held(thread) \subseteq Held(thread')
      /\ copy' \in Conversations /\ Sound(copy')
  BY DEF Keeps, MemoryFits
<1> QED BY <1>1, <1>2, StopKeeps, NothingIsApart DEF Alive

LEMMA FaultStops ==
    ASSUME Keeps, Alive(w), w.flight = None, UNCHANGED <<config, inbox, thread, copy, read>>,
           NEW why \in {"failed", "cancelled"}, w' = Stopped(why)
    PROVE  Keeps'
<1>1. w \in Memory BY DEF Keeps, MemoryFits
<1>2. w' \in Memory /\ w'.pc = "closing" /\ w'.flight = None /\ w'.why = why
      /\ w'.event = w.event /\ w'.queue = w.queue /\ w'.reading = <<>>
  BY <1>1, Stops
<1> QED BY <1>2, FaultKeeps

\* The instance goes on at another step.
LEMMA GotoKeeps ==
    ASSUME Keeps, Alive(w), w.flight = None, UNCHANGED <<config, inbox, thread, copy, read, objects>>,
           NEW pc \in Steps, pc # "drain", w' = Goto(pc), Alive(w'), Place(copy, w')
    PROVE  Keeps'
<1>1. w \in Memory BY DEF Keeps, MemoryFits
<1>2. /\ w' \in Memory /\ w'.pc = pc /\ w'.flight = None /\ w'.why = w.why /\ w'.event = w.event
      /\ w'.tracked = w.tracked /\ w'.queue = w.queue /\ w'.reading = w.reading
  BY <1>1, Settings
<1>3. objects \subseteq w.tracked BY DEF Keeps, ResultFits, Alive
<1>4. Moved BY <1>2, <1>3 DEF Moved
<1> QED BY <1>2, <1>4, StepKeeps

LEMMA DrainKeeps ==
    ASSUME Keeps, Alive(w), w.flight = None, UNCHANGED <<config, inbox, thread, copy, read, objects>>,
           NEW after \in Afters, w' = Draining(after), Place(copy, w')
    PROVE  Keeps'
<1>1. w \in Memory BY DEF Keeps, MemoryFits
<1>2. /\ w' \in Memory /\ w'.pc = "refresh" /\ w'.flight = None /\ w'.why = w.why /\ w'.event = w.event
      /\ w'.tracked = w.tracked /\ w'.queue = w.queue /\ w'.reading = w.reading
  BY <1>1, Settings
<1>3. objects \subseteq w.tracked BY DEF Keeps, ResultFits, Alive
<1>4. Moved BY <1>2, <1>3 DEF Moved, Alive
<1> QED BY <1>2, <1>4, StepKeeps

-----------------------------------------------------------------------------
(***************************************************************************)
(* Every action.                                                              *)
(***************************************************************************)
LEMMA OpenKeeps ==
    ASSUME Keeps, Open PROVE Keeps'
<1>1. w.pc = "start" /\ w.flight = None /\ w \in Memory BY DEF Open, At, Keeps, MemoryFits
<1>2. UNCHANGED <<config, inbox, thread, read, objects>> BY DEF Open, durable, world
<1>3. CASE copy' = thread /\ w' = Goto("interrupt")
  <2>1. "interrupt" \in Steps BY DEF Steps
  <2>2. /\ w' \in Memory /\ w'.pc = "interrupt" /\ w'.flight = None /\ w'.why = w.why
        /\ w'.event = w.event /\ w'.tracked = w.tracked /\ w'.queue = w.queue /\ w'.reading = w.reading
    BY <1>1, <1>3, <2>1, Settings
  <2>3. MemoryFits' BY <1>2, <1>3, <2>2 DEF Keeps, MemoryFits
  <2>4. Sync' BY <1>2, <1>3, <2>2 DEF Sync, Alive
  <2>5. (Sound(thread) /\ Sound(copy) /\ ReadIsStored /\ RulesKept)'
    BY <1>2, <1>3, <2>2 DEF Keeps, ReadIsStored, RulesKept
  <2>6. Place(copy', w') BY <2>2, PlacesOfSteps
  <2>7. DrainFits(copy', w') BY <2>2 DEF Keeps, DrainFits
  <2>8. ResultFits' BY <1>1, <1>2, <2>2 DEF Keeps, ResultFits
  <2> QED BY <2>3, <2>4, <2>5, <2>6, <2>7, <2>8 DEF Keeps
<1>4. CASE w' = Ended("Failed") /\ copy' = copy
  <2>1. /\ w' \in Memory /\ w'.pc = "done" /\ w'.flight = None /\ w'.why = w.why
        /\ w'.event = "Failed" /\ w'.queue = w.queue /\ w'.reading = <<>>
    BY <1>1, <1>4, Stops
  <2>2. /\ thread' \in Conversations /\ Sound(thread') /\ Held(thread) \subseteq Held(thread')
        /\ copy' \in Conversations /\ Sound(copy') /\ Apart(w.queue) /\ w.why # "rules"
    BY <1>2, <1>4 DEF Keeps, MemoryFits, DrainFits, RulesKept
  <2> QED BY <1>2, <2>1, <2>2, StopKeeps, NothingIsApart DEF Alive
<1> QED BY <1>3, <1>4 DEF Open

LEMMA InterruptKeeps ==
    ASSUME Keeps, Interrupt PROVE Keeps'
<1>1. w.pc = "interrupt" /\ w.flight = None /\ Alive(w) /\ w \in Memory
  BY DEF Interrupt, At, Alive, Keeps, MemoryFits
<1>2. copy \in Conversations /\ Sound(copy) BY DEF Keeps, MemoryFits
<1>3. CASE \E n \in OpenTurns(copy) : Write(Closure(n, copy[n].agent, "Interrupted"), w)
  <2>1. PICK n \in OpenTurns(copy) : Write(Closure(n, copy[n].agent, "Interrupted"), w) BY <1>3
  <2> DEFINE add == Closure(n, copy[n].agent, "Interrupted")
  <2>2. Takes(copy, add) BY <1>2, LeftTurnCloses
  <2>3. n \in Nat /\ copy[n].agent \in Agents BY <1>2 DEF OpenTurns, Conversations
  <2>4. add \in Additions BY <2>3 DEF Additions, Closings
  <2> HIDE DEF add
  <2>5. Place(Applied(copy, add), w) BY <1>1, PlacesOfSteps
  <2>6. DrainFits(Applied(copy, add), w) BY <1>1 DEF Keeps, DrainFits
  <2> QED BY <1>1, <2>1, <2>2, <2>4, <2>5, <2>6, WriteKeeps DEF add
<1>4. CASE OpenTurns(copy) = {} /\ w' = Goto("ports") /\ UNCHANGED <<durable, objects, copy, world>>
  <2>1. "ports" \in Steps BY DEF Steps
  <2>2. w'.pc = "ports" BY <1>1, <1>4, <2>1, Settings
  <2>3. Place(copy, w') BY <1>4, <2>2, PlacesOfSteps DEF NoneOpen
  <2>4. UNCHANGED <<config, inbox, thread, copy, read, objects>> BY <1>4 DEF durable, world
  <2> QED BY <1>1, <1>4, <2>1, <2>2, <2>3, <2>4, GotoKeeps DEF Alive
<1> QED BY <1>3, <1>4 DEF Interrupt

\* Items apart: of a prefix, of two sequences with nothing in common, of the rest.
LEMMA PagesAreApart ==
    ASSUME NEW items \in Seq(Items), Apart(items), NEW page \in Pages(items)
    PROVE  page \in Seq(Items) /\ Apart(page)
<1>1. PICK n \in 0..Len(items) : page = SubSeq(items, 1, n) BY DEF Pages
<1>2. /\ page \in Seq(Items) /\ Len(page) = n /\ DOMAIN page = 1..n
      /\ \A i \in 1..n : page[i] = items[i] /\ i \in DOMAIN items
  BY <1>1
<1> QED BY <1>2 DEF Apart

LEMMA JoinedApart ==
    ASSUME NEW s \in Seq(Items), NEW t \in Seq(Items), Apart(s), Apart(t), ToSet(s) \cap ToSet(t) = {}
    PROVE  s \o t \in Seq(Items) /\ Apart(s \o t)
<1> DEFINE st == s \o t
<1>1. /\ st \in Seq(Items) /\ Len(st) = Len(s) + Len(t) /\ DOMAIN st = 1..(Len(s) + Len(t))
      /\ Len(s) \in Nat /\ Len(t) \in Nat /\ DOMAIN s = 1..Len(s) /\ DOMAIN t = 1..Len(t)
      /\ \A i \in 1..Len(s) : st[i] = s[i]
      /\ \A i \in 1..(Len(s) + Len(t)) : i > Len(s) => st[i] = t[i - Len(s)]
  OBVIOUS
<1> HIDE DEF st
<1>2. \A i \in 1..(Len(s) + Len(t)) : i \in 1..Len(s) \/ (i > Len(s) /\ i - Len(s) \in 1..Len(t))
  BY <1>1
<1>3. \A i \in 1..Len(s), j \in 1..Len(t) : s[i] # t[j]
  <2> SUFFICES ASSUME NEW i \in 1..Len(s), NEW j \in 1..Len(t), s[i] = t[j] PROVE FALSE OBVIOUS
  <2>1. s[i] \in ToSet(s) /\ t[j] \in ToSet(t) BY <1>1 DEF ToSet
  <2> QED BY <2>1
<1> SUFFICES ASSUME NEW i \in DOMAIN st, NEW j \in DOMAIN st, st[i] = st[j] PROVE i = j
  BY <1>1 DEF Apart, st
<1>4. CASE i \in 1..Len(s) /\ j \in 1..Len(s)
  <2>1. s[i] = s[j] BY <1>1, <1>4
  <2> QED BY <1>1, <1>4, <2>1 DEF Apart
<1>5. CASE i > Len(s) /\ i - Len(s) \in 1..Len(t) /\ j > Len(s) /\ j - Len(s) \in 1..Len(t)
  <2>1. t[i - Len(s)] = t[j - Len(s)] BY <1>1, <1>5
  <2>2. i - Len(s) = j - Len(s) BY <1>1, <1>5, <2>1 DEF Apart
  <2> QED BY <1>1, <2>2
<1>6. CASE i \in 1..Len(s) /\ j > Len(s) /\ j - Len(s) \in 1..Len(t)
  <2>1. st[i] = s[i] /\ st[j] = t[j - Len(s)] BY <1>1, <1>6
  <2> QED BY <2>1, <1>3, <1>6
<1>7. CASE j \in 1..Len(s) /\ i > Len(s) /\ i - Len(s) \in 1..Len(t)
  <2>1. st[j] = s[j] /\ st[i] = t[i - Len(s)] BY <1>1, <1>7
  <2> QED BY <2>1, <1>3, <1>7
<1> QED BY <1>1, <1>2, <1>4, <1>5, <1>6, <1>7

LEMMA RestIsApart ==
    ASSUME NEW items \in Seq(Items), Apart(items), items # <<>>
    PROVE  /\ Head(items) \in Items /\ Head(items) \in ToSet(items)
           /\ Tail(items) \in Seq(Items) /\ Apart(Tail(items))
           /\ ToSet(Tail(items)) \subseteq ToSet(items) /\ Head(items) \notin ToSet(Tail(items))
<1> DEFINE rest == Tail(items)
<1>1. /\ Len(items) \in Nat /\ Len(items) # 0 /\ DOMAIN items = 1..Len(items) /\ 1 \in 1..Len(items)
      /\ Head(items) = items[1]
      /\ rest \in Seq(Items) /\ DOMAIN rest = 1..(Len(items) - 1)
      /\ \A i \in 1..(Len(items) - 1) : rest[i] = items[i + 1]
  OBVIOUS
<1> HIDE DEF rest
<1>2. \A i \in 1..(Len(items) - 1) : i + 1 \in 1..Len(items) /\ i + 1 # 1 BY <1>1
<1>3. Head(items) \in Items /\ Head(items) \in ToSet(items) BY <1>1 DEF ToSet
<1>4. Apart(rest)
  <2> SUFFICES ASSUME NEW i \in DOMAIN rest, NEW j \in DOMAIN rest, rest[i] = rest[j] PROVE i = j
    BY DEF Apart
  <2>1. items[i + 1] = items[j + 1] /\ i + 1 \in DOMAIN items /\ j + 1 \in DOMAIN items BY <1>1, <1>2
  <2>2. i + 1 = j + 1 BY <2>1 DEF Apart
  <2> QED BY <1>1, <2>2
<1>5. ASSUME NEW x \in ToSet(rest) PROVE x \in ToSet(items) /\ x # Head(items)
  <2>1. PICK i \in 1..(Len(items) - 1) : x = rest[i] BY <1>1 DEF ToSet
  <2>2. x = items[i + 1] /\ i + 1 \in DOMAIN items /\ i + 1 # 1 BY <1>1, <1>2, <2>1
  <2>3. x # items[1] BY <1>1, <2>2 DEF Apart
  <2> QED BY <1>1, <2>2, <2>3 DEF ToSet
<1> QED BY <1>1, <1>3, <1>4, <1>5 DEF rest

LEMMA UnreadIsApart ==
    ASSUME Keeps
    PROVE  Unread \in Seq(Items) /\ Apart(Unread)
BY AmongKeeps DEF Keeps, MemoryFits, Unread

LEMMA PushedIsApart ==
    ASSUME NEW queue \in Seq(Items), NEW items \in Seq(Items), Apart(queue), Apart(items)
    PROVE  Pushed(queue, items) \in Seq(Items) /\ Apart(Pushed(queue, items))
<1> DEFINE more == Among(items, Items \ ToSet(queue))
<1>1. more \in Seq(Items) /\ Apart(more) /\ ToSet(more) = ToSet(items) \cap (Items \ ToSet(queue))
  BY AmongKeeps
<1> HIDE DEF more
<1>2. ToSet(queue) \cap ToSet(more) = {} BY <1>1
<1> QED BY <1>1, <1>2, JoinedApart DEF Pushed, more

-----------------------------------------------------------------------------
LEMMA BeginKeeps ==
    ASSUME Keeps, Begin PROVE Keeps'
<1>1. w.pc = "ports" /\ w.flight = None /\ Alive(w) /\ w \in Memory
  BY DEF Begin, At, Alive, Keeps, MemoryFits
<1>2. CASE Fault
  <2>1. UNCHANGED <<config, inbox, thread, copy, read>> /\ w' = Stopped("failed")
    BY <1>2 DEF Fault, world
  <2> QED BY <1>1, <2>1, FaultStops
<1>3. CASE /\ \E items \in Pages(Unread) :
                w' = [Draining("enter") EXCEPT !.queue = IF config.inbox THEN items ELSE <<>>]
           /\ UNCHANGED <<durable, objects, copy, count, world, faults>>
  <2>1. PICK items \in Pages(Unread) :
          w' = [Draining("enter") EXCEPT !.queue = IF config.inbox THEN items ELSE <<>>]
    BY <1>3
  <2> DEFINE queue == IF config.inbox THEN items ELSE <<>>
  <2>2. items \in Seq(Items) /\ Apart(items) BY UnreadIsApart, PagesAreApart
  <2>3. queue \in Seq(Items) /\ Apart(queue)
    <3>1. <<>> \in Seq(Items) /\ Apart(<<>>) BY NothingIsApart
    <3> QED BY <2>2, <3>1
  <2>4. w' = [Draining("enter") EXCEPT !.queue = queue] BY <2>1
  <2> HIDE DEF queue
  <2>5. "enter" \in Afters BY DEF Afters
  <2>6. LET u == Draining("enter") IN
        /\ u \in Memory /\ u.pc = "refresh" /\ u.after = "enter" /\ u.flight = w.flight
        /\ u.why = w.why /\ u.event = w.event /\ u.tracked = w.tracked /\ u.reading = w.reading
    BY <1>1, <2>5, Settings
  <2>7. /\ w' \in Memory /\ w'.pc = "refresh" /\ w'.after = "enter" /\ w'.flight = None
        /\ w'.why = w.why /\ w'.event = w.event /\ w'.tracked = w.tracked
        /\ w'.queue = queue /\ w'.reading = w.reading
    <3> DEFINE u == Draining("enter")
    <3>1. w' = [u EXCEPT !.queue = queue] BY <2>4
    <3> HIDE DEF u
    <3>2. /\ u \in Memory /\ u.pc = "refresh" /\ u.after = "enter" /\ u.flight = w.flight
          /\ u.why = w.why /\ u.event = w.event /\ u.tracked = w.tracked /\ u.reading = w.reading
      BY <2>6 DEF u
    <3> QED BY <1>1, <2>3, <3>1, <3>2 DEF Memory
  <2>8. objects \subseteq w.tracked BY <1>1 DEF Keeps, ResultFits, Alive
  <2>9. Moved BY <1>3, <2>7, <2>8 DEF Moved, durable, world, Alive
  <2>10. NoneOpen(copy)
    <3>1. Place(copy, w) BY DEF Keeps
    <3> QED BY <1>1, <3>1, PlacesOfSteps
  <2>11. Place(copy, w') BY <2>7, <2>10, DrainPlaces DEF Drains
  <2>12. DrainFits(copy, w') BY <2>3, <2>7 DEF Keeps, DrainFits
  <2> QED BY <1>1, <2>9, <2>11, <2>12, MoveKeeps
<1> QED BY <1>2, <1>3 DEF Begin

LEMMA RefreshKeeps ==
    ASSUME Keeps, Refresh PROVE Keeps'
<1>1. w.pc = "refresh" /\ w.flight = None /\ Alive(w) /\ w \in Memory
  BY DEF Refresh, At, Alive, Keeps, MemoryFits
<1>2. UNCHANGED <<config, inbox, thread, copy, read, objects>> BY DEF Refresh, durable, world
<1> DEFINE Reads(ended) == IF ended THEN Pages(w.reading) \cup Pages(Unread) ELSE {<<>>}
           Start(ended, items) ==
              LET queue == Pushed(w.queue, items) IN
              [Goto("drain") EXCEPT
                 !.queue = <<>>, !.got = {}, !.spawned = config.inbox,
                 !.reading = IF w.spawned /\ ~ended THEN @ ELSE Unread,
                 !.marks = Among(queue, Held(copy)),
                 !.fresh = Among(queue, Items \ Held(copy))]
<1>3. PICK ended \in BOOLEAN : \E items \in Reads(ended) :
        w' = Start(ended, items) \/ w' = Stopped("failed")
  BY DEF Refresh
<1>4. PICK items \in Reads(ended) : w' = Start(ended, items) \/ w' = Stopped("failed") BY <1>3
<1>5. CASE w' = Stopped("failed") BY <1>1, <1>2, <1>5, FaultStops
<1>6. CASE w' = Start(ended, items)
  <2>1. items \in Seq(Items) /\ Apart(items)
    <3>1. w.reading \in Seq(Items) /\ Apart(w.reading) BY <1>1 DEF Memory, Keeps, DrainFits
    <3>2. Unread \in Seq(Items) /\ Apart(Unread) BY UnreadIsApart
    <3>3. <<>> \in Seq(Items) /\ Apart(<<>>) BY NothingIsApart
    <3> QED BY <3>1, <3>2, <3>3, PagesAreApart
  <2> DEFINE queue == Pushed(w.queue, items)
             marks == Among(queue, Held(copy))
             fresh == Among(queue, Items \ Held(copy))
             reading == IF w.spawned /\ ~ended THEN w.reading ELSE Unread
  <2>2. queue \in Seq(Items) /\ Apart(queue)
    <3>1. w.queue \in Seq(Items) /\ Apart(w.queue) BY <1>1 DEF Memory, Keeps, DrainFits
    <3> QED BY <2>1, <3>1, PushedIsApart
  <2>3. /\ marks \in Seq(Items) /\ ToSet(marks) \subseteq Held(copy)
        /\ fresh \in Seq(Items) /\ Apart(fresh) /\ ToSet(fresh) \cap Held(copy) = {}
    <3> HIDE DEF queue
    <3> QED BY <2>2, AmongKeeps
  <2>4. reading \in Seq(Items) /\ Apart(reading)
    <3>1. w.reading \in Seq(Items) /\ Apart(w.reading) BY <1>1 DEF Memory, Keeps, DrainFits
    <3> QED BY <3>1, UnreadIsApart
  <2> DEFINE v == Goto("drain")
  <2>5. "drain" \in Steps BY DEF Steps
  <2>6. /\ v \in Memory /\ v.pc = "drain" /\ v.flight = None /\ v.why = w.why /\ v.event = w.event
        /\ v.tracked = w.tracked /\ v.turn = w.turn /\ v.after = w.after /\ v.reading = w.reading
    BY <1>1, <2>5, Settings
  <2>7. w' = [v EXCEPT !.queue = <<>>, !.got = {}, !.spawned = config.inbox,
                       !.reading = reading, !.marks = marks, !.fresh = fresh]
    BY <1>6, <2>6
  <2> HIDE DEF v, marks, fresh, reading
  <2>8. config.inbox \in BOOLEAN
    BY AgenticAssumption DEF Keeps, MemoryFits, ConfigType
  <2>9. <<>> \in Seq(Items) OBVIOUS
  <2>10. w' \in Memory BY <2>3, <2>4, <2>6, <2>7, <2>8, <2>9 DEF Memory
  <2>11. /\ w'.pc = "drain" /\ w'.flight = None /\ w'.why = w.why /\ w'.event = w.event
         /\ w'.tracked = w.tracked /\ w'.turn = w.turn /\ w'.after = w.after
         /\ w'.got = {} /\ w'.queue = <<>> /\ w'.reading = reading
         /\ w'.marks = marks /\ w'.fresh = fresh
    BY <2>6, <2>7 DEF Memory
  <2>12. objects \subseteq w.tracked BY <1>1 DEF Keeps, ResultFits, Alive
  <2>13. Moved BY <1>2, <2>10, <2>11, <2>12 DEF Moved, Alive
  <2>14. DrainFits(copy, w') BY <2>3, <2>4, <2>11, NothingIsApart DEF DrainFits
  <2>15. Place(copy, w')
    <3>1. Place(copy, w) /\ Drains(w) /\ Drains(w') BY <1>1, <2>11 DEF Keeps, Drains
    <3> QED BY <1>1, <2>11, <3>1, DrainPlaces
  <2> QED BY <1>1, <2>13, <2>14, <2>15, MoveKeeps
<1> QED BY <1>4, <1>5, <1>6

LEMMA MarkKeeps ==
    ASSUME Keeps, Mark PROVE Keeps'
<1>1. w.pc = "drain" /\ w.flight = None /\ Alive(w) /\ w \in Memory
  BY DEF Mark, At, Alive, Keeps, MemoryFits
<1>2. /\ UNCHANGED <<config, inbox, thread, copy, objects>> /\ w.marks # <<>>
      /\ w' = [w EXCEPT !.marks = Tail(@)]
      /\ read' = read \/ read' = read \cup {Head(w.marks)}
  BY DEF Mark, world
<1>3. w.marks \in Seq(Items) BY <1>1 DEF Memory
<1>4. Head(w.marks) \in ToSet(w.marks) /\ Tail(w.marks) \in Seq(Items)
      /\ ToSet(Tail(w.marks)) \subseteq ToSet(w.marks)
  <2> DEFINE s == w.marks
  <2> HIDE DEF s
  <2>1. s \in Seq(Items) /\ s # <<>> BY <1>2, <1>3 DEF s
  <2>2. /\ Len(s) \in Nat /\ Len(s) # 0 /\ DOMAIN s = 1..Len(s) /\ 1 \in 1..Len(s) /\ Head(s) = s[1]
        /\ Tail(s) \in Seq(Items) /\ DOMAIN Tail(s) = 1..(Len(s) - 1)
        /\ \A i \in 1..(Len(s) - 1) : Tail(s)[i] = s[i + 1] /\ i + 1 \in 1..Len(s)
    BY <2>1
  <2> QED BY <2>2 DEF ToSet, s
<1>5. /\ w' \in Memory /\ w'.pc = "drain" /\ w'.flight = None /\ w'.why = w.why /\ w'.event = w.event
      /\ w'.tracked = w.tracked /\ w'.turn = w.turn /\ w'.after = w.after /\ w'.got = w.got
      /\ w'.left = w.left /\ w'.unknown = w.unknown /\ w'.queue = w.queue /\ w'.reading = w.reading
      /\ w'.fresh = w.fresh /\ w'.marks = Tail(w.marks)
  BY <1>1, <1>2, <1>4 DEF Memory
<1>6. copy = thread /\ ToSet(w.marks) \subseteq Held(copy)
  BY <1>1 DEF Keeps, Sync, DrainFits
<1>7. MemoryFits' BY <1>2, <1>5 DEF Keeps, MemoryFits
<1>8. Sync' BY <1>1, <1>2, <1>5 DEF Keeps, Sync, Alive
<1>9. (Sound(thread) /\ Sound(copy) /\ RulesKept)' BY <1>2, <1>5 DEF Keeps, RulesKept
<1>10. ReadIsStored' BY <1>2, <1>4, <1>6 DEF Keeps, ReadIsStored
<1>11. Place(copy', w')
  <2>1. Place(copy, w) BY DEF Keeps
  <2>2. Place(copy, w')
    <3> HIDE DEF Keeps
    <3> QED BY <1>1, <1>5, <2>1, SamePlace
  <2> QED BY <1>2, <2>2
<1>12. DrainFits(copy', w') BY <1>1, <1>2, <1>4, <1>5 DEF Keeps, DrainFits
<1>13. ResultFits' BY <1>1, <1>2, <1>5 DEF Keeps, ResultFits
<1> QED BY <1>7, <1>8, <1>9, <1>10, <1>11, <1>12, <1>13 DEF Keeps

\* A write of the drain, of what next marks.
LEMMA StoreInOpenTurnKeeps ==
    ASSUME Keeps, StoreInOpenTurn PROVE Keeps'
<1>1. w.pc = "drain" /\ w.flight = None /\ Alive(w) /\ w \in Memory /\ w.fresh # <<>>
  BY DEF StoreInOpenTurn, At, Alive, Keeps, MemoryFits
<1> DEFINE item == Head(w.fresh)
           next == [w EXCEPT !.marks = <<item>>, !.fresh = Tail(@), !.got = @ \cup {item}]
<1>2. PICK n \in OpenAiTurn(copy) : Write(TurnEntry(n, "main", Incoming(item)), next)
  BY DEF StoreInOpenTurn
<1> DEFINE add == TurnEntry(n, "main", Incoming(item))
<1>3. copy \in Conversations BY DEF Keeps, MemoryFits
<1>4. Place(copy, w) /\ Drains(w) BY <1>1 DEF Keeps, Drains
<1>5. w.after = "call" /\ Within(copy, w.turn) /\ Asking(copy[w.turn]) /\ AtBoundary(copy[w.turn])
  <2>1. w.after \in {"enter", "again", "validated", "pass", "call"} BY <1>4, DrainPlaces
  <2>2. n \in OpenTurns(copy) BY DEF OpenAiTurn
  <2>3. ~NoneOpen(copy) BY <2>2 DEF NoneOpen
  <2>4. w.after = "call" BY <1>1, <1>4, <2>1, <2>3, DrainPlaces
  <2> QED BY <1>4, <2>4, DrainPlaces
<1>6. n = w.turn /\ n \in Nat
  BY <1>3, <1>5 DEF Within, OpenAiTurn, OpenTurns, Conversations
<1>7. /\ w.fresh \in Seq(Items) /\ Apart(w.fresh) /\ ToSet(w.fresh) \cap Held(copy) = {}
      /\ Apart(w.queue) /\ Apart(w.reading)
  BY <1>1 DEF Keeps, DrainFits, Memory
<1>8. /\ item \in Items /\ item \in ToSet(w.fresh)
      /\ Tail(w.fresh) \in Seq(Items) /\ Apart(Tail(w.fresh))
      /\ ToSet(Tail(w.fresh)) \subseteq ToSet(w.fresh) /\ item \notin ToSet(Tail(w.fresh))
  BY <1>1, <1>7, RestIsApart
<1> HIDE DEF item
<1>9. LET after == Applied(copy, add) IN
      /\ Takes(copy, add) /\ Held(after) = Held(copy) \cup {item}
      /\ Within(after, n) /\ Asking(after[n]) /\ AtBoundary(after[n])
  BY <1>3, <1>5, <1>6, <1>7, <1>8, IncomingStored
<1>10. <<item>> \in Seq(Items) /\ ToSet(<<item>>) = {item} BY <1>8 DEF ToSet
<1>11. /\ next \in Memory /\ next.pc = "drain" /\ next.why = w.why /\ next.event = w.event
       /\ next.tracked = w.tracked /\ next.turn = n /\ next.after = "call"
       /\ next.queue = w.queue /\ next.reading = w.reading
       /\ next.marks = <<item>> /\ next.fresh = Tail(w.fresh)
  BY <1>1, <1>5, <1>6, <1>8, <1>10 DEF Memory
<1>12. add \in Additions BY <1>6, <1>8, KindsOfEntries DEF Additions, Agents
<1> HIDE DEF add, next
<1>13. Place(Applied(copy, add), next) BY <1>9, <1>11, DrainPlaces DEF Drains
<1>14. DrainFits(Applied(copy, add), next) BY <1>7, <1>8, <1>9, <1>10, <1>11 DEF DrainFits
<1>15. Alive(next) BY <1>11 DEF Alive
<1> QED BY <1>1, <1>2, <1>9, <1>11, <1>12, <1>13, <1>14, <1>15, WriteKeeps DEF add, next

LEMMA StoreInNewInputTurnKeeps ==
    ASSUME Keeps, StoreInNewInputTurn PROVE Keeps'
<1>1. w.pc = "drain" /\ w.flight = None /\ Alive(w) /\ w \in Memory /\ w.fresh # <<>>
  BY DEF StoreInNewInputTurn, At, Alive, Keeps, MemoryFits
<1> DEFINE next == [w EXCEPT !.marks = w.fresh, !.fresh = <<>>, !.got = ToSet(w.fresh)]
           add == InputTurn(w.fresh)
<1>2. OpenAiTurn(copy) = {} /\ Write(add, next) BY DEF StoreInNewInputTurn
<1>3. copy \in Conversations BY DEF Keeps, MemoryFits
<1>4. Place(copy, w) /\ Drains(w) BY <1>1 DEF Keeps, Drains
<1>5. w.after \in {"enter", "again", "validated", "pass"} /\ NoneOpen(copy)
  <2>1. w.after \in {"enter", "again", "validated", "pass", "call"} BY <1>4, DrainPlaces
  <2>2. w.after # "call"
    <3> SUFFICES ASSUME w.after = "call" PROVE FALSE OBVIOUS
    <3>1. Within(copy, w.turn) BY <1>4, DrainPlaces
    <3>2. w.turn \in OpenAiTurn(copy) BY <3>1 DEF Within, OpenAiTurn, OpenTurns, Agents
    <3> QED BY <1>2, <3>2
  <2> QED BY <1>1, <1>4, <2>1, <2>2, DrainPlaces
<1>6. /\ w.fresh \in Seq(Items) /\ Apart(w.fresh) /\ ToSet(w.fresh) \cap Held(copy) = {}
      /\ Apart(w.queue) /\ Apart(w.reading)
  BY <1>1 DEF Keeps, DrainFits, Memory
<1>7. LET after == Applied(copy, add) IN
      /\ Takes(copy, add) /\ Held(after) = Held(copy) \cup ToSet(w.fresh)
      /\ NoneOpen(copy) => NoneOpen(after)
      /\ after # <<>> /\ LastAgent(after) = "input" /\ ~Restorable(after)
  BY <1>3, <1>6, InputStored
<1>8. ToSet(w.fresh) # {} /\ ToSet(w.fresh) \subseteq Items /\ <<>> \in Seq(Items) /\ ToSet(<<>>) = {}
  <2>1. Head(w.fresh) \in ToSet(w.fresh) BY <1>1, <1>6, RestIsApart
  <2>2. ToSet(<<>>) = {} BY DEF ToSet
  <2>3. \A i \in DOMAIN w.fresh : w.fresh[i] \in Items BY <1>6
  <2> QED BY <2>1, <2>2, <2>3 DEF ToSet
<1>9. /\ next \in Memory /\ next.pc = "drain" /\ next.why = w.why /\ next.event = w.event
      /\ next.tracked = w.tracked /\ next.turn = w.turn /\ next.after = w.after
      /\ next.queue = w.queue /\ next.reading = w.reading /\ next.got = ToSet(w.fresh)
      /\ next.marks = w.fresh /\ next.fresh = <<>>
  BY <1>1, <1>6, <1>8 DEF Memory
<1>10. add \in Additions BY <1>6 DEF Additions
<1> HIDE DEF add, next
<1>11. Place(Applied(copy, add), next) BY <1>5, <1>7, <1>8, <1>9, DrainPlaces DEF Drains
<1>12. DrainFits(Applied(copy, add), next)
  BY <1>6, <1>7, <1>8, <1>9, NothingIsApart DEF DrainFits
<1>13. Alive(next) BY <1>9 DEF Alive
<1> QED BY <1>1, <1>2, <1>7, <1>9, <1>10, <1>11, <1>12, <1>13, WriteKeeps DEF add, next

LEMMA DrainDoneKeeps ==
    ASSUME Keeps, DrainDone PROVE Keeps'
<1>1. w.pc = "drain" /\ w.flight = None /\ Alive(w) /\ w \in Memory
  BY DEF DrainDone, At, Alive, Keeps, MemoryFits
<1>2. UNCHANGED <<config, inbox, thread, copy, read, objects>> /\ w' = [Drained EXCEPT !.got = {}]
  BY DEF DrainDone, durable, world
<1>3. Place(copy, w) /\ Drains(w) BY <1>1 DEF Keeps, Drains
<1>4. w.after \in {"enter", "again", "validated", "pass", "call"} BY <1>3, DrainPlaces
<1> DEFINE Like(u) == /\ u.flight = w.flight /\ u.why = w.why /\ u.event = w.event
                      /\ u.tracked = w.tracked /\ u.queue = w.queue /\ u.reading = w.reading
                      /\ u.turn = w.turn
<1>5. \A pc \in Steps : Goto(pc) \in Memory /\ Like(Goto(pc)) /\ Goto(pc).pc = pc BY <1>1, Settings
<1>6. {"enter", "pass", "call", "finish"} \subseteq Steps BY DEF Steps
<1> DEFINE to == CASE w.after \in {"again", "validated"} -> NextPass(w.got # {}) [] OTHER -> w.after
<1>7. to \in {"enter", "pass", "call", "finish"} BY <1>4 DEF NextPass
<1>8. ASSUME NEW u \in Memory
      PROVE  /\ [u EXCEPT !.drainFirst = FALSE, !.scheduled = FALSE] \in Memory
             /\ Like(u) => Like([u EXCEPT !.drainFirst = FALSE, !.scheduled = FALSE])
             /\ [u EXCEPT !.drainFirst = FALSE, !.scheduled = FALSE].pc = u.pc
             /\ \A on \in BOOLEAN : /\ [u EXCEPT !.scheduled = on] \in Memory
                                    /\ Like(u) => Like([u EXCEPT !.scheduled = on])
                                    /\ [u EXCEPT !.scheduled = on].pc = u.pc
             /\ [u EXCEPT !.got = {}] \in Memory
             /\ Like(u) => Like([u EXCEPT !.got = {}])
             /\ [u EXCEPT !.got = {}].pc = u.pc
  BY DEF Memory
<1>9. Drained \in Memory /\ Like(Drained) /\ Drained.pc = to
  <2>1. CASE w.after = "again"
    <3>1. Drained = Goto(to) BY <2>1 DEF Drained
    <3> QED BY <3>1, <1>5, <1>6, <1>7
  <2>2. CASE w.after = "validated"
    <3>1. CASE w.got # {}
      <4>1. Drained = [Goto("pass") EXCEPT !.drainFirst = FALSE, !.scheduled = FALSE] /\ to = "pass"
        BY <2>2, <3>1 DEF Drained, NextPass
      <4> HIDE DEF Like, to
      <4> QED BY <4>1, <1>5, <1>6, <1>8
    <3>2. CASE w.got = {}
      <4>1. Drained = Goto("finish") /\ to = "finish" BY <2>2, <3>2 DEF Drained, NextPass
      <4> HIDE DEF Like, to
      <4> QED BY <4>1, <1>5, <1>6
    <3> QED BY <3>1, <3>2
  <2>3. CASE w.after = "pass"
    <3> DEFINE on == w.scheduled /\ w.got \cap Requests = {}
    <3>1. Goto("pass").scheduled = w.scheduled /\ w.scheduled \in BOOLEAN BY <1>1 DEF Goto, Memory
    <3>2. Drained = [Goto("pass") EXCEPT !.scheduled = Goto("pass").scheduled /\ w.got \cap Requests = {}]
          /\ to = "pass"
      BY <2>3 DEF Drained
    <3>3. Drained = [Goto("pass") EXCEPT !.scheduled = on] BY <3>1, <3>2
    <3>4. on \in BOOLEAN OBVIOUS
    <3> HIDE DEF Like, to, on
    <3>5. Goto("pass") \in Memory /\ Like(Goto("pass")) /\ Goto("pass").pc = "pass" BY <1>5, <1>6
    <3>6. /\ [Goto("pass") EXCEPT !.scheduled = on] \in Memory
          /\ Like([Goto("pass") EXCEPT !.scheduled = on])
          /\ [Goto("pass") EXCEPT !.scheduled = on].pc = "pass"
      BY <3>4, <3>5, <1>8
    <3> QED BY <3>2, <3>3, <3>6
  <2>4. CASE w.after \in {"enter", "call"}
    <3>1. Drained = Goto(w.after) /\ to = w.after BY <2>4 DEF Drained
    <3> HIDE DEF Like, to
    <3> QED BY <2>4, <3>1, <1>5, <1>6
  <2> QED BY <1>4, <2>1, <2>2, <2>3, <2>4
<1>10. w' \in Memory /\ Like(w') /\ w'.pc = to
  <2> HIDE DEF Like, to
  <2> QED BY <1>2, <1>8, <1>9
<1>11. Place(copy, w')
  <2>1. CASE w.after = "enter"
    <3>1. NoneOpen(copy) /\ w'.pc = "enter" BY <1>3, <1>10, <2>1, DrainPlaces
    <3> QED BY <3>1, PlacesOfSteps
  <2>2. CASE w.after \in {"again", "validated"}
    <3>1. CASE w.got = {}
      <4>1. NoneOpen(copy) /\ Clear(copy) /\ w'.pc = "finish"
        BY <1>3, <1>10, <2>2, <3>1, DrainPlaces DEF NextPass
      <4> QED BY <4>1, PlacesOfSteps
    <3>2. CASE w.got # {}
      <4>1. NoneOpen(copy) /\ LastAgent(copy) = "input" /\ w'.pc = "pass"
        BY <1>1, <1>3, <1>10, <2>2, <3>2, DrainPlaces DEF NextPass
      <4>2. ~Restorable(copy) BY <4>1 DEF Restorable
      <4> QED BY <4>1, <4>2, PlacesOfSteps
    <3> QED BY <3>1, <3>2
  <2>3. CASE w.after = "pass"
    <3>1. NoneOpen(copy) /\ ~Restorable(copy) /\ w'.pc = "pass" BY <1>3, <1>10, <2>3, DrainPlaces
    <3> QED BY <3>1, PlacesOfSteps
  <2>4. CASE w.after = "call"
    <3>1. Within(copy, w.turn) /\ AtBoundary(copy[w.turn]) /\ w'.pc = "call" /\ w'.turn = w.turn
      BY <1>3, <1>10, <2>4, DrainPlaces
    <3>2. Outstanding(copy[w.turn]) = {} BY <3>1 DEF AtBoundary
    <3>3. w.turn # 0 BY <3>1 DEF Within, Keeps, MemoryFits, Conversations
    <3> QED BY <3>1, <3>2, <3>3, PlacesOfSteps DEF InStep
  <2> QED BY <1>4, <2>1, <2>2, <2>3, <2>4
<1>12. objects \subseteq w.tracked BY <1>1 DEF Keeps, ResultFits, Alive
<1>13. Alive(w') /\ w'.pc # "drain" BY <1>7, <1>10 DEF Alive
<1>14. Moved BY <1>1, <1>2, <1>10, <1>12, <1>13 DEF Moved
<1> QED BY <1>1, <1>10, <1>11, <1>13, <1>14, StepKeeps

LEMMA EnterKeeps ==
    ASSUME Keeps, Enter PROVE Keeps'
<1>1. w.pc = "enter" /\ w.flight = None /\ Alive(w) /\ w \in Memory
  BY DEF Enter, At, Alive, Keeps, MemoryFits
<1>2. UNCHANGED <<config, inbox, thread, copy, read, objects>> /\ w' = [Goto(EnterAt) EXCEPT !.end = Restored]
  BY DEF Enter, durable, world
<1>3. EnterAt \in {"pass", "finish", "judge"} /\ (EnterAt = "pass" <=> Restored = "none")
  BY DEF EnterAt
<1>4. Restored \in {"none", "limit", "final"} BY DEF Restored
<1> DEFINE v == Goto(EnterAt)
<1>5. EnterAt \in Steps BY <1>3 DEF Steps
<1>6. /\ v \in Memory /\ v.pc = EnterAt /\ v.flight = None /\ v.why = w.why /\ v.event = w.event
      /\ v.tracked = w.tracked /\ v.queue = w.queue /\ v.reading = w.reading
  BY <1>1, <1>5, Settings
<1>7. w' = [v EXCEPT !.end = Restored] BY <1>2
<1> HIDE DEF v
<1>8. /\ w' \in Memory /\ w'.pc = EnterAt /\ w'.flight = None /\ w'.why = w.why /\ w'.event = w.event
      /\ w'.tracked = w.tracked /\ w'.queue = w.queue /\ w'.reading = w.reading
  BY <1>4, <1>6, <1>7 DEF Memory
<1>9. NoneOpen(copy) /\ copy \in Conversations /\ Sound(copy)
  <2>1. Place(copy, w) BY DEF Keeps
  <2> QED BY <1>1, <2>1, PlacesOfSteps DEF Keeps, MemoryFits
<1>10. Place(copy, w')
  <2>1. CASE Restored = "none"
    <3>1. ~Restorable(copy) /\ w'.pc = "pass" BY <1>3, <1>8, <2>1, RestoredIs
    <3> QED BY <1>9, <3>1, PlacesOfSteps
  <2>2. CASE Restored # "none"
    <3>1. Restorable(copy) BY <2>2, RestoredIs
    <3>2. Clear(copy) BY <1>9, <3>1, RestorableIsClear
    <3>3. w'.pc \in {"finish", "judge"} BY <1>3, <1>8, <2>2
    <3> QED BY <1>9, <3>2, <3>3, PlacesOfSteps
  <2> QED BY <2>1, <2>2
<1>11. objects \subseteq w.tracked BY <1>1 DEF Keeps, ResultFits, Alive
<1>12. Alive(w') /\ w'.pc # "drain" BY <1>3, <1>8 DEF Alive
<1>13. Moved BY <1>2, <1>8, <1>11, <1>12 DEF Moved
<1> QED BY <1>1, <1>8, <1>10, <1>12, <1>13, StepKeeps

LEMMA BeginPassKeeps ==
    ASSUME Keeps, BeginPass PROVE Keeps'
<1>1. w.pc = "pass" /\ w.flight = None /\ Alive(w) /\ w \in Memory
  BY DEF BeginPass, At, Alive, Keeps, MemoryFits
<1>2. UNCHANGED <<config, inbox, thread, copy, read, objects>> BY DEF BeginPass, durable, world
<1>3. NoneOpen(copy) /\ ~Restorable(copy)
  <2>1. Place(copy, w) BY DEF Keeps
  <2> QED BY <1>1, <2>1, PlacesOfSteps
<1>4. "call" \in Steps /\ "pass" \in Afters BY DEF Steps, Afters
<1>5. CASE w' = [Draining("pass") EXCEPT !.drainFirst = FALSE]
  <2> DEFINE v == Draining("pass")
  <2>1. /\ v \in Memory /\ v.pc = "refresh" /\ v.after = "pass" /\ v.flight = None
        /\ v.why = w.why /\ v.event = w.event
        /\ v.tracked = w.tracked /\ v.queue = w.queue /\ v.reading = w.reading
    BY <1>1, <1>4, Settings
  <2>2. w' = [v EXCEPT !.drainFirst = FALSE] BY <1>5
  <2> HIDE DEF v
  <2>3. /\ w' \in Memory /\ w'.pc = "refresh" /\ w'.after = "pass" /\ w'.flight = None
        /\ w'.why = w.why /\ w'.event = w.event
        /\ w'.tracked = w.tracked /\ w'.queue = w.queue /\ w'.reading = w.reading
    BY <2>1, <2>2 DEF Memory
  <2>4. Place(copy, w') BY <1>3, <2>3, DrainPlaces DEF Drains
  <2>5. Moved BY <1>1, <1>2, <2>3 DEF Moved, Keeps, ResultFits, Alive
  <2> QED BY <1>1, <2>3, <2>4, <2>5, StepKeeps
<1>6. CASE w' = [Goto("call") EXCEPT
                   !.turn = 0, !.tried = 0, !.last = w.scheduled,
                   !.settled = IF config.kind = "gc" THEN 0 ELSE @]
  <2> DEFINE v == Goto("call")
             settled == IF config.kind = "gc" THEN 0 ELSE v.settled
  <2>1. /\ v \in Memory /\ v.pc = "call" /\ v.flight = None
        /\ v.why = w.why /\ v.event = w.event
        /\ v.tracked = w.tracked /\ v.queue = w.queue /\ v.reading = w.reading
    BY <1>1, <1>4, Settings
  <2>2. w' = [v EXCEPT !.turn = 0, !.tried = 0, !.last = w.scheduled, !.settled = settled] BY <1>6
  <2>3. settled \in Nat /\ w.scheduled \in BOOLEAN
    <3>1. v.settled \in Nat /\ w.scheduled \in BOOLEAN
      <4> HIDE DEF v
      <4> QED BY <1>1, <2>1 DEF Memory
    <3> QED BY <3>1
  <2> HIDE DEF v, settled
  <2>4. /\ w' \in Memory /\ w'.pc = "call" /\ w'.turn = 0 /\ w'.flight = None
        /\ w'.why = w.why /\ w'.event = w.event
        /\ w'.tracked = w.tracked /\ w'.queue = w.queue /\ w'.reading = w.reading
    BY <2>1, <2>2, <2>3 DEF Memory
  <2>5. Place(copy, w') BY <1>3, <2>4, PlacesOfSteps DEF InStep
  <2>6. Moved BY <1>1, <1>2, <2>4 DEF Moved, Keeps, ResultFits, Alive
  <2> QED BY <1>1, <2>4, <2>5, <2>6, StepKeeps
<1> QED BY <1>5, <1>6 DEF BeginPass

LEMMA OpenResponseKeeps ==
    ASSUME Keeps, OpenResponse PROVE Keeps'
<1>1. w.pc = "call" /\ w.flight = None /\ Alive(w) /\ w \in Memory
  BY DEF OpenResponse, At, Alive, Keeps, MemoryFits
<1>2. CASE Fault
  <2>1. UNCHANGED <<config, inbox, thread, copy, read>> /\ w' = Stopped("failed")
    BY <1>2 DEF Fault, world
  <2> QED BY <1>1, <2>1, FaultStops
<1>3. CASE /\ objects' = objects \cup {w.tried}
           /\ w' = [Goto("model") EXCEPT !.tracked = @ \cup {w.tried}]
           /\ UNCHANGED <<durable, copy, count, world, faults>>
  <2> DEFINE v == Goto("model")
  <2>0. "model" \in Steps BY DEF Steps
  <2>1. /\ v \in Memory /\ v.pc = "model" /\ v.flight = None /\ v.turn = w.turn
        /\ v.why = w.why /\ v.event = w.event
        /\ v.tracked = w.tracked /\ v.queue = w.queue /\ v.reading = w.reading
    BY <1>1, <2>0, Settings
  <2>2. w' = [v EXCEPT !.tracked = w.tracked \cup {w.tried}] BY <1>3, <2>1
  <2>3. w.tracked \cup {w.tried} \in SUBSET (Nat \cup Calls) BY <1>1 DEF Memory
  <2> HIDE DEF v
  <2>4. /\ w' \in Memory /\ w'.pc = "model" /\ w'.turn = w.turn /\ w'.flight = None
        /\ w'.why = w.why /\ w'.event = w.event
        /\ w'.tracked = w.tracked \cup {w.tried} /\ w'.queue = w.queue /\ w'.reading = w.reading
    BY <2>1, <2>2, <2>3 DEF Memory
  <2>5. Place(copy, w')
    <3>1. Place(copy, w) BY DEF Keeps
    <3> QED BY <1>1, <2>4, <3>1, PlacesOfSteps DEF InStep
  <2>6. objects \subseteq w.tracked BY <1>1 DEF Keeps, ResultFits, Alive
  <2>7. Moved BY <1>3, <2>4, <2>6 DEF Moved, Alive, durable, world
  <2> QED BY <1>1, <2>4, <2>5, <2>7, StepKeeps
<1> QED BY <1>2, <1>3 DEF OpenResponse

LEMMA ModelAnswersKeeps ==
    ASSUME Keeps, ModelAnswers PROVE Keeps'
<1>1. w.pc = "model" /\ w.flight = None /\ Alive(w) /\ w \in Memory
  BY DEF ModelAnswers, At, Alive, Keeps, MemoryFits
<1>2. PICK answer \in config.answers : CompletesStep(answer) BY DEF ModelAnswers
<1>3. answer.calls \in SUBSET Calls /\ answer.more \in BOOLEAN
  BY AgenticAssumption DEF Keeps, MemoryFits, ConfigType
<1>4. copy \in Conversations /\ Sound(copy) BY DEF Keeps, MemoryFits
<1> DEFINE id == TurnId
           add == TurnEntry(id, "main", Response(answer.calls, answer.more))
           after == Applied(copy, add)
<1>5. Place(copy, w) BY DEF Keeps
<1>6. Takes(copy, add) /\ id \in Nat /\ Within(after, id) /\ LastIsResponse(after[id]) /\ Clear(after)
  <2>1. CASE w.turn = 0
    <3>1. NoneOpen(copy) BY <1>1, <1>5, <2>1, PlacesOfSteps DEF InStep
    <3>2. id = Len(copy) + 1 BY <2>1 DEF TurnId
    <3> QED BY <1>3, <1>4, <3>1, <3>2, ResponseOpens
  <2>2. CASE w.turn # 0
    <3>1. Within(copy, w.turn) /\ Outstanding(copy[w.turn]) = {} BY <1>1, <1>5, <2>2, PlacesOfSteps DEF InStep
    <3>2. id = w.turn /\ id \in Nat BY <1>1, <2>2 DEF TurnId, Memory
    <3> QED BY <1>3, <1>4, <3>1, <3>2, ResponseStored
  <2> QED BY <2>1, <2>2
<1>7. add \in Additions
  <2>1. Response(answer.calls, answer.more) \in Entries BY <1>3, KindsOfEntries
  <2> QED BY <1>6, <2>1 DEF Additions, Agents
<1> HIDE DEF id, add, after
<1> DEFINE v == Goto("stepped")
           settled == IF v.settled = 0 THEN w.tried + 1 ELSE v.settled
           next == [v EXCEPT !.turn = id, !.settled = settled]
<1>8. Write(add, next) BY <1>2 DEF CompletesStep, add, id
<1>9. "stepped" \in Steps BY DEF Steps
<1>10. /\ v \in Memory /\ v.pc = "stepped" /\ v.flight = None
       /\ v.why = w.why /\ v.event = w.event
       /\ v.tracked = w.tracked /\ v.queue = w.queue /\ v.reading = w.reading
  BY <1>1, <1>9, Settings
<1>11. settled \in Nat
  <2>1. w.tried \in Nat /\ v.settled \in Nat
    <3> HIDE DEF v
    <3> QED BY <1>1, <1>10 DEF Memory
  <2> HIDE DEF v
  <2> QED BY <2>1
<1> HIDE DEF v, settled
<1>12. /\ next \in Memory /\ next.pc = "stepped" /\ next.turn = id
       /\ next.why = w.why /\ next.event = w.event
       /\ next.tracked = w.tracked /\ next.queue = w.queue /\ next.reading = w.reading
  BY <1>6, <1>10, <1>11 DEF Memory
<1> HIDE DEF next
<1>13. Place(after, next) BY <1>6, <1>12, PlacesOfSteps
<1>14. DrainFits(after, next) BY <1>12 DEF Keeps, DrainFits
<1>15. Alive(next) BY <1>12 DEF Alive
<1> QED BY <1>1, <1>6, <1>7, <1>8, <1>12, <1>13, <1>14, <1>15, WriteKeeps DEF after

LEMMA ModelFailsKeeps ==
    ASSUME Keeps, ModelFails PROVE Keeps'
<1>1. w.pc = "model" /\ w.flight = None /\ Alive(w) /\ w \in Memory
  BY DEF ModelFails, At, Alive, Keeps, MemoryFits
<1>2. UNCHANGED <<config, inbox, thread, copy, read>> BY DEF ModelFails, durable, world
<1> DEFINE tracked == w.tracked \ {w.tried}
<1>3. tracked \in SUBSET (Nat \cup Calls) BY <1>1 DEF Memory
<1>4. CASE w' = [Stopped("failed") EXCEPT !.tracked = @ \ {w.tried}]
  <2> DEFINE v == Stopped("failed")
  <2>1. /\ v \in Memory /\ v.pc = "closing" /\ v.flight = None /\ v.why = "failed"
        /\ v.event = w.event /\ v.queue = w.queue /\ v.reading = <<>> /\ v.tracked = w.tracked
    BY <1>1, Stops, ZenonT(30) DEF Stopped, Memory
  <2>2. w' = [v EXCEPT !.tracked = tracked] BY <1>4, <2>1
  <2> HIDE DEF v, tracked
  <2>3. /\ w' \in Memory /\ w'.pc = "closing" /\ w'.flight = None /\ w'.why = "failed"
        /\ w'.event = w.event /\ w'.queue = w.queue /\ w'.reading = <<>>
    BY <1>3, <2>1, <2>2 DEF Memory
  <2> QED BY <1>1, <1>2, <2>3, FaultKeeps
<1>5. CASE objects' = Discarded /\ w' = [[Goto("call") EXCEPT !.tried = @ + 1] EXCEPT !.tracked = @ \ {w.tried}]
  <2> DEFINE v == Goto("call")
  <2>0. "call" \in Steps BY DEF Steps
  <2>1. /\ v \in Memory /\ v.pc = "call" /\ v.flight = None /\ v.turn = w.turn
        /\ v.why = w.why /\ v.event = w.event
        /\ v.tracked = w.tracked /\ v.queue = w.queue /\ v.reading = w.reading
    BY <1>1, <2>0, Settings
  <2> HIDE DEF v
  <2>2. v.tried \in Nat /\ v.tried + 1 \in Nat BY <2>1 DEF Memory
  <2>3. w' = [v EXCEPT !.tried = v.tried + 1, !.tracked = tracked]
    BY <1>5, <2>1 DEF v, Memory
  <2> HIDE DEF tracked
  <2>4. /\ w' \in Memory /\ w'.pc = "call" /\ w'.turn = w.turn /\ w'.flight = None
        /\ w'.why = w.why /\ w'.event = w.event
        /\ w'.tracked = tracked /\ w'.queue = w.queue /\ w'.reading = w.reading
    BY <1>3, <2>1, <2>2, <2>3 DEF Memory
  <2>5. Place(copy, w')
    <3>1. Place(copy, w) BY DEF Keeps
    <3> QED BY <1>1, <2>4, <3>1, PlacesOfSteps DEF InStep
  <2>6. objects' \subseteq tracked BY <1>1, <1>5 DEF Keeps, ResultFits, Alive, Discarded, tracked
  <2>7. Moved BY <1>2, <2>4, <2>6 DEF Moved, Alive
  <2> QED BY <1>1, <2>4, <2>5, <2>7, StepKeeps
<1>6. CASE MaySwitch BY <1>4, <1>5, <1>6 DEF ModelFails
<1>7. CASE ~MaySwitch BY <1>4, <1>5, <1>7 DEF ModelFails
<1> QED BY <1>6, <1>7

LEMMA SteppedKeeps ==
    ASSUME Keeps, Stepped PROVE Keeps'
<1>1. w.pc = "stepped" /\ w.flight = None /\ Alive(w) /\ w \in Memory
  BY DEF Stepped, At, Alive, Keeps, MemoryFits
<1>2. copy \in Conversations BY DEF Keeps, MemoryFits
<1>3. Within(copy, w.turn) /\ LastIsResponse(copy[w.turn]) /\ Clear(copy)
  <2>1. Place(copy, w) BY DEF Keeps
  <2> QED BY <1>1, <2>1, PlacesOfSteps
<1>4. ASSUME NEW closure \in {"Completed", "BudgetExhausted"}, NEW end \in {"final", "limit"},
             PassEnds(closure, end)
      PROVE  Keeps'
  <2> DEFINE add == Closure(w.turn, "main", closure)
             v == Goto("passed")
             next == [v EXCEPT !.end = end]
  <2>1. Takes(copy, add) /\ NoneOpen(Applied(copy, add)) /\ Clear(Applied(copy, add))
    BY <1>2, <1>3, PassCloses
  <2>2. add \in Additions BY <1>1 DEF Additions, Agents, Closings, Memory
  <2>3. Write(add, next) BY <1>4 DEF PassEnds
  <2>4. "passed" \in Steps BY DEF Steps
  <2>5. /\ v \in Memory /\ v.pc = "passed" /\ v.why = w.why /\ v.event = w.event
        /\ v.tracked = w.tracked /\ v.queue = w.queue /\ v.reading = w.reading
    BY <1>1, <2>4, Settings
  <2> HIDE DEF v, add
  <2>6. /\ next \in Memory /\ next.pc = "passed" /\ next.why = w.why /\ next.event = w.event
        /\ next.tracked = w.tracked /\ next.queue = w.queue /\ next.reading = w.reading
    BY <2>5 DEF Memory
  <2> HIDE DEF next
  <2>7. Place(Applied(copy, add), next) BY <2>1, <2>6, PlacesOfSteps
  <2>8. DrainFits(Applied(copy, add), next) BY <2>6 DEF Keeps, DrainFits
  <2> QED BY <1>1, <2>1, <2>2, <2>3, <2>6, <2>7, <2>8, WriteKeeps DEF Alive
<1>5. CASE /\ w' = IF LastCalls # {} THEN [Goto("open_results") EXCEPT !.left = LastCalls]
                    ELSE Goto("call")
           /\ UNCHANGED <<durable, objects, copy, world>>
  <2>0. UNCHANGED <<config, inbox, thread, copy, read, objects>> BY <1>5 DEF durable, world
  <2>1. CASE LastCalls = {}
    <3>1. "call" \in Steps /\ w' = Goto("call") BY <1>5, <2>1 DEF Steps
    <3>2. w'.pc = "call" /\ w'.turn = w.turn BY <1>1, <3>1, Settings
    <3>3. w.turn # 0 BY <1>2, <1>3 DEF Within, Conversations
    <3>4. Place(copy, w') BY <1>3, <2>1, <3>2, <3>3, PlacesOfSteps DEF InStep, LastCalls
    <3> QED BY <1>1, <2>0, <3>1, <3>2, <3>4, GotoKeeps DEF Alive
  <2>2. CASE LastCalls # {}
    <3> DEFINE v == Goto("open_results")
    <3>1. "open_results" \in Steps BY DEF Steps
    <3>2. /\ v \in Memory /\ v.pc = "open_results" /\ v.flight = None /\ v.turn = w.turn
          /\ v.why = w.why /\ v.event = w.event
          /\ v.tracked = w.tracked /\ v.queue = w.queue /\ v.reading = w.reading
      BY <1>1, <3>1, Settings
    <3>3. w' = [v EXCEPT !.left = LastCalls] BY <1>5, <2>2
    <3>4. LastCalls \in SUBSET Calls BY DEF LastCalls, Outstanding
    <3> HIDE DEF v
    <3>5. /\ w' \in Memory /\ w'.pc = "open_results" /\ w'.flight = None /\ w'.turn = w.turn
          /\ w'.why = w.why /\ w'.event = w.event
          /\ w'.tracked = w.tracked /\ w'.queue = w.queue /\ w'.reading = w.reading
      BY <3>2, <3>3, <3>4 DEF Memory
    <3>6. Asking(copy[w.turn]) BY <2>2 DEF LastCalls, Outstanding, Asking
    <3>7. Place(copy, w') BY <1>3, <3>5, <3>6, PlacesOfSteps
    <3>8. objects \subseteq w.tracked BY <1>1 DEF Keeps, ResultFits, Alive
    <3>9. Moved BY <2>0, <3>5, <3>8 DEF Moved, Alive
    <3> QED BY <1>1, <3>5, <3>7, <3>9, StepKeeps
  <2> QED BY <2>1, <2>2
<1>6. CASE IsFinal(copy[w.turn]) BY <1>4, <1>6 DEF Stepped
<1>7. CASE ~IsFinal(copy[w.turn]) /\ Remaining = 1 BY <1>4, <1>7 DEF Stepped
<1>8. CASE ~IsFinal(copy[w.turn]) /\ Remaining # 1 BY <1>5, <1>8 DEF Stepped
<1> QED BY <1>6, <1>7, <1>8

LEMMA OpenResultKeeps ==
    ASSUME Keeps, OpenResult PROVE Keeps'
<1>1. w.pc = "open_results" /\ w.flight = None /\ Alive(w) /\ w \in Memory
  BY DEF OpenResult, At, Alive, Keeps, MemoryFits
<1>2. CASE Fault
  <2>1. UNCHANGED <<config, inbox, thread, copy, read>> /\ w' = Stopped("failed")
    BY <1>2 DEF Fault, world
  <2> QED BY <1>1, <2>1, FaultStops
<1>3. ASSUME NEW c \in w.left, NEW unknown \in SUBSET LastCalls,
             objects' = objects \cup {c},
             w' = [(IF w.left = {c}
                    THEN [Goto("tools") EXCEPT !.left = LastCalls, !.unknown = unknown]
                    ELSE [w EXCEPT !.left = @ \ {c}]) EXCEPT !.tracked = @ \cup {c}],
             UNCHANGED <<durable, copy, count, world, faults>>
      PROVE  Keeps'
  <2> DEFINE tracked == w.tracked \cup {c}
  <2>1. tracked \in SUBSET (Nat \cup Calls) /\ LastCalls \in SUBSET Calls
    <3>1. w.left \in SUBSET Calls /\ w.tracked \in SUBSET (Nat \cup Calls) BY <1>1 DEF Memory
    <3>2. LastCalls \in SUBSET Calls BY DEF LastCalls, Outstanding
    <3> QED BY <3>1, <3>2
  <2>2. Within(copy, w.turn) /\ Asking(copy[w.turn])
    <3>1. Place(copy, w) BY DEF Keeps
    <3> QED BY <1>1, <3>1, PlacesOfSteps
  <2>3. objects \subseteq w.tracked BY <1>1 DEF Keeps, ResultFits, Alive
  <2>4. CASE w.left = {c}
    <3> DEFINE v == Goto("tools")
    <3>1. "tools" \in Steps BY DEF Steps
    <3>2. /\ v \in Memory /\ v.pc = "tools" /\ v.flight = None /\ v.turn = w.turn
          /\ v.why = w.why /\ v.event = w.event
          /\ v.tracked = w.tracked /\ v.queue = w.queue /\ v.reading = w.reading
      BY <1>1, <3>1, Settings
    <3>3. w' = [[v EXCEPT !.left = LastCalls, !.unknown = unknown] EXCEPT !.tracked = @ \cup {c}]
      BY <1>3, <2>4
    <3> HIDE DEF v
    <3>4. w' = [v EXCEPT !.left = LastCalls, !.unknown = unknown, !.tracked = tracked]
      BY <3>2, <3>3 DEF Memory
    <3> HIDE DEF tracked
    <3>5. /\ w' \in Memory /\ w'.pc = "tools" /\ w'.flight = None /\ w'.turn = w.turn
          /\ w'.why = w.why /\ w'.event = w.event /\ w'.left = LastCalls /\ w'.unknown = unknown
          /\ w'.tracked = tracked /\ w'.queue = w.queue /\ w'.reading = w.reading
      BY <2>1, <3>2, <3>4 DEF Memory
    <3>6. Place(copy, w') BY <2>2, <3>5, PlacesOfSteps DEF LastCalls
    <3>7. objects' \subseteq w'.tracked BY <1>3, <2>3, <3>5 DEF tracked
    <3>8. Moved BY <1>3, <3>5, <3>7 DEF Moved, Alive, durable, world
    <3> QED BY <1>1, <3>5, <3>6, <3>8, StepKeeps
  <2>5. CASE w.left # {c}
    <3> DEFINE left == w.left \ {c}
    <3>1. left \in SUBSET Calls BY <1>1 DEF Memory
    <3>2. w' = [w EXCEPT !.left = left, !.tracked = tracked]
      BY <1>1, <1>3, <2>5 DEF Memory
    <3> HIDE DEF tracked, left
    <3>3. /\ w' \in Memory /\ w'.pc = "open_results" /\ w'.flight = None /\ w'.turn = w.turn
          /\ w'.why = w.why /\ w'.event = w.event
          /\ w'.tracked = tracked /\ w'.queue = w.queue /\ w'.reading = w.reading
      BY <1>1, <2>1, <3>1, <3>2 DEF Memory
    <3>4. Place(copy, w') BY <2>2, <3>3, PlacesOfSteps
    <3>5. objects' \subseteq w'.tracked BY <1>3, <2>3, <3>3 DEF tracked
    <3>6. Moved BY <1>3, <3>3, <3>5 DEF Moved, Alive, durable, world
    <3> QED BY <1>1, <3>3, <3>4, <3>6, StepKeeps
  <2> QED BY <2>4, <2>5
<1> QED BY <1>2, <1>3 DEF OpenResult

\* A result of the round.
LEMMA ResultKeeps ==
    ASSUME Keeps, At("tools"), NEW c, c \in w.unknown \/ c \in w.left, ResultOf(c) PROVE Keeps'
<1>1. w.pc = "tools" /\ w.flight = None /\ Alive(w) /\ w \in Memory
  BY DEF At, Alive, Keeps, MemoryFits
<1>2. copy \in Conversations BY DEF Keeps, MemoryFits
<1>3. /\ Within(copy, w.turn) /\ Asking(copy[w.turn])
      /\ w.left = Outstanding(copy[w.turn]) /\ w.unknown \subseteq w.left
  <2>1. Place(copy, w) BY DEF Keeps
  <2> QED BY <1>1, <2>1, PlacesOfSteps
<1>4. c \in Outstanding(copy[w.turn]) /\ c \in Calls BY <1>3 DEF Outstanding
<1> DEFINE n == w.turn
           add == TurnEntry(n, "main", Result(c))
           after == Applied(copy, add)
           next == [w EXCEPT !.left = @ \ {c}, !.unknown = @ \ {c}]
<1>5. /\ Takes(copy, add) /\ Within(after, n) /\ Asking(after[n])
      /\ Outstanding(after[n]) = Outstanding(copy[n]) \ {c}
  BY <1>2, <1>3, <1>4, ResultStored
<1>6. add \in Additions
  <2>1. Result(c) \in Entries /\ n \in Nat BY <1>1, <1>4, KindsOfEntries DEF Memory
  <2> QED BY <2>1 DEF Additions, Agents
<1>7. Write(add, next) BY DEF ResultOf
<1>8. /\ next \in Memory /\ next.pc = "tools" /\ next.why = w.why /\ next.event = w.event
      /\ next.tracked = w.tracked /\ next.queue = w.queue /\ next.reading = w.reading
      /\ next.turn = n /\ next.left = w.left \ {c} /\ next.unknown = w.unknown \ {c}
  BY <1>1 DEF Memory
<1> HIDE DEF add, after, next
<1>9. Place(after, next) BY <1>3, <1>5, <1>8, PlacesOfSteps
<1>10. DrainFits(after, next) BY <1>8 DEF Keeps, DrainFits
<1>11. Alive(next) BY <1>8 DEF Alive
<1> QED BY <1>1, <1>5, <1>6, <1>7, <1>8, <1>9, <1>10, <1>11, WriteKeeps DEF after

LEMMA ToolRoundKeeps ==
    ASSUME Keeps, AnswerUnknown \/ ToolEnds \/ ToolStops \/ RoundDone PROVE Keeps'
<1>1. CASE AnswerUnknown BY <1>1, ResultKeeps DEF AnswerUnknown
<1>2. CASE ToolEnds BY <1>2, ResultKeeps DEF ToolEnds
<1>3. CASE ToolStops
  <2>1. w.pc = "tools" /\ w.flight = None /\ Alive(w) BY <1>3 DEF ToolStops, At, Alive
  <2>2. UNCHANGED <<config, inbox, thread, copy, read>> BY <1>3 DEF ToolStops, durable, world
  <2>3. PICK why \in {"failed", "cancelled"} : w' = Stopped(why) BY <1>3 DEF ToolStops
  <2> QED BY <2>1, <2>2, <2>3, FaultStops
<1>4. CASE RoundDone
  <2>1. w.pc = "tools" /\ w.flight = None /\ Alive(w) /\ w \in Memory /\ w.left = {}
    BY <1>4 DEF RoundDone, At, Alive, Keeps, MemoryFits
  <2>2. UNCHANGED <<config, inbox, thread, copy, read, objects>> BY <1>4 DEF RoundDone, durable, world
  <2>3. Within(copy, w.turn) /\ Asking(copy[w.turn]) /\ Outstanding(copy[w.turn]) = {}
    <3>1. Place(copy, w) BY DEF Keeps
    <3> QED BY <2>1, <3>1, PlacesOfSteps
  <2>4. CASE AtBoundary(copy[w.turn])
    <3>1. w' = Draining("call") /\ "call" \in Afters BY <1>4, <2>4 DEF RoundDone, Afters
    <3>2. w'.pc = "refresh" /\ w'.after = "call" /\ w'.turn = w.turn BY <2>1, <3>1, Settings
    <3>3. Place(copy, w') BY <2>3, <2>4, <3>2, DrainPlaces DEF Drains
    <3> QED BY <2>1, <2>2, <3>1, <3>3, DrainKeeps
  <2>5. CASE ~AtBoundary(copy[w.turn])
    <3>1. w' = Goto("call") /\ "call" \in Steps BY <1>4, <2>5 DEF RoundDone, Steps
    <3>2. w'.pc = "call" /\ w'.turn = w.turn BY <2>1, <3>1, Settings
    <3>3. w.turn # 0 BY <2>3 DEF Within, Conversations, Keeps, MemoryFits
    <3>4. Place(copy, w') BY <2>3, <3>2, <3>3, PlacesOfSteps DEF InStep
    <3> QED BY <2>1, <2>2, <3>1, <3>2, <3>4, GotoKeeps DEF Alive
  <2> QED BY <2>4, <2>5
<1> QED BY <1>1, <1>2, <1>3, <1>4

\* Where the instance is after a pass, its conversation is whole.
LEMMA FinishKeeps ==
    ASSUME Keeps, w.pc \in {"passed", "judge", "ask", "rejected"}, w.flight = None, FinishNow PROVE Keeps'
<1>1. Alive(w) /\ w \in Memory BY DEF Alive, Keeps, MemoryFits
<1>2. UNCHANGED <<config, inbox, thread, copy, read, objects>> /\ w' = Goto("finish")
  BY DEF FinishNow, durable, world
<1>3. NoneOpen(copy) /\ Clear(copy)
  <2>1. Place(copy, w) BY DEF Keeps
  <2> QED BY <2>1, PlacesOfSteps
<1>4. "finish" \in Steps BY DEF Steps
<1>5. w'.pc = "finish" BY <1>1, <1>2, <1>4, Settings
<1>6. Place(copy, w') BY <1>3, <1>5, PlacesOfSteps
<1> QED BY <1>1, <1>2, <1>4, <1>5, <1>6, GotoKeeps DEF Alive

LEMMA PassedKeeps ==
    ASSUME Keeps, ReactPassed \/ GcPassed PROVE Keeps'
<1>1. w.pc = "passed" /\ w.flight = None /\ Alive(w) /\ w \in Memory
  BY DEF ReactPassed, GcPassed, At, Alive, Keeps, MemoryFits
<1>2. UNCHANGED <<config, inbox, thread, copy, read, objects>>
  BY DEF ReactPassed, GcPassed, durable, world
<1>3. NoneOpen(copy) /\ Clear(copy)
  <2>1. Place(copy, w) BY DEF Keeps
  <2> QED BY <1>1, <2>1, PlacesOfSteps
<1>4. {"finish", "judge"} \subseteq Steps /\ "again" \in Afters BY DEF Steps, Afters
<1>5. CASE w' = Draining("again")
  <2>1. w'.pc = "refresh" /\ w'.after = "again" BY <1>1, <1>4, <1>5, Settings
  <2>2. Place(copy, w') BY <1>3, <2>1, DrainPlaces DEF Drains
  <2> QED BY <1>1, <1>2, <1>4, <1>5, <2>2, DrainKeeps
<1>6. ASSUME NEW pc \in {"finish", "judge"}, w' = Goto(pc) PROVE Keeps'
  <2>1. w'.pc = pc BY <1>1, <1>4, <1>6, Settings
  <2>2. Place(copy, w') BY <1>3, <2>1, PlacesOfSteps
  <2> QED BY <1>1, <1>2, <1>4, <1>6, <2>1, <2>2, GotoKeeps DEF Alive
<1> QED BY <1>5, <1>6 DEF ReactPassed, GcPassed

\* A message of a critic.
LEMMA SayKeeps ==
    ASSUME Keeps, w.pc \in {"judge", "ask"}, w.flight = None, NEW agent \in Critics,
           NEW next \in {"refused", "rejected"}, Say(agent, next)
    PROVE  Keeps'
<1>1. Alive(w) /\ w \in Memory /\ copy \in Conversations BY DEF Alive, Keeps, MemoryFits
<1>2. NoneOpen(copy) /\ Clear(copy)
  <2>1. Place(copy, w) BY DEF Keeps
  <2> QED BY <2>1, PlacesOfSteps
<1> DEFINE add == TurnEntry(Len(copy) + 1, agent, Response({}, FALSE))
           after == Applied(copy, add)
           v == Goto("said")
           u == [v EXCEPT !.after = next]
<1>3. /\ Takes(copy, add)
      /\ after # <<>> /\ LastAgent(after) \in Critics /\ after[Len(after)].closed = "open"
      /\ OpenTurns(after) \subseteq {Len(after)} /\ Clear(after)
  BY <1>1, <1>2, MessageOpens
<1>4. add \in Additions
  <2>1. Response({}, FALSE) \in Entries BY KindsOfEntries
  <2>2. Len(copy) + 1 \in Nat /\ agent \in Agents BY <1>1 DEF Conversations, Critics, Agents
  <2>3. \A id \in Nat, by \in Agents, entry \in Entries : TurnEntry(id, by, entry) \in Additions
    BY DEF Additions
  <2> QED BY <2>1, <2>2, <2>3
<1>5. Write(add, u)
  <2>1. Write(add, [v EXCEPT !.after = next]) BY DEF Say
  <2> QED BY <2>1
<1>6. "said" \in Steps /\ next \in Afters BY DEF Steps, Afters
<1>7. /\ v \in Memory /\ v.pc = "said" /\ v.why = w.why /\ v.event = w.event
      /\ v.tracked = w.tracked /\ v.queue = w.queue /\ v.reading = w.reading
  BY <1>1, <1>6, Settings
<1> HIDE DEF v, add, after
<1>8. /\ u \in Memory /\ u.pc = "said" /\ u.after = next /\ u.why = w.why /\ u.event = w.event
      /\ u.tracked = w.tracked /\ u.queue = w.queue /\ u.reading = w.reading
  BY <1>6, <1>7 DEF Memory
<1> HIDE DEF u
<1>9. Place(after, u) BY <1>3, <1>8, PlacesOfSteps
<1>10. DrainFits(after, u) BY <1>8 DEF Keeps, DrainFits
<1>11. Alive(u) BY <1>8 DEF Alive
<1> QED BY <1>1, <1>3, <1>4, <1>5, <1>8, <1>9, <1>10, <1>11, WriteKeeps DEF after

LEMMA JudgeKeeps ==
    ASSUME Keeps, Judge PROVE Keeps'
<1>1. w.pc \in {"judge", "ask"} /\ w.flight = None /\ Alive(w) /\ w \in Memory
  BY DEF Judge, JudgeAtLimit, RuleAccepts, RuleRefuses, Ask, At, Alive, Keeps, MemoryFits
<1>2. NoneOpen(copy) /\ Clear(copy)
  <2>1. Place(copy, w) BY DEF Keeps
  <2> QED BY <1>1, <2>1, PlacesOfSteps
<1>3. ASSUME Fault PROVE Keeps'
  <2>1. UNCHANGED <<config, inbox, thread, copy, read>> /\ w' = Stopped("failed")
    BY <1>3 DEF Fault, world
  <2> QED BY <1>1, <2>1, FaultStops
<1>4. ASSUME FinishNow PROVE Keeps' BY <1>1, <1>4, FinishKeeps
<1>5. CASE JudgeAtLimit BY <1>3, <1>4, <1>5 DEF JudgeAtLimit, Asked
<1>6. CASE RuleAccepts
  <2>1. UNCHANGED <<config, inbox, thread, copy, read, objects>> /\ w' = Goto("ask") /\ "ask" \in Steps
    BY <1>6 DEF RuleAccepts, durable, world, Steps
  <2>2. w'.pc = "ask" BY <1>1, <2>1, Settings
  <2>3. Place(copy, w') BY <1>2, <2>2, PlacesOfSteps
  <2> QED BY <1>1, <2>1, <2>2, <2>3, GotoKeeps DEF Alive
<1>7. CASE RuleRefuses
  <2>1. "programmatic_critic" \in Critics /\ "refused" \in {"refused", "rejected"} BY DEF Critics
  <2> QED BY <1>1, <1>3, <1>7, <2>1, SayKeeps DEF RuleRefuses
<1>8. CASE Ask
  <2>1. CASE Validated
    <3>1. UNCHANGED <<config, inbox, thread, copy, read, objects>> BY <2>1 DEF Validated, durable, world
    <3>2. CASE w' = Draining("validated")
      <4>1. "validated" \in Afters BY DEF Afters
      <4>2. w'.pc = "refresh" /\ w'.after = "validated" BY <1>1, <3>2, <4>1, Settings
      <4>3. Place(copy, w') BY <1>2, <4>2, DrainPlaces DEF Drains
      <4> QED BY <1>1, <3>1, <3>2, <4>1, <4>3, DrainKeeps
    <3>3. CASE w' = Goto("finish") BY <1>4, <2>1, <3>3 DEF Validated, FinishNow
    <3> QED BY <2>1, <3>2, <3>3 DEF Validated
  <2>2. CASE Rejected
    <3>1. CASE w' = Stopped("failed") /\ UNCHANGED <<durable, objects, copy, world>>
      <4>1. UNCHANGED <<config, inbox, thread, copy, read>> BY <3>1 DEF durable, world
      <4> QED BY <1>1, <3>1, <4>1, FaultStops
    <3>2. CASE Say("critic", "rejected")
      <4>1. "critic" \in Critics /\ "rejected" \in {"refused", "rejected"} BY DEF Critics
      <4> QED BY <1>1, <3>2, <4>1, SayKeeps
    <3> QED BY <2>2, <3>1, <3>2 DEF Rejected
  <2> QED BY <1>3, <1>4, <1>8, <2>1, <2>2 DEF Ask, Asked
<1> QED BY <1>5, <1>6, <1>7, <1>8 DEF Judge

LEMMA SaidKeeps ==
    ASSUME Keeps, Said PROVE Keeps'
<1>1. w.pc = "said" /\ w.flight = None /\ Alive(w) /\ w \in Memory /\ copy \in Conversations
  BY DEF Said, At, Alive, Keeps, MemoryFits
<1>2. /\ copy # <<>> /\ LastAgent(copy) \in Critics /\ copy[Len(copy)].closed = "open"
      /\ OpenTurns(copy) \subseteq {Len(copy)} /\ w.after \in {"refused", "rejected"} /\ Clear(copy)
  <2>1. Place(copy, w) BY DEF Keeps
  <2> QED BY <1>1, <2>1, PlacesOfSteps
<1> DEFINE add == Closure(Len(copy), LastAgent(copy), "Completed")
           after == Applied(copy, add)
           next == Goto(w.after)
<1>3. /\ Takes(copy, add) /\ NoneOpen(after)
      /\ after # <<>> /\ LastAgent(after) = LastAgent(copy) /\ Clear(after)
  BY <1>1, <1>2, MessageCloses
<1>4. add \in Additions
  <2>1. Len(copy) \in Nat /\ LastAgent(copy) \in Agents /\ "Completed" \in Closings
    BY <1>1, <1>2 DEF Conversations, Critics, Agents, Closings
  <2> QED BY <2>1 DEF Additions
<1>5. Write(add, next) BY DEF Said, LastAgent
<1>6. w.after \in Steps BY <1>2 DEF Steps
<1>7. /\ next \in Memory /\ next.pc = w.after /\ next.why = w.why /\ next.event = w.event
      /\ next.tracked = w.tracked /\ next.queue = w.queue /\ next.reading = w.reading
  BY <1>1, <1>6, Settings
<1> HIDE DEF add, after, next
<1>8. Place(after, next) BY <1>2, <1>3, <1>7, PlacesOfSteps
<1>9. DrainFits(after, next) BY <1>2, <1>7 DEF Keeps, DrainFits
<1>10. Alive(next) BY <1>2, <1>7 DEF Alive
<1> QED BY <1>1, <1>3, <1>4, <1>5, <1>7, <1>8, <1>9, <1>10, WriteKeeps DEF after

\* After the message of a critic another pass begins, or none.
LEMMA AnswerKeeps ==
    ASSUME Keeps, Refused \/ AfterRejection PROVE Keeps'
<1>1. w.pc \in {"refused", "rejected"} /\ w.flight = None /\ Alive(w) /\ w \in Memory
  BY DEF Refused, AfterRejection, At, Alive, Keeps, MemoryFits
<1>2. UNCHANGED <<config, inbox, thread, copy, read, objects>>
  BY DEF Refused, AfterRejection, durable, world
<1>3. NoneOpen(copy) /\ Clear(copy) /\ LastAgent(copy) \in Critics
  <2>1. Place(copy, w) BY DEF Keeps
  <2> QED BY <1>1, <2>1, PlacesOfSteps
<1>4. ~Restorable(copy) BY <1>3 DEF Restorable, Critics
<1>5. CASE w' = Stopped("failed") BY <1>1, <1>2, <1>5, FaultStops
<1>6. ASSUME NEW scheduled \in BOOLEAN,
             w' = [Goto("pass") EXCEPT !.drainFirst = TRUE, !.scheduled = scheduled]
      PROVE  Keeps'
  <2> DEFINE v == Goto("pass")
  <2>1. "pass" \in Steps BY DEF Steps
  <2>2. /\ v \in Memory /\ v.pc = "pass" /\ v.flight = None /\ v.why = w.why /\ v.event = w.event
        /\ v.tracked = w.tracked /\ v.queue = w.queue /\ v.reading = w.reading
    BY <1>1, <2>1, Settings
  <2>3. w' = [v EXCEPT !.drainFirst = TRUE, !.scheduled = scheduled] BY <1>6
  <2> HIDE DEF v
  <2>4. /\ w' \in Memory /\ w'.pc = "pass" /\ w'.flight = None /\ w'.why = w.why /\ w'.event = w.event
        /\ w'.tracked = w.tracked /\ w'.queue = w.queue /\ w'.reading = w.reading
    BY <2>2, <2>3 DEF Memory
  <2>5. Place(copy, w') BY <1>3, <1>4, <2>4, PlacesOfSteps
  <2>6. objects \subseteq w.tracked BY <1>1 DEF Keeps, ResultFits, Alive
  <2>7. Moved BY <1>2, <2>4, <2>6 DEF Moved, Alive
  <2> QED BY <1>1, <2>4, <2>5, <2>7, StepKeeps
<1>7. CASE Refused
  <2>1. CASE RefusedOut BY <1>5, <1>7, <2>1 DEF Refused
  <2>2. CASE ~RefusedOut
    <3>1. w' = [Goto("pass") EXCEPT !.drainFirst = TRUE] BY <1>7, <2>2 DEF Refused
    <3>2. w.scheduled \in BOOLEAN BY <1>1 DEF Memory
    <3>3. w' = [Goto("pass") EXCEPT !.drainFirst = TRUE, !.scheduled = w.scheduled]
      BY <1>1, <3>1 DEF Goto, Memory
    <3> QED BY <1>6, <3>2, <3>3
  <2> QED BY <2>1, <2>2
<1>8. CASE AfterRejection
  <2>1. CASE w' = [Goto("pass") EXCEPT !.drainFirst = TRUE, !.scheduled = AtLimit]
    <3>1. AtLimit \in BOOLEAN BY DEF AtLimit
    <3> HIDE DEF AtLimit
    <3> QED BY <1>6, <2>1, <3>1
  <2>2. CASE w' = Goto("finish")
    <3>1. "finish" \in Steps BY DEF Steps
    <3>2. w'.pc = "finish" BY <1>1, <2>2, <3>1, Settings
    <3>3. Place(copy, w') BY <1>3, <3>2, PlacesOfSteps
    <3> QED BY <1>1, <1>2, <2>2, <3>1, <3>2, <3>3, GotoKeeps DEF Alive
  <2> QED BY <1>8, <2>1, <2>2 DEF AfterRejection
<1> QED BY <1>7, <1>8

\* The instance is left, with what was in flight.
LEMMA DroppedKeeps ==
    ASSUME Keeps, UNCHANGED <<config, inbox, read, copy>>, Landed \/ UNCHANGED <<thread, objects>>,
           w' \in Memory, w'.pc \in {"closing", "done", "lost"}, w'.flight = None,
           w'.why # "rules", w'.event # "Result", Apart(w'.queue), Apart(w'.reading)
    PROVE  Keeps'
<1>1. thread' \in Conversations /\ Sound(thread') /\ Held(thread) \subseteq Held(thread')
  <2>1. CASE Landed BY <2>1, LandedKeeps
  <2>2. CASE thread' = thread BY <2>2 DEF Keeps, MemoryFits
  <2> QED BY <2>1, <2>2
<1>2. copy' \in Conversations /\ Sound(copy') BY DEF Keeps, MemoryFits
<1> QED BY <1>1, <1>2, StopKeeps DEF Alive

LEMMA WriteOkKeeps ==
    ASSUME Keeps, WriteOk PROVE Keeps'
<1> DEFINE gone == Object(w.flight)
<1>1. /\ UNCHANGED <<config, inbox, read, copy>> /\ Landed
      /\ objects' = objects \ gone /\ w' = [w EXCEPT !.flight = None, !.tracked = @ \ gone]
  BY DEF WriteOk, Landed, world
<1> HIDE DEF gone
<1>2. w \in Memory /\ w.flight # None BY <1>1, LandedKeeps DEF Keeps, MemoryFits
<1>3. w.tracked \ gone \in SUBSET (Nat \cup Calls) BY <1>2 DEF Memory
<1>4. /\ w' \in Memory /\ w'.pc = w.pc /\ w'.flight = None /\ w'.why = w.why /\ w'.event = w.event
      /\ w'.tracked = w.tracked \ gone /\ w'.turn = w.turn /\ w'.after = w.after /\ w'.got = w.got
      /\ w'.left = w.left /\ w'.unknown = w.unknown /\ w'.queue = w.queue /\ w'.reading = w.reading
      /\ w'.fresh = w.fresh /\ w'.marks = w.marks
  BY <1>1, <1>2, <1>3 DEF Memory
<1>5. CASE Alive(w)
  <2>1. /\ thread' = copy /\ thread' \in Conversations /\ Sound(thread')
        /\ Held(thread) \subseteq Held(thread')
    BY <1>1, <1>5, LandedKeeps
  <2>2. MemoryFits' BY <1>1, <1>4, <2>1 DEF Keeps, MemoryFits
  <2>3. Sync' BY <1>1, <1>4, <1>5, <2>1 DEF Sync, Alive
  <2>4. (Sound(thread) /\ Sound(copy) /\ ReadIsStored /\ RulesKept)'
    <3>1. read' = read /\ copy' = copy BY <1>1
    <3>2. Sound(copy) /\ read \subseteq Held(thread) /\ w.why # "rules"
      BY DEF Keeps, ReadIsStored, RulesKept
    <3> QED BY <1>4, <2>1, <3>1, <3>2 DEF ReadIsStored, RulesKept
  <2>5. Place(copy', w')
    <3>1. Place(copy, w) BY DEF Keeps
    <3>2. Place(copy, w') BY <1>4, <3>1, SamePlace
    <3> QED BY <1>1, <3>2
  <2>6. DrainFits(copy', w')
    <3>1. DrainFits(copy, w) BY DEF Keeps
    <3>2. DrainFits(copy, w') BY <1>4, <3>1 DEF DrainFits
    <3> QED BY <1>1, <3>2
  <2>7. ResultFits' BY <1>1, <1>4, <1>5 DEF Keeps, ResultFits, Alive
  <2> QED BY <2>2, <2>3, <2>4, <2>5, <2>6, <2>7 DEF Keeps
<1>6. CASE ~Alive(w)
  <2>1. w.pc = "closing" BY <1>2, <1>6 DEF Alive, Keeps, Sync
  <2>2. w.why # "rules" /\ w.event # "Result" /\ Apart(w.queue) /\ Apart(w.reading)
    BY <2>1 DEF Keeps, RulesKept, ResultFits, DrainFits
  <2> QED BY <1>1, <1>4, <2>1, <2>2, DroppedKeeps
<1> QED BY <1>5, <1>6

LEMMA WriteFailsKeeps ==
    ASSUME Keeps, WriteFails PROVE Keeps'
<1> DEFINE base == IF w.pc = "closing" THEN w ELSE Stopped("failed")
<1>1. /\ UNCHANGED <<config, inbox, read, copy>> /\ (Landed \/ UNCHANGED <<thread, objects>>)
      /\ w' = [base EXCEPT !.flight = None]
      /\ w.flight # None
  BY DEF WriteFails, world
<1>2. w \in Memory BY DEF Keeps, MemoryFits
<1>3. w.pc = "closing" \/ Alive(w) BY <1>1 DEF Alive, Keeps, Sync
<1>4. w.why # "rules" /\ w.event # "Result" /\ Apart(w.queue) /\ Apart(w.reading)
  BY <1>3 DEF Keeps, RulesKept, ResultFits, DrainFits, Alive
<1>5. None \in Additions \cup {None} OBVIOUS
<1>6. CASE w.pc = "closing"
  <2>1. w' = [w EXCEPT !.flight = None]
    <3>1. base = w BY <1>6
    <3> HIDE DEF base
    <3> QED BY <1>1, <3>1
  <2>2. /\ w' \in Memory /\ w'.pc = "closing" /\ w'.flight = None /\ w'.why = w.why
        /\ w'.event = w.event /\ w'.queue = w.queue /\ w'.reading = w.reading
    BY <1>2, <1>6, <2>1 DEF Memory
  <2> QED BY <1>1, <1>4, <2>2, DroppedKeeps
<1>7. CASE w.pc # "closing"
  <2> DEFINE v == Stopped("failed")
  <2>1. /\ v \in Memory /\ v.pc = "closing" /\ v.why = "failed"
        /\ v.event = w.event /\ v.queue = w.queue /\ v.reading = <<>>
    BY <1>2, Stops
  <2>2. w' = [v EXCEPT !.flight = None]
    <3>1. base = v BY <1>7
    <3> HIDE DEF base, v
    <3> QED BY <1>1, <3>1
  <2> HIDE DEF v
  <2>3. /\ w' \in Memory /\ w'.pc = "closing" /\ w'.flight = None /\ w'.why = "failed"
        /\ w'.event = w.event /\ w'.queue = w.queue /\ w'.reading = <<>>
    BY <2>1, <2>2 DEF Memory
  <2> QED BY <1>1, <1>4, <2>3, DroppedKeeps, NothingIsApart
<1> QED BY <1>6, <1>7

LEMMA LeavingKeeps ==
    ASSUME Keeps, NEW next \in Memory, Dropped(next),
           next.pc \in {"closing", "done", "lost"}, next.why # "rules", next.event # "Result",
           Apart(next.queue), Apart(next.reading)
    PROVE  Keeps'
<1>1. /\ UNCHANGED <<config, inbox, read, copy>> /\ (Landed \/ UNCHANGED <<thread, objects>>)
      /\ w' = [next EXCEPT !.flight = None]
  BY DEF Dropped, world
<1>2. /\ w' \in Memory /\ w'.pc = next.pc /\ w'.flight = None /\ w'.why = next.why
      /\ w'.event = next.event /\ w'.queue = next.queue /\ w'.reading = next.reading
  BY <1>1 DEF Memory
<1> QED BY <1>1, <1>2, DroppedKeeps

LEMMA TakeCancelKeeps ==
    ASSUME Keeps, TakeCancel PROVE Keeps'
<1>1. w \in Memory /\ w.why # "rules" /\ w.event # "Result" /\ Apart(w.queue) /\ Working
  BY DEF TakeCancel, Keeps, MemoryFits, RulesKept, ResultFits, DrainFits, Working
<1>2. CASE w.pc = "start"
  <2> DEFINE v == Ended("Cancelled")
  <2>1. Dropped(v) BY <1>2 DEF TakeCancel
  <2>2. /\ v \in Memory /\ v.pc = "done" /\ v.why = w.why /\ v.event = "Cancelled"
        /\ v.queue = w.queue /\ v.reading = <<>>
    BY <1>1, Stops
  <2> HIDE DEF v
  <2> QED BY <1>1, <2>1, <2>2, LeavingKeeps, NothingIsApart
<1>3. CASE w.pc # "start"
  <2> DEFINE v == Stopped("cancelled")
  <2>1. Dropped(v) BY <1>3 DEF TakeCancel
  <2>2. /\ v \in Memory /\ v.pc = "closing" /\ v.why = "cancelled" /\ v.event = w.event
        /\ v.queue = w.queue /\ v.reading = <<>>
    BY <1>1, Stops
  <2> HIDE DEF v
  <2> QED BY <1>1, <2>1, <2>2, LeavingKeeps, NothingIsApart
<1> QED BY <1>2, <1>3

LEMMA LoseKeeps ==
    ASSUME Keeps, Lose PROVE Keeps'
<1> DEFINE v == [Created EXCEPT !.pc = "lost"]
<1>1. Dropped(v) BY DEF Lose
<1>2. /\ v \in Memory /\ v.pc = "lost" /\ v.why = "none" /\ v.event = "none"
      /\ v.queue = <<>> /\ v.reading = <<>>
  <2>1. "lost" \in Steps BY DEF Steps
  <2> HIDE DEF Created
  <2> QED BY <2>1, CreatedIs DEF Memory
<1> HIDE DEF v
<1> QED BY <1>1, <1>2, LeavingKeeps, NothingIsApart

LEMMA NothingIsSound == <<>> \in Conversations /\ Sound(<<>>)
BY DEF Conversations, Sound

LEMMA RestartKeeps ==
    ASSUME Keeps, Restart PROVE Keeps'
<1>1. /\ UNCHANGED <<config, inbox, thread, read>> /\ w' = Created /\ copy' = <<>> /\ objects' = {}
  BY DEF Restart, durable
<1>2. /\ thread' \in Conversations /\ Sound(thread') /\ Held(thread) \subseteq Held(thread')
  BY <1>1 DEF Keeps, MemoryFits
<1>3. /\ w' \in Memory /\ w'.pc = "start" /\ w'.flight = None
      /\ w'.why = "none" /\ w'.event = "none" /\ w'.queue = <<>> /\ w'.reading = <<>>
  <2> HIDE DEF Created
  <2> QED BY <1>1, CreatedIs
<1>4. copy' \in Conversations /\ Sound(copy') BY <1>1, NothingIsSound
<1> QED BY <1>1, <1>2, <1>3, <1>4, StopKeeps, NothingIsApart DEF Alive

LEMMA ConcludeKeeps ==
    ASSUME Keeps, Conclude PROVE Keeps'
<1> DEFINE reason == IF w.why = "cancelled" THEN "Cancelled" ELSE "Failed"
<1>1. w.pc = "closing" /\ w.flight = None /\ ~Alive(w) /\ w \in Memory
  BY DEF Conclude, At, Alive, Keeps, MemoryFits
<1>2. /\ copy \in Conversations /\ Sound(copy) /\ w.why # "rules" /\ w.event # "Result"
      /\ Apart(w.queue) /\ Apart(w.reading)
  BY <1>1 DEF Keeps, MemoryFits, RulesKept, ResultFits, DrainFits
<1>3. reason \in {"Cancelled", "Failed"} OBVIOUS
<1>4. ASSUME NEW n \in OpenTurns(copy), Write(Closure(n, copy[n].agent, reason), w)
      PROVE  Keeps'
  <2> DEFINE add == Closure(n, copy[n].agent, reason)
  <2> HIDE DEF reason
  <2>1. Takes(copy, add) BY <1>2, <1>3, LeftTurnCloses
  <2>2. n \in Nat /\ copy[n].agent \in Agents BY <1>2 DEF OpenTurns, Conversations
  <2>3. add \in Additions BY <1>3, <2>2 DEF Additions, Closings
  <2> HIDE DEF add
  <2>4. Accepts(copy, add) /\ Grows(copy, Applied(copy, add)) BY <2>1 DEF Takes
  <2>5. /\ copy' = Applied(copy, add) /\ w' = [w EXCEPT !.flight = add]
        /\ UNCHANGED <<thread, read, objects, config, inbox>>
    BY <1>4, <2>4 DEF Write, world, add
  <2>6. /\ w' \in Memory /\ w'.pc = "closing" /\ w'.flight = add /\ w'.why = w.why
        /\ w'.event = w.event /\ w'.queue = w.queue /\ w'.reading = w.reading
    BY <1>1, <2>3, <2>5 DEF Memory
  <2>7. MemoryFits' BY <2>4, <2>5, <2>6 DEF Keeps, MemoryFits, Grows
  <2>8. Sync'
    <3>1. \E id \in Nat, agent \in Agents, why \in {"Cancelled", "Failed"} :
            add = Closure(id, agent, why)
      BY <1>3, <2>2 DEF add
    <3> QED BY <2>6, <3>1 DEF Sync, Alive
  <2>9. (Sound(thread) /\ Sound(copy) /\ ReadIsStored /\ RulesKept)'
    <3>1. Sound(copy') BY <1>2, <2>4, <2>5 DEF Grows
    <3>2. Sound(thread') BY <2>5 DEF Keeps
    <3>3. (ReadIsStored /\ RulesKept)' BY <2>5, <2>6 DEF Keeps, ReadIsStored, RulesKept
    <3> QED BY <3>1, <3>2, <3>3
  <2>10. Place(copy', w') BY <2>6, PlacesOfSteps DEF Alive
  <2>11. DrainFits(copy', w') BY <1>2, <2>6 DEF DrainFits
  <2>12. ResultFits' BY <1>2, <2>6 DEF ResultFits
  <2> QED BY <2>7, <2>8, <2>9, <2>10, <2>11, <2>12 DEF Keeps
<1>5. CASE w' = Ended(reason) /\ UNCHANGED <<durable, copy, world>>
  <2>1. UNCHANGED <<config, inbox, read, copy, thread>> BY <1>5 DEF durable, world
  <2>2. /\ w' \in Memory /\ w'.pc = "done" /\ w'.flight = None /\ w'.why = w.why
        /\ w'.event = reason /\ w'.queue = w.queue /\ w'.reading = <<>>
    <3> HIDE DEF reason
    <3> QED BY <1>1, <1>3, <1>5, Stops
  <2>3. thread' \in Conversations /\ Sound(thread') /\ Held(thread) \subseteq Held(thread')
    BY <2>1 DEF Keeps, MemoryFits
  <2> QED BY <1>2, <1>3, <2>1, <2>2, <2>3, StopKeeps, NothingIsApart DEF Alive
<1> QED BY <1>4, <1>5 DEF Conclude

LEMMA FinishedKeeps ==
    ASSUME Keeps, Finish PROVE Keeps'
<1>1. w.pc = "finish" /\ w.flight = None /\ Alive(w) /\ w \in Memory
  BY DEF Finish, At, Alive, Keeps, MemoryFits
<1>2. CASE Fault
  <2>1. UNCHANGED <<config, inbox, thread, copy, read>> /\ w' = Stopped("failed")
    BY <1>2 DEF Fault, world
  <2> QED BY <1>1, <2>1, FaultStops
<1>3. /\ copy = thread /\ copy \in Conversations /\ Sound(copy) /\ w.why # "rules"
      /\ Apart(w.queue) /\ objects \subseteq w.tracked
  BY <1>1 DEF Keeps, Sync, MemoryFits, RulesKept, DrainFits, ResultFits, Alive
<1>4. ASSUME w' = Ended("Failed"), UNCHANGED <<config, inbox, read, thread, copy>> PROVE Keeps'
  <2>1. /\ w' \in Memory /\ w'.pc = "done" /\ w'.flight = None /\ w'.why = w.why
        /\ w'.event = "Failed" /\ w'.queue = w.queue /\ w'.reading = <<>>
    BY <1>1, <1>4, Stops
  <2>2. thread' \in Conversations /\ Sound(thread') /\ Held(thread) \subseteq Held(thread')
    BY <1>4 DEF Keeps, MemoryFits
  <2> QED BY <1>3, <1>4, <2>1, <2>2, StopKeeps, NothingIsApart DEF Alive
<1>5. ASSUME w' = Ended("Result"), w.tracked = {}, objects' = objects \ w.tracked,
             UNCHANGED <<config, inbox, read, thread, copy>>
      PROVE  Keeps'
  <2>1. /\ w' \in Memory /\ w'.pc = "done" /\ w'.flight = None /\ w'.why = w.why
        /\ w'.event = "Result" /\ w'.queue = w.queue /\ w'.reading = <<>>
    BY <1>1, <1>5, Stops
  <2>2. NoneOpen(thread) /\ Clear(thread)
    <3>1. Place(copy, w) BY DEF Keeps
    <3> QED BY <1>1, <1>3, <3>1, PlacesOfSteps
  <2>3. MemoryFits' BY <1>5, <2>1 DEF Keeps, MemoryFits
  <2>4. Sync' BY <2>1 DEF Sync, Alive
  <2>5. (Sound(thread) /\ Sound(copy) /\ ReadIsStored /\ RulesKept)'
    BY <1>5, <2>1 DEF Keeps, ReadIsStored, RulesKept
  <2>6. Place(copy', w') BY <2>1, PlacesOfSteps DEF Alive
  <2>7. DrainFits(copy', w') BY <1>3, <2>1, NothingIsApart DEF DrainFits
  <2>8. ResultFits'
    <3>1. objects' = {} BY <1>3, <1>5
    <3>2. NoneOpen(thread') /\ Clear(thread') BY <1>5, <2>2
    <3> QED BY <2>1, <3>1, <3>2 DEF ResultFits
  <2> QED BY <2>3, <2>4, <2>5, <2>6, <2>7, <2>8 DEF Keeps
<1>6. CASE w' = Ended(Delivered) /\ objects' = objects \ w.tracked
           /\ UNCHANGED <<durable, copy, count, world, faults>>
  <2>1. UNCHANGED <<config, inbox, read, thread, copy>> BY <1>6 DEF durable, world
  <2>2. CASE w.tracked = {}
    <3>1. Delivered = "Result" BY <2>2 DEF Delivered
    <3> QED BY <1>5, <1>6, <2>1, <2>2, <3>1
  <2>3. CASE w.tracked # {}
    <3>1. Delivered = "Failed" BY <2>3 DEF Delivered
    <3> QED BY <1>4, <1>6, <2>1, <3>1
  <2> QED BY <2>2, <2>3
<1>7. CASE w' = Ended("Failed") /\ UNCHANGED <<durable, objects, copy, count, world>>
  BY <1>4, <1>7 DEF durable, world
<1> QED BY <1>2, <1>6, <1>7 DEF Finish

-----------------------------------------------------------------------------
(***************************************************************************)
(* The invariant, and what follows from it.                                   *)
(***************************************************************************)
LEMMA InitKeeps ==
    ASSUME Init PROVE Keeps
<1>1. /\ config \in Configs /\ thread = <<>> /\ copy = <<>> /\ read = {} /\ objects = {}
      /\ w = Created /\ inbox \in SetToSeqs(config.items)
  BY DEF Init
<1>2. /\ Created \in Memory /\ Created.pc = "start" /\ Created.flight = None
      /\ Created.why = "none" /\ Created.event = "none" /\ Created.queue = <<>> /\ Created.reading = <<>>
  BY CreatedIs
<1> HIDE DEF Created
<1>3. inbox \in Seq(Items) /\ Apart(inbox)
  <2> DEFINE size == Cardinality(config.items)
  <2>1. IsFiniteSet(config.items) /\ config.items \subseteq Items
    BY <1>1, AgenticAssumption DEF ConfigType
  <2>2. size \in Nat BY <2>1, FS_CardinalityType
  <2>3. inbox \in [1..size -> config.items] /\ \A i, j \in 1..size : i # j => inbox[i] # inbox[j]
    BY <1>1 DEF SetToSeqs
  <2> HIDE DEF size
  <2>4. inbox \in Seq(Items) BY <2>1, <2>2, <2>3
  <2>5. DOMAIN inbox = 1..size BY <2>3
  <2> QED BY <2>3, <2>4, <2>5 DEF Apart
<1>4. MemoryFits BY <1>1, <1>2, <1>3, NothingIsSound DEF MemoryFits
<1>5. Sync BY <1>1, <1>2 DEF Sync, Alive
<1>6. Sound(thread) /\ Sound(copy) BY <1>1, NothingIsSound
<1>7. Place(copy, w) BY <1>1, <1>2, PlacesOfSteps DEF Alive
<1>8. DrainFits(copy, w) BY <1>1, <1>2, NothingIsApart DEF DrainFits
<1>9. ReadIsStored /\ RulesKept /\ ResultFits BY <1>1, <1>2 DEF ReadIsStored, RulesKept, ResultFits
<1> QED BY <1>4, <1>5, <1>6, <1>7, <1>8, <1>9 DEF Keeps

LEMMA StandingKeeps ==
    ASSUME Keeps, UNCHANGED vars PROVE Keeps'
<1>1. UNCHANGED <<config, thread, inbox, read, objects, copy, w>> BY DEF vars
<1>2. MemoryFits' /\ Sync' BY <1>1 DEF Keeps, MemoryFits, Sync, Alive
<1>3. (Sound(thread) /\ Sound(copy) /\ ReadIsStored /\ RulesKept /\ ResultFits)'
  BY <1>1 DEF Keeps, ReadIsStored, RulesKept, ResultFits
<1>4. Place(copy', w') /\ DrainFits(copy', w') BY <1>1 DEF Keeps
<1> QED BY <1>2, <1>3, <1>4 DEF Keeps

LEMMA NextKeeps ==
    ASSUME Keeps, [Next]_vars PROVE Keeps'
<1>1. CASE Open \/ Interrupt \/ Begin BY <1>1, OpenKeeps, InterruptKeeps, BeginKeeps
<1>2. CASE Refresh \/ Mark \/ StoreInOpenTurn \/ StoreInNewInputTurn \/ DrainDone
  BY <1>2, RefreshKeeps, MarkKeeps, StoreInOpenTurnKeeps, StoreInNewInputTurnKeeps, DrainDoneKeeps
<1>3. CASE Enter \/ BeginPass \/ OpenResponse \/ ModelAnswers \/ ModelFails \/ Stepped
  BY <1>3, EnterKeeps, BeginPassKeeps, OpenResponseKeeps, ModelAnswersKeeps, ModelFailsKeeps, SteppedKeeps
<1>4. CASE OpenResult \/ AnswerUnknown \/ ToolEnds \/ ToolStops \/ RoundDone
  BY <1>4, OpenResultKeeps, ToolRoundKeeps
<1>5. CASE ReactPassed \/ GcPassed \/ Judge \/ Refused \/ Said \/ AfterRejection
  BY <1>5, PassedKeeps, JudgeKeeps, AnswerKeeps, SaidKeeps
<1>6. CASE Finish \/ Conclude BY <1>6, FinishedKeeps, ConcludeKeeps
<1>7. CASE WriteOk \/ WriteFails BY <1>7, WriteOkKeeps, WriteFailsKeeps
<1>8. CASE TakeCancel \/ Lose \/ Restart BY <1>8, TakeCancelKeeps, LoseKeeps, RestartKeeps
<1>9. CASE UNCHANGED vars BY <1>9, StandingKeeps
<1> QED BY <1>1, <1>2, <1>3, <1>4, <1>5, <1>6, <1>7, <1>8, <1>9 DEF Next, Instance, Port

\* The invariant of an instance, through its writes in flight, losses and restarts.
THEOREM AgenticKeeps == Spec => []Keeps
<1>1. Init => Keeps BY InitKeeps
<1>2. Keeps /\ [Next]_vars => Keeps' BY NextKeeps
<1> QED BY <1>1, <1>2, PTL DEF Spec

\* Run::mark comes after the write of the item has answered: whatever fails, is
\* dropped or restarts, what is marked read in the inbox is in the thread.
THEOREM MarkedIsStored == Spec => []ReadIsStored
<1>1. Keeps => ReadIsStored BY DEF Keeps
<1> QED BY <1>1, AgenticKeeps, PTL

\* Session keeps the rules: every addition the instance makes is one its copy
\* of the conversation accepts, whatever an earlier instance left open in the thread.
THEOREM RulesAreKept == Spec => []RulesKept
<1>1. Keeps => RulesKept BY DEF Keeps
<1> QED BY <1>1, AgenticKeeps, PTL

\* ending::result: a result is given on a thread with no open turn, no open
\* object and no stored item that the model was not shown.
THEOREM ResultLeavesAllClean == Spec => []ResultIsClean
<1>1. Keeps => ResultIsClean
  <2> SUFFICES ASSUME Keeps, w.event = "Result" PROVE Unanswered = {} /\ OpenTurns(thread) = {} /\ objects = {}
    BY DEF ResultIsClean, StoredIsAnswered, ResultLeavesNothingOpen
  <2>1. NoneOpen(thread) /\ Clear(thread) /\ objects = {} BY DEF Keeps, ResultFits
  <2>2. thread \in Conversations BY DEF Keeps, MemoryFits
  <2> QED BY <2>1, <2>2, ClearIsAnswered DEF NoneOpen
<1> QED BY <1>1, AgenticKeeps, PTL

\* Worker::restored: no pass begins on a conversation that ends with the answer of
\* the agent, or with the limit it reached: what is answered is not asked again.
THEOREM AnswerIsNotAskedAgain == Spec => NotAskedAgain
<1>1. Keeps /\ [Next]_vars => [w.pc = "call" /\ w'.pc = "model" /\ w.turn = 0 => Restored = "none"]_vars
  <2> SUFFICES ASSUME Keeps, w.pc = "call", w.turn = 0 PROVE Restored = "none"
    OBVIOUS
  <2>1. Place(copy, w) BY DEF Keeps
  <2>2. ~Restorable(copy) BY <2>1, PlacesOfSteps DEF InStep
  <2> QED BY <2>2, RestoredIs
<1> QED BY <1>1, AgenticKeeps, PTL DEF Spec, NotAskedAgain

-----------------------------------------------------------------------------
(***************************************************************************)
(* The mail: what a box, a conversation and the desk of an agent have of what   *)
(* arrived for it.                                                          *)
(***************************************************************************)
Arrivals == [kind : {"mail", "entry"}, to : Seq(Peers), cc : Seq(Peers), documents : Seq(Library)]

MailFits ==
    /\ arrived \in Seq(Arrivals) /\ rung \in Nat
    /\ waits \in [Peers -> [pc : {"idle", "looks", "listens", "sleeps"}, heard : Nat]]
    /\ desk \in [Peers -> [reading : {NoRead, "going", "ended"}, after : Nat,
                           got : Seq(Nat), marks : Seq(Nat)]]
    /\ letters \in [Peers -> Seq(Nat)]
    /\ given \subseteq Peers \X Nat

\* The marks an agent made.
Seen(a) == {i \in Nat : <<a, i>> \in marked}

\* No number of all is missing in some below one they have.
NoGap(some, all) == \A x \in some, y \in all : y < x => y \in some

\* A conversation has what arrived up to some arrival, what is marked or about to be is
\* in it, and a read that goes on has what was unread up to where it is.
BoxFits(all, have, seen, d) ==
    /\ Rises(have) /\ ToSet(have) \subseteq all /\ NoGap(ToSet(have), all)
    /\ seen \subseteq ToSet(have) /\ ToSet(d.marks) \subseteq ToSet(have)
    /\ Rises(d.got) /\ ToSet(d.got) \subseteq all
    /\ \A x \in ToSet(d.got), y \in all : y < x => y \in ToSet(d.got) \cup ToSet(have)
    /\ d.reading = "going" => \/ d.after = 0 /\ d.got = <<>>
                              \/ d.after \in ToSet(d.got) /\ \A x \in ToSet(d.got) : x <= d.after

\* A wait heard no ring to come; one that listens with all rings heard has nothing unread.
WaitFits(all, seen, call) ==
    /\ call.heard <= rung
    /\ call.pc \in {"listens", "sleeps"} /\ call.heard = rung /\ rung = Len(arrived) => all \subseteq seen

MailKeeps ==
    /\ MailFits /\ rung <= Len(arrived)
    /\ \A a \in Peers : BoxFits(For(a), letters[a], Seen(a), desk[a])
    /\ \A a \in Peers : WaitFits(For(a), Seen(a), waits[a])
    /\ FilesStayWithTo

-----------------------------------------------------------------------------
LEMMA ListedIs ==
    ASSUME arrived \in Seq(Arrivals), NEW a
    PROVE  /\ Listed(a) \in Seq(Nat) /\ Rises(Listed(a)) /\ ToSet(Listed(a)) = For(a)
           /\ For(a) \subseteq 1..Len(arrived) /\ For(a) \subseteq Nat
<1>1. Len(arrived) \in Nat /\ DOMAIN arrived = 1..Len(arrived) OBVIOUS
<1>2. For(a) \subseteq 1..Len(arrived) /\ For(a) \subseteq Nat BY <1>1 DEF For
<1>3. Places \in Seq(Nat) /\ Rises(Places) /\ ToSet(Places) = 1..Len(arrived)
  BY <1>1 DEF Places, Rises, ToSet
<1>4. LET kept == Among(Places, For(a)) IN
      kept \in Seq(Nat) /\ Rises(kept) /\ ToSet(kept) = (1..Len(arrived)) \cap For(a)
  BY <1>3, AmongRises
<1> QED BY <1>2, <1>4 DEF Listed

LEMMA UnreadIs ==
    ASSUME arrived \in Seq(Arrivals), NEW a
    PROVE  /\ UnreadBy(a) \in Seq(Nat) /\ Rises(UnreadBy(a))
           /\ ToSet(UnreadBy(a)) = For(a) \ Seen(a)
<1>1. /\ Listed(a) \in Seq(Nat) /\ Rises(Listed(a)) /\ ToSet(Listed(a)) = For(a)
      /\ For(a) \subseteq Nat
  BY ListedIs
<1>2. {i \in For(a) : <<a, i>> \notin marked} = For(a) \ Seen(a) BY <1>1 DEF Seen
<1> DEFINE left == {i \in For(a) : <<a, i>> \notin marked}
<1>3. LET kept == Among(Listed(a), left) IN
      kept \in Seq(Nat) /\ Rises(kept) /\ ToSet(kept) = For(a) \cap left
  BY <1>1, AmongRises
<1>4. UnreadBy(a) = Among(Listed(a), left) BY Zenon DEF UnreadBy
<1> QED BY <1>2, <1>3, <1>4

LEMMA PageIs ==
    ASSUME arrived \in Seq(Arrivals), NEW a, NEW after \in Nat
    PROVE  LET page == Page(a, after) IN
           /\ page.items \in Seq(Nat) /\ Rises(page.items)
           /\ ToSet(page.items) \subseteq For(a) /\ \A x \in ToSet(page.items) : x > after
           /\ \A x \in ToSet(page.items), y \in For(a) \ Seen(a) :
                 y > after /\ y < x => y \in ToSet(page.items)
           /\ page.next \in Nat
           /\ page.next # 0 => /\ page.next \in ToSet(page.items)
                               /\ \A x \in ToSet(page.items) : x <= page.next
<1> DEFINE rest == Among(UnreadBy(a), (after + 1)..Len(arrived))
           page == SubSeq(rest, 1, Batch)
<1>1. For(a) \subseteq 1..Len(arrived) /\ For(a) \subseteq Nat BY ListedIs
<1>2. /\ rest \in Seq(Nat) /\ Rises(rest)
      /\ ToSet(rest) = (For(a) \ Seen(a)) \cap ((after + 1)..Len(arrived))
  BY UnreadIs, AmongRises
<1>3. /\ ToSet(rest) \subseteq For(a) \ Seen(a) /\ \A x \in ToSet(rest) : x > after
      /\ \A y \in For(a) \ Seen(a) : y > after => y \in ToSet(rest)
  BY <1>1, <1>2
<1>4. Page(a, after) = IF Len(rest) > Batch THEN [items |-> page, next |-> Last(page)]
                       ELSE [items |-> rest, next |-> 0]
  BY DEF Page
<1> HIDE DEF rest
<1>5. CASE ~(Len(rest) > Batch)
  <2>1. Page(a, after) = [items |-> rest, next |-> 0] BY <1>4, <1>5
  <2> QED BY <2>1, <1>2, <1>3
<1>6. CASE Len(rest) > Batch
  <2>1. Batch \in Nat \ {0} /\ Len(rest) \in Nat BY <1>2, MailAssumption
  <2>2. /\ page \in Seq(Nat) /\ Len(page) = Batch /\ DOMAIN page = 1..Batch
        /\ \A i \in 1..Batch : page[i] = rest[i] /\ i \in 1..Len(rest)
    BY <1>2, <1>6, <2>1
  <2> HIDE DEF page
  <2>3. DOMAIN rest = 1..Len(rest) /\ Batch \in 1..Batch BY <1>2, <2>1
  <2>4. Rises(page) BY <1>2, <2>2, <2>3 DEF Rises
  <2>5. ToSet(page) \subseteq ToSet(rest) BY <2>2, <2>3 DEF ToSet
  <2>6. ASSUME NEW x \in ToSet(page), NEW y \in ToSet(rest), y < x PROVE y \in ToSet(page)
    <3>1. PICK i \in 1..Batch : x = rest[i] BY <2>2 DEF ToSet
    <3>2. PICK j \in 1..Len(rest) : y = rest[j] BY <2>3 DEF ToSet
    <3>3. j <= i
      <4> SUFFICES ASSUME i < j PROVE FALSE BY <2>1
      <4>1. rest[i] < rest[j] BY <1>2, <2>2, <2>3 DEF Rises
      <4>2. rest[i] \in Nat /\ rest[j] \in Nat BY <1>2, <2>2, <2>3
      <4> QED BY <4>1, <4>2, <3>1, <3>2, <2>6
    <3>4. j \in 1..Batch BY <3>3, <2>1
    <3> QED BY <3>2, <3>4, <2>2 DEF ToSet
  <2>7. Last(page) = rest[Batch] /\ Last(page) \in ToSet(page) BY <2>2, <2>3 DEF Last, ToSet
  <2>8. ASSUME NEW x \in ToSet(page) PROVE x <= Last(page)
    <3>1. PICK i \in 1..Batch : x = rest[i] BY <2>2 DEF ToSet
    <3>2. rest[i] \in Nat /\ rest[Batch] \in Nat BY <1>2, <2>2, <2>3
    <3>3. i < Batch => rest[i] < rest[Batch] BY <1>2, <2>2, <2>3 DEF Rises
    <3> QED BY <3>1, <3>2, <3>3, <2>1, <2>7
  <2>9. Page(a, after) = [items |-> page, next |-> Last(page)] BY <1>4, <1>6
  <2>10. Last(page) \in Nat BY <2>2, <2>3, <2>7
  <2> QED BY <2>2, <2>4, <2>5, <2>6, <2>7, <2>8, <2>9, <2>10, <1>3
<1> QED BY <1>5, <1>6

LEMMA UnreadNone ==
    ASSUME arrived \in Seq(Arrivals), NEW a
    PROVE  UnreadBy(a) = <<>> <=> For(a) \subseteq Seen(a)
<1>1. UnreadBy(a) \in Seq(Nat) /\ ToSet(UnreadBy(a)) = For(a) \ Seen(a) BY UnreadIs
<1>2. UnreadBy(a) = <<>> <=> ToSet(UnreadBy(a)) = {}
  <2>1. ASSUME NEW u \in Seq(Nat) PROVE u = <<>> <=> ToSet(u) = {} BY DEF ToSet
  <2> QED BY <2>1, <1>1
<1> QED BY <1>1, <1>2

-----------------------------------------------------------------------------
\* What each step does to one agent's part.

LEMMA BoxGrows ==
    ASSUME NEW all \in SUBSET Nat, NEW more \in SUBSET Nat, NEW have, NEW seen, NEW d,
           BoxFits(all, have, seen, d), all \subseteq more,
           \A x \in all, y \in more \ all : x < y
    PROVE  BoxFits(more, have, seen, d)
<1>1. \A x \in all, y \in more : y < x => y \in all
  <2> SUFFICES ASSUME NEW x \in all, NEW y \in more, y < x, y \notin all PROVE FALSE OBVIOUS
  <2>1. x < y /\ x \in Nat /\ y \in Nat OBVIOUS
  <2> QED BY <2>1
<1> QED BY <1>1 DEF BoxFits, NoGap

LEMMA BoxEmptied ==
    ASSUME NEW all, NEW have, NEW seen, NEW d, BoxFits(all, have, seen, d)
    PROVE  BoxFits(all, have, seen, EmptyDesk)
<1>1. ToSet(<<>>) = {} /\ Rises(<<>>) BY DEF ToSet, Rises
<1> QED BY <1>1 DEF BoxFits, EmptyDesk, NoRead

LEMMA BoxMarked ==
    ASSUME NEW all, NEW have, NEW seen, NEW d, BoxFits(all, have, seen, d),
           d.marks \in Seq(Nat), d.marks # <<>>
    PROVE  BoxFits(all, have, seen \cup {Head(d.marks)}, [d EXCEPT !.marks = Tail(@)])
<1> DEFINE e == [d EXCEPT !.marks = Tail(@)]
<1>1. Head(d.marks) \in ToSet(d.marks) /\ ToSet(Tail(d.marks)) \subseteq ToSet(d.marks)
  <2>1. ASSUME NEW m \in Seq(Nat), m # <<>>
        PROVE  Head(m) \in ToSet(m) /\ ToSet(Tail(m)) \subseteq ToSet(m)
    <3>1. /\ Len(m) \in Nat \ {0} /\ Head(m) = m[1] /\ DOMAIN m = 1..Len(m)
          /\ DOMAIN Tail(m) = 1..(Len(m) - 1)
          /\ \A i \in 1..(Len(m) - 1) : Tail(m)[i] = m[i + 1] /\ i + 1 \in 1..Len(m)
      BY <2>1
    <3> QED BY <3>1 DEF ToSet
  <2> QED BY <2>1
<1>2. /\ e.got = d.got /\ e.after = d.after /\ e.reading = d.reading
      /\ ToSet(e.marks) \subseteq ToSet(d.marks)
  BY <1>1 DEF BoxFits
<1> HIDE DEF e
<1>3. BoxFits(all, have, seen \cup {Head(d.marks)}, e) BY <1>1, <1>2 DEF BoxFits
<1> QED BY <1>3 DEF e

\* What Run::store puts after a conversation, and what it goes on to mark.
LEMMA BoxDrained ==
    ASSUME NEW all \in SUBSET Nat, NEW have \in Seq(Nat), NEW seen, NEW d,
           BoxFits(all, have, seen, d), d.got \in Seq(Nat)
    PROVE  LET held == Among(d.got, ToSet(have))
               fresh == Among(d.got, all \ ToSet(have))
           IN /\ held \o fresh \in Seq(Nat) /\ have \o fresh \in Seq(Nat)
              /\ ToSet(have) \subseteq ToSet(have \o fresh)
              /\ BoxFits(all, have \o fresh, seen,
                         [reading |-> "going", after |-> 0, got |-> <<>>, marks |-> held \o fresh])
<1> DEFINE held == Among(d.got, ToSet(have))
           fresh == Among(d.got, all \ ToSet(have))
           e == [reading |-> "going", after |-> 0, got |-> <<>>, marks |-> held \o fresh]
<1>1. Rises(have) /\ Rises(d.got) /\ ToSet(have) \subseteq all /\ ToSet(d.got) \subseteq all
  BY DEF BoxFits
<1>2. /\ held \in Seq(Nat) /\ ToSet(held) = ToSet(d.got) \cap ToSet(have)
      /\ fresh \in Seq(Nat) /\ ToSet(fresh) = ToSet(d.got) \ ToSet(have) /\ Rises(fresh)
  <2>1. LET kept == Among(d.got, ToSet(have)) IN
        kept \in Seq(Nat) /\ ToSet(kept) = ToSet(d.got) \cap ToSet(have)
    BY <1>1, AmongRises
  <2>2. LET kept == Among(d.got, all \ ToSet(have)) IN
        kept \in Seq(Nat) /\ ToSet(kept) = ToSet(d.got) \cap (all \ ToSet(have)) /\ Rises(kept)
    BY <1>1, AmongRises
  <2> QED BY <2>1, <2>2, <1>1
<1>3. e.got = <<>> /\ e.after = 0 /\ e.reading = "going" /\ e.marks = held \o fresh
  OBVIOUS
<1> HIDE DEF held, fresh, e
<1>4. \A x \in ToSet(have), y \in ToSet(fresh) : x < y
  <2> SUFFICES ASSUME NEW x \in ToSet(have), NEW y \in ToSet(fresh), ~(x < y) PROVE FALSE
    OBVIOUS
  <2>1. x \in Nat /\ y \in Nat /\ y \in all /\ y \notin ToSet(have) BY <1>1, <1>2
  <2>2. y # x BY <2>1
  <2>3. y < x BY <2>1, <2>2
  <2> QED BY <2>1, <2>3 DEF BoxFits, NoGap
<1>5. /\ have \o fresh \in Seq(Nat) /\ Rises(have \o fresh)
      /\ ToSet(have \o fresh) = ToSet(have) \cup ToSet(fresh)
  BY <1>1, <1>2, <1>4, JoinRises
<1>6. held \o fresh \in Seq(Nat) /\ ToSet(held \o fresh) \subseteq ToSet(held) \cup ToSet(fresh)
  <2>1. ASSUME NEW s \in Seq(Nat), NEW t \in Seq(Nat)
        PROVE  ToSet(s \o t) \subseteq ToSet(s) \cup ToSet(t)
    <3> SUFFICES ASSUME NEW i \in 1..(Len(s) + Len(t))
                 PROVE  (s \o t)[i] \in ToSet(s) \cup ToSet(t)
      BY DEF ToSet
    <3>1. Len(s) \in Nat /\ Len(t) \in Nat /\ DOMAIN s = 1..Len(s) /\ DOMAIN t = 1..Len(t) OBVIOUS
    <3>2. CASE i \in 1..Len(s)
      <4>1. (s \o t)[i] = s[i] BY <3>2
      <4> QED BY <3>1, <3>2, <4>1 DEF ToSet
    <3>3. CASE i \notin 1..Len(s)
      <4>1. (s \o t)[i] = t[i - Len(s)] /\ i - Len(s) \in 1..Len(t) BY <3>3, <3>1
      <4> QED BY <3>1, <4>1 DEF ToSet
    <3> QED BY <3>2, <3>3
  <2>2. held \o fresh \in Seq(Nat) BY <1>2
  <2> QED BY <1>2, <2>1, <2>2
<1>7. NoGap(ToSet(have \o fresh), all)
  <2> SUFFICES ASSUME NEW x \in ToSet(have) \cup ToSet(fresh), NEW y \in all, y < x
               PROVE  y \in ToSet(have) \cup ToSet(fresh)
    BY <1>5 DEF NoGap
  <2>1. CASE x \in ToSet(have) BY <2>1 DEF BoxFits, NoGap
  <2>2. CASE x \in ToSet(fresh)
    <3>1. x \in ToSet(d.got) BY <2>2, <1>2
    <3>2. y \in ToSet(d.got) \cup ToSet(have) BY <3>1 DEF BoxFits
    <3> QED BY <3>2, <1>2
  <2> QED BY <2>1, <2>2
<1>8. BoxFits(all, have \o fresh, seen, e)
  <2>1. ToSet(<<>>) = {} /\ Rises(<<>>) BY DEF ToSet, Rises
  <2>2. seen \subseteq ToSet(have) BY DEF BoxFits
  <2>3. ToSet(have \o fresh) \subseteq all BY <1>1, <1>2, <1>5
  <2>4. ToSet(e.marks) \subseteq ToSet(have \o fresh) BY <1>2, <1>3, <1>5, <1>6
  <2> QED BY <1>3, <1>5, <1>7, <2>1, <2>2, <2>3, <2>4 DEF BoxFits
<1>9. ToSet(have) \subseteq ToSet(have \o fresh) BY <1>5
<1> QED BY <1>5, <1>6, <1>8, <1>9 DEF held, fresh, e

\* A page goes on where the one before ended, whatever arrived or was marked since.
LEMMA BoxPaged ==
    ASSUME arrived \in Seq(Arrivals), NEW a, NEW have \in Seq(Nat), NEW d,
           BoxFits(For(a), have, Seen(a), d), d.got \in Seq(Nat), d.after \in Nat,
           d.reading = "going",
           d \in [reading : {NoRead, "going", "ended"}, after : Nat, got : Seq(Nat), marks : Seq(Nat)]
    PROVE  /\ BoxFits(For(a), have, Seen(a), WithPage(a, d))
           /\ WithPage(a, d) \in [reading : {NoRead, "going", "ended"}, after : Nat,
                                  got : Seq(Nat), marks : Seq(Nat)]
<1> DEFINE page == Page(a, d.after)
           items == page.items
           next == page.next
           more == Among(items, For(a) \ ToSet(d.got))
           e == [d EXCEPT !.got = @ \o Among(page.items, For(a) \ ToSet(d.got)),
                          !.after = page.next,
                          !.reading = IF page.next = 0 THEN "ended" ELSE "going"]
<1>1. /\ items \in Seq(Nat) /\ Rises(items)
      /\ ToSet(items) \subseteq For(a) /\ \A x \in ToSet(items) : x > d.after
      /\ \A x \in ToSet(items), y \in For(a) \ Seen(a) : y > d.after /\ y < x => y \in ToSet(items)
      /\ next \in Nat
      /\ next # 0 => next \in ToSet(items) /\ \A x \in ToSet(items) : x <= next
  BY PageIs
<1>2. /\ e.got = d.got \o more /\ e.after = next /\ e.marks = d.marks
      /\ e.reading = IF next = 0 THEN "ended" ELSE "going"
  OBVIOUS
<1>3. For(a) \subseteq Nat BY ListedIs
<1> HIDE DEF page, items, next
<1>4. \/ d.after = 0 /\ d.got = <<>>
      \/ d.after \in ToSet(d.got) /\ \A x \in ToSet(d.got) : x <= d.after
  BY DEF BoxFits
<1>5. \A x \in ToSet(d.got), y \in ToSet(items) : x < y
  <2> SUFFICES ASSUME NEW x \in ToSet(d.got), NEW y \in ToSet(items) PROVE x < y OBVIOUS
  <2>1. x \in Nat /\ y \in Nat /\ y > d.after
    BY <1>1, <1>3 DEF BoxFits
  <2>2. d.got # <<>> BY DEF ToSet
  <2>3. x <= d.after BY <1>4, <2>2
  <2> QED BY <2>1, <2>3
<1>6. more \in Seq(Nat) /\ Rises(more) /\ ToSet(more) = ToSet(items)
  <2>1. LET kept == Among(items, For(a) \ ToSet(d.got)) IN
        kept \in Seq(Nat) /\ Rises(kept) /\ ToSet(kept) = ToSet(items) \cap (For(a) \ ToSet(d.got))
    BY <1>1, AmongRises
  <2>2. ToSet(items) \cap ToSet(d.got) = {}
    <3> SUFFICES ASSUME NEW x \in ToSet(items), x \in ToSet(d.got) PROVE FALSE OBVIOUS
    <3> QED BY <1>1, <1>3, <1>5
  <2> QED BY <2>1, <2>2, <1>1
<1> HIDE DEF more
<1>7. Rises(d.got) BY DEF BoxFits
<1>8. /\ e.got \in Seq(Nat) /\ Rises(e.got) /\ ToSet(e.got) = ToSet(d.got) \cup ToSet(items)
  BY <1>2, <1>5, <1>6, <1>7, JoinRises, ZenonT(30)
<1>9. e \in [reading : {NoRead, "going", "ended"}, after : Nat, got : Seq(Nat), marks : Seq(Nat)]
  <2>1. e = [d EXCEPT !.got = e.got, !.after = next, !.reading = IF next = 0 THEN "ended" ELSE "going"]
    BY <1>2 DEF page, next, items
  <2> HIDE DEF e
  <2> QED BY <2>1, <1>1, <1>8
<1> HIDE DEF e
<1>10. ASSUME NEW x \in ToSet(e.got), NEW y \in For(a), y < x
       PROVE  y \in ToSet(e.got) \cup ToSet(have)
  <2>1. CASE x \in ToSet(d.got) BY <2>1, <1>8, <1>10 DEF BoxFits
  <2>2. CASE x \in ToSet(items) /\ y \in Seen(a) BY <2>2 DEF BoxFits
  <2>3. CASE x \in ToSet(items) /\ y \notin Seen(a) /\ y > d.after BY <2>3, <1>1, <1>8, <1>10
  <2>4. CASE ~(y > d.after) /\ d.after \in ToSet(d.got)
    <3>1. y \in Nat /\ y <= d.after BY <2>4, <1>3
    <3>2. y = d.after \/ y < d.after BY <3>1
    <3> QED BY <2>4, <3>2, <1>8 DEF BoxFits
  <2>5. CASE ~(y > d.after) /\ d.after = 0
    <3>1. y \in 1..Len(arrived) BY ListedIs
    <3> QED BY <3>1, <2>5
  <2> QED BY <2>1, <2>2, <2>3, <2>4, <2>5, <1>4, <1>8
<1>11. e.reading = "going" => e.after \in ToSet(e.got) /\ \A x \in ToSet(e.got) : x <= e.after
  <2> SUFFICES ASSUME e.reading = "going"
               PROVE  next \in ToSet(e.got) /\ \A x \in ToSet(e.got) : x <= next
    BY <1>2
  <2>1. next # 0 BY <1>2
  <2>2. next \in ToSet(items) /\ \A x \in ToSet(items) : x <= next BY <1>1, <2>1
  <2>3. ASSUME NEW x \in ToSet(d.got) PROVE x <= next
    <3>1. x < next BY <1>5, <2>2
    <3>2. x \in Nat /\ next \in Nat BY <1>1, <1>3 DEF BoxFits
    <3> QED BY <3>1, <3>2
  <2> QED BY <2>2, <2>3, <1>8
<1>12. ToSet(e.got) \subseteq For(a) /\ ToSet(e.marks) \subseteq ToSet(have)
  BY <1>1, <1>2, <1>8 DEF BoxFits
<1>13. BoxFits(For(a), have, Seen(a), e) BY <1>8, <1>10, <1>11, <1>12 DEF BoxFits
<1> QED BY <1>9, <1>13 DEF e, page, WithPage

-----------------------------------------------------------------------------
(***************************************************************************)
(* Every step of the mail keeps it.                                          *)
(***************************************************************************)
LEMMA MailInitKeeps == MailInit => MailKeeps
<1> SUFFICES ASSUME MailInit PROVE MailKeeps OBVIOUS
<1>1. MailFits BY DEF MailInit, MailFits, Awake, EmptyDesk, NoRead
<1>2. ToSet(<<>>) = {} /\ Rises(<<>>) BY DEF ToSet, Rises
<1>3. ASSUME NEW a \in Peers PROVE BoxFits(For(a), letters[a], Seen(a), desk[a])
  <2>1. letters[a] = <<>> /\ desk[a] = EmptyDesk /\ Seen(a) = {} BY DEF MailInit, Seen
  <2> QED BY <2>1, <1>2 DEF BoxFits, NoGap, EmptyDesk, NoRead
<1>4. ASSUME NEW a \in Peers PROVE WaitFits(For(a), Seen(a), waits[a])
  BY DEF MailInit, WaitFits, Awake
<1>5. FilesStayWithTo /\ rung <= Len(arrived) BY DEF MailInit, FilesStayWithTo
<1> QED BY <1>1, <1>3, <1>4, <1>5 DEF MailKeeps

LEMMA ForStays ==
    ASSUME UNCHANGED arrived, NEW a
    PROVE  For(a)' = For(a)
BY DEF For, ItemFor

LEMMA ForGrows ==
    ASSUME arrived \in Seq(Arrivals), NEW record \in Arrivals, arrived' = Append(arrived, record), NEW a
    PROVE  /\ For(a) \in SUBSET Nat /\ For(a)' \in SUBSET Nat /\ For(a) \subseteq For(a)'
           /\ \A x \in For(a), y \in For(a)' \ For(a) : x < y
<1>1. /\ arrived' \in Seq(Arrivals) /\ Len(arrived) \in Nat /\ DOMAIN arrived = 1..Len(arrived)
      /\ DOMAIN arrived' = 1..(Len(arrived) + 1)
      /\ \A i \in 1..Len(arrived) : arrived'[i] = arrived[i]
  OBVIOUS
<1>2. For(a) \subseteq 1..Len(arrived) /\ For(a)' \subseteq 1..(Len(arrived) + 1) BY <1>1 DEF For
<1>3. \A i \in 1..Len(arrived) : ItemFor(a, i)' = ItemFor(a, i) BY <1>1 DEF ItemFor
<1>4. \A i \in 1..Len(arrived) : i \in For(a)' <=> i \in For(a) BY <1>1, <1>3 DEF For
<1>5. \A y \in For(a)' \ For(a) : y = Len(arrived) + 1 BY <1>1, <1>2, <1>4
<1> QED BY <1>1, <1>2, <1>4, <1>5

\* What holds of the steps of the state behind a lock, but for what they change.
LEMMA ArrivalKeeps ==
    ASSUME MailKeeps, NEW record \in Arrivals, Arrives(record),
           UNCHANGED <<scene, marked, shelf, rung, waits, desk, letters, given, losses>>
    PROVE  MailKeeps'
<1>1. MailFits /\ rung <= Len(arrived) /\ FilesStayWithTo BY DEF MailKeeps
<1>2. /\ arrived \in Seq(Arrivals) /\ rung \in Nat /\ arrived' = Append(arrived, record)
      /\ arrived' \in Seq(Arrivals) /\ Len(arrived') = Len(arrived) + 1 /\ Len(arrived) \in Nat
      /\ DOMAIN arrived = 1..Len(arrived) /\ \A i \in 1..Len(arrived) : arrived'[i] = arrived[i]
  BY <1>1 DEF MailFits, Arrives
<1>3. MailFits' /\ rung' <= Len(arrived') BY <1>1, <1>2 DEF MailFits
<1>4. ASSUME NEW a \in Peers PROVE BoxFits(For(a), letters[a], Seen(a), desk[a])'
  <2>1. letters'[a] = letters[a] /\ desk'[a] = desk[a] /\ Seen(a)' = Seen(a) BY DEF Seen
  <2>2. BoxFits(For(a), letters[a], Seen(a), desk[a]) BY DEF MailKeeps
  <2> QED BY <1>2, <2>1, <2>2, ForGrows, BoxGrows
<1>5. ASSUME NEW a \in Peers PROVE WaitFits(For(a), Seen(a), waits[a])'
  <2>1. WaitFits(For(a), Seen(a), waits[a]) BY DEF MailKeeps
  <2>2. rung' # Len(arrived') BY <1>1, <1>2
  <2> QED BY <2>1, <2>2 DEF WaitFits
<1>6. FilesStayWithTo'
  <2> SUFFICES ASSUME NEW g \in given
               PROVE  g[2] \in ToSet(letters[g[1]]) /\ g[1] \in ToSet(arrived'[g[2]].to)
    BY DEF FilesStayWithTo
  <2>1. g[2] \in ToSet(letters[g[1]]) /\ g[1] \in ToSet(arrived[g[2]].to) /\ g[1] \in Peers
    BY <1>1 DEF FilesStayWithTo, MailFits
  <2>2. ToSet(letters[g[1]]) \subseteq For(g[1]) BY <2>1 DEF MailKeeps, BoxFits
  <2>3. g[2] \in 1..Len(arrived) BY <2>1, <2>2, <1>2 DEF For
  <2> QED BY <2>1, <2>3, <1>2
<1> QED BY <1>3, <1>4, <1>5, <1>6 DEF MailKeeps

LEMMA SendKeeps ==
    ASSUME MailKeeps, NEW a \in Peers, SendMail(a) \/ DeliverEntry(a)
    PROVE  MailKeeps'
<1>1. CASE SendMail(a)
  <2>1. PICK d \in Drafts : Arrives([kind |-> "mail", to |-> d.to, cc |-> d.cc, documents |-> d.documents])
    BY <1>1 DEF SendMail
  <2>2. [kind |-> "mail", to |-> d.to, cc |-> d.cc, documents |-> d.documents] \in Arrivals
    BY MailAssumption DEF Arrivals
  <2> QED BY <1>1, <2>1, <2>2, ArrivalKeeps DEF SendMail
<1>2. CASE DeliverEntry(a)
  <2>1. [kind |-> "entry", to |-> <<a>>, cc |-> <<>>, documents |-> <<>>] \in Arrivals
    BY DEF Arrivals
  <2> QED BY <1>2, <2>1, ArrivalKeeps DEF DeliverEntry
<1> QED BY <1>1, <1>2

LEMMA InboxStays ==
    ASSUME MailKeeps, UNCHANGED <<arrived, marked, desk, letters>>
    PROVE  \A a \in Peers : /\ BoxFits(For(a), letters[a], Seen(a), desk[a])'
                            /\ For(a)' = For(a) /\ Seen(a)' = Seen(a)
<1> SUFFICES ASSUME NEW a \in Peers
             PROVE  /\ BoxFits(For(a), letters[a], Seen(a), desk[a])'
                    /\ For(a)' = For(a) /\ Seen(a)' = Seen(a)
  OBVIOUS
<1>1. For(a)' = For(a) /\ Seen(a)' = Seen(a) BY ForStays DEF Seen
<1>2. BoxFits(For(a), letters[a], Seen(a), desk[a]) BY DEF MailKeeps
<1> QED BY <1>1, <1>2

LEMMA AnnounceKeeps ==
    ASSUME MailKeeps, Announce
    PROVE  MailKeeps'
<1>1. MailFits /\ rung < Len(arrived) /\ rung' = rung + 1 /\ rung \in Nat /\ Len(arrived) \in Nat
  BY DEF MailKeeps, MailFits, Announce
<1>2. MailFits' /\ (rung <= Len(arrived))' /\ FilesStayWithTo'
  BY <1>1 DEF Announce, MailKeeps, MailFits, FilesStayWithTo
<1>3. \A a \in Peers : /\ BoxFits(For(a), letters[a], Seen(a), desk[a])'
                       /\ For(a)' = For(a) /\ Seen(a)' = Seen(a)
  BY InboxStays DEF Announce
<1>4. ASSUME NEW a \in Peers PROVE WaitFits(For(a), Seen(a), waits[a])'
  <2>1. WaitFits(For(a), Seen(a), waits[a]) BY DEF MailKeeps
  <2>2. waits[a].heard \in Nat /\ waits'[a] = waits[a] BY <1>1 DEF MailFits, Announce
  <2>3. waits[a].heard <= rung BY <2>1 DEF WaitFits
  <2>4. waits'[a].heard <= rung' /\ waits'[a].heard # rung' BY <1>1, <2>2, <2>3
  <2> QED BY <2>4 DEF WaitFits
<1> QED BY <1>2, <1>3, <1>4 DEF MailKeeps

LEMMA WaitKeeps ==
    ASSUME MailKeeps, NEW a \in Peers, Subscribe(a) \/ Look(a) \/ Listen(a) \/ Hear(a)
    PROVE  MailKeeps'
<1>1. MailFits /\ rung \in Nat /\ waits[a].heard \in Nat BY DEF MailKeeps, MailFits
<1>2. UNCHANGED <<scene, arrived, marked, shelf, rung, desk, letters, given, losses>>
  BY DEF Subscribe, Look, Listen, Hear
<1>3. \A b \in Peers : /\ BoxFits(For(b), letters[b], Seen(b), desk[b])'
                       /\ For(b)' = For(b) /\ Seen(b)' = Seen(b)
  BY <1>2, InboxStays
<1>4. WaitFits(For(a), Seen(a), waits[a]) BY DEF MailKeeps
<1>5. PICK call \in [pc : {"idle", "looks", "listens", "sleeps"}, heard : Nat] :
        waits' = [waits EXCEPT ![a] = call] /\ WaitFits(For(a), Seen(a), call)
  <2>1. waits[a] \in [pc : {"idle", "looks", "listens", "sleeps"}, heard : Nat] BY <1>1 DEF MailFits
  <2>2. CASE Subscribe(a) \/ Hear(a)
    <3> DEFINE call == [pc |-> "looks", heard |-> rung]
    <3>1. waits' = [waits EXCEPT ![a] = call] BY <2>2 DEF Subscribe, Hear
    <3>2. WaitFits(For(a), Seen(a), call) BY <1>1 DEF WaitFits
    <3> QED BY <1>1, <3>1, <3>2
  <2>3. CASE Look(a) /\ UnreadBy(a) # <<>>
    <3>1. waits' = [waits EXCEPT ![a] = Awake] BY <2>3 DEF Look
    <3>2. WaitFits(For(a), Seen(a), Awake) BY <1>1 DEF WaitFits, Awake
    <3> QED BY <3>1, <3>2 DEF Awake
  <2>4. CASE Look(a) /\ UnreadBy(a) = <<>>
    <3> DEFINE call == [waits[a] EXCEPT !.pc = "listens"]
    <3>1. waits' = [waits EXCEPT ![a] = call] BY <2>4 DEF Look
    <3>2. For(a) \subseteq Seen(a) BY <1>1, <2>4, UnreadNone DEF MailFits
    <3>3. call.heard = waits[a].heard BY <2>1
    <3>4. WaitFits(For(a), Seen(a), call) BY <1>4, <3>2, <3>3 DEF WaitFits
    <3> QED BY <2>1, <3>1, <3>4
  <2>5. CASE Listen(a)
    <3> DEFINE call == [waits[a] EXCEPT !.pc = "sleeps"]
    <3>1. waits' = [waits EXCEPT ![a] = call] BY <2>5 DEF Listen, Asleep
    <3>2. call.heard = waits[a].heard /\ waits[a].pc = "listens" BY <2>1, <2>5 DEF Listen
    <3>3. WaitFits(For(a), Seen(a), call) BY <1>4, <3>2 DEF WaitFits
    <3> QED BY <2>1, <3>1, <3>3
  <2> QED BY <2>2, <2>3, <2>4, <2>5
<1>6. waits' \in [Peers -> [pc : {"idle", "looks", "listens", "sleeps"}, heard : Nat]]
  BY <1>1, <1>5 DEF MailFits
<1>7. MailFits' /\ (rung <= Len(arrived))' /\ FilesStayWithTo'
  BY <1>1, <1>2, <1>6 DEF MailKeeps, MailFits, FilesStayWithTo
<1>8. ASSUME NEW b \in Peers PROVE WaitFits(For(b), Seen(b), waits[b])'
  <2>1. WaitFits(For(b), Seen(b), waits[b]) BY DEF MailKeeps
  <2>2. CASE b = a
    <3>1. waits'[b] = call BY <1>1, <1>5, <2>2 DEF MailFits
    <3> QED BY <1>2, <1>3, <1>5, <2>2, <3>1 DEF WaitFits
  <2>3. CASE b # a
    <3>1. waits'[b] = waits[b] BY <1>1, <1>5, <2>3 DEF MailFits
    <3> QED BY <1>2, <1>3, <2>1, <3>1 DEF WaitFits
  <2> QED BY <2>2, <2>3
<1> QED BY <1>3, <1>7, <1>8 DEF MailKeeps

LEMMA ShelfKeeps ==
    ASSUME MailKeeps, NEW a \in Peers, PutDocument \/ GetMailFiles(a) \/ UNCHANGED mailvars
    PROVE  MailKeeps'
<1>1. MailFits BY DEF MailKeeps
<1>2. UNCHANGED <<arrived, marked, rung, waits, desk, letters>>
  BY DEF PutDocument, GetMailFiles, mailvars
<1>3. \A b \in Peers : /\ BoxFits(For(b), letters[b], Seen(b), desk[b])'
                       /\ For(b)' = For(b) /\ Seen(b)' = Seen(b)
  BY <1>2, InboxStays
<1>4. ASSUME NEW b \in Peers PROVE WaitFits(For(b), Seen(b), waits[b])'
  <2>1. WaitFits(For(b), Seen(b), waits[b]) BY DEF MailKeeps
  <2> QED BY <1>2, <1>3, <2>1 DEF WaitFits
<1>5. given' \subseteq Peers \X Nat /\ FilesStayWithTo'
  <2>1. CASE GetMailFiles(a)
    <3>1. PICK i \in ToSet(letters[a]) : FilesFor(a, i) /\ given' = given \cup {<<a, i>>}
      BY <2>1 DEF GetMailFiles
    <3>2. i \in For(a) /\ For(a) \subseteq Nat
      <4>1. ToSet(letters[a]) \subseteq For(a) BY DEF MailKeeps, BoxFits
      <4> QED BY <1>1, <4>1, ListedIs DEF MailFits
    <3>3. a \in ToSet(arrived[i].to)
      <4>1. i \in DOMAIN arrived BY <3>2 DEF For
      <4>2. arrived[i] \in Arrivals BY <1>1, <4>1 DEF MailFits
      <4>3. arrived[i].kind = "mail" \/ arrived[i].kind = "entry" BY <4>2 DEF Arrivals
      <4>4. ItemFor(a, i) = "to" BY <3>1 DEF FilesFor
      <4> QED BY <4>3, <4>4 DEF ItemFor
    <3>4. given \subseteq Peers \X Nat /\ FilesStayWithTo BY <1>1 DEF MailFits, MailKeeps
    <3> QED BY <1>2, <3>1, <3>2, <3>3, <3>4 DEF FilesStayWithTo
  <2>2. CASE UNCHANGED given BY <1>1, <1>2, <2>2 DEF MailFits, MailKeeps, FilesStayWithTo
  <2> QED BY <2>1, <2>2 DEF PutDocument, mailvars
<1>6. MailFits' BY <1>1, <1>2, <1>5 DEF MailFits
<1>7. (rung <= Len(arrived))' BY <1>2 DEF MailKeeps
<1> QED BY <1>3, <1>4, <1>5, <1>6, <1>7 DEF MailKeeps

\* A step of the instance of one agent changes nothing for the others.
LEMMA DeskKeeps ==
    ASSUME MailKeeps, NEW a \in Peers, UNCHANGED <<arrived, rung, waits, given>>,
           NEW have \in Seq(Nat), ToSet(letters[a]) \subseteq ToSet(have),
           letters' = [letters EXCEPT ![a] = have],
           NEW d \in [reading : {NoRead, "going", "ended"}, after : Nat,
                      got : Seq(Nat), marks : Seq(Nat)],
           desk' = [desk EXCEPT ![a] = d],
           NEW seen, Seen(a) \subseteq seen, Seen(a)' = seen,
           \A b \in Peers \ {a} : Seen(b)' = Seen(b),
           BoxFits(For(a), have, seen, d)
    PROVE  MailKeeps'
<1>1. MailFits BY DEF MailKeeps
<1>2. /\ letters' \in [Peers -> Seq(Nat)] /\ letters'[a] = have /\ desk'[a] = d
      /\ desk' \in [Peers -> [reading : {NoRead, "going", "ended"}, after : Nat,
                              got : Seq(Nat), marks : Seq(Nat)]]
      /\ \A b \in Peers \ {a} : letters'[b] = letters[b] /\ desk'[b] = desk[b]
  BY <1>1 DEF MailFits
<1>3. MailFits' /\ (rung <= Len(arrived))' BY <1>1, <1>2 DEF MailFits, MailKeeps
<1>4. ASSUME NEW b \in Peers
      PROVE  /\ BoxFits(For(b), letters[b], Seen(b), desk[b])'
             /\ WaitFits(For(b), Seen(b), waits[b])'
  <2>1. For(b)' = For(b) BY ForStays
  <2>2. /\ BoxFits(For(b), letters[b], Seen(b), desk[b])
        /\ WaitFits(For(b), Seen(b), waits[b])
    BY DEF MailKeeps
  <2>3. CASE b = a
    <3>1. BoxFits(For(b), letters[b], Seen(b), desk[b])' BY <1>2, <2>1, <2>3
    <3>2. WaitFits(For(b), Seen(b), waits[b])' BY <2>1, <2>2, <2>3 DEF WaitFits
    <3> QED BY <3>1, <3>2
  <2>4. CASE b # a
    <3>1. Seen(b)' = Seen(b) BY <2>4
    <3>2. BoxFits(For(b), letters[b], Seen(b), desk[b])' BY <1>2, <2>1, <2>2, <2>4, <3>1
    <3>3. WaitFits(For(b), Seen(b), waits[b])' BY <2>1, <2>2, <3>1 DEF WaitFits
    <3> QED BY <3>2, <3>3
  <2> QED BY <2>3, <2>4
<1>5. FilesStayWithTo'
  <2> SUFFICES ASSUME NEW g \in given
               PROVE  g[2] \in ToSet(letters'[g[1]]) /\ g[1] \in ToSet(arrived[g[2]].to)
    BY DEF FilesStayWithTo
  <2>1. g[2] \in ToSet(letters[g[1]]) /\ g[1] \in ToSet(arrived[g[2]].to) /\ g[1] \in Peers
    BY <1>1 DEF MailKeeps, FilesStayWithTo, MailFits
  <2> QED BY <1>2, <2>1
<1> QED BY <1>3, <1>4, <1>5 DEF MailKeeps

LEMMA ReadPageKeeps ==
    ASSUME MailKeeps, NEW a \in Peers, ReadPage(a) \/ LoseDesk(a)
    PROVE  MailKeeps'
<1> DEFINE Desks == [reading : {NoRead, "going", "ended"}, after : Nat,
                     got : Seq(Nat), marks : Seq(Nat)]
<1>1. MailFits /\ arrived \in Seq(Arrivals) /\ letters[a] \in Seq(Nat) /\ desk[a] \in Desks
  BY DEF MailKeeps, MailFits
<1>2. BoxFits(For(a), letters[a], Seen(a), desk[a]) BY DEF MailKeeps
<1>3. UNCHANGED <<arrived, rung, waits, given, letters, marked>> BY DEF ReadPage, LoseDesk
<1>4. letters' = [letters EXCEPT ![a] = letters[a]] BY <1>1, <1>3 DEF MailFits
<1>5. \A b \in Peers : Seen(b)' = Seen(b) BY <1>3 DEF Seen
<1>6. PICK d \in Desks : desk' = [desk EXCEPT ![a] = d] /\ BoxFits(For(a), letters[a], Seen(a), d)
  <2>1. CASE ReadPage(a)
    <3>1. desk' = [desk EXCEPT ![a] = WithPage(a, desk[a])] BY <2>1 DEF ReadPage
    <3>2. desk[a].reading = "going" BY <2>1 DEF ReadPage
    <3>3. desk[a].got \in Seq(Nat) /\ desk[a].after \in Nat BY <1>1
    <3>4. /\ WithPage(a, desk[a]) \in Desks
          /\ BoxFits(For(a), letters[a], Seen(a), WithPage(a, desk[a]))
      BY <1>1, <1>2, <3>2, <3>3, BoxPaged
    <3> QED BY <3>1, <3>4
  <2>2. CASE LoseDesk(a)
    <3>1. desk' = [desk EXCEPT ![a] = EmptyDesk] BY <2>2 DEF LoseDesk
    <3>2. EmptyDesk \in Desks BY DEF EmptyDesk
    <3> QED BY <1>2, <3>1, <3>2, BoxEmptied
  <2> QED BY <2>1, <2>2
<1> QED BY <1>1, <1>3, <1>4, <1>5, <1>6, DeskKeeps

LEMMA MailDrainKeeps ==
    ASSUME MailKeeps, NEW a \in Peers, Drain(a)
    PROVE  MailKeeps'
<1> DEFINE held == Among(desk[a].got, ToSet(letters[a]))
           fresh == Among(desk[a].got, For(a) \ ToSet(letters[a]))
           have == letters[a] \o fresh
           d == [reading |-> "going", after |-> 0, got |-> <<>>, marks |-> held \o fresh]
<1>1. /\ arrived \in Seq(Arrivals) /\ letters[a] \in Seq(Nat) /\ letters \in [Peers -> Seq(Nat)]
      /\ desk[a].got \in Seq(Nat)
  BY DEF MailKeeps, MailFits
<1>2. BoxFits(For(a), letters[a], Seen(a), desk[a]) BY DEF MailKeeps
<1>3. UNCHANGED <<arrived, rung, waits, given, marked>> BY DEF Drain
<1>4. letters' = [letters EXCEPT ![a] = have] /\ desk' = [desk EXCEPT ![a] = d] BY DEF Drain
<1>5. For(a) \in SUBSET Nat BY <1>1, ListedIs
<1>6. /\ held \o fresh \in Seq(Nat) /\ have \in Seq(Nat)
      /\ ToSet(letters[a]) \subseteq ToSet(have) /\ BoxFits(For(a), have, Seen(a), d)
  <2> HIDE DEF held, fresh, have, d
  <2> QED BY <1>1, <1>2, <1>5, BoxDrained DEF held, fresh, have, d
<1>7. d \in [reading : {NoRead, "going", "ended"}, after : Nat, got : Seq(Nat), marks : Seq(Nat)]
  <2>1. held \o fresh \in Seq(Nat) BY <1>6
  <2> HIDE DEF held, fresh
  <2> QED BY <2>1
<1>8. \A b \in Peers : Seen(b)' = Seen(b) BY <1>3 DEF Seen
<1> HIDE DEF held, fresh, have, d
<1> QED BY <1>3, <1>4, <1>6, <1>7, <1>8, DeskKeeps

LEMMA MarkReadKeeps ==
    ASSUME MailKeeps, NEW a \in Peers, MarkRead(a)
    PROVE  MailKeeps'
<1> DEFINE d == [desk[a] EXCEPT !.marks = Tail(@)]
           Desks == [reading : {NoRead, "going", "ended"}, after : Nat,
                     got : Seq(Nat), marks : Seq(Nat)]
<1>1. MailFits /\ letters[a] \in Seq(Nat) /\ desk[a] \in Desks BY DEF MailKeeps, MailFits
<1>2. BoxFits(For(a), letters[a], Seen(a), desk[a]) BY DEF MailKeeps
<1>3. /\ desk[a].marks # <<>> /\ desk[a].marks \in Seq(Nat)
      /\ marked' = marked \cup {<<a, Head(desk[a].marks)>>}
      /\ UNCHANGED <<arrived, rung, waits, given, letters>>
  BY <1>1 DEF MarkRead
<1>4. letters' = [letters EXCEPT ![a] = letters[a]] BY <1>1, <1>3 DEF MailFits
<1>5. desk' = [desk EXCEPT ![a] = d] BY <1>1 DEF MarkRead, MailFits
<1>6. Tail(desk[a].marks) \in Seq(Nat) /\ Head(desk[a].marks) \in Nat BY <1>3
<1>7. d \in Desks BY <1>1, <1>6
<1>8. Seen(a)' = Seen(a) \cup {Head(desk[a].marks)} BY <1>3, <1>6 DEF Seen
<1>9. \A b \in Peers \ {a} : Seen(b)' = Seen(b) BY <1>3 DEF Seen
<1>10. BoxFits(For(a), letters[a], Seen(a) \cup {Head(desk[a].marks)}, d)
  BY <1>2, <1>3, BoxMarked
<1> HIDE DEF d
<1> QED BY <1>1, <1>3, <1>4, <1>5, <1>7, <1>8, <1>9, <1>10, DeskKeeps

LEMMA MailNextKeeps ==
    ASSUME MailKeeps, [MailNext]_mailvars PROVE MailKeeps'
<1>1. CASE UNCHANGED mailvars
  <2>1. CASE Peers = {}
    <3>1. UNCHANGED <<arrived, rung, waits, desk, letters, given>> BY <1>1 DEF mailvars
    <3> QED BY <2>1, <3>1 DEF MailKeeps, MailFits, FilesStayWithTo
  <2>2. CASE Peers # {} BY <1>1, <2>2, ShelfKeeps
  <2> QED BY <2>1, <2>2
<1>2. CASE PutDocument
  <2>1. CASE Peers = {}
    <3>1. UNCHANGED <<arrived, rung, waits, desk, letters, given>> BY <1>2 DEF PutDocument
    <3> QED BY <2>1, <3>1 DEF MailKeeps, MailFits, FilesStayWithTo
  <2>2. CASE Peers # {} BY <1>2, <2>2, ShelfKeeps
  <2> QED BY <2>1, <2>2
<1>3. CASE Announce BY <1>3, AnnounceKeeps
<1>4. ASSUME NEW a \in Peers,
             \/ SendMail(a) \/ DeliverEntry(a) \/ GetMailFiles(a)
             \/ Subscribe(a) \/ Look(a) \/ Listen(a) \/ Hear(a)
             \/ ReadPage(a) \/ Drain(a) \/ MarkRead(a) \/ LoseDesk(a)
      PROVE  MailKeeps'
  BY <1>4, SendKeeps, ShelfKeeps, WaitKeeps, ReadPageKeeps, MailDrainKeeps, MarkReadKeeps
<1> QED BY <1>1, <1>2, <1>3, <1>4 DEF MailNext

\* The invariant of the mail, over any interleaving of the agents and their losses.
THEOREM MailIsKept == MailSpec => []MailKeeps
<1>1. MailInit => MailKeeps BY MailInitKeeps
<1>2. MailKeeps /\ [MailNext]_mailvars => MailKeeps' BY MailNextKeeps
<1> QED BY <1>1, <1>2, PTL DEF MailSpec

\* MemoryInbox::items and store_at_boundary: a conversation holds a prefix of what
\* arrived for its agent, what it does not hold is still unread, and get_mail_files
\* gives documents to those a mail is addressed to only.
THEOREM MailIsDelivered == MailSpec => []MailReachesItsOwn
<1>1. MailKeeps => MailReachesItsOwn
  <2> SUFFICES ASSUME MailKeeps PROVE MailReachesItsOwn OBVIOUS
  <2>1. arrived \in Seq(Arrivals) /\ letters \in [Peers -> Seq(Nat)] /\ FilesStayWithTo
    BY DEF MailKeeps, MailFits
  <2>2. ASSUME NEW a \in Peers PROVE IsPrefix(letters[a], Listed(a))
    <3>1. /\ Listed(a) \in Seq(Nat) /\ Rises(Listed(a)) /\ ToSet(Listed(a)) = For(a)
          /\ letters[a] \in Seq(Nat)
      BY <2>1, ListedIs
    <3>2. /\ Rises(letters[a]) /\ ToSet(letters[a]) \subseteq For(a)
          /\ NoGap(ToSet(letters[a]), For(a))
      BY DEF MailKeeps, BoxFits
    <3> QED BY <3>1, <3>2, SameBeginning DEF NoGap
  <2>3. ASSUME NEW a \in Peers, NEW i \in DOMAIN arrived, ItemFor(a, i) # "none"
        PROVE  i \in ToSet(letters[a]) \cup ToSet(UnreadBy(a))
    <3>1. ToSet(UnreadBy(a)) = For(a) \ Seen(a) BY <2>1, UnreadIs
    <3>2. Seen(a) \subseteq ToSet(letters[a]) BY DEF MailKeeps, BoxFits
    <3>3. i \in For(a) BY <2>3 DEF For
    <3> QED BY <3>1, <3>2, <3>3
  <2> QED BY <2>1, <2>2, <2>3 DEF MailReachesItsOwn, NoLetterSkipped, NoLetterHidden
<1> QED BY <1>1, MailIsKept, PTL

\* MemoryInbox::wait subscribes before it looks: whoever sleeps with something unread
\* was rung since, or is about to be.
THEOREM SleepersAreRung == MailSpec => []NoDeafSleeper
<1>1. MailKeeps => NoDeafSleeper
  <2> SUFFICES ASSUME MailKeeps, NEW a \in Peers, waits[a].pc \in {"listens", "sleeps"},
                      UnreadBy(a) # <<>>
               PROVE  waits[a].heard # rung \/ rung < Len(arrived)
    BY DEF NoDeafSleeper
  <2>1. arrived \in Seq(Arrivals) /\ rung \in Nat /\ rung <= Len(arrived) BY DEF MailKeeps, MailFits
  <2>2. ~(For(a) \subseteq Seen(a)) BY <2>1, UnreadNone
  <2>3. WaitFits(For(a), Seen(a), waits[a]) BY DEF MailKeeps
  <2> QED BY <2>1, <2>2, <2>3 DEF WaitFits
<1> QED BY <1>1, MailIsKept, PTL
=============================================================================
