--------------------------- MODULE DurableAgent_proofs ---------------------------
(***************************************************************************)
(* Proofs about one call of an agent, over runs that fail, are lost and are     *)
(* started again: for every way of building it and every round limit, what a     *)
(* node reads is what the thread holds, a turn has one writer, the bounds of the  *)
(* call are kept, and a call that was answered is answered the same.           *)
(***************************************************************************)
EXTENDS DurableAgent, Lists_proofs

LEMMA MaxIs ==
    ASSUME NEW S \in SUBSET Int, S # {}, NEW b \in Int, \A x \in S : x <= b
    PROVE  Max(S) \in S /\ \A x \in S : x <= Max(S)
<1> DEFINE Gaps == {b - x : x \in S}
<1>1. Gaps \in SUBSET Nat /\ Gaps # {}
  <2>1. \A x \in S : x \in Int /\ x <= b OBVIOUS
  <2>2. \A x \in S : b - x \in Nat BY <2>1
  <2> QED BY <2>2
<1>2. PICK m \in Gaps : \A k \in Gaps : m <= k
  <2> HIDE DEF Gaps
  <2> QED BY <1>1, LeastNumber
<1>3. PICK y \in S : m = b - y OBVIOUS
<1>4. \A x \in S : b - x \in Gaps /\ m <= b - x BY <1>2
<1>5. \A x \in S : x <= y
  <2> TAKE x \in S
  <2>1. x \in Int /\ y \in Int /\ b - y <= b - x BY <1>3, <1>4
  <2> QED BY <2>1
<1>6. \A x \in S : y >= x BY <1>5
<1> HIDE DEF Gaps
<1>7. Max(S) \in S /\ \A x \in S : Max(S) >= x BY <1>6, Zenon DEF Max
<1> QED BY <1>7

\* The last turn of the agent, when it is the last of all.
LEMMA LastByIs ==
    ASSUME NEW c, NEW rank \in Int, \A r \in DOMAIN c : r \in Int /\ r <= rank,
           rank \in DOMAIN c, c[rank].by = Author
    PROVE  LastBy(c, Author) = rank
<1> DEFINE S == TurnsBy(c, Author)
<1>1. S \in SUBSET Int /\ rank \in S /\ \A x \in S : x <= rank BY DEF TurnsBy
<1> HIDE DEF S
<1>2. Max(S) \in S /\ \A x \in S : x <= Max(S) BY <1>1, MaxIs
<1>3. Max(S) = rank
  <2>1. Max(S) \in Int /\ Max(S) <= rank /\ rank <= Max(S) BY <1>1, <1>2
  <2> QED BY <2>1
<1>4. LastBy(c, Author) = Max(S) BY <1>1 DEF LastBy, S
<1> QED BY <1>3, <1>4

\* What the routing tells apart.
LEMMA KindRange ==
    ASSUME NEW c, NEW l, NEW b \in Int, \A r \in DOMAIN c : r \in Int /\ r <= b
    PROVE  LastKind(c, l) \in {"none", "generation"} \cup Judgments
<1> DEFINE S == CallTurns(c, l)
<1>1. CASE S = {} BY <1>1 DEF LastKind
<1>2. CASE S # {}
  <2>1. S \in SUBSET Int /\ \A x \in S : x <= b BY DEF CallTurns
  <2> HIDE DEF S
  <2>2. Max(S) \in S BY <1>2, <2>1, MaxIs
  <2>3. LastKind(c, l) = Kind(c[Max(S)]) BY <1>2 DEF LastKind, S
  <2>4. Kind(c[Max(S)]) \in {"none", "generation"} \cup Judgments BY DEF Kind
  <2> QED BY <2>3, <2>4
<1> QED BY <1>1, <1>2

LEMMA RoutesAre ==
    ASSUME NEW c, NEW l, NEW b \in Int, \A r \in DOMAIN c : r \in Int /\ r <= b
    PROVE  /\ EntryRoute(c, l) \in {"llm", "check", "critique", "finish"}
           /\ AfterCheck(c, l) \in {"llm", "critique", "finish"}
           /\ AfterCritique(c, l) \in {"llm", "finish"}
<1> DEFINE k == LastKind(c, l)
<1>1. k \in {"none", "generation", "critique", "revision", "acceptance"} BY KindRange DEF Judgments
<1>2. /\ AfterRejection(c, l) \in {"llm", "finish"} /\ AfterPass(c, l) \in {"critique", "finish"}
      /\ RevisionFound(c, l) \in {"llm", "critique", "finish"}
  BY DEF AfterRejection, AfterPass, RevisionFound
<1>3. EntryRoute(c, l) \in {"llm", "check", "critique", "finish"}
  <2>1. EntryRoute(c, l) = CASE k = "none" -> "llm"
                             [] k = "generation" -> "check"
                             [] k = "critique" -> AfterRejection(c, l)
                             [] k = "revision" -> RevisionFound(c, l)
                             [] k = "acceptance" -> "finish"
    BY Zenon DEF EntryRoute
  <2> HIDE DEF k
  <2> QED BY <1>1, <1>2, <2>1
<1>4. AfterCheck(c, l) \in {"llm", "critique", "finish"}
  <2>1. AfterCheck(c, l) = CASE k = "revision" -> "llm"
                             [] k = "critique" -> AfterRejection(c, l)
                             [] k = "generation" -> AfterPass(c, l)
                             [] OTHER -> "finish"
    BY Zenon DEF AfterCheck
  <2> HIDE DEF k
  <2> QED BY <1>1, <1>2, <2>1
<1>5. AfterCritique(c, l) \in {"llm", "finish"} BY <1>2 DEF AfterCritique
<1> QED BY <1>3, <1>4, <1>5

-----------------------------------------------------------------------------
(***************************************************************************)
(* The invariant.  At each call of the store and of a model, it says how far the *)
(* conversation is behind the thread: by the items of the turn being written,    *)
(* which is the last one and is open for the run that writes it.               *)
(***************************************************************************)
Pcs == AtNode \cup Over \cup {"enter", "stream", "complete", "closing", "closed", "record", "recording",
                              "recorded"}
Authors == {"generator", "critic"}
Turns == [by : Authors, items : Seq(Items)]
Stored == [by : Authors, items : Seq(Items), partial : BOOLEAN,
           status : {"streaming", "completed", "failed"}, run : Nat]

\* A turn that is not the last is not open, a completed one ends with a step, and
\* the critic calls no tool.
Sound(th) ==
    /\ th \in Seq(Stored)
    /\ \A r \in DOMAIN th :
         /\ th[r].status = "streaming" => r = Len(th)
         /\ th[r].status = "completed" => th[r].items # <<>> /\ Last(th[r].items) \notin Results
         /\ th[r].by = "critic" => \A i \in DOMAIN th[r].items : th[r].items[i] \notin Results \cup {"call"}

Own(by) ==
    /\ thread # <<>> /\ Last(thread).status = "streaming" /\ Last(thread).run = run
    /\ Last(thread).by = by
Closed == thread # <<>> => Last(thread).status # "streaming"

\* Where the call stands: at its last turn, which this run wrote or found answered, or after it.
Stands ==
    \/ position.rank = Len(thread) + 1
    \/ /\ position.rank = Len(thread) /\ thread # <<>> /\ Last(thread).items # <<>>

\* What the conversation is behind the thread: the last turn had these items.
Changed(th, turn) == [th EXCEPT ![Len(th)] = turn]
TurnOf(t, items, partial, status) ==
    [by |-> t.by, items |-> items, partial |-> partial, status |-> status, run |-> t.run]
Had(items) == Changed(thread, TurnOf(Last(thread), items, FALSE, "streaming"))
Behind(items) == conv = View(Had(items))

AtLlm ==
    /\ conv = View(thread) /\ Stands
    /\ \/ Closed
       \/ Own(Author) /\ position.rank = Len(thread) /\ Last(Last(thread).items) \in Results
    /\ position.rank = Len(thread) /\ Last(Last(thread).items) \in Results => Own(Author)
AtRest ==
    /\ conv = View(thread) /\ Stands /\ Closed
    /\ position.rank = Len(thread) => Last(Last(thread).items) \notin Results
AtStream ==
    /\ conv = View(thread) /\ Own(Author) /\ writing.rank = Len(thread)
    /\ IF writing.new THEN Last(thread).items = <<>>
       ELSE Last(thread).items # <<>> /\ position.rank = Len(thread)
AtComplete ==
    /\ Own(Author) /\ writing.rank = Len(thread)
    /\ \E items \in Seq(Items) :
         /\ Behind(items) /\ Last(thread).items = Append(items, writing.item)
         /\ IF writing.new THEN items = <<>> ELSE items # <<>> /\ position.rank = Len(thread)
AtTools ==
    /\ conv = View(thread) /\ Own(Author) /\ position.rank = Len(thread)
    /\ Last(thread).items # <<>> /\ Last(Last(thread).items) = "call"
AtClosing(end) ==
    /\ conf.onLimit = "End" /\ Own(Author) /\ position.rank = Len(thread)
    /\ \E items \in Seq(Items) \ {<<>>} :
         Behind(items) /\ Last(thread).items = items \o end
AtRecording == conv = View(thread) /\ Own("critic") /\ writing.rank = Len(thread) /\ Last(thread).items = <<>>
AtRecorded ==
    /\ Own("critic") /\ writing.rank = Len(thread) /\ Last(thread).items = <<writing.item>>
    /\ Behind(<<>>)

ThreadInv ==
    /\ pc \in Pcs
    /\ ~conf.durable => thread = <<>> /\ pc \notin {"complete", "recording", "recorded"}
    /\ conf.durable =>
        /\ Sound(thread)
        /\ pc = "llm" => AtLlm
        /\ pc = "stream" => AtStream
        /\ pc = "complete" => AtComplete
        /\ pc \in {"tools", "limit"} => AtTools
        /\ pc = "limit" => conf.onLimit \in {"End", "Continue"}
        /\ pc = "closing" => AtClosing(<<"refused">>)
        /\ pc = "closed" => AtClosing(<<"refused", "closing">>)
        /\ pc \in {"check", "critique", "answer", "finish", "record"} => AtRest
        /\ pc = "recording" => AtRecording
        /\ pc = "recorded" => AtRecorded

RankInv ==
    /\ position \in [rank : Nat \ {0}, answered : BOOLEAN]
    /\ writing \in [rank : Int, new : BOOLEAN, item : Items \cup {"none"}]
    /\ conv = [r \in DOMAIN conv |-> conv[r]]
    /\ \A r \in DOMAIN conv : r \in Int /\ r <= position.rank /\ conv[r] \in Turns
    /\ position.rank \in DOMAIN conv /\ conv[position.rank].by = "critic" =>
          ~AwaitsStep(conv[position.rank])
    /\ pc \in {"stream", "complete"} =>
         IF writing.new THEN writing.rank = NewRank
         ELSE writing.rank \in DOMAIN conv /\ writing.rank = LastBy(conv, Author)
    /\ pc = "complete" => writing.item \in {"text", "blank"}
    /\ pc \in {"record", "recording", "recorded"} =>
         writing.new /\ writing.rank = NewRank /\ writing.item \in Judgments

\* The turns the last client was asked for are ended.
Settled == \A s \in served : s.rank \in DOMAIN conv /\ ~AwaitsStep(conv[s.rank])

ClientInv ==
    /\ \A s \in served : s.client.turn = s.rank /\ kept \subseteq {s.client}
    /\ \A s, t \in served : s.client = t.client
    /\ pc = "enter" => served = {}
    /\ pc \in {"stream", "tools", "limit", "closing", "closed"} => kept # {}
    /\ pc \in {"stream", "complete"} => \A s \in served : s.rank = writing.rank
    /\ kept = {} => pc \in Over \cup {"complete"} \/ Settled

ConfInv == conf \in Confs /\ run \in Nat
Inv == ConfInv /\ ThreadInv /\ RankInv /\ ClientInv

-----------------------------------------------------------------------------
(***************************************************************************)
(* What a call of the store makes of the last turn of a thread, and of what is   *)
(* read from it.                                                             *)
(***************************************************************************)
LEMMA ChangedIs ==
    ASSUME NEW th \in Seq(Stored), th # <<>>, NEW turn \in Stored
    PROVE  /\ Changed(th, turn) \in Seq(Stored) /\ Len(Changed(th, turn)) = Len(th)
           /\ Len(th) \in Nat \ {0} /\ Len(th) \in DOMAIN th
           /\ DOMAIN th = 1..Len(th) /\ DOMAIN Changed(th, turn) = 1..Len(th)
           /\ Changed(th, turn) # <<>> /\ Last(Changed(th, turn)) = turn
           /\ Last(th) = th[Len(th)] /\ Last(th) \in Stored
           /\ Changed(th, turn)[Len(th)] = turn
           /\ \A r \in DOMAIN th : r # Len(th) => Changed(th, turn)[r] = th[r]
<1>1. Len(th) \in Nat \ {0} /\ DOMAIN th = 1..Len(th) /\ Len(th) \in DOMAIN th BY DEF Last
<1> DEFINE c == Changed(th, turn)
<1>2. /\ c \in [1..Len(th) -> Stored] /\ c[Len(th)] = turn
      /\ \A r \in DOMAIN th : r # Len(th) => c[r] = th[r]
  BY <1>1 DEF Changed
<1> HIDE DEF c
<1>3. c \in Seq(Stored) /\ Len(c) = Len(th) /\ DOMAIN c = 1..Len(th) BY <1>1, <1>2
<1>4. c # <<>> BY <1>1, <1>3
<1>5. Last(c) = turn /\ Last(th) = th[Len(th)] /\ Last(th) \in Stored BY <1>1, <1>2, <1>3 DEF Last
<1> QED BY <1>1, <1>2, <1>3, <1>4, <1>5 DEF c

\* What may be made of the last turn.
Proper(turn) ==
    /\ turn \in Stored
    /\ turn.status = "completed" => turn.items # <<>> /\ Last(turn.items) \notin Results
    /\ turn.by = "critic" => \A i \in DOMAIN turn.items : turn.items[i] \notin Results \cup {"call"}

LEMMA ChangedIsSound ==
    ASSUME NEW th, Sound(th), th # <<>>, NEW turn, Proper(turn)
    PROVE  Sound(Changed(th, turn))
<1> DEFINE c == Changed(th, turn)
<1>1. th \in Seq(Stored) /\ turn \in Stored BY DEF Sound, Proper
<1>2. /\ c \in Seq(Stored) /\ Len(c) = Len(th) /\ DOMAIN c = DOMAIN th
      /\ c[Len(th)] = turn /\ \A r \in DOMAIN th : r # Len(th) => c[r] = th[r]
  BY <1>1, ChangedIs
<1> HIDE DEF c
<1>3. ASSUME NEW r \in DOMAIN c
      PROVE  /\ c[r].status = "streaming" => r = Len(c)
             /\ c[r].status = "completed" => c[r].items # <<>> /\ Last(c[r].items) \notin Results
             /\ c[r].by = "critic" =>
                   \A i \in DOMAIN c[r].items : c[r].items[i] \notin Results \cup {"call"}
  <2>1. CASE r = Len(th) BY <1>2, <2>1 DEF Proper
  <2>2. CASE r # Len(th)
    <3>1. c[r] = th[r] /\ r \in DOMAIN th BY <1>2, <2>2
    <3> QED BY <1>2, <3>1 DEF Sound
  <2> QED BY <2>1, <2>2
<1> QED BY <1>2, <1>3 DEF Sound, c

LEMMA LastIsProper ==
    ASSUME NEW th, Sound(th), th # <<>>
    PROVE  /\ Last(th) \in Stored /\ Len(th) \in DOMAIN th /\ Last(th) = th[Len(th)]
           /\ Proper(Last(th))
<1>1. th \in Seq(Stored) BY DEF Sound
<1>2. Len(th) \in DOMAIN th /\ Last(th) = th[Len(th)] /\ Last(th) \in Stored BY <1>1 DEF Last
<1> QED BY <1>2 DEF Sound, Proper

\* A thread whose last turn is not open is continued by a new turn.
LEMMA OpenIs ==
    ASSUME Sound(thread), Closed, run \in Nat, NEW by \in Authors
    PROVE  LET th == Open(Len(thread) + 1, by) IN
           /\ Sound(th) /\ Len(th) = Len(thread) + 1 /\ th # <<>> /\ Last(th) = NewTurn(by)
           /\ DOMAIN th = DOMAIN thread \cup {Len(thread) + 1}
           /\ \A r \in DOMAIN thread : th[r] = thread[r]
           /\ View(th) = View(thread)
<1> DEFINE th == Open(Len(thread) + 1, by)  n == Len(thread) + 1
<1>1. /\ thread \in Seq(Stored) /\ Len(thread) \in Nat /\ DOMAIN thread = 1..Len(thread)
      /\ n \notin DOMAIN thread /\ 1..n = DOMAIN thread \cup {n}
  BY DEF Sound
<1>2. NewTurn(by) \in Stored BY DEF NewTurn, Stored
<1>3. /\ th \in [1..n -> Stored] /\ th[n] = NewTurn(by)
      /\ \A r \in DOMAIN thread : th[r] = thread[r]
  BY <1>1, <1>2 DEF Open
<1> HIDE DEF th
<1>4. th \in Seq(Stored) /\ Len(th) = n /\ DOMAIN th = 1..n BY <1>1, <1>3
<1>5. th # <<>> /\ Last(th) = NewTurn(by) BY <1>1, <1>3, <1>4 DEF Last
<1>6. /\ NewTurn(by).items = <<>> /\ NewTurn(by).status = "streaming" /\ DOMAIN <<>> = {}
  BY DEF NewTurn
<1>7. \A r \in DOMAIN thread : thread[r].status # "streaming"
  <2>1. ASSUME NEW r \in DOMAIN thread, thread[r].status = "streaming" PROVE FALSE
    <3>1. r = Len(thread) BY <2>1 DEF Sound
    <3>2. thread # <<>> BY <2>1
    <3> QED BY <2>1, <3>1, <3>2 DEF Closed, Last
  <2> QED BY <2>1
<1>8. Sound(th)
  <2> SUFFICES ASSUME NEW r \in DOMAIN th
               PROVE  /\ th[r].status = "streaming" => r = Len(th)
                      /\ th[r].status = "completed" =>
                            th[r].items # <<>> /\ Last(th[r].items) \notin Results
                      /\ th[r].by = "critic" =>
                            \A i \in DOMAIN th[r].items : th[r].items[i] \notin Results \cup {"call"}
    BY <1>4 DEF Sound
  <2>1. CASE r = n BY <2>1, <1>3, <1>4, <1>6
  <2>2. CASE r \in DOMAIN thread BY <2>2, <1>3, <1>7 DEF Sound
  <2> QED BY <2>1, <2>2, <1>1, <1>4
<1>9. View(th) = View(thread)
  <2>1. {q \in DOMAIN th : th[q].items # <<>>} = {q \in DOMAIN thread : thread[q].items # <<>>}
    BY <1>1, <1>3, <1>4, <1>6
  <2>2. \A r \in DOMAIN thread : th[r].by = thread[r].by /\ th[r].items = thread[r].items BY <1>3
  <2> QED BY <2>1, <2>2 DEF View
<1> QED BY <1>1, <1>3, <1>4, <1>5, <1>8, <1>9 DEF th

\* What is read of a thread whose last turn is changed.
LEMMA ViewOfChanged ==
    ASSUME NEW th \in Seq(Stored), th # <<>>, NEW turn \in Stored
    PROVE  /\ turn.items # <<>> =>
                 View(Changed(th, turn)) =
                   [r \in DOMAIN View(th) \cup {Len(th)} |->
                      IF r = Len(th) THEN [by |-> turn.by, items |-> turn.items] ELSE View(th)[r]]
           /\ turn.items = Last(th).items /\ turn.by = Last(th).by =>
                 View(Changed(th, turn)) = View(th)
<1> DEFINE c == Changed(th, turn)  L == Len(th)
           full == {q \in DOMAIN th : th[q].items # <<>>}
           fullc == {q \in DOMAIN c : c[q].items # <<>>}
<1>1. /\ DOMAIN c = DOMAIN th /\ L \in DOMAIN th /\ Last(th) = th[L]
      /\ c[L] = turn /\ \A r \in DOMAIN th : r # L => c[r] = th[r]
  BY ChangedIs
<1>2. /\ View(th) = [r \in full |-> [by |-> th[r].by, items |-> th[r].items]]
      /\ View(c) = [r \in fullc |-> [by |-> c[r].by, items |-> c[r].items]]
  BY DEF View
<1> HIDE DEF c
<1>3. ASSUME turn.items # <<>>
      PROVE  View(c) = [r \in DOMAIN View(th) \cup {L} |->
                          IF r = L THEN [by |-> turn.by, items |-> turn.items] ELSE View(th)[r]]
  <2>1. fullc = full \cup {L} BY <1>1, <1>3
  <2> HIDE DEF full, fullc
  <2>2. DOMAIN View(th) = full BY <1>2
  <2>3. \A r \in fullc : r # L => r \in full /\ r \in DOMAIN th BY <2>1, <1>1 DEF full
  <2> QED BY <1>1, <1>2, <2>1, <2>2, <2>3
<1>4. ASSUME turn.items = Last(th).items, turn.by = Last(th).by
      PROVE  View(c) = View(th)
  <2>1. \A r \in DOMAIN th : c[r].items = th[r].items /\ c[r].by = th[r].by BY <1>1, <1>4
  <2>2. fullc = full BY <1>1, <2>1
  <2> QED BY <1>1, <1>2, <2>1, <2>2
<1> QED BY <1>3, <1>4 DEF c

LEMMA ViewIs ==
    ASSUME NEW th \in Seq(Stored)
    PROVE  /\ View(th) = [r \in DOMAIN View(th) |-> View(th)[r]]
           /\ DOMAIN View(th) = {r \in DOMAIN th : th[r].items # <<>>}
           /\ \A r \in DOMAIN View(th) :
                /\ r \in 1..Len(th) /\ View(th)[r] = [by |-> th[r].by, items |-> th[r].items]
                /\ View(th)[r] \in Turns
<1>1. DOMAIN th = 1..Len(th) /\ \A r \in DOMAIN th : th[r] \in Stored OBVIOUS
<1>2. View(th) = [r \in {q \in DOMAIN th : th[q].items # <<>>} |-> [by |-> th[r].by, items |-> th[r].items]]
  BY DEF View
<1> QED BY <1>1, <1>2 DEF Turns, Stored

-----------------------------------------------------------------------------
(***************************************************************************)
(* Steps of every kind: what they leave alone.                                *)
(***************************************************************************)
LEMMA ConfIs ==
    ASSUME ConfInv
    PROVE  /\ conf.durable \in BOOLEAN /\ conf.agent \in {"react", "critic"}
           /\ conf.onLimit \in OnLimits /\ run \in Nat
<1>1. conf \in ReactConf \cup CriticConf BY DurableAgentAssumption DEF ConfInv
<1> QED BY <1>1 DEF ConfInv, ReactConf, CriticConf

\* A run that ends keeps what it knew, and what the store did of its last call.
LEMMA EndsInv ==
    ASSUME ConfInv, ThreadInv, RankInv, pc' \in {"failed", "lost", "done"}, conf' = conf,
           UNCHANGED <<conv, position, writing>>,
           conf.durable => Sound(thread'), ~conf.durable => thread' = thread
    PROVE  ThreadInv' /\ RankInv'
<1>1. pc' \in Pcs /\ pc' \in Over BY DEF Pcs, Over
<1>2. pc' \notin {"enter", "stream", "complete", "closing", "closed", "record", "recording", "recorded",
                  "llm", "tools", "limit", "check", "critique", "answer", "finish"}
  OBVIOUS
<1>3. ThreadInv' BY <1>1, <1>2 DEF ThreadInv
<1>4. RankInv' BY <1>2 DEF RankInv
<1> QED BY <1>3, <1>4

LEMMA EndsClients ==
    ASSUME ClientInv, pc' \in {"failed", "lost", "done"}, UNCHANGED <<kept, served>>
    PROVE  ClientInv'
BY DEF ClientInv, Over

\* A step that asks no model.
LEMMA AsksNothing ==
    ASSUME ClientInv, UNCHANGED <<kept, served>>,
           pc' \notin {"stream", "complete"}, pc' = "enter" => served = {},
           pc' \in {"tools", "limit", "closing", "closed"} => kept # {},
           kept = {} => pc' \in Over \/ Settled'
    PROVE  ClientInv'
BY DEF ClientInv, Settled

\* What is written is written in the turn this run opened, or it ends a turn.
LEMMA WritesItsTurn ==
    ASSUME Sound(thread), thread # <<>>, NEW turn \in Stored, thread' = Changed(thread, turn),
           Last(thread).status = "streaming", Last(thread).run = run \/ turn.status = "failed"
    PROVE  NeverContinued
<1>1. /\ thread \in Seq(Stored) /\ Last(thread) = thread[Len(thread)]
      /\ thread'[Len(thread)] = turn
      /\ \A r \in DOMAIN thread : r # Len(thread) => thread'[r] = thread[r]
  BY ChangedIs DEF Sound
<1> QED BY <1>1 DEF NeverContinued

LEMMA WritesNothing ==
    ASSUME thread' = thread
    PROVE  NeverContinued
BY DEF NeverContinued

\* The fields a call of the store sets in a turn.
LEMMA TurnWith ==
    ASSUME NEW t \in Stored, NEW items \in Seq(Items)
    PROVE  /\ [t EXCEPT !.items = items] = TurnOf(t, items, t.partial, t.status)
           /\ [t EXCEPT !.partial = TRUE] = TurnOf(t, t.items, TRUE, t.status)
           /\ [t EXCEPT !.status = "completed"] = TurnOf(t, t.items, t.partial, "completed")
           /\ [t EXCEPT !.items = items, !.partial = FALSE] = TurnOf(t, items, FALSE, t.status)
           /\ [t EXCEPT !.items = items, !.partial = FALSE, !.status = "failed"]
                = TurnOf(t, items, FALSE, "failed")
<1>1. \A u \in Stored : u = TurnOf(u, u.items, u.partial, u.status) BY DEF Stored, TurnOf
<1>2. ASSUME NEW u \in Stored, NEW i, NEW p, NEW s, u.by = t.by, u.run = t.run,
             u.items = i, u.partial = p, u.status = s
      PROVE  u = TurnOf(t, i, p, s)
  BY <1>1, <1>2 DEF TurnOf
<1>3. [t EXCEPT !.items = items] = TurnOf(t, items, t.partial, t.status)
  <2> DEFINE u == [t EXCEPT !.items = items]
  <2>1. u \in Stored BY DEF Stored
  <2>2. /\ u.by = t.by /\ u.run = t.run
        /\ u.items = items /\ u.partial = t.partial /\ u.status = t.status
    BY DEF Stored
  <2> HIDE DEF u
  <2>3. u = TurnOf(t, items, t.partial, t.status) BY <2>1, <2>2, <1>2
  <2> QED BY <2>3 DEF u
<1>4. [t EXCEPT !.partial = TRUE] = TurnOf(t, t.items, TRUE, t.status)
  <2> DEFINE u == [t EXCEPT !.partial = TRUE]
  <2>1. u \in Stored BY DEF Stored
  <2>2. /\ u.by = t.by /\ u.run = t.run
        /\ u.items = t.items /\ u.partial = TRUE /\ u.status = t.status
    BY DEF Stored
  <2> HIDE DEF u
  <2>3. u = TurnOf(u, u.items, u.partial, u.status) BY <2>1, <1>1
  <2>4. u.partial = TRUE BY <2>2
  <2>5. u = TurnOf(t, t.items, TRUE, t.status) BY <2>2, <2>3, <2>4, Zenon DEF TurnOf
  <2> QED BY <2>5 DEF u
<1>5. [t EXCEPT !.status = "completed"] = TurnOf(t, t.items, t.partial, "completed")
  <2> DEFINE u == [t EXCEPT !.status = "completed"]
  <2>1. u \in Stored BY DEF Stored
  <2>2. /\ u.by = t.by /\ u.run = t.run
        /\ u.items = t.items /\ u.partial = t.partial /\ u.status = "completed"
    BY DEF Stored
  <2> HIDE DEF u
  <2>3. u = TurnOf(t, t.items, t.partial, "completed") BY <2>1, <2>2, <1>2
  <2> QED BY <2>3 DEF u
<1>6. [t EXCEPT !.items = items, !.partial = FALSE] = TurnOf(t, items, FALSE, t.status)
  <2> DEFINE u == [t EXCEPT !.items = items, !.partial = FALSE]
  <2>1. u \in Stored BY DEF Stored
  <2>2. /\ u.by = t.by /\ u.run = t.run
        /\ u.items = items /\ u.partial = FALSE /\ u.status = t.status
    BY DEF Stored
  <2> HIDE DEF u
  <2>3. u = TurnOf(t, items, FALSE, t.status) BY <2>1, <2>2, <1>2
  <2> QED BY <2>3 DEF u
<1>7. [t EXCEPT !.items = items, !.partial = FALSE, !.status = "failed"]
        = TurnOf(t, items, FALSE, "failed")
  <2> DEFINE u == [t EXCEPT !.items = items, !.partial = FALSE, !.status = "failed"]
  <2>1. u \in Stored BY DEF Stored
  <2>2. /\ u.by = t.by /\ u.run = t.run
        /\ u.items = items /\ u.partial = FALSE /\ u.status = "failed"
    BY DEF Stored
  <2> HIDE DEF u
  <2>3. u = TurnOf(t, items, FALSE, "failed") BY <2>1, <2>2, <1>2
  <2> QED BY <2>3 DEF u
<1> QED BY <1>3, <1>4, <1>5, <1>6, <1>7

\* ThreadStore::end_turn of the open turn of a thread.
LEMMA EndedIs ==
    ASSUME NEW th, Sound(th), th # <<>>, NEW e \in Ended(th)
    PROVE  \E turn : /\ Proper(turn) /\ turn.status = "failed" /\ e = Changed(th, turn)
                     /\ turn.by = Last(th).by /\ turn.run = Last(th).run
                     /\ turn.items \in Repaired(Last(th))
<1> DEFINE t == Last(th)
<1>1. t \in Stored /\ Len(th) \in DOMAIN th /\ t = th[Len(th)] /\ Proper(t) BY LastIsProper
<1>2. PICK items \in Repaired(t) :
        e = [th EXCEPT ![Len(th)].items = items, ![Len(th)].partial = FALSE,
                       ![Len(th)].status = "failed"]
  BY DEF Ended
<1> DEFINE turn == TurnOf(t, items, FALSE, "failed")
<1>4. ASSUME items \in Seq(Items) PROVE e = Changed(th, turn)
  <2> HIDE DEF t
  <2>1. e = [th EXCEPT ![Len(th)] = [th[Len(th)] EXCEPT !.items = items, !.partial = FALSE,
                                                        !.status = "failed"]]
    BY <1>2, <1>1
  <2>2. [t EXCEPT !.items = items, !.partial = FALSE, !.status = "failed"] = turn
    BY <1>1, <1>4, TurnWith
  <2> HIDE DEF turn
  <2> QED BY <1>1, <2>1, <2>2 DEF Changed
<1>5. /\ items \in Seq(Items)
      /\ t.by = "critic" => \A i \in DOMAIN items : items[i] \notin Results \cup {"call"}
  <2> HIDE DEF t
  <2> DEFINE more == IF ~t.partial THEN {}
                     ELSE {Append(t.items, i) : i \in IF t.by = "critic" THEN {"partial"} ELSE {"text", "blank"}}
             before == {t.items} \cup more
  <2>1. PICK s \in before :
          items = IF s # <<>> /\ Last(s) = "call" THEN Append(s, "interrupted") ELSE s
    BY <1>2 DEF Repaired
  <2>2. /\ t.items \in Seq(Items)
        /\ t.by = "critic" => \A i \in DOMAIN t.items : t.items[i] \notin Results \cup {"call"}
    BY <1>1 DEF Proper, Stored
  <2>3. /\ {"partial", "text", "blank", "interrupted"} \subseteq Items
        /\ "partial" \notin Results \cup {"call"}
    BY DEF Items, Replies, Results
  <2>4. ASSUME NEW i \in {"partial", "text", "blank"}, t.by = "critic" => i = "partial"
        PROVE  /\ Append(t.items, i) \in Seq(Items)
               /\ t.by = "critic" => \A k \in DOMAIN Append(t.items, i) :
                                        Append(t.items, i)[k] \notin Results \cup {"call"}
    <3>1. Append(t.items, i) \in Seq(Items) BY <2>2, <2>3
    <3>2. /\ Len(t.items) \in Nat /\ DOMAIN t.items = 1..Len(t.items)
          /\ DOMAIN Append(t.items, i) = 1..(Len(t.items) + 1)
          /\ Append(t.items, i)[Len(t.items) + 1] = i
          /\ \A k \in 1..Len(t.items) : Append(t.items, i)[k] = t.items[k]
      BY <2>2
    <3>3. \A k \in 1..(Len(t.items) + 1) : k = Len(t.items) + 1 \/ k \in 1..Len(t.items) BY <3>2
    <3> QED BY <2>2, <2>3, <2>4, <3>1, <3>2, <3>3
  <2>5. /\ s \in Seq(Items)
        /\ t.by = "critic" => \A i \in DOMAIN s : s[i] \notin Results \cup {"call"}
    <3>1. CASE s = t.items BY <2>2, <3>1
    <3>2. CASE s \in more
      <4>1. PICK i \in {"partial", "text", "blank"} :
              s = Append(t.items, i) /\ (t.by = "critic" => i = "partial")
        BY <3>2
      <4> QED BY <2>4, <4>1
    <3> QED BY <3>1, <3>2
  <2>6. CASE s # <<>> /\ Last(s) = "call"
    <3>1. items = Append(s, "interrupted") /\ items \in Seq(Items) BY <2>1, <2>3, <2>5, <2>6
    <3>2. Len(s) \in DOMAIN s BY <2>5, <2>6
    <3>3. t.by # "critic" BY <2>5, <2>6, <3>2 DEF Last
    <3> QED BY <3>1, <3>3
  <2>7. CASE ~(s # <<>> /\ Last(s) = "call") BY <2>1, <2>5, <2>7
  <2> QED BY <2>6, <2>7
<1>6. turn \in Stored BY <1>1, <1>5 DEF Stored, TurnOf
<1>7. Proper(turn) BY <1>5, <1>6 DEF Proper, TurnOf
<1>8. turn.status = "failed" /\ turn.by = t.by /\ turn.run = t.run /\ turn.items = items
  <2> HIDE DEF t
  <2> QED BY DEF TurnOf
<1> QED BY <1>2, <1>4, <1>5, <1>7, <1>8

-----------------------------------------------------------------------------
(***************************************************************************)
(* The calls of the store, as changes of the last turn.                       *)
(***************************************************************************)
LEMMA LastStep ==
    ASSUME NEW items \in Seq(Items), NEW item \in Items
    PROVE  /\ Append(items, item) \in Seq(Items) /\ Append(items, item) # <<>>
           /\ Last(Append(items, item)) = item
<1> DEFINE more == Append(items, item)
<1>1. /\ more \in Seq(Items) /\ Len(more) = Len(items) + 1 /\ Len(items) \in Nat
      /\ more[Len(items) + 1] = item
  OBVIOUS
<1> HIDE DEF more
<1>2. more # <<>> /\ Last(more) = item BY <1>1 DEF Last
<1> QED BY <1>1, <1>2 DEF more

LEMMA TurnIsProper ==
    ASSUME NEW t, Proper(t), t.by = Author, NEW items \in Seq(Items), NEW partial \in BOOLEAN,
           NEW status \in {"streaming", "completed", "failed"},
           status = "completed" => items # <<>> /\ Last(items) \notin Results
    PROVE  Proper(TurnOf(t, items, partial, status))
<1>1. TurnOf(t, items, partial, status) \in Stored BY DEF Proper, TurnOf, Stored
<1> QED BY <1>1 DEF Proper, TurnOf, Author

LEMMA TurnIsStored ==
    ASSUME NEW t \in Stored, NEW items \in Seq(Items), NEW partial \in BOOLEAN,
           NEW status \in {"streaming", "completed", "failed"}
    PROVE  TurnOf(t, items, partial, status) \in Stored
BY DEF TurnOf, Stored

LEMMA PushIs ==
    ASSUME Sound(thread), thread # <<>>, NEW item \in Items
    PROVE  LET t == Last(thread) IN
           Push(Len(thread), item) = Changed(thread, TurnOf(t, Append(t.items, item), FALSE, t.status))
<1> DEFINE t == Last(thread)  n == Len(thread)
<1>1. t \in Stored /\ n \in DOMAIN thread /\ t = thread[n] BY LastIsProper
<1>2. Append(t.items, item) \in Seq(Items) BY <1>1, LastStep DEF Stored
<1>3. [t EXCEPT !.items = Append(t.items, item), !.partial = FALSE]
        = TurnOf(t, Append(t.items, item), FALSE, t.status)
  BY <1>1, <1>2, TurnWith
<1> HIDE DEF t, n
<1>4. [thread EXCEPT ![n].items = Append(@, item), ![n].partial = FALSE]
        = [thread EXCEPT ![n] = [t EXCEPT !.items = Append(t.items, item), !.partial = FALSE]]
  BY <1>1
<1> QED BY <1>3, <1>4 DEF Push, Changed, t, n

LEMMA CompleteIs ==
    ASSUME Sound(thread), thread # <<>>
    PROVE  LET t == Last(thread) IN
           Complete(Len(thread)) = Changed(thread, TurnOf(t, t.items, t.partial, "completed"))
<1> DEFINE t == Last(thread)  n == Len(thread)
<1>1. t \in Stored /\ n \in DOMAIN thread /\ t = thread[n] BY LastIsProper
<1>2. t.items \in Seq(Items) BY <1>1 DEF Stored
<1>3. [t EXCEPT !.status = "completed"] = TurnOf(t, t.items, t.partial, "completed")
  BY <1>1, <1>2, TurnWith
<1> HIDE DEF t, n
<1>4. [thread EXCEPT ![n].status = "completed"] = [thread EXCEPT ![n] = [t EXCEPT !.status = "completed"]]
  BY <1>1
<1> QED BY <1>3, <1>4 DEF Complete, Changed, t, n

LEMMA MarkIs ==
    ASSUME Sound(thread), thread # <<>>
    PROVE  LET t == Last(thread) IN
           [thread EXCEPT ![Len(thread)].partial = TRUE] = Changed(thread, TurnOf(t, t.items, TRUE, t.status))
<1> DEFINE t == Last(thread)  n == Len(thread)
<1>1. t \in Stored /\ n \in DOMAIN thread /\ t = thread[n] BY LastIsProper
<1>2. t.items \in Seq(Items) BY <1>1 DEF Stored
<1>3. [t EXCEPT !.partial = TRUE] = TurnOf(t, t.items, TRUE, t.status) BY <1>1, <1>2, TurnWith
<1> HIDE DEF t, n
<1>4. [thread EXCEPT ![n].partial = TRUE] = [thread EXCEPT ![n] = [t EXCEPT !.partial = TRUE]]
  BY <1>1
<1> QED BY <1>3, <1>4 DEF Changed, t, n

LEMMA ChangedTwice ==
    ASSUME NEW th \in Seq(Stored), th # <<>>, NEW a \in Stored, NEW b \in Stored
    PROVE  Changed(Changed(th, a), b) = Changed(th, b)
<1> DEFINE c == Changed(th, a)
<1>1. /\ c \in Seq(Stored) /\ Len(c) = Len(th) /\ DOMAIN c = 1..Len(th)
      /\ \A r \in DOMAIN th : r # Len(th) => c[r] = th[r]
      /\ DOMAIN th = 1..Len(th) /\ Len(th) \in DOMAIN th
  BY ChangedIs
<1>2. Changed(th, b) = [r \in 1..Len(th) |-> IF r = Len(th) THEN b ELSE th[r]] BY <1>1 DEF Changed
<1> HIDE DEF c
<1>3. Changed(c, b) = [r \in 1..Len(th) |-> IF r = Len(th) THEN b ELSE c[r]] BY <1>1 DEF Changed
<1>4. \A r \in 1..Len(th) : (IF r = Len(th) THEN b ELSE c[r]) = (IF r = Len(th) THEN b ELSE th[r])
  BY <1>1
<1>5. Changed(c, b) = Changed(th, b) BY <1>2, <1>3, <1>4
<1> QED BY <1>5 DEF c

\* The thread a conversation was read from, before the items being written.
LEMMA HadIs ==
    ASSUME Sound(thread), thread # <<>>, NEW items \in Seq(Items)
    PROVE  /\ Had(items) \in Seq(Stored) /\ Had(items) # <<>> /\ Len(Had(items)) = Len(thread)
           /\ Last(Had(items)).items = items /\ Last(Had(items)).by = Last(thread).by
           /\ Last(Had(items)) \in Stored
           /\ items = Last(thread).items => View(Had(items)) = View(thread)
           /\ \A turn \in Stored : Changed(Had(items), turn) = Changed(thread, turn)
<1> DEFINE t == Last(thread)  u == TurnOf(t, items, FALSE, "streaming")
<1>1. thread \in Seq(Stored) /\ t \in Stored BY LastIsProper DEF Sound
<1>2. u \in Stored
  <2> HIDE DEF t
  <2> QED BY <1>1, TurnIsStored
<1>3. u.items = items /\ u.by = t.by BY DEF TurnOf
<1>4. Had(items) = Changed(thread, u) BY DEF Had
<1> HIDE DEF u, t
<1>5. /\ Changed(thread, u) \in Seq(Stored) /\ Changed(thread, u) # <<>>
      /\ Len(Changed(thread, u)) = Len(thread) /\ Last(Changed(thread, u)) = u
  BY <1>1, <1>2, ChangedIs
<1>6. items = t.items => View(Changed(thread, u)) = View(thread)
  BY <1>1, <1>2, <1>3, ViewOfChanged DEF t
<1>7. \A turn \in Stored : Changed(Changed(thread, u), turn) = Changed(thread, turn)
  BY <1>1, <1>2, ChangedTwice
<1> QED BY <1>2, <1>3, <1>4, <1>5, <1>6, <1>7 DEF t

\* What is behind, once the last turn changed.
LEMMA HadOfChanged ==
    ASSUME Sound(thread), thread # <<>>, NEW turn \in Stored, thread' = Changed(thread, turn),
           turn.by = Last(thread).by, turn.run = Last(thread).run, NEW items \in Seq(Items)
    PROVE  Had(items)' = Had(items)
<1> DEFINE t == Last(thread)  u == TurnOf(t, items, FALSE, "streaming")
<1>1. thread \in Seq(Stored) /\ t \in Stored BY LastIsProper DEF Sound
<1>2. u \in Stored
  <2> HIDE DEF t
  <2> QED BY <1>1, TurnIsStored
<1>3. Last(thread') = turn BY <1>1, ChangedIs
<1>4. TurnOf(turn, items, FALSE, "streaming") = u BY DEF TurnOf
<1>5. Had(items)' = Changed(thread', TurnOf(Last(thread'), items, FALSE, "streaming")) BY DEF Had, Changed
<1>6. Had(items)' = Changed(thread', u)
  <2> HIDE DEF u
  <2> QED BY <1>3, <1>4, <1>5
<1> HIDE DEF u
<1>7. Changed(Changed(thread, turn), u) = Changed(thread, u) BY <1>1, <1>2, ChangedTwice
<1> QED BY <1>6, <1>7 DEF Had, u

\* A turn this run has open stays its own while it is written.
LEMMA StaysOwn ==
    ASSUME Sound(thread), NEW by, Own(by), NEW turn, Proper(turn), turn.by = by, turn.run = run,
           thread' = Changed(thread, turn), run' = run
    PROVE  /\ Sound(thread') /\ NeverContinued
           /\ thread' # <<>> /\ Len(thread') = Len(thread) /\ Last(thread') = turn
           /\ turn.status = "streaming" => Own(by)'
           /\ turn.status # "streaming" => Closed'
<1>1. thread # <<>> /\ thread \in Seq(Stored) /\ turn \in Stored BY DEF Own, Sound, Proper
<1>2. Sound(Changed(thread, turn)) BY <1>1, ChangedIsSound
<1>3. thread' # <<>> /\ Len(thread') = Len(thread) /\ Last(thread') = turn BY <1>1, ChangedIs
<1>4. NeverContinued BY <1>1, WritesItsTurn DEF Own
<1>5. turn.status = "streaming" => Own(by)'
  <2> SUFFICES ASSUME turn.status = "streaming"
               PROVE  /\ thread' # <<>> /\ Last(thread').status = "streaming" /\ Last(thread').run = run'
                      /\ Last(thread').by = by
    BY DEF Own
  <2> QED BY <1>3
<1>6. turn.status # "streaming" => Closed' BY <1>3 DEF Closed
<1> QED BY <1>2, <1>3, <1>4, <1>5, <1>6

-----------------------------------------------------------------------------
(***************************************************************************)
(* What is read of a thread that ends with a turn that holds something.       *)
(***************************************************************************)
LEMMA ReadOf ==
    ASSUME NEW th \in Seq(Stored), th # <<>>, Last(th).items # <<>>
    PROVE  /\ Len(th) \in DOMAIN View(th) /\ Len(th) \in Nat \ {0}
           /\ View(th)[Len(th)].by = Last(th).by /\ View(th)[Len(th)].items = Last(th).items
           /\ Last(th).by = Author => LastBy(View(th), Author) = Len(th)
<1>1. Len(th) \in Nat \ {0} /\ Len(th) \in DOMAIN th /\ Last(th) = th[Len(th)] BY DEF Last
<1>2. /\ DOMAIN View(th) = {r \in DOMAIN th : th[r].items # <<>>}
      /\ \A r \in DOMAIN View(th) :
           r \in 1..Len(th) /\ View(th)[r] = [by |-> th[r].by, items |-> th[r].items]
  BY ViewIs
<1>3. Len(th) \in DOMAIN View(th) BY <1>1, <1>2
<1>4. View(th)[Len(th)].by = Last(th).by /\ View(th)[Len(th)].items = Last(th).items
  <2> DEFINE n == Len(th)  last == View(th)[n]
  <2>1. last = [by |-> th[n].by, items |-> th[n].items] BY <1>2, <1>3
  <2> HIDE DEF n, last
  <2>2. last.by = th[n].by /\ last.items = th[n].items BY <2>1
  <2> QED BY <2>2, <1>1 DEF n, last
<1>5. \A r \in DOMAIN View(th) : r \in Int /\ r <= Len(th) BY <1>1, <1>2
<1> DEFINE v == View(th)  n == Len(th)
<1>6. ASSUME Last(th).by = Author PROVE LastBy(v, Author) = n
  <2>1. n \in Int /\ n \in DOMAIN v /\ v[n].by = Author BY <1>1, <1>3, <1>4, <1>6
  <2>2. \A r \in DOMAIN v : r \in Int /\ r <= n BY <1>5
  <2> HIDE DEF v, n
  <2> QED BY <2>1, <2>2, LastByIs
<1> QED BY <1>1, <1>3, <1>4, <1>6

\* A new turn comes after all those of the thread.
LEMMA NewRankIs ==
    ASSUME Sound(thread), conv = View(thread), Stands,
           position \in [rank : Nat \ {0}, answered : BOOLEAN]
    PROVE  NewRank = Len(thread) + 1 /\ NewRank \notin DOMAIN conv
<1>1. thread \in Seq(Stored) /\ Len(thread) \in Nat BY DEF Sound
<1>2. \A r \in DOMAIN conv : r \in 1..Len(thread) BY <1>1, ViewIs
<1>3. Len(thread) + 1 \notin DOMAIN conv BY <1>1, <1>2
<1>4. CASE position.rank = Len(thread) + 1 BY <1>3, <1>4 DEF NewRank
<1>5. CASE position.rank = Len(thread) /\ thread # <<>> /\ Last(thread).items # <<>>
  <2>1. Len(thread) \in DOMAIN conv BY <1>1, <1>5, ReadOf
  <2> QED BY <1>3, <1>5, <2>1 DEF NewRank
<1> QED BY <1>4, <1>5 DEF Stands

LEMMA AboveAll ==
    ASSUME RankInv
    PROVE  /\ NewRank \in Nat \ {0} /\ NewRank \notin DOMAIN conv
           /\ \A r \in DOMAIN conv : r \in Int /\ r <= NewRank
<1>1. position.rank \in Nat \ {0} /\ \A r \in DOMAIN conv : r \in Int /\ r <= position.rank BY DEF RankInv
<1>2. CASE position.rank \in DOMAIN conv
  <2>1. NewRank = position.rank + 1 BY <1>2 DEF NewRank
  <2> QED BY <1>1, <2>1
<1>3. CASE position.rank \notin DOMAIN conv
  <2>1. NewRank = position.rank BY <1>3 DEF NewRank
  <2> QED BY <1>1, <1>3, <2>1
<1> QED BY <1>2, <1>3

-----------------------------------------------------------------------------
(***************************************************************************)
(* What a step of the agent keeps.                                            *)
(***************************************************************************)
Keeps == ThreadInv' /\ RankInv' /\ ClientInv' /\ NeverContinued

\* A run ends, by itself or not, and the store did nothing.
LEMMA RunEnds ==
    ASSUME Inv, pc' \in {"failed", "lost", "done"}, conf' = conf,
           UNCHANGED <<thread, conv, position, writing, kept, served>>
    PROVE  Keeps
<1>1. ConfInv /\ ThreadInv /\ RankInv /\ ClientInv BY DEF Inv
<1>2. conf.durable => Sound(thread') BY <1>1 DEF ThreadInv
<1>3. ThreadInv' /\ RankInv' BY <1>1, <1>2, EndsInv
<1>4. ClientInv' BY <1>1, EndsClients
<1>5. NeverContinued BY WritesNothing
<1> QED BY <1>3, <1>4, <1>5 DEF Keeps

LEMMA FailKeeps == ASSUME Inv, Fail \/ Lose, UNCHANGED clients PROVE Keeps
BY RunEnds DEF Fail, Lose, ModelFails, ToolFails, JudgeFails, Failed, private, fixed, clients

LEMMA GiveAnswerKeeps == ASSUME Inv, GiveAnswer, UNCHANGED clients PROVE Keeps
BY RunEnds DEF GiveAnswer, Told, fixed, clients

LEMMA FinishKeeps == ASSUME Inv, Finish, UNCHANGED clients PROVE Keeps
BY RunEnds DEF Finish, Told, fixed, clients

\* A call of the store that failed, and what it may have done.
LEMMA StoreFails ==
    ASSUME ConfInv, ThreadInv, RankInv, ClientInv', conf.durable, NEW th, thread' \in {thread, th},
           Sound(th), thread' = th => NeverContinued, Failed, UNCHANGED fixed
    PROVE  Keeps
<1>1. Sound(thread') BY DEF ThreadInv
<1>2. NeverContinued BY WritesNothing
<1>3. /\ pc' \in {"failed", "lost", "done"} /\ conf' = conf /\ UNCHANGED <<conv, position, writing>>
      /\ conf.durable => Sound(thread') /\ (~conf.durable => thread' = thread)
  BY <1>1 DEF Failed, private, fixed
<1>4. ThreadInv' /\ RankInv' BY <1>3, EndsInv
<1> QED BY <1>2, <1>4 DEF Keeps

-----------------------------------------------------------------------------
(***************************************************************************)
(* The run begins, and is started again.                                      *)
(***************************************************************************)
LEMMA StoreInputsKeeps == ASSUME Inv, StoreInputs, UNCHANGED clients PROVE Keeps
<1>1. /\ pc = "enter" /\ conf.durable /\ pc' \in {"enter", "failed"}
      /\ UNCHANGED <<conf, run, thread, conv, position, writing, kept, served>>
  BY DEF StoreInputs, fixed, private, clients
<1>2. ConfInv /\ ThreadInv /\ RankInv /\ ClientInv BY DEF Inv
<1>3. CASE pc' = "failed"
  <2>1. pc' \in {"failed", "lost", "done"} BY <1>3
  <2> QED BY <1>1, <2>1, RunEnds
<1>4. CASE pc' = "enter"
  <2>1. ThreadInv' BY <1>1, <1>2, <1>4 DEF ThreadInv
  <2>2. RankInv' BY <1>1, <1>2, <1>4 DEF RankInv
  <2>3. Settled' /\ served = {} BY <1>1, <1>2 DEF ClientInv, Settled
  <2>4. ClientInv' BY <1>1, <1>2, <1>4, <2>3, AsksNothing
  <2> QED BY <1>1, <2>1, <2>2, <2>4, WritesNothing DEF Keeps
<1> QED BY <1>1, <1>3, <1>4

LEMMA RestartKeeps == ASSUME Inv, Restart PROVE Keeps
<1>1. /\ conv' = <<>> /\ position' = Position(1, FALSE) /\ pc' = "enter" /\ writing' = None
      /\ kept' = {} /\ served' = {} /\ UNCHANGED <<conf, thread>>
  BY DEF Restart, NewKeys
<1>2. ConfInv /\ ThreadInv /\ RankInv /\ ClientInv BY DEF Inv
<1>3. ThreadInv' BY <1>1, <1>2 DEF ThreadInv, Pcs
<1>4. RankInv'
  <2>1. /\ Position(1, FALSE) \in [rank : Nat \ {0}, answered : BOOLEAN]
        /\ None \in [rank : Int, new : BOOLEAN, item : Items \cup {"none"}]
    BY DEF Position, None
  <2>2. DOMAIN conv' = {} /\ conv' = [r \in DOMAIN conv' |-> conv'[r]] BY <1>1
  <2> QED BY <1>1, <2>1, <2>2 DEF RankInv
<1>5. ClientInv' BY <1>1 DEF ClientInv, Settled
<1> QED BY <1>1, <1>3, <1>4, <1>5, WritesNothing DEF Keeps

\* The host ends the turn a run left open: nothing of the run that ended changes.
LEMMA HostEndsKeeps == ASSUME Inv, HostEnds, UNCHANGED clients PROVE Keeps
<1>1. /\ pc \in {"failed", "lost"} /\ thread # <<>> /\ Last(thread).status = "streaming"
      /\ thread' \in Ended(thread) /\ UNCHANGED <<conf, run, conv, position, pc, writing, kept, served>>
  BY DEF HostEnds, OpenTurnFound, fixed, private, clients
<1>2. ConfInv /\ ThreadInv /\ RankInv /\ ClientInv BY DEF Inv
<1>3. conf.durable /\ Sound(thread) BY <1>1, <1>2, ConfIs DEF ThreadInv
<1>4. PICK turn : Proper(turn) /\ turn.status = "failed" /\ thread' = Changed(thread, turn)
  BY <1>1, <1>3, EndedIs
<1>5. Sound(thread') BY <1>1, <1>3, <1>4, ChangedIsSound
<1>6. turn \in Stored BY <1>4 DEF Proper
<1>7. NeverContinued BY <1>1, <1>3, <1>4, <1>6, WritesItsTurn
<1>8. pc' \in {"failed", "lost", "done"} BY <1>1
<1>9. ThreadInv' /\ RankInv'
  <2>1. conf' = conf /\ UNCHANGED <<conv, position, writing>> BY <1>1
  <2> QED BY <1>2, <1>3, <1>5, <1>8, <2>1, EndsInv
<1>10. ClientInv' BY <1>1, <1>2, <1>8, EndsClients
<1> QED BY <1>7, <1>9, <1>10 DEF Keeps

\* Where the call stands when its thread is read.
LEMMA StandsAtIs ==
    ASSUME NEW th, Sound(th)
    PROVE  /\ Answered(th) \in BOOLEAN /\ Position(StandsAt(th), Answered(th)) \in [rank : Nat \ {0}, answered : BOOLEAN]
           /\ Position(StandsAt(th), Answered(th)).rank = StandsAt(th)
           /\ Position(StandsAt(th), Answered(th)).answered = Answered(th)
           /\ Len(th) \in Nat /\ StandsAt(th) \in {Len(th), Len(th) + 1}
           /\ StandsAt(th) = Len(th) =>
                /\ Answered(th) /\ th # <<>> /\ Last(th).items # <<>>
                /\ Last(Last(th).items) \notin Results
<1>1. Len(th) \in Nat /\ (th # <<>> => Len(th) # 0) BY DEF Sound
<1>2. Answered(th) \in BOOLEAN BY DEF Answered
<1>3. StandsAt(th) \in {Len(th), Len(th) + 1} BY DEF StandsAt
<1>4. ASSUME StandsAt(th) = Len(th)
      PROVE  Answered(th) /\ th # <<>> /\ Last(th).items # <<>> /\ Last(Last(th).items) \notin Results
  <2>1. Answered(th) BY <1>1, <1>4 DEF StandsAt
  <2>2. th # <<>> /\ Last(th).status = "completed" BY <2>1 DEF Answered
  <2>3. Proper(Last(th)) BY <2>2, LastIsProper
  <2> QED BY <2>1, <2>2, <2>3 DEF Proper
<1>5. StandsAt(th) \in Nat \ {0} BY <1>1, <1>3, <1>4
<1> DEFINE s == StandsAt(th)  a == Answered(th)
<1>6. s \in Nat \ {0} /\ a \in BOOLEAN BY <1>2, <1>5
<1> HIDE DEF s, a
<1>7. /\ Position(s, a) \in [rank : Nat \ {0}, answered : BOOLEAN]
      /\ Position(s, a).rank = s
  BY <1>6 DEF Position
<1>8. Position(s, a).answered = a BY <1>6 DEF Position
<1> QED BY <1>1, <1>2, <1>3, <1>4, <1>7, <1>8 DEF s, a

LEMMA EnteredKeeps ==
    ASSUME Inv, pc = "enter", conf.durable, NEW th, Sound(th),
           th # <<>> => Last(th).status # "streaming", thread' = th, Entered(th),
           UNCHANGED <<conf, run, kept, served>>
    PROVE  ThreadInv' /\ RankInv' /\ ClientInv'
<1>1. ConfInv /\ ThreadInv /\ RankInv /\ ClientInv BY DEF Inv
<1>2. /\ conv' = View(th) /\ position' = Position(StandsAt(th), Answered(th)) /\ writing' = writing
      /\ pc' = IF conf.agent = "critic" THEN EntryRoute(conv', listed')
               ELSE IF Answered(th) THEN "answer" ELSE "llm"
  BY DEF Entered, Route
<1>3. /\ position' \in [rank : Nat \ {0}, answered : BOOLEAN]
      /\ position'.rank = StandsAt(th)
      /\ Len(th) \in Nat /\ StandsAt(th) \in {Len(th), Len(th) + 1}
      /\ StandsAt(th) = Len(th) =>
           th # <<>> /\ Last(th).items # <<>> /\ Last(Last(th).items) \notin Results
  BY <1>2, StandsAtIs
<1>4. th \in Seq(Stored) BY DEF Sound
<1>5. /\ conv' = [r \in DOMAIN conv' |-> conv'[r]]
      /\ \A r \in DOMAIN conv' : r \in 1..Len(th) /\ conv'[r] \in Turns
  BY <1>2, <1>4, ViewIs
<1>6. \A r \in DOMAIN conv' : r \in Int /\ r <= Len(th) /\ r <= position'.rank BY <1>3, <1>5
<1>7. pc' \in {"llm", "check", "critique", "finish", "answer"}
  <2>1. CASE conf.agent = "critic"
    <3>1. EntryRoute(conv', listed') \in {"llm", "check", "critique", "finish"}
      <4> DEFINE c == conv'  l == listed'  b == Len(th)
      <4>1. b \in Int /\ \A r \in DOMAIN c : r \in Int /\ r <= b BY <1>3, <1>6
      <4> HIDE DEF c, l, b
      <4>2. EntryRoute(c, l) \in {"llm", "check", "critique", "finish"} BY <4>1, RoutesAre
      <4> QED BY <4>2 DEF c, l
    <3> QED BY <1>2, <2>1, <3>1
  <2>2. CASE conf.agent # "critic" BY <1>2, <2>2
  <2> QED BY <2>1, <2>2
<1>8. Closed' BY DEF Closed
<1>9. Stands' BY <1>3 DEF Stands
<1>10. conv' = View(thread') BY <1>2
<1>11. position'.rank = Len(thread') => Last(Last(thread').items) \notin Results BY <1>3
<1>12. AtLlm' /\ AtRest'
  <2>1. (conv = View(thread))' BY <1>10 DEF View
  <2> QED BY <2>1, <1>8, <1>9, <1>11 DEF AtLlm, AtRest
<1>13. pc' \in Pcs BY <1>7 DEF Pcs, AtNode
<1>14. ThreadInv' BY <1>7, <1>12, <1>13 DEF ThreadInv
<1>15. ASSUME position'.rank \in DOMAIN conv' PROVE ~AwaitsStep(conv'[position'.rank])
  <2>1. position'.rank = Len(th) BY <1>3, <1>6, <1>15
  <2>2. th # <<>> /\ Last(th).items # <<>> /\ Last(Last(th).items) \notin Results BY <1>3, <2>1
  <2>3. conv'[position'.rank].items = Last(th).items BY <1>2, <1>4, <2>1, <2>2, ReadOf
  <2> QED BY <2>2, <2>3 DEF AwaitsStep
<1>16. RankInv'
  <2>1. writing' \in [rank : Int, new : BOOLEAN, item : Items \cup {"none"}] BY <1>1, <1>2 DEF RankInv
  <2>2. pc' \notin {"stream", "complete", "record", "recording", "recorded"} BY <1>7
  <2>3. (position.rank \in DOMAIN conv /\ conv[position.rank].by = "critic" =>
           ~AwaitsStep(conv[position.rank]))'
    BY <1>15 DEF AwaitsStep
  <2> QED BY <1>3, <1>5, <1>6, <2>1, <2>2, <2>3 DEF RankInv
<1>17. ClientInv'
  <2>1. served = {} BY <1>1 DEF ClientInv
  <2>2. Settled' BY <2>1 DEF Settled
  <2>3. /\ pc' \notin {"stream", "complete", "enter", "tools", "limit", "closing", "closed"}
    BY <1>7
  <2> QED BY <1>1, <2>2, <2>3, AsksNothing
<1> QED BY <1>14, <1>16, <1>17

LEMMA EnterThreadKeeps == ASSUME Inv, EnterThread, UNCHANGED clients PROVE Keeps
<1>1. /\ pc = "enter" /\ conf.durable /\ ~OpenTurnFound /\ Stores(thread, Entered(thread))
      /\ UNCHANGED <<kept, served>>
  BY DEF EnterThread, clients
<1>2. ConfInv /\ ThreadInv /\ RankInv /\ ClientInv BY DEF Inv
<1>3. Sound(thread) /\ UNCHANGED <<conf, run>> BY <1>1, <1>2 DEF ThreadInv, Stores, fixed
<1>4. thread' = thread BY <1>1 DEF Stores
<1>5. NeverContinued BY <1>4, WritesNothing
<1>6. CASE Entered(thread)
  <2>1. thread # <<>> => Last(thread).status # "streaming" BY <1>1 DEF OpenTurnFound
  <2>2. ThreadInv' /\ RankInv' /\ ClientInv' BY <1>1, <1>3, <1>4, <1>6, <2>1, EnteredKeeps
  <2> QED BY <1>5, <2>2 DEF Keeps
<1>7. CASE Failed
  <2>1. UNCHANGED <<conv, position, writing>> /\ pc' = "failed" BY <1>7 DEF Failed, private
  <2> QED BY <1>1, <1>3, <1>4, <2>1, RunEnds
<1> QED BY <1>1, <1>6, <1>7 DEF Stores

LEMMA FailOpenTurnKeeps == ASSUME Inv, FailOpenTurn, UNCHANGED clients PROVE Keeps
<1>1. /\ pc = "enter" /\ conf.durable /\ thread # <<>> /\ Last(thread).status = "streaming"
      /\ UNCHANGED <<kept, served>>
  BY DEF FailOpenTurn, clients, OpenTurnFound
<1>2. PICK th \in Ended(thread) : Stores(th, Entered(th)) BY DEF FailOpenTurn
<1>3. ConfInv /\ ThreadInv /\ RankInv /\ ClientInv BY DEF Inv
<1>4. Sound(thread) /\ UNCHANGED <<conf, run>> /\ UNCHANGED fixed
  BY <1>1, <1>2, <1>3 DEF ThreadInv, Stores, fixed
<1>5. PICK turn : Proper(turn) /\ turn.status = "failed" /\ th = Changed(thread, turn)
  BY <1>1, <1>4, EndedIs
<1>6. Sound(th) BY <1>1, <1>4, <1>5, ChangedIsSound
<1>7. turn \in Stored BY <1>5 DEF Proper
<1>8. thread' = th => NeverContinued BY <1>1, <1>4, <1>5, <1>7, WritesItsTurn
<1>9. Last(th).status = "failed" BY <1>1, <1>4, <1>5, <1>7, ChangedIs DEF Sound
<1>10. CASE thread' = th /\ Entered(th)
  <2>1. ThreadInv' /\ RankInv' /\ ClientInv'
    BY <1>1, <1>4, <1>6, <1>9, <1>10, EnteredKeeps
  <2> QED BY <1>8, <1>10, <2>1 DEF Keeps
<1>11. CASE thread' \in {thread, th} /\ Failed
  <2>1. ClientInv' BY <1>1, <1>3, <1>11, EndsClients DEF Failed
  <2> QED BY <1>1, <1>3, <1>4, <1>6, <1>8, <1>11, <2>1, StoreFails
<1> QED BY <1>2, <1>10, <1>11 DEF Stores

\* In memory the turns of the opening come before those of the call.
LEMMA EnterInMemoryKeeps == ASSUME Inv, EnterInMemory, UNCHANGED clients PROVE Keeps
<1>1. /\ pc = "enter" /\ ~conf.durable /\ position' = Position(1, FALSE) /\ Route(FALSE)
      /\ UNCHANGED <<conf, run, thread, writing, kept, served>>
  BY DEF EnterInMemory, fixed, clients
<1>2. PICK opening \in Openings :
        conv' = [r \in (1 - Len(opening))..0 |-> opening[r + Len(opening)]]
  BY DEF EnterInMemory
<1>3. ConfInv /\ ThreadInv /\ RankInv /\ ClientInv BY DEF Inv
<1>4. opening \in Seq(Turns) /\ Len(opening) \in Nat
  <2>1. Turns = [by : {"generator", "critic"}, items : Seq(Items)] BY DEF Turns, Authors
  <2>2. Openings \subseteq Seq(Turns) BY Zenon, <2>1, DurableAgentAssumption
  <2> QED BY <2>2
<1>5. /\ DOMAIN conv' = (1 - Len(opening))..0 /\ conv' = [r \in DOMAIN conv' |-> conv'[r]]
      /\ \A r \in DOMAIN conv' : r \in Int /\ r <= 0 /\ conv'[r] = opening[r + Len(opening)]
  BY <1>2, <1>4
<1>6. \A r \in DOMAIN conv' : conv'[r] \in Turns
  <2> SUFFICES ASSUME NEW r \in DOMAIN conv' PROVE conv'[r] \in Turns OBVIOUS
  <2>1. r + Len(opening) \in 1..Len(opening) BY <1>4, <1>5
  <2>2. opening[r + Len(opening)] \in Turns BY <1>4, <2>1
  <2> QED BY <1>5, <2>2
<1>7. /\ position' \in [rank : Nat \ {0}, answered : BOOLEAN] /\ position'.rank = 1
  BY <1>1 DEF Position
<1>8. pc' \in {"llm", "check", "critique", "finish"}
  <2>1. CASE conf.agent = "critic"
    <3>1. EntryRoute(conv', listed') \in {"llm", "check", "critique", "finish"}
      <4> DEFINE c == conv'  l == listed'
      <4>1. 0 \in Int /\ \A r \in DOMAIN c : r \in Int /\ r <= 0 BY <1>5
      <4> HIDE DEF c, l
      <4>2. EntryRoute(c, l) \in {"llm", "check", "critique", "finish"} BY <4>1, RoutesAre
      <4> QED BY <4>2 DEF c, l
    <3> QED BY <1>1, <2>1, <3>1 DEF Route
  <2>2. CASE conf.agent # "critic" BY <1>1, <2>2 DEF Route
  <2> QED BY <2>1, <2>2
<1>9. ThreadInv' BY <1>1, <1>3, <1>8 DEF ThreadInv, Pcs, AtNode
<1>10. RankInv'
  <2>1. position'.rank \notin DOMAIN conv' /\ \A r \in DOMAIN conv' : r <= position'.rank BY <1>5, <1>7
  <2>2. writing' \in [rank : Int, new : BOOLEAN, item : Items \cup {"none"}] BY <1>1, <1>3 DEF RankInv
  <2>3. pc' \notin {"stream", "complete", "record", "recording", "recorded"} BY <1>8
  <2> QED BY <1>5, <1>6, <1>7, <2>1, <2>2, <2>3 DEF RankInv
<1>11. ClientInv'
  <2>1. served = {} BY <1>1, <1>3 DEF ClientInv
  <2>2. Settled' BY <1>1, <2>1 DEF Settled
  <2>3. pc' \notin {"stream", "complete", "enter", "tools", "limit", "closing", "closed"} BY <1>8
  <2> QED BY <1>1, <1>3, <2>2, <2>3, AsksNothing
<1> QED BY <1>1, <1>9, <1>10, <1>11, WritesNothing DEF Keeps

-----------------------------------------------------------------------------
(***************************************************************************)
(* The model is called.                                                       *)
(***************************************************************************)
\* The turn whose reply is under way keeps the client it has.
LEMMA AskedIs ==
    ASSUME ClientInv, NEW rank, NEW round, Asks(rank, round),
           kept = {} => \A s \in served : s.rank # rank
    PROVE  /\ kept' # {}
           /\ \A s \in served' : s.rank = rank /\ s.client.turn = s.rank /\ kept' \subseteq {s.client}
           /\ \A s, t \in served' : s.client = t.client
<1> DEFINE client == Client(rank, round)
           asked == [rank |-> rank, client |-> client]
           before == {s \in served : s.rank = rank}
<1>1. kept' = {client} /\ served' = before \cup {asked} BY DEF Asks
<1>2. asked.rank = rank /\ asked.client = client
  <2> HIDE DEF client
  <2> QED OBVIOUS
<1>3. \A s \in before : s.rank = rank /\ s.client.turn = rank /\ kept \subseteq {s.client} /\ kept # {}
  BY DEF ClientInv
<1>4. client.turn = rank /\ \A s \in before : s.client = client
  <2>1. CASE Kept(rank) # {}
    <3>1. client \in Kept(rank) BY <2>1 DEF Client
    <3>2. client \in kept /\ client.turn = rank BY <3>1 DEF Kept
    <3> HIDE DEF client, before
    <3> QED BY <1>3, <3>2
  <2>2. CASE Kept(rank) = {}
    <3>1. client = [turn |-> rank, asked |-> round] BY <2>2 DEF Client
    <3>2. client.turn = rank
      <4> HIDE DEF client
      <4> QED BY <3>1
    <3>3. \A s \in before : FALSE
      <4> HIDE DEF before
      <4> QED BY <1>3, <2>2 DEF Kept
    <3> QED BY <3>2, <3>3
  <2> QED BY <2>1, <2>2
<1> HIDE DEF client, asked, before
<1>5. kept' # {} BY <1>1
<1>6. \A s \in served' : s.rank = rank /\ s.client = client BY <1>1, <1>2, <1>3, <1>4
<1> QED BY <1>1, <1>4, <1>5, <1>6

\* The clients of a call of the model, which goes on with a turn or opens one.
LEMMA AskingKeeps ==
    ASSUME ClientInv, NEW rank, NEW round, Asks(rank, round),
           kept = {} => \A s \in served : s.rank # rank,
           pc' \in {"stream", "failed"}, pc' = "stream" => writing'.rank = rank
    PROVE  ClientInv'
<1>1. /\ kept' # {}
      /\ \A s \in served' : s.rank = rank /\ s.client.turn = s.rank /\ kept' \subseteq {s.client}
      /\ \A s, t \in served' : s.client = t.client
  BY AskedIs
<1> QED BY <1>1 DEF ClientInv

\* A turn is continued where the author's last turn is.
LEMMA ContinuedIs ==
    ASSUME RankInv, Continued # {}
    PROVE  /\ Max(Continued) = LastBy(conv, Author) /\ Max(Continued) \in DOMAIN conv
           /\ AwaitsStep(conv[Max(Continued)]) /\ Max(Continued) \in Int
           /\ conf.durable => Max(Continued) = position.rank
<1>1. \A r \in DOMAIN conv : r \in Int /\ r <= position.rank /\ conv[r] \in Turns BY DEF RankInv
<1>2. position.rank \in Nat \ {0} BY DEF RankInv
<1>3. ASSUME position.rank \in Continued PROVE LastBy(conv, Author) = position.rank
  <2>1. position.rank \in DOMAIN conv /\ AwaitsStep(conv[position.rank]) BY <1>3 DEF Continued
  <2>2. conv[position.rank].by # "critic" BY <2>1 DEF RankInv
  <2>3. conv[position.rank].by \in Authors BY <1>1, <2>1 DEF Turns
  <2>4. conv[position.rank].by = Author BY <2>2, <2>3 DEF Authors, Author
  <2> DEFINE p == position.rank
  <2>5. p \in Int /\ p \in DOMAIN conv /\ conv[p].by = Author BY <1>2, <2>1, <2>4
  <2>6. \A r \in DOMAIN conv : r \in Int /\ r <= p BY <1>1
  <2> HIDE DEF p
  <2>7. LastBy(conv, Author) = p BY <2>5, <2>6, LastByIs
  <2> QED BY <2>7 DEF p
<1>4. \A r \in Continued : r = LastBy(conv, Author) /\ r \in DOMAIN conv /\ AwaitsStep(conv[r])
  BY <1>3 DEF Continued
<1>5. \A r \in Continued : r \in Int /\ r <= position.rank BY <1>1, <1>4
<1>6. conf.durable => \A r \in Continued : r = position.rank BY DEF Continued
<1>7. Max(Continued) \in Continued
  <2> DEFINE S == Continued
  <2>1. S \in SUBSET Int /\ S # {} /\ position.rank \in Int /\ \A x \in S : x <= position.rank
    BY <1>2, <1>5
  <2> HIDE DEF S
  <2>2. Max(S) \in S BY <2>1, MaxIs
  <2> QED BY <2>2 DEF S
<1> QED BY <1>4, <1>5, <1>6, <1>7

LEMMA CallModelKeeps == ASSUME Inv, CallModel PROVE Keeps
<1> DEFINE m == Max(Continued)
<1>1. ConfInv /\ ThreadInv /\ RankInv /\ ClientInv BY DEF Inv
<1>2. /\ pc = "llm" /\ Continued # {} /\ pc' = "stream" /\ Asks(m, AnsweredRounds(conv[m]))
      /\ writing' = [rank |-> m, new |-> FALSE, item |-> "none"]
      /\ UNCHANGED <<conf, run, conv, position>>
  BY DEF CallModel, fixed, private
<1>3. writing'.rank = m /\ ~writing'.new
  <2> HIDE DEF m
  <2> QED BY <1>2
<1>4. thread' = IF conf.durable THEN [thread EXCEPT ![m].partial = TRUE] ELSE thread
  <2>1. thread' = IF conf.durable THEN [thread EXCEPT ![writing'.rank].partial = TRUE] ELSE thread
    BY DEF CallModel
  <2> HIDE DEF m
  <2> QED BY <1>3, <2>1
<1>5. /\ m = LastBy(conv, Author) /\ m \in DOMAIN conv /\ AwaitsStep(conv[m]) /\ m \in Int
      /\ conf.durable => m = position.rank
  BY <1>1, <1>2, ContinuedIs
<1> HIDE DEF m
<1>6. ClientInv'
  <2>1. kept = {} => \A s \in served : s.rank # m
    <3>1. kept = {} => Settled BY <1>1, <1>2 DEF ClientInv, Over
    <3> QED BY <1>5, <3>1 DEF Settled
  <2>2. pc' \in {"stream", "failed"} /\ (pc' = "stream" => writing'.rank = m) BY <1>2, <1>3
  <2> QED BY <1>1, <1>2, <2>1, <2>2, AskingKeeps
<1>7. RankInv'
  <2>1. writing' \in [rank : Int, new : BOOLEAN, item : Items \cup {"none"}] BY <1>2, <1>5
  <2>2. (IF writing.new THEN writing.rank = NewRank
         ELSE writing.rank \in DOMAIN conv /\ writing.rank = LastBy(conv, Author))'
    BY <1>2, <1>3, <1>5
  <2> QED BY <1>1, <1>2, <2>1, <2>2 DEF RankInv
<1>8. CASE ~conf.durable
  <2>1. thread' = thread BY <1>4, <1>8
  <2>2. ThreadInv' BY <1>1, <1>2, <1>8, <2>1 DEF ThreadInv, Pcs
  <2> QED BY <1>6, <1>7, <2>1, <2>2, WritesNothing DEF Keeps
<1>9. CASE conf.durable
  <2>1. Sound(thread) /\ AtLlm BY <1>1, <1>2, <1>9 DEF ThreadInv
  <2>2. thread \in Seq(Stored) /\ conv = View(thread) BY <2>1 DEF Sound, AtLlm
  <2>3. position.rank = Len(thread) /\ thread # <<>> /\ Last(thread).items # <<>>
    <3>1. position.rank \in 1..Len(thread) BY <1>5, <1>9, <2>2, ViewIs
    <3>2. Len(thread) \in Nat BY <2>2
    <3> QED BY <2>1, <3>1, <3>2 DEF AtLlm, Stands
  <2> DEFINE t == Last(thread)  turn == TurnOf(t, t.items, TRUE, t.status)
  <2>4. Last(t.items) \in Results
    <3>1. conv[Len(thread)].items = t.items BY <2>2, <2>3, ReadOf
    <3> QED BY <1>5, <1>9, <2>3, <3>1 DEF AwaitsStep
  <2>5. Own(Author) BY <2>1, <2>3, <2>4 DEF AtLlm
  <2>6. Proper(t) /\ t \in Stored BY <2>1, <2>3, LastIsProper
  <2>7. t.by = Author /\ t.status = "streaming" /\ t.run = run /\ t.items \in Seq(Items)
    BY <2>5, <2>6 DEF Own, Stored
  <2>8. thread' = Changed(thread, turn) BY <1>4, <1>5, <1>9, <2>1, <2>3, MarkIs
  <2>9. Proper(turn)
    <3> HIDE DEF t
    <3> QED BY <2>6, <2>7, TurnIsProper
  <2>10. turn.by = Author /\ turn.run = run /\ turn.items = t.items /\ turn.status = "streaming"
    <3> HIDE DEF t
    <3> QED BY <2>7 DEF TurnOf
  <2>11. turn \in Stored BY <2>9 DEF Proper
  <2>12. View(Changed(thread, turn)) = View(thread)
    <3>1. turn.items = Last(thread).items /\ turn.by = Last(thread).by BY <2>7, <2>10
    <3> HIDE DEF turn
    <3> QED BY <2>2, <2>3, <2>11, <3>1, ViewOfChanged
  <2> HIDE DEF turn
  <2>13. /\ Sound(thread') /\ NeverContinued /\ Own(Author)'
         /\ thread' # <<>> /\ Len(thread') = Len(thread) /\ Last(thread') = turn
    BY <1>2, <2>1, <2>5, <2>8, <2>9, <2>10, StaysOwn
  <2>14. AtStream'
    <3>1. (conv = View(thread))' BY <1>2, <2>2, <2>8, <2>12 DEF View
    <3>2. Last(thread').items # <<>> BY <2>3, <2>10, <2>13
    <3>3. position'.rank = Len(thread') /\ writing'.rank = Len(thread')
      BY <1>2, <1>3, <1>5, <1>9, <2>3, <2>13
    <3> QED BY <1>3, <2>13, <3>1, <3>2, <3>3 DEF AtStream
  <2>15. ThreadInv' BY <1>2, <1>9, <2>13, <2>14 DEF ThreadInv, Pcs
  <2> QED BY <1>6, <1>7, <2>13, <2>15 DEF Keeps
<1> QED BY <1>8, <1>9

\* A turn is opened in a thread in which none is.
LEMMA OpensIts ==
    ASSUME Sound(thread), Closed, run \in Nat, run' = run, NEW by \in Authors, NEW th,
           th = Open(Len(thread) + 1, by), thread' = th
    PROVE  /\ Sound(thread') /\ NeverContinued /\ Own(by)'
           /\ thread' # <<>> /\ Len(thread') = Len(thread) + 1 /\ Last(thread').items = <<>>
           /\ View(thread') = View(thread)
<1>1. /\ Sound(th) /\ Len(th) = Len(thread) + 1 /\ th # <<>> /\ Last(th) = NewTurn(by)
      /\ \A r \in DOMAIN thread : th[r] = thread[r]
      /\ View(th) = View(thread)
  BY OpenIs
<1>2. /\ NewTurn(by).status = "streaming" /\ NewTurn(by).run = run /\ NewTurn(by).by = by
      /\ NewTurn(by).items = <<>>
  BY DEF NewTurn
<1>3. NeverContinued BY <1>1 DEF NeverContinued
<1>4. Own(by)' BY <1>1, <1>2 DEF Own
<1>5. View(thread') = View(th) BY DEF View
<1> QED BY <1>1, <1>2, <1>3, <1>4, <1>5

LEMMA OpenTurnKeeps == ASSUME Inv, OpenTurn PROVE Keeps
<1> DEFINE n == NewRank  th == IF conf.durable THEN Open(n, Author) ELSE thread
<1>1. ConfInv /\ ThreadInv /\ RankInv /\ ClientInv BY DEF Inv
<1>2. /\ pc = "llm" /\ Continued = {} /\ Asks(n, 0) /\ Stores(th, Streams(n))
  BY DEF OpenTurn
<1>3. UNCHANGED fixed /\ UNCHANGED <<conf, run>> BY <1>2 DEF Stores, fixed
<1>4. n \in Nat \ {0} /\ n \notin DOMAIN conv BY <1>1, AboveAll
<1>5. pc' \in {"stream", "failed"} /\ (pc' = "stream" => writing'.rank = n)
  <2>1. CASE Streams(n)
    <3>1. pc' = "stream" /\ writing' = [rank |-> n, new |-> TRUE, item |-> "none"] BY <2>1 DEF Streams
    <3> HIDE DEF n
    <3> QED BY <3>1
  <2>2. CASE Failed BY <2>2 DEF Failed
  <2> QED BY <1>2, <2>1, <2>2 DEF Stores
<1> HIDE DEF n
<1>6. ClientInv'
  <2>1. kept = {} => \A s \in served : s.rank # n
    <3>1. kept = {} => Settled BY <1>1, <1>2 DEF ClientInv, Over
    <3> QED BY <1>4, <3>1 DEF Settled
  <2> QED BY <1>1, <1>2, <1>5, <2>1, AskingKeeps
<1>7. ASSUME Streams(n)
      PROVE  /\ RankInv' /\ pc' = "stream" /\ UNCHANGED <<conv, position>>
             /\ writing'.rank = n /\ writing'.new
  <2>1. /\ pc' = "stream" /\ writing' = [rank |-> n, new |-> TRUE, item |-> "none"]
        /\ UNCHANGED <<conv, position>>
    BY <1>7 DEF Streams, private
  <2>2. /\ writing' \in [rank : Int, new : BOOLEAN, item : Items \cup {"none"}]
        /\ writing'.rank = n /\ writing'.new
    BY <1>4, <2>1
  <2>3. NewRank' = n BY <2>1 DEF n, NewRank
  <2> QED BY <1>1, <2>1, <2>2, <2>3 DEF RankInv
<1>8. CASE ~conf.durable
  <2>1. thread' = thread /\ Streams(n) BY <1>2, <1>8 DEF Stores
  <2>2. pc' = "stream" /\ RankInv' BY <1>7, <2>1
  <2>3. ThreadInv' BY <1>1, <1>3, <1>8, <2>1, <2>2 DEF ThreadInv, Pcs
  <2> QED BY <1>6, <2>1, <2>2, <2>3, WritesNothing DEF Keeps
<1>9. CASE conf.durable
  <2>1. Sound(thread) /\ AtLlm /\ conv = View(thread) /\ Stands BY <1>1, <1>2, <1>9 DEF ThreadInv, AtLlm
  <2>2. n = Len(thread) + 1 BY <1>1, <2>1, NewRankIs DEF RankInv, n
  <2>3. Closed
    <3> SUFFICES ASSUME ~Closed PROVE FALSE OBVIOUS
    <3>1. Own(Author) /\ position.rank = Len(thread) /\ Last(Last(thread).items) \in Results
      BY <2>1 DEF AtLlm
    <3>2. thread \in Seq(Stored) /\ thread # <<>> BY <2>1, <3>1 DEF Sound, Own
    <3>3. Last(thread).items # <<>>
      <4>1. Len(thread) \in Nat BY <3>2
      <4> QED BY <2>1, <3>1, <4>1 DEF Stands
    <3>4. Len(thread) \in DOMAIN conv /\ conv[Len(thread)].items = Last(thread).items
      BY <2>1, <3>2, <3>3, ReadOf
    <3>5. position.rank \in Continued BY <3>1, <3>4 DEF Continued, AwaitsStep
    <3> QED BY <1>2, <3>5
  <2>4. th = Open(Len(thread) + 1, Author) BY <1>9, <2>2
  <2>5. Author \in Authors /\ run \in Nat BY <1>1 DEF Author, Authors, ConfInv
  <2>6. Sound(th) BY <2>1, <2>3, <2>4, <2>5, OpenIs
  <2> HIDE DEF th
  <2>7. ASSUME thread' = th
        PROVE  /\ Sound(thread') /\ NeverContinued /\ Own(Author)'
               /\ thread' # <<>> /\ Len(thread') = Len(thread) + 1 /\ Last(thread').items = <<>>
               /\ View(thread') = View(thread)
    BY <1>3, <2>1, <2>3, <2>4, <2>5, <2>7, OpensIts
  <2>8. CASE thread' = th /\ Streams(n)
    <3>1. RankInv' /\ pc' = "stream" /\ UNCHANGED <<conv, position>> /\ writing'.rank = n /\ writing'.new
      BY <1>7, <2>8
    <3>2. AtStream' BY <2>1, <2>2, <2>7, <2>8, <3>1 DEF AtStream, View
    <3>3. ThreadInv' BY <1>3, <1>9, <2>7, <2>8, <3>1, <3>2 DEF ThreadInv, Pcs
    <3> QED BY <1>6, <2>7, <2>8, <3>1, <3>3 DEF Keeps
  <2>9. CASE thread' \in {thread, th} /\ Failed
    BY <1>1, <1>3, <1>6, <1>9, <2>6, <2>7, <2>9, StoreFails
  <2> QED BY <1>2, <2>8, <2>9 DEF Stores
<1> QED BY <1>8, <1>9

-----------------------------------------------------------------------------
(***************************************************************************)
(* The updates of a node: items pushed into a turn of the conversation, and a    *)
(* turn added to it.                                                         *)
(***************************************************************************)
ConvFits == conv = [r \in DOMAIN conv |-> conv[r]] /\ \A r \in DOMAIN conv : r \in Int /\ conv[r] \in Turns

LEMMA PushedIs ==
    ASSUME ConvFits, NEW r, NEW more \in Seq(Items), conv' = [conv EXCEPT ![r].items = more]
    PROVE  /\ DOMAIN conv' = DOMAIN conv /\ ConvFits'
           /\ \A q \in DOMAIN conv : q # r => conv'[q] = conv[q]
           /\ \A q \in DOMAIN conv : conv'[q].by = conv[q].by
           /\ r \in DOMAIN conv => conv'[r].items = more
           /\ LastBy(conv', Author) = LastBy(conv, Author)
           /\ conv' = [q \in DOMAIN conv |->
                         IF q = r THEN [by |-> conv[q].by, items |-> more] ELSE conv[q]]
<1> DEFINE new == [q \in DOMAIN conv |->
                     IF q = r THEN [by |-> conv[q].by, items |-> more] ELSE conv[q]]
<1>1. \A q \in DOMAIN conv : conv[q] \in Turns BY DEF ConvFits
<1>2. \A t \in Turns : [t EXCEPT !.items = more] = [by |-> t.by, items |-> more] BY DEF Turns
<1>3. conv' = [q \in DOMAIN conv |-> IF q = r THEN [conv[q] EXCEPT !.items = more] ELSE conv[q]]
  BY DEF ConvFits
<1>4. conv' = new BY <1>1, <1>2, <1>3
<1>5. /\ DOMAIN new = DOMAIN conv /\ new = [q \in DOMAIN new |-> new[q]]
      /\ \A q \in DOMAIN conv : new[q] = IF q = r THEN [by |-> conv[q].by, items |-> more] ELSE conv[q]
  OBVIOUS
<1>6. \A q \in DOMAIN conv : [by |-> conv[q].by, items |-> more] \in Turns BY <1>1 DEF Turns
<1> HIDE DEF new
<1>7. \A q \in DOMAIN conv : q # r => new[q] = conv[q] BY <1>5
<1>8. r \in DOMAIN conv => new[r].items = more /\ new[r].by = conv[r].by
  <2> DEFINE t == new[r]
  <2>1. r \in DOMAIN conv => t = [by |-> conv[r].by, items |-> more] BY <1>5
  <2> HIDE DEF t
  <2> QED BY <2>1 DEF t
<1>9. \A q \in DOMAIN conv : new[q].by = conv[q].by BY <1>7, <1>8
<1>10. \A q \in DOMAIN new : new[q] \in Turns BY <1>1, <1>5, <1>6
<1>11. TurnsBy(new, Author) = TurnsBy(conv, Author) BY <1>5, <1>9 DEF TurnsBy
<1>12. LastBy(new, Author) = LastBy(conv, Author) BY <1>11 DEF LastBy
<1>13. ConvFits' BY <1>4, <1>5, <1>10 DEF ConvFits
<1>14. LastBy(conv', Author) = LastBy(new, Author) BY <1>4
<1> QED BY <1>4, <1>5, <1>7, <1>8, <1>9, <1>12, <1>13, <1>14 DEF new

LEMMA AddedIs ==
    ASSUME ConvFits, NEW r \in Int, NEW by \in Authors, NEW item \in Items, Added(r, by, item),
           \A q \in DOMAIN conv : q <= r
    PROVE  /\ DOMAIN conv' = DOMAIN conv \cup {r} /\ ConvFits'
           /\ \A q \in DOMAIN conv : q # r => conv'[q] = conv[q]
           /\ conv'[r] = [by |-> by, items |-> <<item>>]
           /\ by = Author => LastBy(conv', Author) = r
<1>1. conv' = [q \in DOMAIN conv \cup {r} |->
                 IF q = r THEN [by |-> by, items |-> <<item>>] ELSE conv[q]]
  BY DEF Added
<1> DEFINE turn == [by |-> by, items |-> <<item>>]
<1>2. turn \in Turns BY DEF Turns
<1> HIDE DEF turn
<1>3. /\ DOMAIN conv' = DOMAIN conv \cup {r} /\ conv' = [q \in DOMAIN conv' |-> conv'[q]]
      /\ \A q \in DOMAIN conv : q # r => conv'[q] = conv[q]
      /\ conv'[r] = turn
  BY <1>1 DEF turn
<1>4. ConvFits' BY <1>2, <1>3 DEF ConvFits
<1>5. ASSUME by = Author PROVE LastBy(conv', Author) = r
  <2> DEFINE c == conv'
  <2>1. c[r].by = Author BY <1>3, <1>5 DEF turn
  <2>2. \A q \in DOMAIN c : q \in Int /\ q <= r BY <1>3 DEF ConvFits
  <2>3. r \in DOMAIN c BY <1>3
  <2> HIDE DEF c
  <2>4. LastBy(c, Author) = r BY <2>1, <2>2, <2>3, LastByIs
  <2> QED BY <2>4 DEF c
<1> QED BY <1>3, <1>4, <1>5 DEF turn

\* The edge after the model.
LEMMA AfterModelIs ==
    ASSUME ConfInv, NEW c, NEW item, Last(Turn(c).items) = item
    PROVE  /\ item = "call" => /\ AfterModel(c) \in {"tools", "limit", "failed"}
                               /\ AfterModel(c) = "limit" => conf.onLimit \in {"End", "Continue"}
           /\ item # "call" => AfterModel(c) \in {"answer", "check"}
<1>1. AwaitsResults(Turn(c)) <=> item = "call" BY DEF AwaitsResults
<1>2. AfterLoop \in {"answer", "check"} BY DEF AfterLoop
<1>3. Limited(c) \in {"limit", "failed"} /\ (Limited(c) = "limit" => conf.onLimit \in {"End", "Continue"})
  <2>1. CASE conf.onLimit = "End" BY <2>1 DEF Limited
  <2>2. CASE conf.onLimit # "End" /\ conf.onLimit = "Continue" /\ ~AnsweredByLimit(c) BY <2>2 DEF Limited
  <2>3. CASE conf.onLimit # "End" /\ ~(conf.onLimit = "Continue" /\ ~AnsweredByLimit(c))
    BY <2>3 DEF Limited
  <2> QED BY <2>1, <2>2, <2>3
<1> QED BY <1>1, <1>2, <1>3 DEF AfterModel

\* The reply of the model is applied to the conversation.
LEMMA Replied ==
    ASSUME ConfInv, RankInv, ClientInv, NEW item \in Replies, Reply(item),
           pc \in {"stream", "complete"}, UNCHANGED <<conf, served>>, kept' \subseteq kept,
           item = "call" => kept' # {}
    PROVE  /\ RankInv' /\ ClientInv'
           /\ item = "call" => /\ pc' \in {"tools", "limit", "failed"}
                               /\ pc' = "limit" => conf.onLimit \in {"End", "Continue"}
           /\ item # "call" => pc' \in {"answer", "check"}
<1> DEFINE r == writing.rank
<1>1. /\ pc' = AfterModel(conv') /\ writing' = None
      /\ writing.new => Added(r, Author, item) /\ position' = [position EXCEPT !.rank = r]
      /\ ~writing.new => Pushed(r, item) /\ position' = position
  BY DEF Reply
<1>2. ConvFits BY DEF RankInv, ConvFits
<1>3. /\ position \in [rank : Nat \ {0}, answered : BOOLEAN]
      /\ \A q \in DOMAIN conv : q \in Int /\ q <= position.rank
      /\ r \in Int
  BY DEF RankInv
<1>4. item \in Items /\ item \notin Results BY DEF Items, Replies, Results
<1>5. /\ ConvFits' /\ r \in DOMAIN conv' /\ LastBy(conv', Author) = r
      /\ Last(conv'[r].items) = item
      /\ \A q \in DOMAIN conv : q \in DOMAIN conv' /\ (q # r => conv'[q] = conv[q])
      /\ position' \in [rank : Nat \ {0}, answered : BOOLEAN]
      /\ \A q \in DOMAIN conv' : q <= position'.rank
      /\ position'.rank \in DOMAIN conv' =>
           position'.rank = r \/ (position'.rank = position.rank /\ position.rank \in DOMAIN conv)
  <2>1. CASE writing.new
    <3>1. r = NewRank BY <2>1 DEF RankInv
    <3>2. r \in Nat \ {0} /\ \A q \in DOMAIN conv : q \in Int /\ q <= r BY <3>1, AboveAll
    <3>3. /\ position' \in [rank : Nat \ {0}, answered : BOOLEAN]
          /\ position'.rank = r
      <4> HIDE DEF r
      <4> QED BY <1>1, <1>3, <2>1, <3>2
    <3>4. Author \in Authors BY DEF Author, Authors
    <3>5. /\ DOMAIN conv' = DOMAIN conv \cup {r} /\ ConvFits'
          /\ \A q \in DOMAIN conv : q # r => conv'[q] = conv[q]
          /\ conv'[r] = [by |-> Author, items |-> <<item>>]
          /\ LastBy(conv', Author) = r
      <4>1. r \in Int /\ Added(r, Author, item) /\ \A q \in DOMAIN conv : q <= r BY <1>1, <1>3, <2>1, <3>2
      <4> HIDE DEF r
      <4> QED BY <1>2, <1>4, <3>4, <4>1, AddedIs
    <3>6. Last(conv'[r].items) = item
      <4> DEFINE t == conv'[r]
      <4>1. t.items = <<item>>
        <5>1. t = [by |-> Author, items |-> <<item>>] BY <3>5
        <5> HIDE DEF t
        <5> QED BY <5>1
      <4>2. Last(<<item>>) = item BY DEF Last
      <4> HIDE DEF t
      <4>3. Last(t.items) = item BY <4>1, <4>2
      <4> QED BY <4>3 DEF t
    <3>7. \A q \in DOMAIN conv' : q <= position'.rank BY <3>2, <3>3, <3>5
    <3>8. \A q \in DOMAIN conv : q \in DOMAIN conv' BY <3>5
    <3>9. r \in DOMAIN conv' BY <3>5
    <3>10. position'.rank = r BY <3>3
    <3> HIDE DEF r
    <3>11. \A q \in DOMAIN conv : q \in DOMAIN conv' /\ (q # r => conv'[q] = conv[q]) BY <3>5, <3>8
    <3>12. position'.rank \in DOMAIN conv' =>
             position'.rank = r \/ (position'.rank = position.rank /\ position.rank \in DOMAIN conv)
      BY <3>10
    <3>13. ConvFits' /\ LastBy(conv', Author) = r BY <3>5
    <3>14. position' \in [rank : Nat \ {0}, answered : BOOLEAN] BY <3>3
    <3> HIDE <3>3, <3>5
    <3> QED BY <3>6, <3>7, <3>9, <3>11, <3>12, <3>13, <3>14
  <2>2. CASE ~writing.new
    <3>1. r \in DOMAIN conv /\ r = LastBy(conv, Author) BY <2>2 DEF RankInv
    <3> DEFINE more == Append(conv[r].items, item)
    <3>2. more \in Seq(Items) /\ Last(more) = item
      <4>1. conv[r].items \in Seq(Items) BY <1>2, <3>1 DEF ConvFits, Turns
      <4> QED BY <1>4, <4>1, LastStep
    <3>3. conv' = [conv EXCEPT ![r].items = more] BY <1>1, <2>2 DEF Pushed
    <3> HIDE DEF more, r
    <3>4. /\ DOMAIN conv' = DOMAIN conv /\ ConvFits'
          /\ \A q \in DOMAIN conv : q # r => conv'[q] = conv[q]
          /\ r \in DOMAIN conv => conv'[r].items = more
          /\ LastBy(conv', Author) = LastBy(conv, Author)
      BY <1>2, <3>2, <3>3, PushedIs
    <3>5. position' = position BY <1>1, <2>2
    <3> QED BY <1>3, <3>1, <3>2, <3>4, <3>5
  <2> QED BY <2>1, <2>2
<1>6. Turn(conv') = conv'[r] BY <1>5 DEF Turn
<1>7. Last(Turn(conv').items) = item BY <1>5, <1>6
<1>8. /\ item = "call" => /\ pc' \in {"tools", "limit", "failed"}
                          /\ pc' = "limit" => conf.onLimit \in {"End", "Continue"}
      /\ item # "call" => pc' \in {"answer", "check"}
  <2> DEFINE c == conv'
  <2>1. Last(Turn(c).items) = item BY <1>7
  <2> HIDE DEF c
  <2>2. /\ item = "call" => /\ AfterModel(c) \in {"tools", "limit", "failed"}
                            /\ AfterModel(c) = "limit" => conf.onLimit \in {"End", "Continue"}
        /\ item # "call" => AfterModel(c) \in {"answer", "check"}
    BY <2>1, AfterModelIs
  <2>3. pc' = AfterModel(c) BY <1>1 DEF c
  <2> QED BY <2>2, <2>3
<1> HIDE DEF r
<1>9. \A q \in DOMAIN conv : AwaitsStep(conv'[q]) => AwaitsStep(conv[q]) /\ q # r
  BY <1>4, <1>5 DEF AwaitsStep
<1>10. ~AwaitsStep(conv'[r]) BY <1>4, <1>5 DEF AwaitsStep
<1>11. RankInv'
  <2>1. writing' \in [rank : Int, new : BOOLEAN, item : Items \cup {"none"}] BY <1>1 DEF None
  <2>2. pc' \notin {"stream", "complete", "record", "recording", "recorded"} BY <1>8
  <2>3. ASSUME position'.rank \in DOMAIN conv', conv'[position'.rank].by = "critic"
        PROVE  ~AwaitsStep(conv'[position'.rank])
    <3>1. CASE position'.rank = r BY <1>10, <3>1
    <3>2. CASE position'.rank # r
      <4>1. position'.rank = position.rank /\ position.rank \in DOMAIN conv BY <1>5, <2>3, <3>2
      <4>2. conv'[position.rank] = conv[position.rank] BY <1>5, <3>2, <4>1
      <4> QED BY <2>3, <4>1, <4>2 DEF RankInv
    <3> QED BY <3>1, <3>2
  <2>4. (position.rank \in DOMAIN conv /\ conv[position.rank].by = "critic" =>
           ~AwaitsStep(conv[position.rank]))'
    BY <2>3 DEF AwaitsStep
  <2>5. conv' = [q \in DOMAIN conv' |-> conv'[q]] /\ \A q \in DOMAIN conv' : q \in Int /\ conv'[q] \in Turns
    BY <1>5 DEF ConvFits
  <2> QED BY <1>5, <2>1, <2>2, <2>4, <2>5 DEF RankInv
<1>12. ClientInv'
  <2>1. \A s \in served : s.rank = writing.rank BY DEF ClientInv
  <2>2. Settled'
    <3>1. \A s \in served : s.rank \in DOMAIN conv' /\ ~AwaitsStep(conv'[s.rank])
      BY <1>5, <1>10, <2>1 DEF r
    <3> QED BY <3>1 DEF Settled, AwaitsStep
  <2>3. /\ \A s \in served : s.client.turn = s.rank /\ kept' \subseteq {s.client}
        /\ \A s, t \in served : s.client = t.client
    BY DEF ClientInv
  <2>4. pc' \notin {"stream", "complete", "enter", "closing", "closed"} BY <1>8
  <2>5. pc' \in {"tools", "limit"} => kept' # {} BY <1>8
  <2> QED BY <2>2, <2>3, <2>4, <2>5 DEF ClientInv
<1> QED BY <1>8, <1>11, <1>12

\* What the conversation is given is what the last turn of the thread was given.
LEMMA PushedIsRead ==
    ASSUME NEW th \in Seq(Stored), th # <<>>, conv = View(th), Last(th).items # <<>>,
           NEW turn \in Stored, turn.by = Last(th).by, turn.items # <<>>,
           conv' = [conv EXCEPT ![Len(th)].items = turn.items]
    PROVE  conv' = View(Changed(th, turn))
<1> DEFINE n == Len(th)  more == turn.items  v == View(th)  w == View(Changed(th, turn))
<1>1. v = [r \in DOMAIN v |-> v[r]] /\ \A r \in DOMAIN v : r \in 1..n /\ v[r] \in Turns
  BY ViewIs
<1>2. n \in DOMAIN v /\ v[n].by = turn.by
  <2>1. n \in DOMAIN v /\ v[n].by = Last(th).by BY ReadOf
  <2> HIDE DEF n, v
  <2> QED BY <2>1
<1>3. w = [r \in DOMAIN v \cup {n} |-> IF r = n THEN [by |-> turn.by, items |-> more] ELSE v[r]]
  BY ViewOfChanged
<1>4. more \in Seq(Items) /\ conv' = [conv EXCEPT ![n].items = more] /\ conv = v BY DEF Stored
<1> HIDE DEF n, more, v, w
<1>5. ConvFits
  <2>1. \A r \in DOMAIN conv : r \in Int /\ conv[r] \in Turns BY <1>1, <1>4
  <2>2. conv = [r \in DOMAIN conv |-> conv[r]] BY <1>1, <1>4
  <2> QED BY <2>1, <2>2 DEF ConvFits
<1>6. conv' = [q \in DOMAIN conv |-> IF q = n THEN [by |-> conv[q].by, items |-> more] ELSE conv[q]]
  BY <1>4, <1>5, PushedIs
<1>7. DOMAIN v \cup {n} = DOMAIN v BY <1>2
<1>8. conv' = w
  <2>1. DOMAIN conv = DOMAIN v /\ \A q \in DOMAIN v : conv[q] = v[q] BY <1>4
  <2>2. \A q \in DOMAIN v : (IF q = n THEN [by |-> conv[q].by, items |-> more] ELSE conv[q])
                             = (IF q = n THEN [by |-> turn.by, items |-> more] ELSE v[q])
    BY <1>2, <2>1
  <2>3. w = [q \in DOMAIN v |-> IF q = n THEN [by |-> turn.by, items |-> more] ELSE v[q]]
    BY <1>3, <1>7
  <2>4. conv' = [q \in DOMAIN v |-> IF q = n THEN [by |-> conv[q].by, items |-> more] ELSE conv[q]]
    BY <1>6, <2>1
  <2> QED BY <2>2, <2>3, <2>4
<1> QED BY <1>8 DEF w

LEMMA AddedIsRead ==
    ASSUME NEW th \in Seq(Stored), th # <<>>, conv = View(th), NEW by, NEW item,
           NEW turn \in Stored, turn.by = by, turn.items = <<item>>, Added(Len(th), by, item)
    PROVE  conv' = View(Changed(th, turn))
<1> DEFINE n == Len(th)  v == View(th)  w == View(Changed(th, turn))
<1>1. turn.items # <<>> OBVIOUS
<1>2. w = [r \in DOMAIN v \cup {n} |-> IF r = n THEN [by |-> turn.by, items |-> turn.items] ELSE v[r]]
  BY <1>1, ViewOfChanged
<1>3. conv' = [r \in DOMAIN conv \cup {n} |->
                 IF r = n THEN [by |-> by, items |-> <<item>>] ELSE conv[r]]
  BY DEF Added
<1>4. conv = v OBVIOUS
<1> HIDE DEF n, v, w
<1>5. conv' = w BY <1>2, <1>3, <1>4
<1> QED BY <1>5 DEF w

\* The client let go with a reply, or kept.
LEMMA LetGo ==
    ASSUME ClientInv, kept' \subseteq kept, served' = served, pc' \in Over \cup {"complete"},
           pc' = "complete" => pc = "stream" /\ writing'.rank = writing.rank
    PROVE  ClientInv'
BY DEF ClientInv, Over

-----------------------------------------------------------------------------
(***************************************************************************)
(* The reply of the model is stored, and given back.                          *)
(***************************************************************************)
LEMMA StreamedInMemory ==
    ASSUME Inv, ~conf.durable, NEW item \in Replies, Streamed(item)
    PROVE  Keeps
<1>1. ConfInv /\ ThreadInv /\ RankInv /\ ClientInv BY DEF Inv
<1>2. /\ pc = "stream" /\ Stores(thread, Reply(item)) /\ served' = served
      /\ kept' = IF item = "call" THEN kept ELSE {}
  BY DEF Streamed, LetsGo
<1>3. thread' = thread /\ Reply(item) /\ conf' = conf BY <1>2 DEF Stores, fixed
<1>4. kept' \subseteq kept /\ (item = "call" => kept' # {}) BY <1>1, <1>2 DEF ClientInv
<1>5. /\ RankInv' /\ ClientInv'
      /\ item = "call" => pc' \in {"tools", "limit", "failed"}
      /\ item # "call" => pc' \in {"answer", "check"}
  BY <1>1, <1>2, <1>3, <1>4, Replied
<1>6. ThreadInv' BY <1>1, <1>3, <1>5 DEF ThreadInv, Pcs, AtNode, Over
<1> QED BY <1>3, <1>5, <1>6, WritesNothing DEF Keeps

LEMMA StreamedDurable ==
    ASSUME Inv, conf.durable, NEW item \in Replies, Streamed(item)
    PROVE  Keeps
<1> DEFINE t == Last(thread)  turn == TurnOf(t, Append(t.items, item), FALSE, t.status)
           th == Changed(thread, turn)
<1>1. ConfInv /\ ThreadInv /\ RankInv /\ ClientInv BY DEF Inv
<1>2. /\ pc = "stream" /\ served' = served /\ kept' = IF item = "call" THEN kept ELSE {}
      /\ Stores(Push(writing.rank, item), IF item = "call" THEN Reply(item) ELSE Completes(item))
  BY DEF Streamed, LetsGo
<1>3. UNCHANGED fixed /\ UNCHANGED <<conf, run>> BY <1>2 DEF Stores, fixed
<1>4. kept' \subseteq kept /\ (item = "call" => kept' # {}) BY <1>1, <1>2 DEF ClientInv
<1>5. Sound(thread) /\ AtStream BY <1>1, <1>2 DEF ThreadInv
<1>6. /\ conv = View(thread) /\ Own(Author) /\ writing.rank = Len(thread)
      /\ writing.new => t.items = <<>>
      /\ ~writing.new => t.items # <<>> /\ position.rank = Len(thread)
      /\ thread # <<>> /\ thread \in Seq(Stored)
  BY <1>5 DEF AtStream, Own, Sound
<1>7. /\ t \in Stored /\ Proper(t) /\ t.by = Author /\ t.status = "streaming" /\ t.run = run
      /\ t.items \in Seq(Items)
  BY <1>5, <1>6, LastIsProper DEF Own, Stored
<1>8. item \in Items BY DEF Items
<1>9. /\ Append(t.items, item) \in Seq(Items) /\ Append(t.items, item) # <<>>
      /\ Last(Append(t.items, item)) = item
  BY <1>7, <1>8, LastStep
<1>10. Push(writing.rank, item) = th BY <1>5, <1>6, <1>8, PushIs
<1>11. Proper(turn)
  <2> HIDE DEF t
  <2> QED BY <1>7, <1>9, TurnIsProper
<1>12. /\ turn.by = Author /\ turn.run = run /\ turn.items = Append(t.items, item)
       /\ turn.status = "streaming"
  <2> HIDE DEF t
  <2> QED BY <1>7 DEF TurnOf
<1>13. turn \in Stored BY <1>11 DEF Proper
<1> HIDE DEF turn
<1>14. ASSUME thread' = th
       PROVE  /\ Sound(thread') /\ NeverContinued /\ Own(Author)'
              /\ thread' # <<>> /\ Len(thread') = Len(thread) /\ Last(thread') = turn
  BY <1>3, <1>5, <1>6, <1>11, <1>12, <1>14, StaysOwn
<1>15. Sound(th) BY <1>5, <1>6, <1>11, ChangedIsSound
<1>16. CASE thread' \in {thread, th} /\ Failed
  <2>1. ClientInv' BY <1>1, <1>2, <1>4, <1>16, LetGo DEF Failed, Over
  <2> HIDE DEF th
  <2> QED BY <1>1, <1>3, <1>14, <1>15, <1>16, <2>1, StoreFails
<1>17. CASE thread' = th /\ item = "call" /\ Reply(item)
  <2>1. /\ RankInv' /\ ClientInv'
        /\ pc' \in {"tools", "limit", "failed"} /\ (pc' = "limit" => conf.onLimit \in {"End", "Continue"})
    BY <1>1, <1>2, <1>3, <1>4, <1>17, Replied
  <2>2. conv' = View(th)
    <3>1. CASE writing.new
      <4>1. Added(Len(thread), Author, item) BY <1>6, <1>17, <3>1 DEF Reply
      <4>2. turn.items = <<item>>
        <5>1. Append(<<>>, item) = <<item>> OBVIOUS
        <5> QED BY <1>6, <1>12, <3>1, <5>1
      <4> QED BY <1>6, <1>12, <1>13, <4>1, <4>2, AddedIsRead
    <3>2. CASE ~writing.new
      <4>1. conv[Len(thread)].items = t.items BY <1>6, <3>2, ReadOf
      <4>2. conv' = [conv EXCEPT ![Len(thread)].items = Append(conv[Len(thread)].items, item)]
        BY <1>6, <1>17, <3>2 DEF Reply, Pushed
      <4>3. conv' = [conv EXCEPT ![Len(thread)].items = turn.items] BY <1>12, <4>1, <4>2
      <4>4. turn.items # <<>> /\ turn.by = t.by BY <1>7, <1>9, <1>12
      <4> QED BY <1>6, <1>13, <3>2, <4>3, <4>4, PushedIsRead
    <3> QED BY <3>1, <3>2
  <2>3. position'.rank = Len(thread)
    <3>1. CASE writing.new
      <4>1. position' = [position EXCEPT !.rank = Len(thread)] BY <1>6, <1>17, <3>1 DEF Reply
      <4>2. position \in [rank : Nat \ {0}, answered : BOOLEAN] BY <1>1 DEF RankInv
      <4> QED BY <4>1, <4>2
    <3>2. CASE ~writing.new
      <4>1. position' = position BY <1>17, <3>2 DEF Reply
      <4> QED BY <1>6, <3>2, <4>1
    <3> QED BY <3>1, <3>2
  <2>4. /\ Sound(thread') /\ NeverContinued /\ Own(Author)'
        /\ Len(thread') = Len(thread) /\ Last(thread') = turn
    BY <1>14, <1>17
  <2>5. (conv = View(thread))' BY <1>17, <2>2 DEF View
  <2>6. Last(thread').items # <<>> /\ Last(Last(thread').items) = "call" BY <1>9, <1>12, <1>17, <2>4
  <2>7. AtTools' BY <2>3, <2>4, <2>5, <2>6 DEF AtTools
  <2>8. ThreadInv' BY <1>3, <2>1, <2>4, <2>7 DEF ThreadInv, Pcs, AtNode, Over
  <2> QED BY <2>1, <2>4, <2>8 DEF Keeps
<1>18. CASE thread' = th /\ item # "call" /\ Completes(item)
  <2>1. /\ pc' = "complete" /\ writing' = [writing EXCEPT !.item = item]
        /\ UNCHANGED <<conv, position>>
    BY <1>18 DEF Completes, private
  <2>2. item \in {"text", "blank"} BY <1>18 DEF Replies
  <2>3. /\ writing' \in [rank : Int, new : BOOLEAN, item : Items \cup {"none"}]
        /\ writing'.rank = writing.rank /\ writing'.new = writing.new /\ writing'.item = item
    <3>1. writing \in [rank : Int, new : BOOLEAN, item : Items \cup {"none"}] BY <1>1 DEF RankInv
    <3> QED BY <1>8, <2>1, <3>1
  <2>4. RankInv'
    <3>1. NewRank' = NewRank BY <2>1 DEF NewRank
    <3>2. IF writing.new THEN writing.rank = NewRank
          ELSE writing.rank \in DOMAIN conv /\ writing.rank = LastBy(conv, Author)
      BY <1>1, <1>2 DEF RankInv
    <3>3. (IF writing.new THEN writing.rank = NewRank
           ELSE writing.rank \in DOMAIN conv /\ writing.rank = LastBy(conv, Author))'
      BY <2>1, <2>3, <3>1, <3>2
    <3>4. pc' \notin {"record", "recording", "recorded"} BY <2>1
    <3> QED BY <1>1, <2>1, <2>2, <2>3, <3>3, <3>4 DEF RankInv
  <2>5. ClientInv' BY <1>1, <1>2, <1>4, <2>1, <2>3, LetGo
  <2>6. /\ Sound(thread') /\ NeverContinued /\ Own(Author)'
        /\ Len(thread') = Len(thread) /\ Last(thread') = turn
    BY <1>14, <1>18
  <2>7. AtComplete'
    <3>1. PICK items \in Seq(Items) : items = t.items BY <1>7
    <3>2. Had(items)' = Had(items)
      <4>1. turn.by = Last(thread).by /\ turn.run = Last(thread).run BY <1>7, <1>12
      <4> QED BY <1>5, <1>6, <1>13, <1>18, <4>1, HadOfChanged
    <3>3. View(Had(items)) = View(thread) BY <1>5, <1>6, <3>1, HadIs
    <3>4. Last(thread').items = Append(items, writing'.item) BY <1>12, <2>3, <2>6, <3>1
    <3>5. writing'.new => items = <<>> BY <1>6, <2>3, <3>1
    <3>6. ~writing'.new => items # <<>> /\ position'.rank = Len(thread')
      BY <1>6, <2>1, <2>3, <2>6, <3>1
    <3>7. writing'.rank = Len(thread') BY <1>6, <2>3, <2>6
    <3>8. Behind(items)' BY <1>6, <2>1, <3>2, <3>3 DEF Behind, View
    <3> QED BY <2>6, <3>4, <3>5, <3>6, <3>7, <3>8 DEF AtComplete
  <2>8. ThreadInv' BY <1>3, <2>1, <2>6, <2>7 DEF ThreadInv, Pcs
  <2> QED BY <2>4, <2>5, <2>6, <2>8 DEF Keeps
<1>19. \/ thread' = th /\ (IF item = "call" THEN Reply(item) ELSE Completes(item))
       \/ thread' \in {thread, th} /\ Failed
  <2>1. \/ thread' = Push(writing.rank, item) /\ (IF item = "call" THEN Reply(item) ELSE Completes(item))
        \/ thread' \in {thread, Push(writing.rank, item)} /\ Failed
    BY <1>2 DEF Stores
  <2> HIDE DEF th
  <2> QED BY <1>10, <2>1
<1> QED BY <1>16, <1>17, <1>18, <1>19

\* An item pushed into the turn the agent has open.
LEMMA PushedTurn ==
    ASSUME Sound(thread), Own(Author), NEW item \in Items
    PROVE  \E turn \in Stored :
             /\ Push(Len(thread), item) = Changed(thread, turn) /\ Proper(turn)
             /\ turn.by = Author /\ turn.run = run /\ turn.status = "streaming"
             /\ turn.items = Append(Last(thread).items, item) /\ turn.items # <<>>
             /\ Last(turn.items) = item /\ Sound(Changed(thread, turn))
<1> DEFINE t == Last(thread)  turn == TurnOf(t, Append(t.items, item), FALSE, t.status)
<1>1. thread # <<>> BY DEF Own
<1>2. /\ t \in Stored /\ Proper(t) /\ t.by = Author /\ t.status = "streaming" /\ t.run = run
      /\ t.items \in Seq(Items)
  BY <1>1, LastIsProper DEF Own, Stored
<1>3. /\ Append(t.items, item) \in Seq(Items) /\ Append(t.items, item) # <<>>
      /\ Last(Append(t.items, item)) = item
  BY <1>2, LastStep
<1>4. Push(Len(thread), item) = Changed(thread, turn) BY <1>1, PushIs
<1>5. Proper(turn)
  <2> HIDE DEF t
  <2> QED BY <1>2, <1>3, TurnIsProper
<1>6. /\ turn.by = Author /\ turn.run = run /\ turn.items = Append(t.items, item)
      /\ turn.status = "streaming"
  <2> HIDE DEF t
  <2> QED BY <1>2 DEF TurnOf
<1>7. turn \in Stored BY <1>5 DEF Proper
<1> HIDE DEF turn
<1>8. Sound(Changed(thread, turn)) BY <1>1, <1>5, ChangedIsSound
<1> QED BY <1>3, <1>4, <1>5, <1>6, <1>7, <1>8

\* The open turn, completed.
LEMMA CompletedTurn ==
    ASSUME Sound(thread), thread # <<>>, Last(thread).items # <<>>,
           Last(Last(thread).items) \notin Results
    PROVE  \E turn \in Stored :
             /\ Complete(Len(thread)) = Changed(thread, turn) /\ Proper(turn)
             /\ turn.by = Last(thread).by /\ turn.run = Last(thread).run /\ turn.status = "completed"
             /\ turn.items = Last(thread).items /\ Sound(Changed(thread, turn))
<1> DEFINE t == Last(thread)  turn == TurnOf(t, t.items, t.partial, "completed")
<1>1. /\ t \in Stored /\ Proper(t) /\ t.items \in Seq(Items) /\ t.partial \in BOOLEAN
  BY LastIsProper DEF Stored
<1>2. Complete(Len(thread)) = Changed(thread, turn) BY CompleteIs
<1>3. turn.by = t.by /\ turn.run = t.run /\ turn.items = t.items /\ turn.status = "completed"
  <2> HIDE DEF t
  <2> QED BY DEF TurnOf
<1>4. turn \in Stored
  <2> HIDE DEF t
  <2> QED BY <1>1, TurnIsStored
<1> HIDE DEF turn
<1>5. Proper(turn) BY <1>1, <1>3, <1>4 DEF Proper
<1>6. Sound(Changed(thread, turn)) BY <1>5, ChangedIsSound
<1> QED BY <1>2, <1>3, <1>4, <1>5, <1>6

LEMMA CompleteTurnKeeps == ASSUME Inv, CompleteTurn, UNCHANGED clients PROVE Keeps
<1> DEFINE t == Last(thread)  item == writing.item
<1>1. ConfInv /\ ThreadInv /\ RankInv /\ ClientInv BY DEF Inv
<1>2. /\ pc = "complete" /\ Stores(Complete(writing.rank), Reply(item)) /\ UNCHANGED <<kept, served>>
  BY DEF CompleteTurn, clients
<1>3. UNCHANGED fixed /\ UNCHANGED <<conf, run>> BY <1>2 DEF Stores, fixed
<1>4. conf.durable /\ Sound(thread) /\ AtComplete BY <1>1, <1>2, ConfIs DEF ThreadInv
<1>5. PICK items \in Seq(Items) :
        /\ Behind(items) /\ t.items = Append(items, item)
        /\ IF writing.new THEN items = <<>> ELSE items # <<>> /\ position.rank = Len(thread)
  BY <1>4 DEF AtComplete
<1>6. Own(Author) /\ writing.rank = Len(thread) /\ thread # <<>> /\ thread \in Seq(Stored)
  BY <1>4 DEF AtComplete, Own, Sound
<1>7. item \in {"text", "blank"} BY <1>1, <1>2 DEF RankInv
<1>8. item \in Replies /\ item \in Items /\ item # "call" /\ item \notin Results
  BY <1>7 DEF Replies, Items, Results
<1>9. t.items # <<>> /\ Last(t.items) = item BY <1>5, <1>8, LastStep
<1>10. PICK turn \in Stored :
         /\ Complete(Len(thread)) = Changed(thread, turn) /\ Proper(turn)
         /\ turn.by = t.by /\ turn.run = t.run /\ turn.status = "completed"
         /\ turn.items = t.items /\ Sound(Changed(thread, turn))
  BY <1>4, <1>6, <1>8, <1>9, CompletedTurn
<1>11. turn.by = Author /\ turn.run = run BY <1>6, <1>10 DEF Own
<1> DEFINE th == Changed(thread, turn)
<1>12. ASSUME thread' = th
       PROVE  /\ Sound(thread') /\ NeverContinued /\ Closed'
              /\ thread' # <<>> /\ Len(thread') = Len(thread) /\ Last(thread') = turn
  <2>1. turn.status # "streaming" BY <1>10
  <2> QED BY <1>3, <1>4, <1>6, <1>10, <1>11, <1>12, <2>1, StaysOwn
<1>13. CASE thread' \in {thread, th} /\ Failed
  <2>1. ClientInv' BY <1>1, <1>2, <1>13, EndsClients DEF Failed
  <2>2. Sound(th) BY <1>10
  <2> HIDE DEF th
  <2> QED BY <1>1, <1>3, <1>4, <1>12, <1>13, <2>1, <2>2, StoreFails
<1>14. CASE thread' = th /\ Reply(item)
  <2>1. RankInv' /\ ClientInv' /\ pc' \in {"answer", "check"}
    <3>1. kept' \subseteq kept /\ (item = "call" => kept' # {}) BY <1>2, <1>8
    <3> HIDE DEF item
    <3> QED BY <1>1, <1>2, <1>3, <1>8, <1>14, <3>1, Replied
  <2> DEFINE th0 == Had(items)
  <2>2. /\ th0 \in Seq(Stored) /\ th0 # <<>> /\ Len(th0) = Len(thread)
        /\ Last(th0).items = items /\ Last(th0).by = t.by
        /\ Changed(th0, turn) = th
    BY <1>4, <1>6, HadIs
  <2>3. conv = View(th0) BY <1>5 DEF Behind
  <2> HIDE DEF th0
  <2>4. conv' = View(th)
    <3>1. CASE writing.new
      <4>1. Added(Len(th0), Author, item) BY <1>6, <1>14, <2>2, <3>1 DEF Reply
      <4>2. turn.items = <<item>>
        <5>1. Append(<<>>, item) = <<item>> OBVIOUS
        <5> QED BY <1>5, <1>10, <3>1, <5>1
      <4>3. conv' = View(Changed(th0, turn)) BY <1>11, <2>2, <2>3, <4>1, <4>2, AddedIsRead
      <4> QED BY <2>2, <4>3
    <3>2. CASE ~writing.new
      <4>1. items # <<>> BY <1>5, <3>2
      <4>2. conv[Len(th0)].items = items BY <2>2, <2>3, <4>1, ReadOf
      <4>3. conv' = [conv EXCEPT ![Len(th0)].items = Append(conv[Len(th0)].items, item)]
        BY <1>6, <1>14, <2>2, <3>2 DEF Reply, Pushed
      <4>4. conv' = [conv EXCEPT ![Len(th0)].items = turn.items] BY <1>5, <1>10, <4>2, <4>3
      <4>5. turn.items # <<>> /\ turn.by = Last(th0).by BY <1>9, <1>10, <2>2
      <4>6. conv' = View(Changed(th0, turn)) BY <2>2, <2>3, <4>1, <4>4, <4>5, PushedIsRead
      <4> QED BY <2>2, <4>6
    <3> QED BY <3>1, <3>2
  <2>5. position'.rank = Len(thread)
    <3>1. CASE writing.new
      <4>1. position' = [position EXCEPT !.rank = Len(thread)] BY <1>6, <1>14, <3>1 DEF Reply
      <4>2. position \in [rank : Nat \ {0}, answered : BOOLEAN] BY <1>1 DEF RankInv
      <4> QED BY <4>1, <4>2
    <3>2. CASE ~writing.new
      <4>1. position' = position BY <1>14, <3>2 DEF Reply
      <4> QED BY <1>5, <3>2, <4>1
    <3> QED BY <3>1, <3>2
  <2>6. /\ Sound(thread') /\ NeverContinued /\ Closed' /\ thread' # <<>>
        /\ Len(thread') = Len(thread) /\ Last(thread') = turn
    BY <1>12, <1>14
  <2>7. (conv = View(thread))' BY <1>14, <2>4 DEF View
  <2>8. Last(thread').items # <<>> /\ Last(Last(thread').items) \notin Results
    BY <1>8, <1>9, <1>10, <2>6
  <2>9. Stands' BY <2>5, <2>6, <2>8 DEF Stands
  <2>10. AtRest' BY <2>6, <2>7, <2>8, <2>9 DEF AtRest
  <2>11. ThreadInv' BY <1>3, <1>4, <2>1, <2>6, <2>10 DEF ThreadInv, Pcs, AtNode
  <2> QED BY <2>1, <2>6, <2>11 DEF Keeps
<1>15. \/ thread' = th /\ Reply(item)
       \/ thread' \in {thread, th} /\ Failed
  <2>1. \/ thread' = Complete(writing.rank) /\ Reply(item)
        \/ thread' \in {thread, Complete(writing.rank)} /\ Failed
    BY <1>2 DEF Stores
  <2>2. Complete(writing.rank) = th BY <1>6, <1>10
  <2> HIDE DEF th
  <2> QED BY <2>1, <2>2
<1> QED BY <1>13, <1>14, <1>15

-----------------------------------------------------------------------------
(***************************************************************************)
(* The results of the calls, and the limit of the rounds.                     *)
(***************************************************************************)
\* Items pushed into the last turn of the agent, while its client is kept.
LEMMA PushedKeeps ==
    ASSUME RankInv, ClientInv, kept # {}, UNCHANGED <<kept, served, position, writing>>,
           NEW r, r = LastBy(conv, Author), NEW more, r \in DOMAIN conv => more \in Seq(Items),
           conv' = [conv EXCEPT ![r].items = more], pc' \in {"llm", "answer", "check"}
    PROVE  RankInv' /\ ClientInv'
<1>1. ConvFits BY DEF RankInv, ConvFits
<1>2. /\ DOMAIN conv' = DOMAIN conv /\ ConvFits'
      /\ \A q \in DOMAIN conv : q # r => conv'[q] = conv[q]
      /\ \A q \in DOMAIN conv : conv'[q].by = conv[q].by
  <2>1. CASE r \in DOMAIN conv BY <1>1, <2>1, PushedIs
  <2>2. CASE r \notin DOMAIN conv
    <3>1. conv' = conv BY <1>1, <2>2 DEF ConvFits
    <3> QED BY <1>1, <3>1 DEF ConvFits
  <2> QED BY <2>1, <2>2
<1>3. /\ position \in [rank : Nat \ {0}, answered : BOOLEAN]
      /\ \A q \in DOMAIN conv : q \in Int /\ q <= position.rank
  BY DEF RankInv
<1>4. ASSUME position.rank \in DOMAIN conv, conv[position.rank].by = "critic"
      PROVE  position.rank # r
  <2> SUFFICES ASSUME position.rank = r PROVE FALSE OBVIOUS
  <2> DEFINE S == TurnsBy(conv, Author)
  <2>1. CASE S = {}
    <3>1. r = -9 BY <2>1 DEF LastBy
    <3> QED BY <1>3, <3>1
  <2>2. CASE S # {}
    <3>1. S \in SUBSET Int /\ position.rank \in Int /\ \A x \in S : x <= position.rank
      BY <1>3 DEF TurnsBy
    <3>2. r = Max(S) BY <2>2 DEF LastBy
    <3> HIDE DEF S
    <3>3. r \in S BY <2>2, <3>1, <3>2, MaxIs
    <3> QED BY <1>4, <3>3 DEF S, TurnsBy, Author
  <2> QED BY <2>1, <2>2
<1>5. ASSUME position.rank \in DOMAIN conv', conv'[position.rank].by = "critic"
      PROVE  ~AwaitsStep(conv'[position.rank])
  <2>1. position.rank \in DOMAIN conv /\ conv[position.rank].by = "critic" BY <1>2, <1>5
  <2>2. position.rank # r BY <1>4, <2>1
  <2>3. conv'[position.rank] = conv[position.rank] BY <1>2, <2>1, <2>2
  <2> QED BY <2>1, <2>3 DEF RankInv
<1>6. RankInv'
  <2>1. (position.rank \in DOMAIN conv /\ conv[position.rank].by = "critic" =>
           ~AwaitsStep(conv[position.rank]))'
    BY <1>5 DEF AwaitsStep
  <2>2. /\ conv' = [q \in DOMAIN conv' |-> conv'[q]]
        /\ \A q \in DOMAIN conv' : q \in Int /\ conv'[q] \in Turns /\ q <= position'.rank
    BY <1>2, <1>3 DEF ConvFits
  <2>3. writing' \in [rank : Int, new : BOOLEAN, item : Items \cup {"none"}] BY DEF RankInv
  <2>4. pc' \notin {"stream", "complete", "record", "recording", "recorded"} OBVIOUS
  <2> QED BY <1>3, <2>1, <2>2, <2>3, <2>4 DEF RankInv
<1>7. ClientInv'
  <2>1. pc' \notin {"stream", "complete", "enter"} /\ kept' # {} OBVIOUS
  <2>2. kept' = kept /\ served' = served OBVIOUS
  <2> QED BY <2>1, <2>2 DEF ClientInv
<1> QED BY <1>6, <1>7

\* What an item pushed into a turn of the conversation makes of its items.
LEMMA MoreItems ==
    ASSUME RankInv, NEW r, NEW item \in Items
    PROVE  r \in DOMAIN conv => /\ Append(conv[r].items, item) \in Seq(Items)
                                /\ conv[r].items \o <<"refused", "closing">> \in Seq(Items)
<1> SUFFICES ASSUME r \in DOMAIN conv
             PROVE  /\ Append(conv[r].items, item) \in Seq(Items)
                    /\ conv[r].items \o <<"refused", "closing">> \in Seq(Items)
  OBVIOUS
<1>1. conv[r].items \in Seq(Items) BY DEF RankInv, Turns
<1>2. <<"refused", "closing">> \in Seq(Items)
  <2>1. "refused" \in Items /\ "closing" \in Items BY DEF Items, Results
  <2> QED BY <2>1
<1> DEFINE s == conv[r].items  e == <<"refused", "closing">>
<1> HIDE DEF s, e
<1>3. Append(s, item) \in Seq(Items) /\ s \o e \in Seq(Items) BY <1>1, <1>2 DEF s, e
<1> QED BY <1>3 DEF s, e

LEMMA AnswersKeeps ==
    ASSUME Inv, pc \in {"tools", "limit"}, NEW item \in {"ran", "refused"},
           Answering(item, Answers(item)), item = "refused" => conf.onLimit # "End",
           UNCHANGED clients
    PROVE  Keeps
<1> DEFINE r == LastBy(conv, Author)  t == Last(thread)
<1>1. ConfInv /\ ThreadInv /\ RankInv /\ ClientInv /\ UNCHANGED <<kept, served>> BY DEF Inv, clients
<1>2. /\ Stores(IF conf.durable THEN Push(r, item) ELSE thread, Answers(item))
      /\ kept # {} /\ item \in Items /\ item \in Results
  BY <1>1 DEF Answering, ClientInv, Items, Results
<1>3. UNCHANGED fixed /\ UNCHANGED <<conf, run>> BY <1>2 DEF Stores, fixed
<1>4. ASSUME Answers(item)
      PROVE  /\ pc' = "llm" /\ UNCHANGED <<position, writing>> /\ RankInv' /\ ClientInv'
             /\ conv' = [conv EXCEPT ![r].items = Append(conv[r].items, item)]
  <2>1. /\ conv' = [conv EXCEPT ![r].items = Append(conv[r].items, item)]
        /\ UNCHANGED <<position, writing>>
    BY <1>4 DEF Answers, Pushed
  <2>2. pc' = "llm"
    <3>1. CASE item = "refused" BY <1>4, <3>1 DEF Answers, AfterLimit
    <3>2. CASE item # "refused" BY <1>4, <3>2 DEF Answers, AfterTools
    <3> QED BY <3>1, <3>2
  <2> DEFINE more == Append(conv[r].items, item)
  <2>3. r \in DOMAIN conv => more \in Seq(Items) BY <1>1, <1>2, MoreItems
  <2>4. r = LastBy(conv, Author) OBVIOUS
  <2>5. conv' = [conv EXCEPT ![r].items = more] BY <2>1
  <2> HIDE DEF r, more
  <2>6. RankInv' /\ ClientInv' BY <1>1, <1>2, <2>1, <2>2, <2>3, <2>4, <2>5, PushedKeeps
  <2> QED BY <2>1, <2>2, <2>6
<1>5. CASE ~conf.durable
  <2>1. thread' = thread /\ Answers(item) BY <1>2, <1>5 DEF Stores
  <2>2. pc' = "llm" /\ RankInv' /\ ClientInv' BY <1>4, <2>1
  <2>3. ThreadInv' BY <1>1, <1>3, <1>5, <2>1, <2>2 DEF ThreadInv, Pcs, AtNode
  <2> QED BY <2>1, <2>2, <2>3, WritesNothing DEF Keeps
<1>6. CASE conf.durable
  <2>1. Sound(thread) /\ AtTools BY <1>1, <1>6 DEF ThreadInv
  <2>2. /\ conv = View(thread) /\ Own(Author) /\ position.rank = Len(thread) /\ thread # <<>>
        /\ t.items # <<>> /\ thread \in Seq(Stored) /\ t.by = Author /\ t.run = run
    BY <2>1 DEF AtTools, Own, Sound
  <2>3. r = Len(thread) /\ conv[Len(thread)].items = t.items BY <2>2, ReadOf
  <2>4. PICK turn \in Stored :
          /\ Push(Len(thread), item) = Changed(thread, turn) /\ Proper(turn)
          /\ turn.by = Author /\ turn.run = run /\ turn.status = "streaming"
          /\ turn.items = Append(t.items, item) /\ turn.items # <<>>
          /\ Last(turn.items) = item /\ Sound(Changed(thread, turn))
    BY <1>2, <2>1, <2>2, PushedTurn
  <2> DEFINE th == Changed(thread, turn)
  <2>5. ASSUME thread' = th
        PROVE  /\ Sound(thread') /\ NeverContinued /\ Own(Author)'
               /\ thread' # <<>> /\ Len(thread') = Len(thread) /\ Last(thread') = turn
    BY <1>3, <2>1, <2>2, <2>4, <2>5, StaysOwn
  <2>6. CASE thread' \in {thread, th} /\ Failed
    <3>1. ClientInv' BY <1>1, <2>6, EndsClients DEF Failed
    <3>2. Sound(th) BY <2>4
    <3> HIDE DEF th
    <3> QED BY <1>1, <1>3, <1>6, <2>5, <2>6, <3>1, <3>2, StoreFails
  <2>7. CASE thread' = th /\ Answers(item)
    <3>1. /\ pc' = "llm" /\ UNCHANGED <<position, writing>> /\ RankInv' /\ ClientInv'
          /\ conv' = [conv EXCEPT ![r].items = Append(conv[r].items, item)]
      BY <1>4, <2>7
    <3>2. conv' = [conv EXCEPT ![Len(thread)].items = turn.items] BY <2>3, <2>4, <3>1
    <3>3. conv' = View(th) BY <2>2, <2>4, <3>2, PushedIsRead
    <3>4. /\ Sound(thread') /\ NeverContinued /\ Own(Author)' /\ thread' # <<>>
          /\ Len(thread') = Len(thread) /\ Last(thread') = turn
      BY <2>5, <2>7
    <3>5. (conv = View(thread))' BY <2>7, <3>3 DEF View
    <3>6. position'.rank = Len(thread') BY <2>2, <3>1, <3>4
    <3>7. Last(thread').items # <<>> /\ Last(Last(thread').items) \in Results BY <1>2, <2>4, <3>4
    <3>8. Stands' BY <3>4, <3>6, <3>7 DEF Stands
    <3>9. AtLlm' BY <3>4, <3>5, <3>6, <3>7, <3>8 DEF AtLlm
    <3>10. ThreadInv' BY <1>3, <1>6, <3>1, <3>4, <3>9 DEF ThreadInv, Pcs, AtNode
    <3> QED BY <3>1, <3>4, <3>10 DEF Keeps
  <2>8. \/ thread' = th /\ Answers(item)
        \/ thread' \in {thread, th} /\ Failed
    <3>1. \/ thread' = Push(r, item) /\ Answers(item)
          \/ thread' \in {thread, Push(r, item)} /\ Failed
      BY <1>2, <1>6 DEF Stores
    <3>2. Push(r, item) = th BY <2>3, <2>4
    <3> HIDE DEF th
    <3> QED BY <3>1, <3>2
  <2> QED BY <2>6, <2>7, <2>8
<1> QED BY <1>5, <1>6

LEMMA RunToolsKeeps == ASSUME Inv, RunTools, UNCHANGED clients PROVE Keeps
BY AnswersKeeps DEF RunTools

LEMMA ItemsAppend ==
    ASSUME NEW s \in Seq(Items), NEW e \in Seq(Items), NEW item \in Items
    PROVE  Append(s \o e, item) = s \o Append(e, item)
<1> DEFINE S == Items
<1>1. s \in Seq(S) /\ e \in Seq(S) /\ item \in S OBVIOUS
<1> HIDE DEF S
<1> QED BY <1>1, AppendOfConcat

\* One more item of the closing of a turn is stored, and not yet given back.
LEMMA ClosingKeeps ==
    ASSUME Inv, pc \in {"limit", "closing"}, NEW item \in {"refused", "closing"},
           NEW to \in {"closing", "closed"}, NEW before \in Seq(Items), NEW end,
           Append(before, item) = end, conf.durable => AtClosing(before),
           to = "closing" => end = <<"refused">>, to = "closed" => end = <<"refused", "closing">>,
           Answering(item, pc' = to /\ UNCHANGED <<private, writing, ruling>>), UNCHANGED clients
    PROVE  Keeps
<1> DEFINE r == LastBy(conv, Author)  t == Last(thread)
           Goes_(to_) == pc' = to_ /\ UNCHANGED <<private, writing, ruling>>
<1>1. ConfInv /\ ThreadInv /\ RankInv /\ ClientInv /\ UNCHANGED <<kept, served>> BY DEF Inv, clients
<1>2. /\ Stores(IF conf.durable THEN Push(r, item) ELSE thread, Goes_(to))
      /\ kept # {} /\ item \in Items
  BY <1>1 DEF Answering, ClientInv, Items, Results
<1>3. UNCHANGED fixed /\ UNCHANGED <<conf, run>> BY <1>2 DEF Stores, fixed
<1>4. ASSUME Goes_(to)
      PROVE  pc' = to /\ UNCHANGED <<conv, position, writing>> /\ RankInv' /\ ClientInv'
  <2>1. pc' = to /\ UNCHANGED <<conv, position, writing>> BY <1>4 DEF private
  <2>2. RankInv'
    <3>1. pc' \notin {"stream", "complete", "record", "recording", "recorded"} BY <2>1
    <3> QED BY <1>1, <2>1, <3>1 DEF RankInv
  <2>3. ClientInv'
    <3>1. pc' \notin {"stream", "complete", "enter"} BY <2>1
    <3> QED BY <1>1, <1>2, <3>1 DEF ClientInv
  <2> QED BY <2>1, <2>2, <2>3
<1>5. CASE ~conf.durable
  <2>1. thread' = thread /\ Goes_(to) BY <1>2, <1>5 DEF Stores
  <2>2. pc' = to /\ RankInv' /\ ClientInv' BY <1>4, <2>1
  <2>3. ThreadInv' BY <1>1, <1>3, <1>5, <2>1, <2>2 DEF ThreadInv, Pcs
  <2> QED BY <2>1, <2>2, <2>3, WritesNothing DEF Keeps
<1>6. CASE conf.durable
  <2>1. Sound(thread) /\ AtClosing(before) BY <1>1, <1>6 DEF ThreadInv
  <2>2. PICK items \in Seq(Items) \ {<<>>} : Behind(items) /\ t.items = items \o before
    BY <2>1 DEF AtClosing
  <2>3. /\ conf.onLimit = "End" /\ Own(Author) /\ position.rank = Len(thread) /\ thread # <<>>
        /\ thread \in Seq(Stored) /\ t.by = Author /\ t.run = run
    BY <2>1 DEF AtClosing, Own, Sound
  <2>4. r = Len(thread)
    <3>1. /\ Had(items) \in Seq(Stored) /\ Had(items) # <<>> /\ Len(Had(items)) = Len(thread)
          /\ Last(Had(items)).items = items /\ Last(Had(items)).by = t.by
      BY <2>1, <2>2, <2>3, HadIs
    <3>2. conv = View(Had(items)) BY <2>2 DEF Behind
    <3> QED BY <2>2, <2>3, <3>1, <3>2, ReadOf
  <2>5. PICK turn \in Stored :
          /\ Push(Len(thread), item) = Changed(thread, turn) /\ Proper(turn)
          /\ turn.by = Author /\ turn.run = run /\ turn.status = "streaming"
          /\ turn.items = Append(t.items, item) /\ turn.items # <<>>
          /\ Last(turn.items) = item /\ Sound(Changed(thread, turn))
    BY <1>2, <2>1, <2>3, PushedTurn
  <2> DEFINE th == Changed(thread, turn)
  <2>6. ASSUME thread' = th
        PROVE  /\ Sound(thread') /\ NeverContinued /\ Own(Author)'
               /\ thread' # <<>> /\ Len(thread') = Len(thread) /\ Last(thread') = turn
    BY <1>3, <2>1, <2>3, <2>5, <2>6, StaysOwn
  <2>7. CASE thread' \in {thread, th} /\ Failed
    <3>1. ClientInv' BY <1>1, <2>7, EndsClients DEF Failed
    <3>2. Sound(th) BY <2>5
    <3> HIDE DEF th
    <3> QED BY <1>1, <1>3, <1>6, <2>6, <2>7, <3>1, <3>2, StoreFails
  <2>8. CASE thread' = th /\ Goes_(to)
    <3>1. pc' = to /\ UNCHANGED <<conv, position, writing>> /\ RankInv' /\ ClientInv' BY <1>4, <2>8
    <3>2. /\ Sound(thread') /\ NeverContinued /\ Own(Author)' /\ thread' # <<>>
          /\ Len(thread') = Len(thread) /\ Last(thread') = turn
      BY <2>6, <2>8
    <3>3. Had(items)' = Had(items)
      <4>1. turn.by = Last(thread).by /\ turn.run = Last(thread).run BY <2>3, <2>5
      <4> QED BY <2>1, <2>2, <2>3, <2>5, <2>8, <4>1, HadOfChanged
    <3>4. Behind(items)' BY <2>2, <3>1, <3>3 DEF Behind, View
    <3>5. Last(thread').items = items \o end
      <4>1. Append(items \o before, item) = items \o Append(before, item)
        BY <1>2, <2>2, ItemsAppend
      <4>2. Last(thread').items = Append(t.items, item) BY <2>5, <3>2
      <4> QED BY <2>2, <4>1, <4>2
    <3>6. conf'.onLimit = "End" /\ position'.rank = Len(thread') BY <1>3, <2>3, <3>1, <3>2
    <3>7. AtClosing(end)' BY <2>2, <3>2, <3>4, <3>5, <3>6 DEF AtClosing
    <3>8. ThreadInv'
      <4>1. CASE to = "closing" BY <1>3, <1>6, <3>1, <3>2, <3>7, <4>1 DEF ThreadInv, Pcs
      <4>2. CASE to = "closed" BY <1>3, <1>6, <3>1, <3>2, <3>7, <4>2 DEF ThreadInv, Pcs
      <4> QED BY <4>1, <4>2
    <3> QED BY <3>1, <3>2, <3>8 DEF Keeps
  <2>9. \/ thread' = th /\ Goes_(to)
        \/ thread' \in {thread, th} /\ Failed
    <3> HIDE DEF Goes_
    <3>1. \/ thread' = Push(r, item) /\ Goes_(to)
          \/ thread' \in {thread, Push(r, item)} /\ Failed
      BY <1>2, <1>6 DEF Stores
    <3>2. Push(r, item) = th BY <2>4, <2>5
    <3> HIDE DEF th
    <3> QED BY <3>1, <3>2
  <2> QED BY <2>7, <2>8, <2>9
<1> QED BY <1>5, <1>6

LEMMA RefuseCallsKeeps == ASSUME Inv, RefuseCalls, UNCHANGED clients PROVE Keeps
<1>1. pc = "limit" /\ Answering("refused", IF conf.onLimit = "End" THEN Closes ELSE Answers("refused"))
  BY DEF RefuseCalls
<1>2. CASE conf.onLimit # "End"
  <2>1. Answering("refused", Answers("refused")) BY <1>1, <1>2 DEF Answering, Stores
  <2> QED BY <1>1, <1>2, <2>1, AnswersKeeps
<1>3. CASE conf.onLimit = "End"
  <2>1. Answering("refused", pc' = "closing" /\ UNCHANGED <<private, writing, ruling>>)
    BY <1>1, <1>3 DEF Answering, Stores, Closes
  <2>2. ASSUME conf.durable PROVE AtClosing(<<>>)
    <3>1. Sound(thread) /\ AtTools BY <1>1, <2>2 DEF Inv, ThreadInv
    <3>2. /\ conv = View(thread) /\ Own(Author) /\ position.rank = Len(thread) /\ thread # <<>>
          /\ Last(thread).items # <<>>
      BY <3>1 DEF AtTools, Own
    <3>3. Last(thread) \in Stored BY <3>1, <3>2, LastIsProper
    <3>4. PICK items \in Seq(Items) : items = Last(thread).items BY <3>3 DEF Stored
    <3>5. View(Had(items)) = View(thread) BY <3>1, <3>2, <3>4, HadIs
    <3>6. Behind(items) BY <3>2, <3>5 DEF Behind
    <3>7. items \o <<>> = items OBVIOUS
    <3> QED BY <1>3, <3>2, <3>4, <3>6, <3>7 DEF AtClosing
  <2>3. <<>> \in Seq(Items) /\ Append(<<>>, "refused") = <<"refused">> OBVIOUS
  <2> QED BY <1>1, <2>1, <2>2, <2>3, ClosingKeeps
<1> QED BY <1>2, <1>3

LEMMA CloseKeeps == ASSUME Inv, Close, UNCHANGED clients PROVE Keeps
<1>1. pc = "closing" /\ Answering("closing", pc' = "closed" /\ UNCHANGED <<private, writing, ruling>>)
  BY DEF Close
<1>2. conf.durable => AtClosing(<<"refused">>) BY <1>1 DEF Inv, ThreadInv
<1>3. <<"refused">> \in Seq(Items) /\ Append(<<"refused">>, "closing") = <<"refused", "closing">>
  <2>1. "refused" \in Items BY DEF Items, Results
  <2>2. <<"refused">> \in Seq(Items) BY <2>1
  <2>3. "closing" \in Items BY DEF Items
  <2> DEFINE one == <<"refused">>  s == Append(one, "closing")  two == <<"refused", "closing">>
  <2>4. two \in Seq(Items) /\ Len(two) = 2 /\ two[1] = "refused" /\ two[2] = "closing"
    BY <2>1, <2>3
  <2>5. Len(one) = 1 /\ one[1] = "refused" OBVIOUS
  <2> HIDE DEF one, two
  <2>6. s \in Seq(Items) /\ Len(s) = 2 /\ s[1] = "refused" /\ s[2] = "closing" BY <2>2, <2>3, <2>5 DEF one
  <2> HIDE DEF s
  <2>7. \A i \in 1..2 : s[i] = two[i] BY <2>4, <2>6
  <2>8. s = two BY <2>4, <2>6, <2>7
  <2> QED BY <2>2, <2>8 DEF one, two, s
<1> QED BY <1>1, <1>2, <1>3, ClosingKeeps

LEMMA CompleteCutKeeps == ASSUME Inv, CompleteCut, UNCHANGED clients PROVE Keeps
<1> DEFINE r == LastBy(conv, Author)  t == Last(thread)  end == <<"refused", "closing">>
           more == conv[r].items \o end
<1>1. ConfInv /\ ThreadInv /\ RankInv /\ ClientInv /\ UNCHANGED <<kept, served>> BY DEF Inv, clients
<1>2. /\ pc = "closed" /\ Stores(IF conf.durable THEN Complete(r) ELSE thread, Cuts)
      /\ kept # {}
  BY <1>1 DEF CompleteCut, ClientInv
<1>3. UNCHANGED fixed /\ UNCHANGED <<conf, run>> BY <1>2 DEF Stores, fixed
<1>4. ASSUME Cuts
      PROVE  /\ pc' \in {"llm", "answer", "check"} /\ UNCHANGED <<position, writing>>
             /\ RankInv' /\ ClientInv' /\ conv' = [conv EXCEPT ![r].items = more]
             /\ conf.onLimit = "End" => pc' \in {"answer", "check"}
  <2>1. /\ conv' = [conv EXCEPT ![r].items = more] /\ pc' = AfterLimit
        /\ UNCHANGED <<position, writing>>
    BY <1>4 DEF Cuts
  <2>2. /\ AfterLimit \in {"llm", "answer", "check"}
        /\ conf.onLimit = "End" => AfterLimit \in {"answer", "check"}
    BY DEF AfterLimit, AfterLoop
  <2>3. r \in DOMAIN conv => more \in Seq(Items)
    <3>1. "closing" \in Items BY DEF Items
    <3> QED BY <1>1, <3>1, MoreItems
  <2>4. r = LastBy(conv, Author) OBVIOUS
  <2> HIDE DEF r, more
  <2>5. RankInv' /\ ClientInv' BY <1>1, <1>2, <2>1, <2>2, <2>3, <2>4, PushedKeeps
  <2> QED BY <2>1, <2>2, <2>5
<1>5. CASE ~conf.durable
  <2>1. thread' = thread /\ Cuts BY <1>2, <1>5 DEF Stores
  <2>2. pc' \in {"llm", "answer", "check"} /\ RankInv' /\ ClientInv' BY <1>4, <2>1
  <2>3. ThreadInv' BY <1>1, <1>3, <1>5, <2>1, <2>2 DEF ThreadInv, Pcs, AtNode
  <2> QED BY <2>1, <2>2, <2>3, WritesNothing DEF Keeps
<1>6. CASE conf.durable
  <2>1. Sound(thread) /\ AtClosing(end) BY <1>1, <1>2, <1>6 DEF ThreadInv
  <2>2. PICK items \in Seq(Items) \ {<<>>} : Behind(items) /\ t.items = items \o end
    BY <2>1 DEF AtClosing
  <2>3. /\ conf.onLimit = "End" /\ Own(Author) /\ position.rank = Len(thread) /\ thread # <<>>
        /\ thread \in Seq(Stored) /\ t.by = Author /\ t.run = run
    BY <2>1 DEF AtClosing, Own, Sound
  <2> DEFINE th0 == Had(items)
  <2>4. /\ th0 \in Seq(Stored) /\ th0 # <<>> /\ Len(th0) = Len(thread)
        /\ Last(th0).items = items /\ Last(th0).by = t.by
        /\ \A turn \in Stored : Changed(th0, turn) = Changed(thread, turn)
    BY <2>1, <2>2, <2>3, HadIs
  <2>5. conv = View(th0) BY <2>2 DEF Behind
  <2> HIDE DEF th0
  <2>6. r = Len(thread) /\ conv[Len(thread)].items = items BY <2>2, <2>3, <2>4, <2>5, ReadOf
  <2>7. t.items # <<>> /\ Last(t.items) \notin Results
    <3>1. "closing" \in Items /\ "refused" \in Items /\ "closing" \notin Results BY DEF Items, Results
    <3>2. end \in Seq(Items) /\ Len(end) = 2 /\ end[2] = "closing" BY <3>1
    <3> DEFINE s == items \o end
    <3>3. Len(items) \in Nat /\ items \in Seq(Items) BY <2>2
    <3> HIDE DEF end
    <3>4. s \in Seq(Items) /\ Len(s) = Len(items) + 2 /\ s[Len(items) + 2] = "closing"
      <4>1. /\ s \in Seq(Items) /\ Len(s) = Len(items) + Len(end)
            /\ \A i \in 1..Len(s) : s[i] = IF i <= Len(items) THEN items[i] ELSE end[i - Len(items)]
        BY <3>2, <3>3, ConcatProperties
      <4>2. Len(items) + 2 \in 1..Len(s) /\ ~(Len(items) + 2 <= Len(items))
            /\ Len(items) + 2 - Len(items) = 2 /\ Len(s) = Len(items) + 2
        BY <3>2, <3>3, <4>1
      <4>3. s[Len(items) + 2] = end[Len(items) + 2 - Len(items)] BY <4>1, <4>2
      <4> HIDE DEF s
      <4> QED BY <3>2, <4>1, <4>2, <4>3
    <3> HIDE DEF s
    <3>5. s # <<>> /\ Last(s) = "closing" BY <3>3, <3>4 DEF Last
    <3> QED BY <2>2, <3>1, <3>5 DEF s
  <2>8. PICK turn \in Stored :
          /\ Complete(Len(thread)) = Changed(thread, turn) /\ Proper(turn)
          /\ turn.by = t.by /\ turn.run = t.run /\ turn.status = "completed"
          /\ turn.items = t.items /\ Sound(Changed(thread, turn))
    BY <2>1, <2>3, <2>7, CompletedTurn
  <2> DEFINE th == Changed(thread, turn)
  <2>9. ASSUME thread' = th
        PROVE  /\ Sound(thread') /\ NeverContinued /\ Closed'
               /\ thread' # <<>> /\ Len(thread') = Len(thread) /\ Last(thread') = turn
    <3>1. turn.status # "streaming" /\ turn.by = Author /\ turn.run = run BY <2>3, <2>8
    <3> QED BY <1>3, <2>1, <2>3, <2>8, <2>9, <3>1, StaysOwn
  <2>10. CASE thread' \in {thread, th} /\ Failed
    <3>1. ClientInv' BY <1>1, <2>10, EndsClients DEF Failed
    <3>2. Sound(th) BY <2>8
    <3> HIDE DEF th
    <3> QED BY <1>1, <1>3, <1>6, <2>9, <2>10, <3>1, <3>2, StoreFails
  <2>11. CASE thread' = th /\ Cuts
    <3>1. /\ pc' \in {"answer", "check"} /\ UNCHANGED <<position, writing>>
          /\ RankInv' /\ ClientInv' /\ conv' = [conv EXCEPT ![r].items = more]
      BY <1>4, <2>3, <2>11
    <3>2. more = turn.items BY <2>2, <2>6, <2>8
    <3>3. conv' = View(th)
      <4>1. conv' = [conv EXCEPT ![Len(th0)].items = turn.items]
        <5> HIDE DEF more, r
        <5> QED BY <2>4, <2>6, <3>1, <3>2
      <4>2. turn.items # <<>> /\ turn.by = Last(th0).by /\ items # <<>> BY <2>2, <2>4, <2>7, <2>8
      <4>3. conv' = View(Changed(th0, turn)) BY <2>4, <2>5, <4>1, <4>2, PushedIsRead
      <4> QED BY <2>4, <4>3
    <3>4. /\ Sound(thread') /\ NeverContinued /\ Closed' /\ thread' # <<>>
          /\ Len(thread') = Len(thread) /\ Last(thread') = turn
      BY <2>9, <2>11
    <3>5. (conv = View(thread))' BY <2>11, <3>3 DEF View
    <3>6. position'.rank = Len(thread') BY <2>3, <3>1, <3>4
    <3>7. Last(thread').items # <<>> /\ Last(Last(thread').items) \notin Results BY <2>7, <2>8, <3>4
    <3>8. Stands' BY <3>4, <3>6, <3>7 DEF Stands
    <3>9. AtRest' BY <3>4, <3>5, <3>7, <3>8 DEF AtRest
    <3>10. ThreadInv' BY <1>3, <1>6, <3>1, <3>4, <3>9 DEF ThreadInv, Pcs, AtNode
    <3> QED BY <3>1, <3>4, <3>10 DEF Keeps
  <2>12. \/ thread' = th /\ Cuts
         \/ thread' \in {thread, th} /\ Failed
    <3>1. \/ thread' = Complete(r) /\ Cuts
          \/ thread' \in {thread, Complete(r)} /\ Failed
      BY <1>2, <1>6 DEF Stores
    <3>2. Complete(r) = th BY <2>6, <2>8
    <3> HIDE DEF th
    <3> QED BY <3>1, <3>2
  <2> QED BY <2>10, <2>11, <2>12
<1> QED BY <1>5, <1>6

-----------------------------------------------------------------------------
(***************************************************************************)
(* The judgments of the critic.                                               *)
(***************************************************************************)
\* A node that decides where to go, and stores nothing.
LEMMA GoesKeeps ==
    ASSUME Inv, pc \in {"check", "critique"}, pc' \in {"llm", "critique", "finish", "record"},
           UNCHANGED <<fixed, thread, conv, position, kept, served>>,
           pc' = "record" => \E kind \in Judgments :
                                writing' = [rank |-> NewRank, new |-> TRUE, item |-> kind],
           pc' # "record" => writing' = writing
    PROVE  Keeps
<1>1. ConfInv /\ ThreadInv /\ RankInv /\ ClientInv BY DEF Inv
<1>2. UNCHANGED <<conf, run>> BY DEF fixed
<1>3. ClientInv'
  <2>1. kept = {} => Settled BY <1>1 DEF ClientInv, Over
  <2>2. Settled => Settled' BY DEF Settled, AwaitsStep
  <2> QED BY <1>1, <2>1, <2>2, AsksNothing
<1>4. RankInv'
  <2>1. NewRank' = NewRank BY DEF NewRank
  <2>2. CASE pc' = "record"
    <3>1. PICK kind \in Judgments : writing' = [rank |-> NewRank, new |-> TRUE, item |-> kind]
      BY <2>2
    <3>2. NewRank \in Int BY <1>1, AboveAll
    <3>3. kind \in Items BY DEF Items
    <3>4. /\ writing' \in [rank : Int, new : BOOLEAN, item : Items \cup {"none"}]
          /\ writing'.new /\ writing'.rank = NewRank /\ writing'.item \in Judgments
      BY <3>1, <3>2, <3>3
    <3> QED BY <1>1, <2>1, <2>2, <3>4 DEF RankInv
  <2>3. CASE pc' # "record"
    <3>1. pc' \notin {"stream", "complete", "record", "recording", "recorded"} BY <2>3
    <3> QED BY <1>1, <2>3, <3>1 DEF RankInv
  <2> QED BY <2>2, <2>3
<1>5. ThreadInv'
  <2>1. CASE ~conf.durable BY <1>1, <1>2, <2>1 DEF ThreadInv, Pcs, AtNode
  <2>2. CASE conf.durable
    <3>1. Sound(thread) /\ AtRest BY <1>1, <2>2 DEF ThreadInv
    <3>2. AtRest' BY <3>1 DEF AtRest, View, Stands, Closed
    <3>3. AtLlm' BY <3>2 DEF AtRest, AtLlm
    <3> QED BY <1>1, <1>2, <2>2, <3>1, <3>2, <3>3 DEF ThreadInv, Pcs, AtNode
  <2> QED BY <2>1, <2>2
<1> QED BY <1>3, <1>4, <1>5, WritesNothing DEF Keeps

LEMMA CheckKeeps == ASSUME Inv, Check, UNCHANGED clients PROVE Keeps
<1>1. /\ pc = "check" /\ UNCHANGED <<fixed, thread>> /\ UNCHANGED <<kept, served>>
      /\ \/ \E kind \in {"critique", "revision"} : Records(kind)
         \/ Goes(AfterCheck(conv, listed))
  BY DEF Check, clients
<1>2. RankInv BY DEF Inv
<1>3. CASE \E kind \in {"critique", "revision"} : Records(kind)
  <2>1. PICK kind \in {"critique", "revision"} : Records(kind) BY <1>3
  <2>2. kind \in Judgments BY DEF Judgments
  <2>3. /\ pc' = "record" /\ writing' = [rank |-> NewRank, new |-> TRUE, item |-> kind]
        /\ UNCHANGED <<conv, position>>
    BY <2>1 DEF Records, private
  <2>4. \E k \in Judgments : writing' = [rank |-> NewRank, new |-> TRUE, item |-> k] BY <2>2, <2>3
  <2> QED BY <1>1, <2>3, <2>4, GoesKeeps
<1>4. CASE Goes(AfterCheck(conv, listed))
  <2>1. AfterCheck(conv, listed) \in {"llm", "critique", "finish"}
    <3> DEFINE b == position.rank
    <3>1. b \in Int /\ \A r \in DOMAIN conv : r \in Int /\ r <= b BY <1>2 DEF RankInv
    <3> HIDE DEF b
    <3> QED BY <3>1, RoutesAre
  <2>2. /\ pc' \in {"llm", "critique", "finish"} /\ writing' = writing
        /\ UNCHANGED <<conv, position>>
    BY <1>4, <2>1 DEF Goes, private
  <2> QED BY <1>1, <2>2, GoesKeeps
<1> QED BY <1>1, <1>3, <1>4

LEMMA CritiqueKeeps == ASSUME Inv, Critique, UNCHANGED clients PROVE Keeps
<1>1. PICK reply \in {"accepts", "rejects", "rejects_blank", "no_block", "misshapen"} :
        \/ Reading(reply) # "unreadable" /\ Records(Reading(reply))
        \/ Goes("critique")
        \/ Failed
  BY DEF Critique
<1>2. pc = "critique" /\ UNCHANGED <<fixed, thread, kept, served>> BY DEF Critique, clients
<1>3. Reading(reply) # "unreadable" => Reading(reply) \in Judgments BY DEF Reading, Judgments
<1>4. CASE Reading(reply) # "unreadable" /\ Records(Reading(reply))
  <2>1. /\ pc' = "record" /\ writing' = [rank |-> NewRank, new |-> TRUE, item |-> Reading(reply)]
        /\ UNCHANGED <<conv, position>>
    BY <1>4 DEF Records, private
  <2>2. \E k \in Judgments : writing' = [rank |-> NewRank, new |-> TRUE, item |-> k]
    BY <1>3, <1>4, <2>1
  <2> QED BY <1>2, <2>1, <2>2, GoesKeeps
<1>5. CASE Goes("critique")
  <2>1. pc' = "critique" /\ writing' = writing /\ UNCHANGED <<conv, position>> BY <1>5 DEF Goes, private
  <2> QED BY <1>2, <2>1, GoesKeeps
<1>6. CASE Failed
  <2>1. pc' = "failed" /\ UNCHANGED <<conv, position, writing>> BY <1>6 DEF Failed, private
  <2> QED BY <1>2, <2>1, RunEnds DEF fixed
<1> QED BY <1>1, <1>4, <1>5, <1>6

\* The judgment is given back, and the routing reads it.
LEMMA RecordedIs ==
    ASSUME ConfInv, RankInv, ClientInv, pc \in {"record", "recorded"}, Recorded,
           UNCHANGED <<conf, kept, served>>
    PROVE  /\ RankInv' /\ ClientInv' /\ pc' \in {"llm", "critique", "finish"}
           /\ position'.rank = writing.rank /\ Added(writing.rank, "critic", writing.item)
<1> DEFINE r == writing.rank  item == writing.item
<1>1. /\ Added(r, "critic", item) /\ position' = [position EXCEPT !.rank = r] /\ writing' = None
      /\ pc' = IF item = "acceptance" THEN AfterCritique(conv', listed') ELSE AfterCheck(conv', listed')
  BY DEF Recorded
<1>2. r = NewRank /\ item \in Judgments BY DEF RankInv
<1>3. r \in Nat \ {0} /\ r \notin DOMAIN conv /\ \A q \in DOMAIN conv : q \in Int /\ q <= r
  BY <1>2, AboveAll
<1>4. item \in Items /\ item \notin Results BY <1>2 DEF Items, Judgments, Results
<1>5. ConvFits BY DEF RankInv, ConvFits
<1>6. position \in [rank : Nat \ {0}, answered : BOOLEAN] BY DEF RankInv
<1> HIDE DEF r, item
<1>7. position' \in [rank : Nat \ {0}, answered : BOOLEAN] /\ position'.rank = r
  BY <1>1, <1>3, <1>6
<1>8. /\ DOMAIN conv' = DOMAIN conv \cup {r} /\ ConvFits'
      /\ \A q \in DOMAIN conv : q # r => conv'[q] = conv[q]
      /\ conv'[r] = [by |-> "critic", items |-> <<item>>]
  <2>1. r \in Int /\ "critic" \in Authors /\ \A q \in DOMAIN conv : q <= r BY <1>3 DEF Authors
  <2> QED BY <1>1, <1>4, <1>5, <2>1, AddedIs
<1>9. pc' \in {"llm", "critique", "finish"}
  <2> DEFINE c == conv'  l == listed'
  <2>1. r \in Int /\ \A q \in DOMAIN c : q \in Int /\ q <= r BY <1>3, <1>8
  <2> HIDE DEF c, l
  <2>2. AfterCheck(c, l) \in {"llm", "critique", "finish"} /\ AfterCritique(c, l) \in {"llm", "finish"}
    BY <2>1, RoutesAre
  <2>3. pc' = IF item = "acceptance" THEN AfterCritique(c, l) ELSE AfterCheck(c, l)
    BY <1>1 DEF c, l
  <2> QED BY <2>2, <2>3
<1>10. ~AwaitsStep(conv'[r])
  <2> DEFINE t == conv'[r]
  <2>1. t.items = <<item>>
    <3>1. t = [by |-> "critic", items |-> <<item>>] BY <1>8
    <3> HIDE DEF t
    <3> QED BY <3>1
  <2>2. Last(<<item>>) = item BY DEF Last
  <2> HIDE DEF t
  <2>3. Last(t.items) \notin Results BY <1>4, <2>1, <2>2
  <2> QED BY <2>3 DEF t, AwaitsStep
<1>11. RankInv'
  <2>1. writing' \in [rank : Int, new : BOOLEAN, item : Items \cup {"none"}] BY <1>1 DEF None
  <2>2. pc' \notin {"stream", "complete", "record", "recording", "recorded"} BY <1>9
  <2>3. (position.rank \in DOMAIN conv /\ conv[position.rank].by = "critic" =>
           ~AwaitsStep(conv[position.rank]))'
    BY <1>7, <1>10 DEF AwaitsStep
  <2>4. /\ conv' = [q \in DOMAIN conv' |-> conv'[q]]
        /\ \A q \in DOMAIN conv' : q \in Int /\ conv'[q] \in Turns /\ q <= position'.rank
    BY <1>3, <1>7, <1>8 DEF ConvFits
  <2> QED BY <1>7, <2>1, <2>2, <2>3, <2>4 DEF RankInv
<1>12. ClientInv'
  <2>1. kept = {} => Settled BY DEF ClientInv, Over
  <2>2. ASSUME Settled PROVE Settled'
    <3>1. \A s \in served : s.rank \in DOMAIN conv' /\ conv'[s.rank] = conv[s.rank]
      BY <1>3, <1>8, <2>2 DEF Settled
    <3> QED BY <2>2, <3>1 DEF Settled, AwaitsStep
  <2> QED BY <1>9, <2>1, <2>2, AsksNothing
<1> QED BY <1>1, <1>7, <1>9, <1>11, <1>12 DEF r, item

\* The judgment is being stored: nothing of the conversation changes.
LEMMA RecordsOn ==
    ASSUME Inv, pc \in {"record", "recording"}, pc' \in {"recording", "recorded"},
           UNCHANGED <<conf, conv, position, writing, kept, served>>
    PROVE  RankInv' /\ ClientInv'
<1>1. ConfInv /\ ThreadInv /\ RankInv /\ ClientInv BY DEF Inv
<1>2. RankInv'
  <2>1. NewRank' = NewRank BY DEF NewRank
  <2>2. pc' \notin {"stream", "complete"} OBVIOUS
  <2> QED BY <1>1, <2>1, <2>2 DEF RankInv
<1>3. ClientInv'
  <2>1. kept = {} => Settled BY <1>1 DEF ClientInv, Over
  <2>2. Settled => Settled' BY DEF Settled, AwaitsStep
  <2> QED BY <1>1, <2>1, <2>2, AsksNothing
<1> QED BY <1>2, <1>3

LEMMA RecordKeeps == ASSUME Inv, Record, UNCHANGED clients PROVE Keeps
<1> DEFINE then == pc' = "recording" /\ UNCHANGED <<private, writing, ruling>>
           th == Open(writing.rank, "critic")
<1>1. ConfInv /\ ThreadInv /\ RankInv /\ ClientInv /\ UNCHANGED <<kept, served>> BY DEF Inv, clients
<1>2. /\ pc = "record"
      /\ IF conf.durable THEN Stores(th, then) ELSE Stores(thread, Recorded)
  BY DEF Record
<1>3. UNCHANGED fixed /\ UNCHANGED <<conf, run>> BY <1>2 DEF Stores, fixed
<1>4. CASE ~conf.durable
  <2>1. thread' = thread /\ Recorded BY <1>2, <1>4 DEF Stores
  <2>2. RankInv' /\ ClientInv' /\ pc' \in {"llm", "critique", "finish"}
    BY <1>1, <1>2, <1>3, <2>1, RecordedIs
  <2>3. ThreadInv' BY <1>1, <1>3, <1>4, <2>1, <2>2 DEF ThreadInv, Pcs, AtNode
  <2> QED BY <2>1, <2>2, <2>3, WritesNothing DEF Keeps
<1>5. CASE conf.durable
  <2>1. Sound(thread) /\ AtRest BY <1>1, <1>2, <1>5 DEF ThreadInv
  <2>2. conv = View(thread) /\ Stands /\ Closed BY <2>1 DEF AtRest
  <2>3. writing.rank = Len(thread) + 1
    <3>1. writing.rank = NewRank BY <1>1, <1>2 DEF RankInv
    <3>2. NewRank = Len(thread) + 1 BY <1>1, <2>1, <2>2, NewRankIs DEF RankInv
    <3> QED BY <3>1, <3>2
  <2>4. th = Open(Len(thread) + 1, "critic") BY <2>3
  <2>5. "critic" \in Authors /\ run \in Nat BY <1>1 DEF Authors, ConfInv
  <2>6. Sound(th) BY <2>1, <2>2, <2>4, <2>5, OpenIs
  <2> HIDE DEF th
  <2>7. ASSUME thread' = th
        PROVE  /\ Sound(thread') /\ NeverContinued /\ Own("critic")'
               /\ thread' # <<>> /\ Len(thread') = Len(thread) + 1 /\ Last(thread').items = <<>>
               /\ View(thread') = View(thread)
    BY <1>3, <2>1, <2>2, <2>4, <2>5, <2>7, OpensIts
  <2>8. CASE thread' = th /\ then
    <3>1. pc' = "recording" /\ UNCHANGED <<conv, position, writing>> BY <2>8 DEF private
    <3>2. RankInv' /\ ClientInv' BY <1>1, <1>2, <1>3, <3>1, RecordsOn
    <3>3. AtRecording' BY <2>2, <2>3, <2>7, <2>8, <3>1 DEF AtRecording, View
    <3>4. ThreadInv' BY <1>3, <1>5, <2>7, <2>8, <3>1, <3>3 DEF ThreadInv, Pcs
    <3> QED BY <2>7, <2>8, <3>2, <3>4 DEF Keeps
  <2>9. CASE thread' \in {thread, th} /\ Failed
    <3>1. ClientInv' BY <1>1, <2>9, EndsClients DEF Failed
    <3> QED BY <1>1, <1>3, <1>5, <2>6, <2>7, <2>9, <3>1, StoreFails
  <2> HIDE DEF then
  <2>10. Stores(th, then) BY <1>2, <1>5
  <2> QED BY <2>8, <2>9, <2>10 DEF Stores
<1> QED BY <1>4, <1>5

LEMMA RecordStepKeeps == ASSUME Inv, RecordStep, UNCHANGED clients PROVE Keeps
<1> DEFINE then == pc' = "recorded" /\ UNCHANGED <<private, writing, ruling>>
           t == Last(thread)  item == writing.item
           turn == TurnOf(t, Append(t.items, item), FALSE, t.status)
           th == Changed(thread, turn)
<1>1. ConfInv /\ ThreadInv /\ RankInv /\ ClientInv /\ UNCHANGED <<kept, served>> BY DEF Inv, clients
<1>2. pc = "recording" /\ Stores(Push(writing.rank, item), then) BY DEF RecordStep
<1>3. UNCHANGED fixed /\ UNCHANGED <<conf, run>> BY <1>2 DEF Stores, fixed
<1>4. conf.durable /\ Sound(thread) /\ AtRecording BY <1>1, <1>2, ConfIs DEF ThreadInv
<1>5. /\ conv = View(thread) /\ Own("critic") /\ writing.rank = Len(thread) /\ t.items = <<>>
      /\ thread # <<>> /\ thread \in Seq(Stored)
  BY <1>4 DEF AtRecording, Own, Sound
<1>6. item \in Judgments BY <1>1, <1>2 DEF RankInv
<1>7. item \in Items /\ item \notin Results \cup {"call"} BY <1>6 DEF Items, Judgments, Results
<1>8. t \in Stored /\ t.by = "critic" /\ t.status = "streaming" /\ t.run = run
  BY <1>4, <1>5, LastIsProper DEF Own
<1>9. Push(writing.rank, item) = th BY <1>4, <1>5, <1>7, PushIs
<1>10. Append(t.items, item) = <<item>>
  <2>1. Append(<<>>, item) = <<item>> OBVIOUS
  <2> QED BY <1>5, <2>1
<1>11. /\ turn.by = "critic" /\ turn.run = run /\ turn.items = <<item>> /\ turn.status = "streaming"
  <2>1. /\ turn.by = t.by /\ turn.run = t.run /\ turn.items = Append(t.items, item)
        /\ turn.status = t.status
    <3> HIDE DEF t
    <3> QED BY DEF TurnOf
  <2> HIDE DEF turn
  <2> QED BY <1>8, <1>10, <2>1
<1>12. turn \in Stored
  <2>1. t.items \in Seq(Items) BY <1>8 DEF Stored
  <2>2. Append(t.items, item) \in Seq(Items) BY <1>7, <2>1, LastStep
  <2>3. t.status \in {"streaming", "completed", "failed"} BY <1>8
  <2> HIDE DEF t
  <2> QED BY <1>8, <2>2, <2>3, TurnIsStored
<1> HIDE DEF turn
<1>13. Proper(turn)
  <2>1. DOMAIN turn.items = {1} /\ turn.items[1] = item
    <3>1. DOMAIN <<item>> = {1} /\ <<item>>[1] = item OBVIOUS
    <3> QED BY <1>11, <3>1
  <2> QED BY <1>7, <1>11, <1>12, <2>1 DEF Proper
<1>14. Sound(th) BY <1>4, <1>5, <1>13, ChangedIsSound
<1>15. ASSUME thread' = th
       PROVE  /\ Sound(thread') /\ NeverContinued /\ Own("critic")'
              /\ thread' # <<>> /\ Len(thread') = Len(thread) /\ Last(thread') = turn
  BY <1>3, <1>4, <1>5, <1>11, <1>13, <1>15, StaysOwn
<1>16. CASE thread' \in {thread, th} /\ Failed
  <2>1. ClientInv' BY <1>1, <1>16, EndsClients DEF Failed
  <2> HIDE DEF th
  <2> QED BY <1>1, <1>3, <1>4, <1>14, <1>15, <1>16, <2>1, StoreFails
<1>17. CASE thread' = th /\ then
  <2>1. pc' = "recorded" /\ UNCHANGED <<conv, position, writing>> BY <1>17 DEF private
  <2>2. RankInv' /\ ClientInv' BY <1>1, <1>2, <1>3, <2>1, RecordsOn
  <2>3. /\ Sound(thread') /\ NeverContinued /\ Own("critic")' /\ Len(thread') = Len(thread)
        /\ Last(thread') = turn
    BY <1>15, <1>17
  <2>4. PICK items \in Seq(Items) : items = <<>>
    <3>1. <<>> \in Seq(Items) OBVIOUS
    <3> QED BY <3>1, Zenon
  <2>5. Had(items)' = Had(items)
    <3>1. turn.by = Last(thread).by /\ turn.run = Last(thread).run BY <1>8, <1>11
    <3> QED BY <1>4, <1>5, <1>12, <1>17, <2>4, <3>1, HadOfChanged
  <2>6. View(Had(items)) = View(thread) BY <1>4, <1>5, <2>4, HadIs
  <2>7. Behind(items)' BY <1>5, <2>1, <2>5, <2>6 DEF Behind, View
  <2>8. Behind(<<>>)' BY <2>4, <2>7
  <2>9. Last(thread').items = <<writing'.item>> /\ writing'.rank = Len(thread')
    BY <1>5, <1>11, <2>1, <2>3
  <2>10. AtRecorded' BY <2>3, <2>8, <2>9 DEF AtRecorded
  <2>11. ThreadInv' BY <1>3, <1>4, <2>1, <2>3, <2>10 DEF ThreadInv, Pcs
  <2> QED BY <2>2, <2>3, <2>11 DEF Keeps
<1>18. \/ thread' = th /\ then
       \/ thread' \in {thread, th} /\ Failed
  <2> HIDE DEF then
  <2>1. \/ thread' = Push(writing.rank, item) /\ then
        \/ thread' \in {thread, Push(writing.rank, item)} /\ Failed
    BY <1>2 DEF Stores
  <2> HIDE DEF th
  <2> QED BY <1>9, <2>1
<1> QED BY <1>16, <1>17, <1>18

LEMMA CompleteRecordKeeps == ASSUME Inv, CompleteRecord, UNCHANGED clients PROVE Keeps
<1> DEFINE t == Last(thread)  item == writing.item
<1>1. ConfInv /\ ThreadInv /\ RankInv /\ ClientInv /\ UNCHANGED <<kept, served>> BY DEF Inv, clients
<1>2. pc = "recorded" /\ Stores(Complete(writing.rank), Recorded) BY DEF CompleteRecord
<1>3. UNCHANGED fixed /\ UNCHANGED <<conf, run>> BY <1>2 DEF Stores, fixed
<1>4. conf.durable /\ Sound(thread) /\ AtRecorded BY <1>1, <1>2, ConfIs DEF ThreadInv
<1>5. /\ Behind(<<>>) /\ Own("critic") /\ writing.rank = Len(thread) /\ t.items = <<item>>
      /\ thread # <<>> /\ thread \in Seq(Stored) /\ t.by = "critic" /\ t.run = run
  BY <1>4 DEF AtRecorded, Own, Sound
<1>6. item \in Judgments BY <1>1, <1>2 DEF RankInv
<1>7. item \notin Results BY <1>6 DEF Judgments, Results
<1>8. t.items # <<>> /\ Last(t.items) = item
  <2>1. <<item>> # <<>> /\ Last(<<item>>) = item BY DEF Last
  <2> QED BY <1>5, <2>1
<1>9. PICK turn \in Stored :
        /\ Complete(Len(thread)) = Changed(thread, turn) /\ Proper(turn)
        /\ turn.by = t.by /\ turn.run = t.run /\ turn.status = "completed"
        /\ turn.items = t.items /\ Sound(Changed(thread, turn))
  BY <1>4, <1>5, <1>7, <1>8, CompletedTurn
<1> DEFINE th == Changed(thread, turn)
<1>10. ASSUME thread' = th
       PROVE  /\ Sound(thread') /\ NeverContinued /\ Closed'
              /\ thread' # <<>> /\ Len(thread') = Len(thread) /\ Last(thread') = turn
  <2>1. turn.status # "streaming" /\ turn.by = "critic" /\ turn.run = run BY <1>5, <1>9
  <2> QED BY <1>3, <1>4, <1>5, <1>9, <1>10, <2>1, StaysOwn
<1>11. CASE thread' \in {thread, th} /\ Failed
  <2>1. ClientInv' BY <1>1, <1>11, EndsClients DEF Failed
  <2>2. Sound(th) BY <1>9
  <2> HIDE DEF th
  <2> QED BY <1>1, <1>3, <1>4, <1>10, <1>11, <2>1, <2>2, StoreFails
<1>12. CASE thread' = th /\ Recorded
  <2>1. /\ RankInv' /\ ClientInv' /\ pc' \in {"llm", "critique", "finish"}
        /\ position'.rank = writing.rank /\ Added(writing.rank, "critic", item)
    BY <1>1, <1>2, <1>3, <1>12, RecordedIs
  <2> DEFINE th0 == Had(<<>>)
  <2>2. /\ th0 \in Seq(Stored) /\ th0 # <<>> /\ Len(th0) = Len(thread)
        /\ Changed(th0, turn) = th
    <3>1. <<>> \in Seq(Items) OBVIOUS
    <3> QED BY <1>4, <1>5, <3>1, HadIs
  <2>3. conv = View(th0) BY <1>5 DEF Behind
  <2> HIDE DEF th0
  <2>4. conv' = View(th)
    <3>1. Added(Len(th0), "critic", item) BY <1>5, <2>1, <2>2
    <3>2. turn.by = "critic" /\ turn.items = <<item>> BY <1>5, <1>9
    <3> HIDE DEF item
    <3>3. conv' = View(Changed(th0, turn)) BY <2>2, <2>3, <3>1, <3>2, AddedIsRead
    <3> QED BY <2>2, <3>3
  <2>5. /\ Sound(thread') /\ NeverContinued /\ Closed' /\ thread' # <<>>
        /\ Len(thread') = Len(thread) /\ Last(thread') = turn
    BY <1>10, <1>12
  <2>6. (conv = View(thread))' BY <1>12, <2>4 DEF View
  <2>7. position'.rank = Len(thread') BY <1>5, <2>1, <2>5
  <2>8. Last(thread').items # <<>> /\ Last(Last(thread').items) \notin Results
    BY <1>7, <1>8, <1>9, <2>5
  <2>9. Stands' BY <2>5, <2>7, <2>8 DEF Stands
  <2>10. AtRest' /\ AtLlm' BY <2>5, <2>6, <2>8, <2>9 DEF AtRest, AtLlm
  <2>11. ThreadInv' BY <1>3, <1>4, <2>1, <2>5, <2>10 DEF ThreadInv, Pcs, AtNode
  <2> QED BY <2>1, <2>5, <2>11 DEF Keeps
<1>13. \/ thread' = th /\ Recorded
       \/ thread' \in {thread, th} /\ Failed
  <2>1. \/ thread' = Complete(writing.rank) /\ Recorded
        \/ thread' \in {thread, Complete(writing.rank)} /\ Failed
    BY <1>2 DEF Stores
  <2>2. Complete(writing.rank) = th BY <1>5, <1>9
  <2> HIDE DEF th
  <2> QED BY <2>1, <2>2
<1> QED BY <1>11, <1>12, <1>13

-----------------------------------------------------------------------------
(***************************************************************************)
(* Every step.                                                                *)
(***************************************************************************)
LEMMA InitInv == Init => Inv
<1> SUFFICES ASSUME Init PROVE Inv OBVIOUS
<1>1. /\ conf \in Confs /\ thread = <<>> /\ conv = <<>> /\ position = Position(1, FALSE)
      /\ pc = "enter" /\ writing = None /\ run = 1 /\ kept = {} /\ served = {}
  BY DEF Init, NewKeys
<1>2. ConfInv BY <1>1 DEF ConfInv
<1>3. ThreadInv
  <2>1. Sound(<<>>)
    <3>1. <<>> \in Seq(Stored) /\ DOMAIN <<>> = {} OBVIOUS
    <3> QED BY <3>1 DEF Sound
  <2> QED BY <1>1, <2>1 DEF ThreadInv, Pcs
<1>4. RankInv
  <2>1. /\ Position(1, FALSE) \in [rank : Nat \ {0}, answered : BOOLEAN]
        /\ None \in [rank : Int, new : BOOLEAN, item : Items \cup {"none"}]
    BY DEF Position, None
  <2>2. DOMAIN conv = {} /\ conv = [r \in DOMAIN conv |-> conv[r]] BY <1>1
  <2> QED BY <1>1, <2>1, <2>2 DEF RankInv
<1>5. ClientInv BY <1>1 DEF ClientInv, Settled
<1> QED BY <1>2, <1>3, <1>4, <1>5 DEF Inv

LEMMA StepKeeps == Inv /\ Next => Inv' /\ NeverContinued
<1> SUFFICES ASSUME Inv, Next PROVE Inv' /\ NeverContinued OBVIOUS
<1>1. Keeps
  <2>1. CASE Generate
    <3>1. CASE CallModel BY <3>1, CallModelKeeps
    <3>2. CASE OpenTurn BY <3>2, OpenTurnKeeps
    <3>3. CASE \E item \in Replies : Streamed(item)
      <4>1. PICK item \in Replies : Streamed(item) BY <3>3
      <4>2. CASE conf.durable BY <4>1, <4>2, StreamedDurable
      <4>3. CASE ~conf.durable BY <4>1, <4>3, StreamedInMemory
      <4> QED BY <4>2, <4>3
    <3> QED BY <2>1, <3>1, <3>2, <3>3 DEF Generate
  <2>2. CASE Restart BY <2>2, RestartKeeps
  <2>3. CASE Critique /\ UNCHANGED clients BY <2>3, CritiqueKeeps
  <2>4. CASE Step /\ UNCHANGED clients
    BY <2>4, EnterInMemoryKeeps, StoreInputsKeeps, EnterThreadKeeps, FailOpenTurnKeeps,
       CompleteTurnKeeps, RunToolsKeeps, RefuseCallsKeeps, CloseKeeps, CompleteCutKeeps, CheckKeeps,
       RecordKeeps, RecordStepKeeps, CompleteRecordKeeps, GiveAnswerKeeps, FinishKeeps DEF Step
  <2>5. CASE (Fail \/ Lose) /\ UNCHANGED clients BY <2>5, FailKeeps
  <2>6. CASE HostEnds /\ UNCHANGED clients BY <2>6, HostEndsKeeps
  <2>7. UNCHANGED <<clients, attempt>> => UNCHANGED clients OBVIOUS
  <2> QED BY <2>1, <2>2, <2>3, <2>4, <2>5, <2>6, <2>7 DEF Next
<1>2. ConfInv'
  <2>1. conf' = conf /\ (run' = run \/ run' = run + 1)
    BY DEF Next, Generate, CallModel, OpenTurn, Streamed, Restart, Critique, Step, EnterInMemory,
           StoreInputs, EnterThread, FailOpenTurn, CompleteTurn, RunTools, RefuseCalls, Close,
           CompleteCut, Answering, Check, Record, RecordStep, CompleteRecord, GiveAnswer, Finish, Told, Fail,
           ModelFails, ToolFails, JudgeFails, Lose, HostEnds, Stores, fixed
  <2> QED BY <2>1 DEF ConfInv, Inv
<1> QED BY <1>1, <1>2 DEF Keeps, Inv

LEMMA StutterKeeps == Inv /\ UNCHANGED vars => Inv' /\ NeverContinued
<1> SUFFICES ASSUME Inv, UNCHANGED vars PROVE Inv' /\ NeverContinued OBVIOUS
<1>1. UNCHANGED <<conf, thread, conv, position, pc, writing, run, kept, served>> BY DEF vars
<1>2. ConfInv' BY <1>1 DEF Inv, ConfInv
<1>3. ThreadInv'
  <2>1. ThreadInv BY DEF Inv
  <2>2. (Sound(thread)' <=> Sound(thread)) /\ Stands' = Stands /\ Closed' = Closed
    BY <1>1 DEF Sound, Stands, Closed
  <2>3. \A by : Own(by)' = Own(by) BY <1>1 DEF Own
  <2>4. \A items : Behind(items)' = Behind(items) BY <1>1 DEF Behind, Had, Changed, View
  <2>5. View(thread)' = View(thread) BY <1>1 DEF View
  <2>6. AtLlm' = AtLlm BY <1>1, <2>2, <2>3, <2>5 DEF AtLlm
  <2>7. AtStream' = AtStream BY <1>1, <2>2, <2>3, <2>4, <2>5 DEF AtStream
  <2>8. AtComplete' = AtComplete BY <1>1, <2>2, <2>3, <2>4, <2>5 DEF AtComplete
  <2>9. AtTools' = AtTools BY <1>1, <2>2, <2>3, <2>4, <2>5 DEF AtTools
  <2>10. \A items : AtClosing(items)' = AtClosing(items) BY <1>1, <2>2, <2>3, <2>4, <2>5 DEF AtClosing
  <2>11. AtRest' = AtRest BY <1>1, <2>2, <2>5 DEF AtRest
  <2>12. AtRecording' = AtRecording BY <1>1, <2>3, <2>5 DEF AtRecording
  <2>13. AtRecorded' = AtRecorded BY <1>1, <2>3, <2>4 DEF AtRecorded
  <2> QED BY <1>1, <2>1, <2>2, <2>6, <2>7, <2>8, <2>9, <2>10, <2>11, <2>12, <2>13 DEF ThreadInv
<1>4. RankInv'
  <2>1. RankInv BY DEF Inv
  <2> QED BY <1>1, <2>1 DEF RankInv, NewRank, AwaitsStep
<1>5. ClientInv'
  <2>1. ClientInv BY DEF Inv
  <2> QED BY <1>1, <2>1 DEF ClientInv, Settled, AwaitsStep
<1>6. NeverContinued BY <1>1, WritesNothing
<1> QED BY <1>2, <1>3, <1>4, <1>5, <1>6 DEF Inv

LEMMA InvHolds == Spec => []Inv
<1>1. Init => Inv BY InitInv
<1>2. Inv /\ [Next]_vars => Inv' BY StepKeeps, StutterKeeps
<1> QED BY <1>1, <1>2, PTL DEF Spec

\* What a node of a durable agent reads is what its thread holds: the updates a run
\* applies to `conversation` and the calls it makes of the store never part, whatever
\* call fails after it was done, and whatever a run found when it began.
THEOREM ReadsItsThread == Spec => []ConversationIsThread
<1>1. Inv => ConversationIsThread
  <2> SUFFICES ASSUME Inv, conf.durable, pc \in AtNode
               PROVE  /\ conv = View(thread)
                      /\ \A r \in DOMAIN thread : thread[r].status = "streaming" =>
                            r = Len(thread) /\ thread[r].run = run
                      /\ position.rank \in {Len(thread), Len(thread) + 1}
    BY DEF ConversationIsThread
  <2>1. Sound(thread) /\ (AtLlm \/ AtTools \/ AtRest) BY DEF Inv, ThreadInv, AtNode
  <2>2. conv = View(thread) BY <2>1 DEF AtLlm, AtTools, AtRest
  <2>3. Closed \/ Own(Author) BY <2>1 DEF AtLlm, AtTools, AtRest
  <2>4. \A r \in DOMAIN thread : thread[r].status = "streaming" =>
           r = Len(thread) /\ thread[r].run = run
    <3> SUFFICES ASSUME NEW r \in DOMAIN thread, thread[r].status = "streaming"
                 PROVE  r = Len(thread) /\ thread[r].run = run
      OBVIOUS
    <3>1. r = Len(thread) /\ thread # <<>> BY <2>1 DEF Sound
    <3>2. Last(thread) = thread[r] BY <3>1 DEF Last
    <3> QED BY <2>3, <3>1, <3>2 DEF Closed, Own
  <2>5. position.rank \in {Len(thread), Len(thread) + 1}
    <3>1. position.rank = Len(thread) \/ Stands BY <2>1 DEF AtLlm, AtTools, AtRest
    <3> QED BY <3>1 DEF Stands
  <2> QED BY <2>2, <2>4, <2>5
<1> QED BY <1>1, InvHolds, PTL

\* What a turn holds has one writer.  Of the thread, a turn is written only by the run
\* that opened it, is ended by a later one or by the host, and is never changed once
\* closed; and every call of a model for a turn is made by the client the first was.
THEOREM TurnsHaveOneWriter == Spec => OneWriter
<1>1. Inv /\ Inv' /\ [Next]_vars => [NeverContinued /\ OneClient']_vars
  <2>1. Inv' => OneClient' BY DEF Inv, ClientInv, OneClient
  <2> QED BY <2>1, StepKeeps
<1> QED BY <1>1, InvHolds, PTL DEF Spec, OneWriter

-----------------------------------------------------------------------------
(***************************************************************************)
(* The bounds of a call.  The rounds of a turn stay within the limit: what is    *)
(* answered by the limit is not answered by the tools, and once.               *)
(***************************************************************************)
Reached(items, m) ==
    \E i \in DOMAIN Among(items, Results) : i > m /\ Among(items, Results)[i] = "refused"
Within(items, m) ==
    LET rounds == Among(items, Results) IN
    /\ \A i \in DOMAIN rounds : i > m => rounds[i] # "ran"
    /\ \A i, j \in DOMAIN rounds :
          i > m /\ j > m /\ rounds[i] = "refused" /\ rounds[j] = "refused" => i = j
OpeningsInLimit ==
    \A o \in Openings, m \in Maxes : \A k \in DOMAIN o : Len(Among(o[k].items, Results)) <= m

LEMMA RoundsOf ==
    ASSUME NEW items \in Seq(Items), NEW x \in Items
    PROVE  /\ Among(items, Results) \in Seq(Items)
           /\ Among(Append(items, x), Results) =
                 IF x \in Results THEN Append(Among(items, Results), x) ELSE Among(items, Results)
<1> DEFINE S == Items
<1>1. items \in Seq(S) /\ x \in S OBVIOUS
<1> HIDE DEF S
<1>2. Among(items, Results) \in Seq(S) BY <1>1, AmongIsSeq
<1>3. Among(Append(items, x), Results) =
        IF x \in Results THEN Append(Among(items, Results), x) ELSE Among(items, Results)
  BY <1>1, AmongAppend
<1> QED BY <1>2, <1>3 DEF S

LEMMA NoRounds ==
    ASSUME NEW m \in Nat
    PROVE  Within(<<>>, m) /\ ~Reached(<<>>, m)
<1>1. Among(<<>>, Results) = <<>> BY AmongNone
<1>2. DOMAIN <<>> = {} OBVIOUS
<1> QED BY <1>1, <1>2 DEF Within, Reached

\* As many rounds as are allowed.
LEMMA FewRounds ==
    ASSUME NEW m \in Nat, NEW items \in Seq(Items), Len(Among(items, Results)) <= m
    PROVE  Within(items, m) /\ ~Reached(items, m)
<1> DEFINE rounds == Among(items, Results)
<1>1. rounds \in Seq(Items)
  <2>1. "call" \in Items BY DEF Items, Replies
  <2> QED BY <2>1, RoundsOf
<1>2. \A i \in DOMAIN rounds : ~(i > m)
  <2>1. DOMAIN rounds = 1..Len(rounds) /\ Len(rounds) \in Nat /\ Len(rounds) <= m BY <1>1
  <2> HIDE DEF rounds
  <2> QED BY <2>1
<1> QED BY <1>2 DEF Within, Reached

\* One more item of a turn.
LEMMA RoundsGrow ==
    ASSUME NEW m \in Nat, NEW items \in Seq(Items), NEW x \in Items
    PROVE  LET more == Append(items, x) IN
           /\ x # "refused" => (Reached(more, m) <=> Reached(items, m))
           /\ /\ Within(items, m)
              /\ x = "ran" => Len(Among(items, Results)) < m
              /\ x = "refused" => ~Reached(items, m)
              => Within(more, m)
<1> DEFINE more == Append(items, x)  s == Among(items, Results)  t == Among(more, Results)
<1>1. s \in Seq(Items) /\ t = IF x \in Results THEN Append(s, x) ELSE s BY RoundsOf
<1>2. /\ Reached(more, m) <=> \E i \in DOMAIN t : i > m /\ t[i] = "refused"
      /\ Reached(items, m) <=> \E i \in DOMAIN s : i > m /\ s[i] = "refused"
      /\ Within(more, m) <=>
           /\ \A i \in DOMAIN t : i > m => t[i] # "ran"
           /\ \A i, j \in DOMAIN t : i > m /\ j > m /\ t[i] = "refused" /\ t[j] = "refused" => i = j
      /\ Within(items, m) <=>
           /\ \A i \in DOMAIN s : i > m => s[i] # "ran"
           /\ \A i, j \in DOMAIN s : i > m /\ j > m /\ s[i] = "refused" /\ s[j] = "refused" => i = j
  BY DEF Reached, Within
<1> HIDE DEF more, s, t
<1>3. CASE x \notin Results
  <2>1. x # "ran" /\ x # "refused" BY <1>3 DEF Results
  <2>2. t = s BY <1>1, <1>3
  <2> QED BY <1>2, <2>1, <2>2 DEF more
<1>4. CASE x \in Results
  <2>1. t = Append(s, x) BY <1>1, <1>4
  <2> DEFINE n == Len(s)
  <2>2. /\ n \in Nat /\ DOMAIN s = 1..n /\ DOMAIN t = 1..(n + 1) /\ t[n + 1] = x
        /\ \A i \in 1..n : t[i] = s[i]
    BY <1>1, <2>1
  <2>3. \A i \in 1..(n + 1) : i = n + 1 \/ i \in 1..n BY <2>2
  <2>4. 1..n \subseteq 1..(n + 1) /\ n + 1 \in 1..(n + 1) BY <2>2
  <2> HIDE DEF n
  <2>5. x # "refused" => (Reached(more, m) <=> Reached(items, m)) BY <1>2, <2>2, <2>3, <2>4
  <2>6. ASSUME Within(items, m), x = "ran" => n < m, x = "refused" => ~Reached(items, m)
        PROVE  Within(more, m)
    <3>1. ASSUME NEW i \in DOMAIN t, i > m PROVE t[i] # "ran"
      <4>1. CASE i = n + 1 BY <4>1, <2>2, <2>6, <3>1
      <4>2. CASE i \in 1..n BY <4>2, <1>2, <2>2, <2>6, <3>1
      <4> QED BY <2>2, <2>3, <4>1, <4>2
    <3>2. ASSUME NEW i \in DOMAIN t, NEW j \in DOMAIN t, i > m, j > m, t[i] = "refused",
                 t[j] = "refused"
          PROVE  i = j
      <4>1. CASE i \in 1..n /\ j \in 1..n BY <4>1, <1>2, <2>2, <2>6, <3>2
      <4>2. CASE i = n + 1 /\ j \in 1..n
        <5>1. x = "refused" /\ s[j] = "refused" BY <4>2, <2>2, <3>2
        <5> QED BY <4>2, <5>1, <1>2, <2>2, <2>6, <3>2
      <4>3. CASE j = n + 1 /\ i \in 1..n
        <5>1. x = "refused" /\ s[i] = "refused" BY <4>3, <2>2, <3>2
        <5> QED BY <4>3, <5>1, <1>2, <2>2, <2>6, <3>2
      <4> QED BY <2>2, <2>3, <4>1, <4>2, <4>3
    <3> QED BY <1>2, <3>1, <3>2
  <2> QED BY <2>5, <2>6 DEF more, s, n
<1> QED BY <1>3, <1>4

-----------------------------------------------------------------------------
(***************************************************************************)
(* What a step makes of the thread of a durable agent: a turn opened in a thread *)
(* in which none is, or another state of its last turn.                       *)
(***************************************************************************)
Opened(by) == Closed /\ thread' = Open(Len(thread) + 1, by)
Becomes(turn) ==
    /\ thread # <<>> /\ Last(thread).status = "streaming" /\ Proper(turn)
    /\ turn.by = Last(thread).by /\ turn.run = Last(thread).run /\ thread' = Changed(thread, turn)
Pushes(turn, item) ==
    /\ Own(turn.by) /\ turn.status = "streaming" /\ turn.items = Append(Last(thread).items, item)
    /\ IF turn.by = Author
       THEN \/ pc = "stream" /\ item \in Replies
            \/ pc = "tools" /\ item = "ran"
            \/ pc = "limit" /\ item = "refused"
            \/ pc = "closing" /\ item = "closing"
       ELSE pc = "recording" /\ item = writing.item /\ Last(thread).items = <<>> /\ ~turn.partial
Becoming(turn) ==
    \/ turn.items = Last(thread).items /\ (turn.status = "streaming" => turn.by = Author)
    \/ turn.status = "failed" /\ turn.items \in Repaired(Last(thread))
    \/ \E item \in Items : Pushes(turn, item)
Written ==
    \/ thread' = thread
    \/ pc = "llm" /\ Opened(Author)
    \/ pc = "record" /\ Opened("critic")
    \/ \E turn : Becomes(turn) /\ Becoming(turn)

LEMMA PushWrites ==
    ASSUME Sound(thread), Own(Author), NEW item \in Items, thread' = Push(Len(thread), item),
           \/ pc = "stream" /\ item \in Replies
           \/ pc = "tools" /\ item = "ran"
           \/ pc = "limit" /\ item = "refused"
           \/ pc = "closing" /\ item = "closing"
    PROVE  Written
<1>1. PICK turn \in Stored :
        /\ Push(Len(thread), item) = Changed(thread, turn) /\ Proper(turn)
        /\ turn.by = Author /\ turn.run = run /\ turn.status = "streaming"
        /\ turn.items = Append(Last(thread).items, item)
  BY PushedTurn
<1>2. Becomes(turn) BY <1>1 DEF Becomes, Own
<1>3. Pushes(turn, item) BY <1>1 DEF Pushes
<1> QED BY <1>2, <1>3 DEF Written, Becoming

LEMMA CompleteWrites ==
    ASSUME Sound(thread), thread # <<>>, Last(thread).status = "streaming",
           Last(thread).items # <<>>, Last(Last(thread).items) \notin Results,
           thread' = Complete(Len(thread))
    PROVE  Written
<1>1. PICK turn \in Stored :
        /\ Complete(Len(thread)) = Changed(thread, turn) /\ Proper(turn)
        /\ turn.by = Last(thread).by /\ turn.run = Last(thread).run /\ turn.status = "completed"
        /\ turn.items = Last(thread).items
  BY CompletedTurn
<1>2. Becomes(turn) BY <1>1 DEF Becomes
<1>3. Becoming(turn) BY <1>1 DEF Becoming
<1> QED BY <1>2, <1>3 DEF Written

LEMMA EndWrites ==
    ASSUME Sound(thread), OpenTurnFound, thread' \in Ended(thread)
    PROVE  Written
<1>1. thread # <<>> /\ Last(thread).status = "streaming" BY DEF OpenTurnFound
<1>2. PICK turn : /\ Proper(turn) /\ turn.status = "failed" /\ thread' = Changed(thread, turn)
                  /\ turn.by = Last(thread).by /\ turn.run = Last(thread).run
                  /\ turn.items \in Repaired(Last(thread))
  BY <1>1, EndedIs
<1>3. Becomes(turn) BY <1>1, <1>2 DEF Becomes
<1>4. Becoming(turn) BY <1>2 DEF Becoming
<1> QED BY <1>3, <1>4 DEF Written

LEMMA CallModelWrites == ASSUME Inv, conf.durable, CallModel PROVE Written
<1> DEFINE m == Max(Continued)  t == Last(thread)
<1>1. pc = "llm" /\ Continued # {} /\ writing' = [rank |-> m, new |-> FALSE, item |-> "none"]
  BY DEF CallModel
<1>2. m = position.rank /\ m \in DOMAIN conv /\ AwaitsStep(conv[m]) BY <1>1, ContinuedIs DEF Inv
<1>3. thread' = [thread EXCEPT ![m].partial = TRUE]
  <2>1. thread' = [thread EXCEPT ![writing'.rank].partial = TRUE] BY DEF CallModel
  <2> HIDE DEF m
  <2> QED BY <1>1, <2>1
<1>4. Sound(thread) /\ AtLlm BY <1>1 DEF Inv, ThreadInv
<1>5. m = Len(thread) /\ thread # <<>> /\ t.items # <<>> /\ thread \in Seq(Stored)
  <2>1. thread \in Seq(Stored) /\ conv = View(thread) BY <1>4 DEF Sound, AtLlm
  <2>2. position.rank \in 1..Len(thread) BY <1>2, <2>1, ViewIs
  <2>3. Len(thread) \in Nat BY <2>1
  <2> QED BY <1>2, <1>4, <2>1, <2>2, <2>3 DEF AtLlm, Stands
<1>6. Last(t.items) \in Results
  <2>1. conv = View(thread) BY <1>4 DEF AtLlm
  <2>2. conv[Len(thread)].items = t.items BY <1>5, <2>1, ReadOf
  <2> QED BY <1>2, <1>5, <2>2 DEF AwaitsStep
<1>7. Own(Author) BY <1>2, <1>4, <1>5, <1>6 DEF AtLlm
<1>8. Proper(t) /\ t \in Stored BY <1>4, <1>5, LastIsProper
<1>9. t.by = Author /\ t.status = "streaming" /\ t.items \in Seq(Items) BY <1>7, <1>8 DEF Own, Stored
<1> DEFINE turn == TurnOf(t, t.items, TRUE, t.status)
<1>10. thread' = Changed(thread, turn) BY <1>3, <1>4, <1>5, MarkIs
<1>11. Proper(turn)
  <2> HIDE DEF t
  <2> QED BY <1>8, <1>9, TurnIsProper
<1>12. turn.by = t.by /\ turn.run = t.run /\ turn.items = t.items
  <2> HIDE DEF t
  <2> QED BY DEF TurnOf
<1> HIDE DEF turn
<1>13. Becomes(turn) BY <1>5, <1>9, <1>10, <1>11, <1>12 DEF Becomes
<1>14. Becoming(turn) BY <1>9, <1>12 DEF Becoming
<1> QED BY <1>13, <1>14 DEF Written

LEMMA OpenTurnWrites == ASSUME Inv, conf.durable, OpenTurn PROVE Written
<1>1. /\ pc = "llm" /\ Continued = {} /\ thread' \in {thread, Open(NewRank, Author)}
  BY DEF OpenTurn, Stores
<1>2. Sound(thread) /\ AtLlm /\ conv = View(thread) /\ Stands /\ RankInv
  BY <1>1 DEF Inv, ThreadInv, AtLlm
<1>3. NewRank = Len(thread) + 1 BY <1>2, NewRankIs DEF RankInv
<1>4. Closed
  <2> SUFFICES ASSUME ~Closed PROVE FALSE OBVIOUS
  <2>1. Own(Author) /\ position.rank = Len(thread) /\ Last(Last(thread).items) \in Results
    BY <1>2 DEF AtLlm
  <2>2. thread \in Seq(Stored) /\ thread # <<>> BY <1>2, <2>1 DEF Sound, Own
  <2>3. Last(thread).items # <<>>
    <3>1. Len(thread) \in Nat BY <2>2
    <3> QED BY <1>2, <2>1, <3>1 DEF Stands
  <2>4. Len(thread) \in DOMAIN conv /\ conv[Len(thread)].items = Last(thread).items
    BY <1>2, <2>2, <2>3, ReadOf
  <2>5. position.rank \in Continued BY <2>1, <2>4 DEF Continued, AwaitsStep
  <2> QED BY <1>1, <2>5
<1> QED BY <1>1, <1>3, <1>4 DEF Written, Opened

LEMMA StreamedWrites == ASSUME Inv, conf.durable, NEW item \in Replies, Streamed(item) PROVE Written
<1>1. pc = "stream" /\ thread' \in {thread, Push(writing.rank, item)} BY DEF Streamed, Stores
<1>2. Sound(thread) /\ AtStream BY <1>1 DEF Inv, ThreadInv
<1>3. Own(Author) /\ writing.rank = Len(thread) BY <1>2 DEF AtStream
<1>4. item \in Items BY DEF Items
<1>5. CASE thread' = Push(Len(thread), item) BY <1>1, <1>2, <1>3, <1>4, <1>5, PushWrites
<1> QED BY <1>1, <1>3, <1>5 DEF Written

LEMMA CompleteTurnWrites == ASSUME Inv, conf.durable, CompleteTurn PROVE Written
<1>1. pc = "complete" /\ thread' \in {thread, Complete(writing.rank)} BY DEF CompleteTurn, Stores
<1>2. Sound(thread) /\ AtComplete /\ writing.item \in {"text", "blank"}
  BY <1>1 DEF Inv, ThreadInv, RankInv
<1>3. PICK items \in Seq(Items) : Last(thread).items = Append(items, writing.item)
  BY <1>2 DEF AtComplete
<1>4. /\ thread # <<>> /\ Last(thread).status = "streaming" /\ writing.rank = Len(thread)
  BY <1>2 DEF AtComplete, Own
<1>5. writing.item \in Items /\ writing.item \notin Results BY <1>2 DEF Items, Replies, Results
<1>6. Last(thread).items # <<>> /\ Last(Last(thread).items) \notin Results BY <1>3, <1>5, LastStep
<1>7. CASE thread' = Complete(Len(thread)) BY <1>2, <1>4, <1>6, <1>7, CompleteWrites
<1> QED BY <1>1, <1>4, <1>7 DEF Written

LEMMA AnsweringWrites ==
    ASSUME Inv, conf.durable,
           \/ pc = "tools" /\ thread' \in {thread, Push(LastBy(conv, Author), "ran")}
           \/ pc = "limit" /\ thread' \in {thread, Push(LastBy(conv, Author), "refused")}
    PROVE  Written
<1>1. Sound(thread) /\ AtTools BY DEF Inv, ThreadInv
<1>2. /\ conv = View(thread) /\ Own(Author) /\ thread # <<>> /\ thread \in Seq(Stored)
      /\ Last(thread).items # <<>> /\ Last(thread).by = Author
  BY <1>1 DEF AtTools, Own, Sound
<1>3. LastBy(conv, Author) = Len(thread) BY <1>2, ReadOf
<1>4. "ran" \in Items /\ "refused" \in Items BY DEF Items, Results
<1>5. CASE pc = "tools" /\ thread' = Push(Len(thread), "ran")
  BY <1>1, <1>2, <1>4, <1>5, PushWrites
<1>6. CASE pc = "limit" /\ thread' = Push(Len(thread), "refused")
  BY <1>1, <1>2, <1>4, <1>6, PushWrites
<1> QED BY <1>3, <1>5, <1>6 DEF Written

\* The turn being closed is the last of the agent.
LEMMA ClosingRank ==
    ASSUME Inv, conf.durable, NEW end, AtClosing(end)
    PROVE  LastBy(conv, Author) = Len(thread)
<1>1. PICK items \in Seq(Items) \ {<<>>} : Behind(items) BY DEF AtClosing
<1>2. Sound(thread) /\ thread # <<>> /\ Last(thread).by = Author BY DEF Inv, ThreadInv, AtClosing, Own
<1>3. /\ Had(items) \in Seq(Stored) /\ Had(items) # <<>> /\ Len(Had(items)) = Len(thread)
      /\ Last(Had(items)).items = items /\ Last(Had(items)).by = Author
  BY <1>1, <1>2, HadIs
<1>4. conv = View(Had(items)) BY <1>1 DEF Behind
<1> QED BY <1>1, <1>3, <1>4, ReadOf

LEMMA CloseWrites == ASSUME Inv, conf.durable, Close PROVE Written
<1>1. pc = "closing" /\ thread' \in {thread, Push(LastBy(conv, Author), "closing")}
  BY DEF Close, Answering, Stores
<1>2. Sound(thread) /\ AtClosing(<<"refused">>) BY <1>1 DEF Inv, ThreadInv
<1>3. LastBy(conv, Author) = Len(thread) /\ Own(Author) BY <1>2, ClosingRank DEF AtClosing
<1>4. "closing" \in Items BY DEF Items
<1>5. CASE thread' = Push(Len(thread), "closing") BY <1>1, <1>2, <1>3, <1>4, <1>5, PushWrites
<1> QED BY <1>1, <1>3, <1>5 DEF Written

LEMMA ClosingEnd ==
    /\ <<"refused">> \in Seq(Items) /\ "closing" \in Items /\ "closing" \notin Results
    /\ Append(<<"refused">>, "closing") = <<"refused", "closing">>
<1>1. "refused" \in Items /\ "closing" \in Items /\ "closing" \notin Results BY DEF Items, Results
<1>2. <<"refused">> \in Seq(Items) BY <1>1
<1> DEFINE one == <<"refused">>  s == Append(one, "closing")  two == <<"refused", "closing">>
<1>3. two \in Seq(Items) /\ Len(two) = 2 /\ two[1] = "refused" /\ two[2] = "closing" BY <1>1
<1>4. Len(one) = 1 /\ one[1] = "refused" OBVIOUS
<1> HIDE DEF one, two
<1>5. s \in Seq(Items) /\ Len(s) = 2 /\ s[1] = "refused" /\ s[2] = "closing" BY <1>1, <1>2, <1>4 DEF one
<1> HIDE DEF s
<1>6. \A i \in 1..2 : s[i] = two[i] BY <1>3, <1>5
<1>7. s = two BY <1>3, <1>5, <1>6
<1> QED BY <1>1, <1>2, <1>7 DEF one, two, s

\* A turn that is closed ends with the step that closes it.
LEMMA ClosedTurn ==
    ASSUME AtClosing(<<"refused", "closing">>)
    PROVE  Last(thread).items # <<>> /\ Last(Last(thread).items) \notin Results
<1>1. PICK items \in Seq(Items) : Last(thread).items = items \o <<"refused", "closing">>
  BY DEF AtClosing
<1> DEFINE more == items \o <<"refused">>
<1>2. more \in Seq(Items) BY <1>1, ClosingEnd
<1>3. Append(more, "closing") = items \o <<"refused", "closing">> BY <1>1, ClosingEnd, ItemsAppend
<1> HIDE DEF more
<1> QED BY <1>1, <1>2, <1>3, ClosingEnd, LastStep

LEMMA CompleteCutWrites == ASSUME Inv, conf.durable, CompleteCut PROVE Written
<1>1. pc = "closed" /\ thread' \in {thread, Complete(LastBy(conv, Author))}
  BY DEF CompleteCut, Stores
<1>2. Sound(thread) /\ AtClosing(<<"refused", "closing">>) BY <1>1 DEF Inv, ThreadInv
<1>3. /\ LastBy(conv, Author) = Len(thread) /\ thread # <<>> /\ Last(thread).status = "streaming"
      /\ Last(thread).items # <<>> /\ Last(Last(thread).items) \notin Results
  BY <1>2, ClosingRank, ClosedTurn DEF AtClosing, Own
<1>4. CASE thread' = Complete(Len(thread)) BY <1>2, <1>3, <1>4, CompleteWrites
<1> QED BY <1>1, <1>3, <1>4 DEF Written

LEMMA RecordWrites == ASSUME Inv, conf.durable, Record PROVE Written
<1>1. pc = "record" /\ thread' \in {thread, Open(writing.rank, "critic")} BY DEF Record, Stores
<1>2. Sound(thread) /\ AtRest /\ RankInv BY <1>1 DEF Inv, ThreadInv
<1>3. conv = View(thread) /\ Stands /\ Closed BY <1>2 DEF AtRest
<1>4. writing.rank = Len(thread) + 1
  <2>1. writing.rank = NewRank BY <1>1, <1>2 DEF RankInv
  <2>2. NewRank = Len(thread) + 1 BY <1>2, <1>3, NewRankIs DEF RankInv
  <2> QED BY <2>1, <2>2
<1> QED BY <1>1, <1>3, <1>4 DEF Written, Opened

LEMMA RecordStepWrites == ASSUME Inv, conf.durable, RecordStep PROVE Written
<1> DEFINE t == Last(thread)  item == writing.item
           turn == TurnOf(t, Append(t.items, item), FALSE, t.status)
<1>1. pc = "recording" /\ thread' \in {thread, Push(writing.rank, item)} BY DEF RecordStep, Stores
<1>2. Sound(thread) /\ AtRecording /\ item \in Judgments BY <1>1 DEF Inv, ThreadInv, RankInv
<1>3. /\ Own("critic") /\ writing.rank = Len(thread) /\ t.items = <<>> /\ thread # <<>>
  BY <1>2 DEF AtRecording, Own
<1>4. item \in Items /\ item \notin Results \cup {"call"} BY <1>2 DEF Items, Judgments, Results
<1>5. t \in Stored /\ t.by = "critic" /\ t.status = "streaming" /\ t.run = run
  BY <1>2, <1>3, LastIsProper DEF Own
<1>6. Push(writing.rank, item) = Changed(thread, turn) BY <1>2, <1>3, <1>4, PushIs
<1>7. Append(t.items, item) = <<item>>
  <2>1. Append(<<>>, item) = <<item>> OBVIOUS
  <2> QED BY <1>3, <2>1
<1>8. /\ turn.by = t.by /\ turn.run = t.run /\ turn.items = Append(t.items, item)
      /\ turn.status = t.status /\ ~turn.partial
  <2> HIDE DEF t
  <2> QED BY DEF TurnOf
<1>9. turn \in Stored
  <2>1. t.items \in Seq(Items) BY <1>5 DEF Stored
  <2>2. Append(t.items, item) \in Seq(Items) BY <1>4, <2>1, LastStep
  <2>3. t.status \in {"streaming", "completed", "failed"} BY <1>5
  <2> HIDE DEF t
  <2> QED BY <1>5, <2>2, <2>3, TurnIsStored
<1> HIDE DEF turn
<1>10. Proper(turn)
  <2>1. DOMAIN turn.items = {1} /\ turn.items[1] = item
    <3>1. DOMAIN <<item>> = {1} /\ <<item>>[1] = item OBVIOUS
    <3> QED BY <1>7, <1>8, <3>1
  <2> QED BY <1>4, <1>5, <1>8, <1>9, <2>1 DEF Proper
<1>11. CASE thread' = Changed(thread, turn)
  <2>1. Becomes(turn) BY <1>3, <1>5, <1>8, <1>10, <1>11 DEF Becomes
  <2>2. Pushes(turn, item) BY <1>1, <1>3, <1>5, <1>8 DEF Pushes, Author
  <2>3. Becoming(turn) BY <1>4, <2>2 DEF Becoming
  <2> QED BY <2>1, <2>3 DEF Written
<1> QED BY <1>1, <1>6, <1>11 DEF Written

LEMMA CompleteRecordWrites == ASSUME Inv, conf.durable, CompleteRecord PROVE Written
<1>1. pc = "recorded" /\ thread' \in {thread, Complete(writing.rank)} BY DEF CompleteRecord, Stores
<1>2. Sound(thread) /\ AtRecorded /\ writing.item \in Judgments BY <1>1 DEF Inv, ThreadInv, RankInv
<1>3. /\ writing.rank = Len(thread) /\ Last(thread).items = <<writing.item>>
      /\ thread # <<>> /\ Last(thread).status = "streaming"
  BY <1>2 DEF AtRecorded, Own
<1>4. Last(thread).items # <<>> /\ Last(Last(thread).items) \notin Results
  <2>1. <<writing.item>> # <<>> /\ Last(<<writing.item>>) = writing.item BY DEF Last
  <2>2. writing.item \notin Results BY <1>2 DEF Judgments, Results
  <2> QED BY <1>3, <2>1, <2>2
<1>5. CASE thread' = Complete(Len(thread)) BY <1>2, <1>3, <1>4, <1>5, CompleteWrites
<1> QED BY <1>1, <1>3, <1>5 DEF Written

LEMMA Writes == ASSUME Inv, conf.durable, Next PROVE Written
<1>1. CASE CallModel BY <1>1, CallModelWrites
<1>2. CASE OpenTurn BY <1>2, OpenTurnWrites
<1>3. CASE \E item \in Replies : Streamed(item) BY <1>3, StreamedWrites
<1>4. CASE Restart \/ Critique \/ Fail \/ Lose
  <2>1. thread' = thread
    BY <1>4 DEF Restart, Critique, Fail, ModelFails, ToolFails, JudgeFails, Lose
  <2> QED BY <2>1 DEF Written
<1>5. CASE HostEnds
  <2>1. Sound(thread) BY DEF Inv, ThreadInv
  <2> QED BY <1>5, <2>1, EndWrites DEF HostEnds
<1>6. CASE Step
  <2>1. CASE EnterInMemory BY <2>1 DEF EnterInMemory
  <2>2. CASE StoreInputs \/ EnterThread \/ Check \/ GiveAnswer \/ Finish
    <3>1. thread' = thread
      BY <2>2 DEF StoreInputs, EnterThread, Check, GiveAnswer, Finish, Told, Stores
    <3> QED BY <3>1 DEF Written
  <2>3. CASE FailOpenTurn
    <3>1. PICK th \in Ended(thread) : thread' \in {thread, th} BY <2>3 DEF FailOpenTurn, Stores
    <3>2. Sound(thread) /\ OpenTurnFound BY <2>3 DEF Inv, ThreadInv, FailOpenTurn
    <3>3. CASE thread' \in Ended(thread) BY <3>2, <3>3, EndWrites
    <3> QED BY <3>1, <3>3 DEF Written
  <2>4. CASE CompleteTurn BY <2>4, CompleteTurnWrites
  <2>5. CASE RunTools
    <3>1. pc = "tools" /\ thread' \in {thread, Push(LastBy(conv, Author), "ran")}
      BY <2>5 DEF RunTools, Answering, Stores
    <3> QED BY <3>1, AnsweringWrites
  <2>6. CASE RefuseCalls
    <3>1. pc = "limit" /\ thread' \in {thread, Push(LastBy(conv, Author), "refused")}
      BY <2>6 DEF RefuseCalls, Answering, Stores
    <3> QED BY <3>1, AnsweringWrites
  <2>7. CASE Close BY <2>7, CloseWrites
  <2>8. CASE CompleteCut BY <2>8, CompleteCutWrites
  <2>9. CASE Record BY <2>9, RecordWrites
  <2>10. CASE RecordStep BY <2>10, RecordStepWrites
  <2>11. CASE CompleteRecord BY <2>11, CompleteRecordWrites
  <2> QED BY <1>6, <2>1, <2>2, <2>3, <2>4, <2>5, <2>6, <2>7, <2>8, <2>9, <2>10, <2>11 DEF Step
<1> QED BY <1>1, <1>2, <1>3, <1>4, <1>5, <1>6 DEF Next, Generate

-----------------------------------------------------------------------------
(***************************************************************************)
(* Where a step goes.                                                        *)
(***************************************************************************)
LEMMA RoutesNext ==
    ASSUME RankInv'
    PROVE  /\ EntryRoute(conv', listed') \in {"llm", "check", "critique", "finish"}
           /\ AfterCheck(conv', listed') \in {"llm", "critique", "finish"}
           /\ AfterCritique(conv', listed') \in {"llm", "finish"}
<1> DEFINE c == conv'  l == listed'  b == position'.rank
<1>1. b \in Int /\ \A r \in DOMAIN c : r \in Int /\ r <= b BY DEF RankInv
<1> HIDE DEF c, l, b
<1>2. /\ EntryRoute(c, l) \in {"llm", "check", "critique", "finish"}
      /\ AfterCheck(c, l) \in {"llm", "critique", "finish"}
      /\ AfterCritique(c, l) \in {"llm", "finish"}
  BY <1>1, RoutesAre
<1> QED BY <1>2 DEF c, l

LEMMA ModelRoutes ==
    ASSUME NEW c
    PROVE  AfterModel(c) \in {"answer", "check", "tools", "limit", "failed"}
<1>1. Limited(c) \in {"limit", "failed"}
  <2>1. CASE conf.onLimit = "End" BY <2>1 DEF Limited
  <2>2. CASE conf.onLimit # "End" /\ conf.onLimit = "Continue" /\ ~AnsweredByLimit(c) BY <2>2 DEF Limited
  <2>3. CASE conf.onLimit # "End" /\ ~(conf.onLimit = "Continue" /\ ~AnsweredByLimit(c))
    BY <2>3 DEF Limited
  <2> QED BY <2>1, <2>2, <2>3
<1>2. AfterLoop \in {"answer", "check"} BY DEF AfterLoop
<1> QED BY <1>1, <1>2 DEF AfterModel

\* The tools run, or the limit answers, right after the model; the model is asked
\* again by a turn that is open only after one of them.
Phased ==
    /\ pc' \in {"tools", "limit"} => pc = "stream" /\ pc' = AfterModel(conv')
    /\ pc' = "stream" => pc = "llm"
    /\ conf.durable /\ pc' = "llm" =>
          Closed' \/ pc = "tools" \/ (pc = "limit" /\ conf.onLimit # "End")

LEMMA RecordPhased ==
    ASSUME Inv, Inv', CompleteRecord
    PROVE  Phased
<1>1. CASE Failed BY <1>1 DEF Failed, Phased
<1>2. CASE thread' = Complete(writing.rank) /\ Recorded
  <2>1. pc' \in {"llm", "critique", "finish"} BY <1>2, RoutesNext DEF Inv, Recorded
  <2>2. pc = "recorded" BY DEF CompleteRecord
  <2>3. ASSUME conf.durable PROVE Closed'
    <3>1. Sound(thread) /\ AtRecorded /\ writing.item \in Judgments
      BY <2>2, <2>3 DEF Inv, ThreadInv, RankInv
    <3>2. /\ writing.rank = Len(thread) /\ Last(thread).items = <<writing.item>>
          /\ thread # <<>> /\ thread \in Seq(Stored)
      BY <3>1 DEF AtRecorded, Own, Sound
    <3>3. Last(thread).items # <<>> /\ Last(Last(thread).items) \notin Results
      <4>1. <<writing.item>> # <<>> /\ Last(<<writing.item>>) = writing.item BY DEF Last
      <4>2. writing.item \notin Results BY <3>1 DEF Judgments, Results
      <4> QED BY <3>2, <4>1, <4>2
    <3>4. PICK turn \in Stored : Complete(Len(thread)) = Changed(thread, turn) /\ turn.status = "completed"
      BY <3>1, <3>2, <3>3, CompletedTurn
    <3>5. Last(thread') = turn BY <1>2, <3>2, <3>4, ChangedIs
    <3> QED BY <3>4, <3>5 DEF Closed
  <2> QED BY <2>1, <2>3 DEF Phased
<1> QED BY <1>1, <1>2 DEF CompleteRecord, Stores

LEMMA EnterPhased ==
    ASSUME Inv, Inv', EnterThread \/ FailOpenTurn
    PROVE  Phased
<1>1. CASE Failed BY <1>1 DEF Failed, Phased
<1>2. ASSUME NEW th, Entered(th), thread' = th, th # <<>> => Last(th).status # "streaming"
      PROVE  Phased
  <2>1. pc' \in {"llm", "check", "critique", "finish", "answer"}
    BY <1>2, RoutesNext DEF Inv, Entered, Route
  <2>2. Closed' BY <1>2 DEF Closed
  <2> QED BY <2>1, <2>2 DEF Phased
<1>3. CASE EnterThread
  <2>1. ~OpenTurnFound /\ thread' = thread /\ (Entered(thread) \/ Failed) BY <1>3 DEF EnterThread, Stores
  <2> QED BY <1>1, <1>2, <2>1 DEF OpenTurnFound
<1>4. CASE FailOpenTurn
  <2>1. PICK th \in Ended(thread) : (thread' = th /\ Entered(th)) \/ Failed
    BY <1>4 DEF FailOpenTurn, Stores
  <2>2. Sound(thread) /\ thread # <<>> BY <1>4 DEF Inv, ThreadInv, FailOpenTurn, OpenTurnFound
  <2>3. PICK turn : Proper(turn) /\ turn.status = "failed" /\ th = Changed(thread, turn)
    BY <2>2, EndedIs
  <2>4. Last(th).status # "streaming" BY <2>2, <2>3, ChangedIs DEF Sound, Proper
  <2> QED BY <1>1, <1>2, <2>1, <2>4
<1> QED BY <1>3, <1>4

LEMMA CompletePhased ==
    ASSUME Inv, CompleteTurn, UNCHANGED clients
    PROVE  Phased
<1> DEFINE item == writing.item
<1>1. CASE Failed BY <1>1 DEF Failed, Phased
<1>2. CASE Reply(item)
  <2>1. pc = "complete" /\ conf' = conf /\ UNCHANGED <<kept, served>>
    BY DEF CompleteTurn, Stores, fixed, clients
  <2>2. ConfInv /\ RankInv /\ ClientInv /\ item \in {"text", "blank"} BY <2>1 DEF Inv, RankInv
  <2>3. item \in Replies /\ item # "call" /\ kept' \subseteq kept BY <2>1, <2>2 DEF Replies
  <2> HIDE DEF item
  <2>4. pc' \in {"answer", "check"} BY <1>2, <2>1, <2>2, <2>3, Replied
  <2> QED BY <2>4 DEF Phased
<1> QED BY <1>1, <1>2 DEF CompleteTurn, Stores

LEMMA Phases ==
    ASSUME Inv, Next
    PROVE  Phased
<1>1. Inv' BY StepKeeps
<1>2. CASE CallModel \/ OpenTurn
  <2>1. pc = "llm" /\ pc' \in {"stream", "failed"}
    BY <1>2 DEF CallModel, OpenTurn, Stores, Streams, Failed
  <2> QED BY <2>1 DEF Phased
<1>3. CASE \E item \in Replies : Streamed(item)
  <2>1. pc = "stream" /\ (pc' = AfterModel(conv') \/ pc' \in {"complete", "failed"})
    BY <1>3 DEF Streamed, Stores, Reply, Completes, Failed
  <2>2. AfterModel(conv') \in {"answer", "check", "tools", "limit", "failed"} BY ModelRoutes
  <2> QED BY <2>1, <2>2 DEF Phased
<1>4. CASE Restart \/ Critique \/ Fail \/ Lose \/ HostEnds
  <2>1. pc' \in {"enter", "record", "critique", "failed", "lost"}
    BY <1>4 DEF Restart, Critique, Records, Goes, Fail, ModelFails, ToolFails, JudgeFails, Lose, HostEnds, Failed
  <2> QED BY <2>1 DEF Phased
<1>5. CASE Step /\ UNCHANGED clients
  <2>1. CASE EnterInMemory
    <3>1. pc' \in {"llm", "check", "critique", "finish"} /\ ~conf.durable
      BY <1>1, <2>1, RoutesNext DEF Inv, EnterInMemory, Route
    <3> QED BY <3>1 DEF Phased
  <2>2. CASE StoreInputs \/ Close \/ RecordStep \/ GiveAnswer \/ Finish
    <3>1. pc' \in {"enter", "failed", "closed", "recorded", "done"}
      BY <2>2 DEF StoreInputs, Close, Answering, RecordStep, GiveAnswer, Finish, Told, Stores, Failed
    <3> QED BY <3>1 DEF Phased
  <2>3. CASE EnterThread \/ FailOpenTurn BY <1>1, <2>3, EnterPhased
  <2>4. CASE CompleteTurn BY <1>5, <2>4, CompletePhased
  <2>5. CASE RunTools
    <3>1. pc = "tools" /\ pc' \in {"llm", "failed"}
      BY <2>5 DEF RunTools, Answering, Answers, AfterTools, Stores, Failed
    <3> QED BY <3>1 DEF Phased
  <2>6. CASE RefuseCalls
    <3>1. pc = "limit" /\ pc' \in {"llm", "failed", "closing"} /\ (pc' = "llm" => conf.onLimit # "End")
      BY <2>6 DEF RefuseCalls, Answering, Answers, AfterLimit, Closes, Stores, Failed
    <3> QED BY <3>1 DEF Phased
  <2>7. CASE CompleteCut
    <3>1. conf.durable => conf.onLimit = "End" BY <2>7 DEF CompleteCut, Inv, ThreadInv, AtClosing
    <3>2. /\ pc' \in {"llm", "answer", "check", "failed"}
          /\ conf.durable => pc' # "llm"
      BY <2>7, <3>1 DEF CompleteCut, Stores, Cuts, Failed, AfterLimit, AfterLoop
    <3> QED BY <3>2 DEF Phased
  <2>8. CASE Check
    <3>1. pc = "check" /\ thread' = thread /\ (pc' = "record" \/ pc' = AfterCheck(conv, listed))
      BY <2>8 DEF Check, Records, Goes
    <3>2. AfterCheck(conv, listed) \in {"llm", "critique", "finish"}
      <4> DEFINE b == position.rank
      <4>1. b \in Int /\ \A r \in DOMAIN conv : r \in Int /\ r <= b BY DEF Inv, RankInv
      <4> HIDE DEF b
      <4> QED BY <4>1, RoutesAre
    <3>3. conf.durable => Closed' BY <3>1 DEF Inv, ThreadInv, AtRest, Closed
    <3> QED BY <3>1, <3>2, <3>3 DEF Phased
  <2>9. CASE Record
    <3>1. CASE conf.durable
      <4>1. pc' \in {"recording", "failed"} BY <2>9, <3>1 DEF Record, Stores, Failed
      <4> QED BY <4>1 DEF Phased
    <3>2. CASE ~conf.durable
      <4>1. pc' \in {"llm", "critique", "finish"}
        BY <1>1, <2>9, <3>2, RoutesNext DEF Inv, Record, Recorded, Stores
      <4> QED BY <3>2, <4>1 DEF Phased
    <3> QED BY <3>1, <3>2
  <2>10. CASE CompleteRecord BY <1>1, <2>10, RecordPhased
  <2> QED BY <1>5, <2>1, <2>2, <2>3, <2>4, <2>5, <2>6, <2>7, <2>8, <2>9, <2>10 DEF Step
<1>6. UNCHANGED <<clients, attempt>> => UNCHANGED clients OBVIOUS
<1> QED BY <1>2, <1>3, <1>4, <1>5, <1>6 DEF Next, Generate

-----------------------------------------------------------------------------
(***************************************************************************)
(* The limit of the rounds.  Of a thread, it bounds the turns of the run: the     *)
(* tools run below it, and a turn it answers goes on only if it may be answered   *)
(* by it once.                                                               *)
(***************************************************************************)
RunsInv == max \in Maxes /\ \A r \in DOMAIN thread : thread[r].run <= run
OwnInv ==
    conf.onLimit # "None" /\ conf.durable =>
        /\ \A r \in DOMAIN thread : thread[r].run = run => Within(thread[r].items, max)
        /\ pc = "tools" => Len(Among(Last(thread).items, Results)) < max
        /\ pc = "limit" => ~Reached(Last(thread).items, max)
        /\ conf.onLimit = "End" /\ pc \in {"llm", "stream", "tools"} /\ Own(Author) =>
              ~Reached(Last(thread).items, max)

\* What the edge after the model says of the turn it reads.
LEMMA ModelLimits ==
    ASSUME NEW c, conf.onLimit # "None"
    PROVE  /\ AfterModel(c) = "tools" => ~(Len(Among(Turn(c).items, Results)) >= max)
           /\ AfterModel(c) = "limit" => conf.onLimit = "End" \/ ~Reached(Turn(c).items, max)
           /\ AfterModel(c) \in {"tools", "limit"} => AwaitsResults(Turn(c))
<1>1. CompletedRounds(c) = Len(Among(Turn(c).items, Results))
  BY DEF CompletedRounds, AnsweredRounds, Rounds
<1>2. AnsweredByLimit(c) <=> Reached(Turn(c).items, max) BY DEF AnsweredByLimit, ReachedIn, Rounds, Reached
<1>3. /\ Limited(c) \in {"limit", "failed"}
      /\ Limited(c) = "limit" => conf.onLimit = "End" \/ ~AnsweredByLimit(c)
  <2>1. CASE conf.onLimit = "End" BY <2>1 DEF Limited
  <2>2. CASE conf.onLimit # "End" /\ conf.onLimit = "Continue" /\ ~AnsweredByLimit(c) BY <2>2 DEF Limited
  <2>3. CASE conf.onLimit # "End" /\ ~(conf.onLimit = "Continue" /\ ~AnsweredByLimit(c))
    BY <2>3 DEF Limited
  <2> QED BY <2>1, <2>2, <2>3
<1>4. AfterLoop \in {"answer", "check"} BY DEF AfterLoop
<1>5. LimitReached(c) <=> CompletedRounds(c) >= max BY DEF LimitReached
<1> QED BY <1>1, <1>2, <1>3, <1>4, <1>5 DEF AfterModel

\* A turn that is ended has no round the tools ran, or the limit refused, more.
LEMMA RepairedWithin ==
    ASSUME NEW m \in Nat, NEW t \in Stored, NEW items \in Repaired(t), Within(t.items, m)
    PROVE  Within(items, m)
<1> DEFINE steps == IF t.by = "critic" THEN {"partial"} ELSE {"text", "blank"}
           kept_ == {t.items} \cup IF ~t.partial THEN {} ELSE {Append(t.items, i) : i \in steps}
<1>1. PICK s \in kept_ : items = IF s # <<>> /\ Last(s) = "call" THEN Append(s, "interrupted") ELSE s
  BY DEF Repaired
<1>2. t.items \in Seq(Items) BY DEF Stored
<1>3. steps \subseteq Items /\ "ran" \notin steps /\ "refused" \notin steps BY DEF Items, Replies
<1>4. s \in Seq(Items) /\ Within(s, m)
  <2>1. CASE s = t.items BY <1>2, <2>1
  <2>2. CASE \E i \in steps : s = Append(t.items, i)
    <3>1. PICK i \in steps : s = Append(t.items, i) BY <2>2
    <3> HIDE DEF steps
    <3>2. i \in Items /\ i # "ran" /\ i # "refused" BY <1>3
    <3> QED BY <1>2, <3>1, <3>2, RoundsGrow, LastStep
  <2>3. s = t.items \/ \E i \in steps : s = Append(t.items, i)
    <3> HIDE DEF steps
    <3> QED OBVIOUS
  <2> QED BY <2>1, <2>2, <2>3
<1>5. "interrupted" \in Items BY DEF Items, Results
<1>6. Within(Append(s, "interrupted"), m) BY <1>4, <1>5, RoundsGrow
<1> QED BY <1>1, <1>4, <1>6

LEMMA FixedBy ==
    ASSUME Next
    PROVE  /\ conf' = conf
           /\ ~Restart => UNCHANGED <<run, max>>
  BY DEF Next, Generate, CallModel, OpenTurn, Streamed, Restart, Critique, Step, EnterInMemory,
         StoreInputs, EnterThread, FailOpenTurn, CompleteTurn, RunTools, RefuseCalls, Close,
         CompleteCut, Answering, Check, Record, RecordStep, CompleteRecord, GiveAnswer, Finish, Told, Fail,
         ModelFails, ToolFails, JudgeFails, Lose, HostEnds, Stores, fixed

LEMMA RunsKeeps ==
    ASSUME Inv, RunsInv, Next
    PROVE  RunsInv'
<1>1. Inv' /\ (conf.durable => Written) /\ conf' = conf /\ conf.durable \in BOOLEAN /\ run \in Nat
  BY StepKeeps, Writes, FixedBy, ConfIs DEF Inv
<1>2. CASE Restart
  <2>1. max' \in Maxes /\ thread' = thread /\ run' = run + 1 BY <1>2 DEF Restart
  <2>2. \A r \in DOMAIN thread : thread[r].run \in Nat
    <3>1. CASE conf.durable
      <4>1. thread \in Seq(Stored) BY <3>1 DEF Inv, ThreadInv, Sound
      <4>2. \A r \in DOMAIN thread : thread[r] \in Stored BY <4>1
      <4> QED BY <4>2 DEF Stored
    <3>2. CASE ~conf.durable BY <3>2 DEF Inv, ThreadInv
    <3> QED BY <3>1, <3>2
  <2>3. \A r \in DOMAIN thread' : thread'[r].run <= run' BY <1>1, <2>1, <2>2 DEF RunsInv
  <2> QED BY <2>1, <2>3 DEF RunsInv
<1>3. CASE ~Restart
  <2>1. run' = run /\ max' = max BY <1>3, FixedBy
  <2>2. CASE ~conf.durable BY <1>1, <2>1, <2>2 DEF Inv, ThreadInv, RunsInv
  <2>3. CASE conf.durable
    <3>1. Sound(thread) /\ thread \in Seq(Stored) BY <2>3 DEF Inv, ThreadInv, Sound
    <3>2. CASE thread' = thread BY <2>1, <3>2 DEF RunsInv
    <3>3. ASSUME NEW by \in Authors, Opened(by) PROVE RunsInv'
      <4>1. /\ DOMAIN thread' = DOMAIN thread \cup {Len(thread) + 1} /\ thread'[Len(thread) + 1] = NewTurn(by)
            /\ \A r \in DOMAIN thread : thread'[r] = thread[r]
        <5>1. /\ thread' # <<>> /\ Len(thread') = Len(thread) + 1 /\ Last(thread') = NewTurn(by)
              /\ DOMAIN thread' = DOMAIN thread \cup {Len(thread) + 1}
              /\ \A r \in DOMAIN thread : thread'[r] = thread[r]
          BY <1>1, <3>1, <3>3, OpenIs DEF Opened
        <5> QED BY <5>1 DEF Last
      <4>2. NewTurn(by).run = run BY DEF NewTurn
      <4>3. \A r \in DOMAIN thread' : thread'[r].run <= run BY <1>1, <4>1, <4>2 DEF RunsInv
      <4> QED BY <2>1, <4>3 DEF RunsInv
    <3>4. ASSUME NEW turn, Becomes(turn) PROVE RunsInv'
      <4>1. /\ DOMAIN thread' = DOMAIN thread /\ thread'[Len(thread)] = turn /\ Last(thread) = thread[Len(thread)]
            /\ \A r \in DOMAIN thread : r # Len(thread) => thread'[r] = thread[r]
            /\ turn.run = Last(thread).run
        BY <3>1, <3>4, ChangedIs DEF Becomes, Proper
      <4>2. \A r \in DOMAIN thread' : thread'[r].run <= run BY <4>1 DEF RunsInv
      <4> QED BY <2>1, <4>2 DEF RunsInv
    <3>5. Author \in Authors /\ "critic" \in Authors BY DEF Author, Authors
    <3> QED BY <1>1, <2>3, <3>2, <3>3, <3>4, <3>5 DEF Written
  <2> QED BY <2>2, <2>3
<1> QED BY <1>2, <1>3

\* What is pushed keeps a turn of the run within the limit.
LEMMA PushesWithin ==
    ASSUME Inv, RunsInv, OwnInv, conf.durable, conf.onLimit # "None", NEW turn, NEW item \in Items,
           Becomes(turn), Pushes(turn, item)
    PROVE  /\ Within(turn.items, max)
           /\ pc \in {"llm", "stream", "tools"} /\ ~Reached(Last(thread).items, max) =>
                 ~Reached(turn.items, max)
<1>1. Sound(thread) /\ thread # <<>> BY DEF Inv, ThreadInv, Becomes
<1>2. /\ Last(thread).items \in Seq(Items) /\ Len(thread) \in DOMAIN thread
      /\ Last(thread) = thread[Len(thread)]
  BY <1>1, LastIsProper DEF Stored
<1>3. max \in Nat BY DurableAgentAssumption DEF RunsInv
<1>4. Within(Last(thread).items, max) BY <1>2 DEF OwnInv, Pushes, Own
<1>5. turn.items = Append(Last(thread).items, item) BY DEF Pushes
<1>6. item = "ran" => pc = "tools"
  BY DEF Pushes, Replies, Inv, RankInv, Judgments
<1>7. item = "refused" => pc = "limit"
  BY DEF Pushes, Replies, Inv, RankInv, Judgments
<1>8. /\ item = "ran" => Len(Among(Last(thread).items, Results)) < max
      /\ item = "refused" => ~Reached(Last(thread).items, max)
  BY <1>6, <1>7 DEF OwnInv
<1> DEFINE items == Last(thread).items
<1>9. items \in Seq(Items) /\ Within(items, max) BY <1>2, <1>4
<1> HIDE DEF items
<1>10. Within(Append(items, item), max)
  BY <1>3, <1>8, <1>9, RoundsGrow DEF items
<1>11. item # "refused" => (Reached(Append(items, item), max) <=> Reached(items, max))
  BY <1>3, <1>9, RoundsGrow
<1> QED BY <1>5, <1>7, <1>10, <1>11 DEF items

LEMMA OwnWithin ==
    ASSUME Inv, RunsInv, OwnInv, conf.durable, conf.onLimit # "None", Written
    PROVE  \A r \in DOMAIN thread' : thread'[r].run = run => Within(thread'[r].items, max)
<1>1. Sound(thread) /\ thread \in Seq(Stored) /\ run \in Nat /\ max \in Nat
  BY DurableAgentAssumption DEF Inv, ThreadInv, Sound, ConfInv, RunsInv
<1>2. \A r \in DOMAIN thread : thread[r].run = run => Within(thread[r].items, max) BY DEF OwnInv
<1>3. CASE thread' = thread BY <1>2, <1>3
<1>4. ASSUME NEW by \in Authors, Opened(by)
      PROVE  \A r \in DOMAIN thread' : thread'[r].run = run => Within(thread'[r].items, max)
  <2>1. /\ DOMAIN thread' = DOMAIN thread \cup {Len(thread) + 1} /\ thread'[Len(thread) + 1] = NewTurn(by)
        /\ \A r \in DOMAIN thread : thread'[r] = thread[r]
    <3>1. /\ thread' # <<>> /\ Len(thread') = Len(thread) + 1 /\ Last(thread') = NewTurn(by)
          /\ DOMAIN thread' = DOMAIN thread \cup {Len(thread) + 1}
          /\ \A r \in DOMAIN thread : thread'[r] = thread[r]
      BY <1>1, <1>4, OpenIs DEF Opened
    <3> QED BY <3>1 DEF Last
  <2>2. NewTurn(by).items = <<>> BY DEF NewTurn
  <2> QED BY <1>1, <1>2, <2>1, <2>2, NoRounds
<1>5. ASSUME NEW turn, Becomes(turn), Becoming(turn)
      PROVE  \A r \in DOMAIN thread' : thread'[r].run = run => Within(thread'[r].items, max)
  <2>1. /\ DOMAIN thread' = DOMAIN thread /\ thread'[Len(thread)] = turn /\ Last(thread) = thread[Len(thread)]
        /\ \A r \in DOMAIN thread : r # Len(thread) => thread'[r] = thread[r]
        /\ turn.run = Last(thread).run /\ Last(thread) \in Stored /\ Len(thread) \in DOMAIN thread
    BY <1>1, <1>5, ChangedIs DEF Becomes, Proper
  <2>2. ASSUME turn.run = run PROVE Within(turn.items, max)
    <3>1. Within(Last(thread).items, max) BY <1>2, <2>1, <2>2
    <3>2. CASE turn.items = Last(thread).items BY <3>1, <3>2
    <3>3. CASE turn.items \in Repaired(Last(thread)) BY <1>1, <2>1, <3>1, <3>3, RepairedWithin
    <3>4. CASE \E item \in Items : Pushes(turn, item) BY <1>5, <3>4, PushesWithin
    <3> QED BY <1>5, <3>2, <3>3, <3>4 DEF Becoming
  <2> QED BY <1>2, <2>1, <2>2
<1>6. Author \in Authors /\ "critic" \in Authors BY DEF Author, Authors
<1> QED BY <1>3, <1>4, <1>5, <1>6 DEF Written

\* The turn under way was not answered by the limit.
LEMMA OwnUnreached ==
    ASSUME Inv, RunsInv, OwnInv, conf.durable, conf.onLimit = "End", Written, run' = run,
           pc \in {"llm", "stream", "tools"}, Own(Author)'
    PROVE  ~Reached(Last(thread').items, max)
<1>1. Sound(thread) /\ thread \in Seq(Stored) /\ run \in Nat /\ max \in Nat
  BY DurableAgentAssumption DEF Inv, ThreadInv, Sound, ConfInv, RunsInv
<1>2. Own(Author) => ~Reached(Last(thread).items, max) BY DEF OwnInv
<1>3. /\ thread' # <<>> /\ Last(thread').status = "streaming" /\ Last(thread').run = run
      /\ Last(thread').by = Author
  BY DEF Own
<1>4. CASE thread' = thread BY <1>2, <1>3, <1>4 DEF Own
<1>5. CASE Opened(Author)
  <2>1. Author \in Authors BY DEF Author, Authors
  <2>2. Last(thread') = NewTurn(Author) BY <1>1, <1>5, <2>1, OpenIs DEF Opened
  <2>3. Last(thread').items = <<>> BY <2>2 DEF NewTurn
  <2> QED BY <1>1, <2>3, NoRounds
<1>6. ASSUME NEW turn, Becomes(turn), Becoming(turn) PROVE ~Reached(Last(thread').items, max)
  <2>1. Last(thread') = turn BY <1>1, <1>6, ChangedIs DEF Becomes, Proper
  <2>2. Own(Author) BY <1>3, <1>6, <2>1 DEF Becomes, Own
  <2>3. CASE turn.items = Last(thread).items BY <1>2, <2>1, <2>2, <2>3
  <2>4. CASE turn.status = "failed" BY <1>3, <2>1, <2>4
  <2>5. CASE \E item \in Items : Pushes(turn, item) BY <1>2, <1>6, <2>1, <2>2, <2>5, PushesWithin
  <2> QED BY <1>6, <2>3, <2>4, <2>5 DEF Becoming
<1> QED BY <1>4, <1>5, <1>6 DEF Written

LEMMA OwnKeeps ==
    ASSUME Inv, RunsInv, OwnInv, Next
    PROVE  OwnInv'
<1> SUFFICES ASSUME conf.onLimit # "None", conf.durable
             PROVE  /\ \A r \in DOMAIN thread' : thread'[r].run = run' => Within(thread'[r].items, max')
                    /\ pc' = "tools" => Len(Among(Last(thread').items, Results)) < max'
                    /\ pc' = "limit" => ~Reached(Last(thread').items, max')
                    /\ conf.onLimit = "End" /\ pc' \in {"llm", "stream", "tools"} /\ Own(Author)' =>
                          ~Reached(Last(thread').items, max')
  BY FixedBy DEF OwnInv, Within, Reached
<1>1. Inv' /\ Written /\ Phased /\ conf' = conf BY StepKeeps, Writes, Phases, FixedBy
<1>2. CASE Restart
  <2>1. pc' = "enter" /\ thread' = thread /\ run' = run + 1 BY <1>2 DEF Restart
  <2>2. \A r \in DOMAIN thread : thread[r].run <= run BY DEF RunsInv
  <2>3. thread \in Seq(Stored) /\ run \in Nat BY DEF Inv, ThreadInv, Sound, ConfInv
  <2>4. \A r \in DOMAIN thread : thread[r].run \in Nat
    <3>1. \A r \in DOMAIN thread : thread[r] \in Stored BY <2>3
    <3> QED BY <3>1 DEF Stored
  <2>5. \A r \in DOMAIN thread' : thread'[r].run # run' BY <2>1, <2>2, <2>3, <2>4
  <2> QED BY <2>1, <2>5
<1>3. CASE ~Restart
  <2>1. run' = run /\ max' = max BY <1>3, FixedBy
  <2>2. \A r \in DOMAIN thread' : thread'[r].run = run' => Within(thread'[r].items, max')
    BY <1>1, <2>1, OwnWithin
  <2>3. ASSUME conf.onLimit = "End", pc' \in {"llm", "stream", "tools", "limit"}, Own(Author)'
        PROVE  ~Reached(Last(thread').items, max')
    <3>1. ~Closed' BY <2>3 DEF Own, Closed
    <3>2. pc \in {"llm", "stream", "tools"} BY <1>1, <2>3, <3>1 DEF Phased
    <3> QED BY <1>1, <2>1, <2>3, <3>2, OwnUnreached
  <2>4. ASSUME pc' \in {"tools", "limit"}
        PROVE  /\ pc' = "tools" => Len(Among(Last(thread').items, Results)) < max
               /\ pc' = "limit" => ~Reached(Last(thread').items, max)
    <3>1. AtTools' BY <1>1, <2>4 DEF Inv, ThreadInv
    <3>2. pc' = AfterModel(conv') BY <1>1, <2>4 DEF Phased
    <3>3. /\ thread' \in Seq(Stored) /\ thread' # <<>> /\ Last(thread').items # <<>>
          /\ conv' = View(thread)' /\ Last(thread').by = Author
      BY <1>1, <3>1 DEF Inv, ThreadInv, Sound, AtTools, Own
    <3> DEFINE th == thread'  c == conv'
    <3>4. c = View(th) BY <3>3 DEF View
    <3>5. th \in Seq(Stored) /\ th # <<>> /\ Last(th).items # <<>> /\ Last(th).by = Author BY <3>3
    <3>6. Last(th).items \in Seq(Items)
      <4>1. Sound(th) BY <1>1 DEF Inv, ThreadInv, Sound
      <4> QED BY <3>5, <4>1, LastIsProper DEF Stored
    <3>7. pc' = AfterModel(c) BY <3>2
    <3> HIDE DEF th, c
    <3>8. LastBy(c, Author) = Len(th) /\ c[Len(th)].items = Last(th).items BY <3>4, <3>5, ReadOf
    <3>9. Turn(c).items = Last(th).items BY <3>8 DEF Turn
    <3>10. /\ AfterModel(c) = "tools" => ~(Len(Among(Last(th).items, Results)) >= max)
           /\ AfterModel(c) = "limit" => conf.onLimit = "End" \/ ~Reached(Last(th).items, max)
      BY <3>9, ModelLimits
    <3>11. Len(Among(Last(th).items, Results)) \in Nat
      <4>1. "call" \in Items BY DEF Items, Replies
      <4>2. Among(Last(th).items, Results) \in Seq(Items) BY <3>6, <4>1, RoundsOf
      <4> QED BY <4>2
    <3>12. max \in Nat BY DurableAgentAssumption DEF RunsInv
    <3>13. conf.onLimit = "End" => ~Reached(Last(th).items, max)
      BY <2>1, <2>3, <2>4, <3>1 DEF AtTools, th
    <3> QED BY <3>7, <3>10, <3>11, <3>12, <3>13 DEF th
  <2> QED BY <2>1, <2>2, <2>3, <2>4
<1> QED BY <1>2, <1>3

\* In memory, it bounds the turns of the conversation, those of an opening within the
\* limit included.
ConvWithin ==
    /\ \A r \in DOMAIN conv : Within(conv[r].items, max)
    /\ conf.onLimit = "End" => \A r \in DOMAIN conv :
          Last(conv[r].items) \in Results \cup {"call"} => ~Reached(conv[r].items, max)
ConvStands ==
    /\ pc = "stream" /\ ~writing.new => AwaitsStep(conv[writing.rank])
    /\ pc \in {"tools", "limit", "closing", "closed"} =>
          LastBy(conv, Author) \in DOMAIN conv /\ AwaitsResults(Turn(conv))
    /\ pc = "tools" => Len(Among(Turn(conv).items, Results)) < max
    /\ pc \in {"limit", "closing", "closed"} => ~Reached(Turn(conv).items, max)
ConvInv ==
    conf.onLimit # "None" /\ ~conf.durable /\ OpeningsInLimit => ConvWithin /\ ConvStands

LEMMA PushedWithin ==
    ASSUME RankInv, ConvWithin, max' = max, conf' = conf, NEW r \in DOMAIN conv, NEW more \in Seq(Items),
           conv' = [conv EXCEPT ![r].items = more], Within(more, max),
           conf.onLimit = "End" /\ Last(more) \in Results \cup {"call"} => ~Reached(more, max)
    PROVE  ConvWithin' /\ LastBy(conv', Author) = LastBy(conv, Author) /\ DOMAIN conv' = DOMAIN conv
<1>1. ConvFits BY DEF RankInv, ConvFits
<1>2. /\ DOMAIN conv' = DOMAIN conv /\ conv'[r].items = more
      /\ \A q \in DOMAIN conv : q # r => conv'[q] = conv[q]
      /\ LastBy(conv', Author) = LastBy(conv, Author)
  BY <1>1, PushedIs
<1>3. \A q \in DOMAIN conv' : Within(conv'[q].items, max) BY <1>2 DEF ConvWithin
<1>4. conf.onLimit = "End" => \A q \in DOMAIN conv' :
        Last(conv'[q].items) \in Results \cup {"call"} => ~Reached(conv'[q].items, max)
  BY <1>2 DEF ConvWithin
<1>5. ConvWithin' BY <1>3, <1>4 DEF ConvWithin, Within, Reached
<1> QED BY <1>2, <1>5

LEMMA AddedWithin ==
    ASSUME RankInv, RunsInv, ConvWithin, max' = max, conf' = conf, NEW r \in Int,
           \A q \in DOMAIN conv : q <= r, NEW by \in Authors, NEW item \in Items \ Results,
           Added(r, by, item)
    PROVE  ConvWithin' /\ (by = Author => LastBy(conv', Author) = r) /\ r \in DOMAIN conv'
<1>1. ConvFits /\ max \in Nat BY DurableAgentAssumption DEF RankInv, ConvFits, RunsInv
<1>2. /\ DOMAIN conv' = DOMAIN conv \cup {r} /\ conv'[r] = [by |-> by, items |-> <<item>>]
      /\ \A q \in DOMAIN conv : q # r => conv'[q] = conv[q]
      /\ by = Author => LastBy(conv', Author) = r
  BY <1>1, AddedIs
<1>3. conv'[r].items = <<item>>
  <2> DEFINE t == conv'[r]
  <2>1. t = [by |-> by, items |-> <<item>>] BY <1>2
  <2> HIDE DEF t
  <2>2. t.items = <<item>> BY <2>1
  <2> QED BY <2>2 DEF t
<1>4. Within(<<item>>, max) /\ ~Reached(<<item>>, max)
  <2>1. Append(<<>>, item) = <<item>> /\ <<>> \in Seq(Items) OBVIOUS
  <2>2. item # "refused" /\ item # "ran" BY DEF Results
  <2> DEFINE none == <<>>
  <2>3. none \in Seq(Items) /\ Within(none, max) /\ ~Reached(none, max) BY <1>1, NoRounds
  <2> HIDE DEF none
  <2>4. Within(Append(none, item), max) /\ ~Reached(Append(none, item), max)
    BY <1>1, <2>2, <2>3, RoundsGrow
  <2> QED BY <2>1, <2>4 DEF none
<1>5. \A q \in DOMAIN conv' : Within(conv'[q].items, max) BY <1>2, <1>3, <1>4 DEF ConvWithin
<1>6. conf.onLimit = "End" => \A q \in DOMAIN conv' :
        Last(conv'[q].items) \in Results \cup {"call"} => ~Reached(conv'[q].items, max)
  BY <1>2, <1>3, <1>4 DEF ConvWithin
<1>7. ConvWithin' BY <1>5, <1>6 DEF ConvWithin, Within, Reached
<1> QED BY <1>2, <1>7

\* The reply of the model.
LEMMA RepliedWithin ==
    ASSUME Inv, RunsInv, ConvWithin, ConvStands, max' = max, conf' = conf, pc = "stream",
           NEW item \in Replies, Reply(item)
    PROVE  ConvWithin' /\ LastBy(conv', Author) \in DOMAIN conv'
<1> DEFINE r == writing.rank
<1>1. RankInv /\ max \in Nat /\ r \in Int BY DurableAgentAssumption DEF Inv, RunsInv, RankInv
<1>2. item \in Items \ Results BY DEF Items, Replies, Results
<1>3. CASE writing.new
  <2>1. r = NewRank /\ Added(r, Author, item) BY <1>1, <1>3 DEF RankInv, Reply
  <2>2. \A q \in DOMAIN conv : q <= r BY <1>1, <2>1, AboveAll
  <2>3. Author \in Authors BY DEF Author, Authors
  <2> HIDE DEF r
  <2>4. ConvWithin' /\ LastBy(conv', Author) = r /\ r \in DOMAIN conv'
    BY <1>1, <1>2, <2>1, <2>2, <2>3, AddedWithin
  <2> QED BY <2>4
<1>4. CASE ~writing.new
  <2>1. r \in DOMAIN conv /\ r = LastBy(conv, Author) /\ AwaitsStep(conv[r])
    BY <1>1, <1>4 DEF RankInv, ConvStands
  <2>2. Pushed(r, item) BY <1>4 DEF Reply
  <2> DEFINE items == conv[r].items  more == Append(items, item)
  <2>3. items \in Seq(Items) /\ more \in Seq(Items) BY <1>1, <1>2, <2>1 DEF RankInv, Turns
  <2>4. conv' = [conv EXCEPT ![r].items = more] BY <2>2 DEF Pushed
  <2>5. Within(items, max) /\ (conf.onLimit = "End" => ~Reached(items, max))
    BY <2>1 DEF ConvWithin, AwaitsStep
  <2>6. item # "ran" /\ item # "refused" BY DEF Replies
  <2> HIDE DEF items
  <2>7. Within(more, max) /\ (conf.onLimit = "End" => ~Reached(more, max))
    BY <1>1, <1>2, <2>3, <2>5, <2>6, RoundsGrow
  <2> HIDE DEF more, r
  <2>8. ConvWithin' /\ LastBy(conv', Author) = LastBy(conv, Author) /\ DOMAIN conv' = DOMAIN conv
    BY <1>1, <2>1, <2>3, <2>4, <2>7, PushedWithin
  <2> QED BY <2>1, <2>8
<1> QED BY <1>3, <1>4

\* The results of its calls.
LEMMA AnsweredWithin ==
    ASSUME Inv, RunsInv, ConvWithin, ConvStands, max' = max, conf' = conf,
           NEW item, Answers(item),
           \/ pc = "tools" /\ item = "ran"
           \/ pc = "limit" /\ item = "refused" /\ conf.onLimit # "End"
    PROVE  ConvWithin'
<1> DEFINE r == LastBy(conv, Author)  items == conv[r].items  more == Append(items, item)
<1>1. RankInv /\ max \in Nat BY DurableAgentAssumption DEF Inv, RunsInv
<1>2. r \in DOMAIN conv /\ AwaitsResults(conv[r]) BY DEF ConvStands, Turn
<1>3. item \in Items BY DEF Items, Results
<1>4. items \in Seq(Items) /\ more \in Seq(Items) BY <1>1, <1>2, <1>3 DEF RankInv, Turns
<1>5. conv' = [conv EXCEPT ![r].items = more] BY DEF Answers, Pushed
<1>6. Within(items, max) /\ (conf.onLimit = "End" => ~Reached(items, max))
  BY <1>2 DEF ConvWithin, AwaitsResults
<1>7. /\ item = "ran" => Len(Among(items, Results)) < max
      /\ item = "refused" => ~Reached(items, max)
  BY DEF ConvStands, Turn
<1> HIDE DEF items
<1>8. Within(more, max) /\ (conf.onLimit = "End" => ~Reached(more, max))
  BY <1>1, <1>3, <1>4, <1>6, <1>7, RoundsGrow
<1> HIDE DEF more, r
<1> QED BY <1>1, <1>2, <1>4, <1>5, <1>8, PushedWithin

\* The closing of a turn.
LEMMA CutWithin ==
    ASSUME Inv, RunsInv, ConvWithin, ConvStands, max' = max, conf' = conf, pc = "closed", Cuts
    PROVE  ConvWithin'
<1> DEFINE r == LastBy(conv, Author)  items == conv[r].items
           more == items \o <<"refused", "closing">>
<1>1. RankInv /\ max \in Nat BY DurableAgentAssumption DEF Inv, RunsInv
<1>2. r \in DOMAIN conv /\ ~Reached(conv[r].items, max) BY DEF ConvStands, Turn
<1>3. conv' = [conv EXCEPT ![r].items = more] BY DEF Cuts
<1>4. items \in Seq(Items) /\ Within(items, max) BY <1>1, <1>2 DEF RankInv, Turns, ConvWithin
<1>5. "refused" \in Items BY DEF Items, Results
<1> DEFINE one == Append(items, "refused")
<1> HIDE DEF items
<1>6. one \in Seq(Items) /\ Within(one, max) BY <1>1, <1>2, <1>4, <1>5, RoundsGrow, LastStep DEF items
<1>7. more = Append(one, "closing")
  <2>1. items \o <<"refused">> = one BY <1>4
  <2>2. Append(items \o <<"refused">>, "closing") = items \o Append(<<"refused">>, "closing")
    BY <1>4, ClosingEnd, ItemsAppend
  <2> QED BY <2>1, <2>2, ClosingEnd
<1> HIDE DEF one, more
<1>8. more \in Seq(Items) /\ Within(more, max) /\ Last(more) \notin Results \cup {"call"}
  BY <1>1, <1>6, <1>7, ClosingEnd, RoundsGrow, LastStep
<1> HIDE DEF r
<1> QED BY <1>1, <1>2, <1>3, <1>8, PushedWithin

\* The opening.
LEMMA EnteredWithin ==
    ASSUME Inv, RunsInv, OpeningsInLimit, EnterInMemory
    PROVE  ConvWithin'
<1>1. max \in Nat /\ max \in Maxes /\ max' = max BY DurableAgentAssumption DEF RunsInv, EnterInMemory, fixed
<1>2. PICK opening \in Openings :
        conv' = [r \in (1 - Len(opening))..0 |-> opening[r + Len(opening)]]
  BY DEF EnterInMemory
<1>3. opening \in Seq(Turns) /\ Len(opening) \in Nat
  <2>1. Turns = [by : {"generator", "critic"}, items : Seq(Items)] BY DEF Turns, Authors
  <2>2. Openings \subseteq Seq(Turns) BY Zenon, <2>1, DurableAgentAssumption
  <2> QED BY <2>2
<1>4. ASSUME NEW r \in DOMAIN conv'
      PROVE  Within(conv'[r].items, max) /\ ~Reached(conv'[r].items, max)
  <2> DEFINE k == r + Len(opening)  items == opening[k].items
  <2>1. k \in DOMAIN opening /\ conv'[r] = opening[k] BY <1>2, <1>3
  <2> HIDE DEF k
  <2>2. opening[k] \in Turns BY <1>3, <2>1
  <2>3. items \in Seq(Items) BY <2>2 DEF Turns
  <2>4. Len(Among(items, Results)) <= max BY <1>1, <2>1 DEF OpeningsInLimit
  <2> HIDE DEF items
  <2>5. Within(items, max) /\ ~Reached(items, max) BY <1>1, <2>3, <2>4, FewRounds
  <2> QED BY <2>1, <2>5 DEF items
<1> QED BY <1>1, <1>4 DEF ConvWithin, Within, Reached

\* The conversation of an agent in memory changes with its turns.
LEMMA ConvMoves ==
    ASSUME Inv, ~conf.durable, Next
    PROVE  \/ conv' = conv
           \/ Restart
           \/ EnterInMemory
           \/ pc = "stream" /\ \E item \in Replies : Reply(item)
           \/ pc = "tools" /\ Answers("ran")
           \/ pc = "limit" /\ conf.onLimit # "End" /\ Answers("refused")
           \/ pc = "closed" /\ Cuts
           \/ pc = "record" /\ Recorded
<1>1. pc \notin {"complete", "recorded"} BY DEF Inv, ThreadInv
<1>2. CASE Generate
  <2>1. CASE CallModel \/ OpenTurn
    <3>1. conv' = conv BY <2>1 DEF CallModel, OpenTurn, Stores, Streams, Failed, private
    <3> QED BY <3>1
  <2>2. CASE \E item \in Replies : Streamed(item)
    BY <2>2 DEF Streamed, Stores
  <2> QED BY <1>2, <2>1, <2>2 DEF Generate
<1>3. CASE Critique \/ Fail \/ Lose \/ HostEnds
  <2>1. conv' = conv
    BY <1>3 DEF Critique, Records, Goes, Fail, ModelFails, ToolFails, JudgeFails, Lose, HostEnds, Failed,
                private
  <2> QED BY <2>1
<1>4. CASE Step
  <2>1. CASE StoreInputs \/ Close \/ Check \/ GiveAnswer \/ Finish
    <3>1. conv' = conv
      BY <2>1 DEF StoreInputs, Close, Answering, Check, Goes, Records, GiveAnswer, Finish, Told, Stores,
                  Failed, private
    <3> QED BY <3>1
  <2>2. ~(EnterThread \/ FailOpenTurn \/ CompleteTurn \/ RecordStep \/ CompleteRecord)
    <3>1. ~RecordStep BY DEF RecordStep, Inv, ThreadInv
    <3> QED BY <1>1, <3>1 DEF EnterThread, FailOpenTurn, CompleteTurn, CompleteRecord
  <2>3. CASE RunTools BY <2>3 DEF RunTools, Answering, Stores
  <2>4. CASE RefuseCalls
    <3>1. CASE conf.onLimit = "End"
      <4>1. conv' = conv BY <2>4, <3>1 DEF RefuseCalls, Answering, Stores, Closes, private
      <4> QED BY <4>1
    <3>2. CASE conf.onLimit # "End" BY <2>4, <3>2 DEF RefuseCalls, Answering, Stores
    <3> QED BY <3>1, <3>2
  <2>5. CASE CompleteCut BY <2>5 DEF CompleteCut, Stores
  <2>6. CASE Record BY <2>6 DEF Record, Stores
  <2> QED BY <1>4, <2>1, <2>2, <2>3, <2>4, <2>5, <2>6 DEF Step
<1> QED BY <1>2, <1>3, <1>4 DEF Next

LEMMA ConvKeepsWithin ==
    ASSUME Inv, RunsInv, ConvWithin, ConvStands, OpeningsInLimit, ~conf.durable, Next
    PROVE  ConvWithin' /\ (pc' \in {"tools", "limit"} => LastBy(conv', Author) \in DOMAIN conv')
<1>1. Inv' /\ Phased /\ conf' = conf /\ (~Restart => max' = max) BY StepKeeps, Phases, FixedBy
<1>2. CASE Restart
  <2>1. conv' = <<>> /\ pc' = "enter" BY <1>2 DEF Restart, NewKeys
  <2>2. DOMAIN conv' = {} BY <2>1
  <2> QED BY <2>1, <2>2 DEF ConvWithin
<1>3. CASE ~Restart /\ conv' = conv
  <2>1. ConvWithin' BY <1>1, <1>3 DEF ConvWithin, Within, Reached
  <2>2. pc' \in {"tools", "limit"} => pc = "stream" BY <1>1 DEF Phased
  <2>3. pc = "stream" => pc' \notin {"tools", "limit"} \/ \E item \in Replies : Reply(item)
    <3>1. ASSUME pc = "stream" PROVE pc' \notin {"tools", "limit"} \/ \E item \in Replies : Reply(item)
      <4>1. CASE \E item \in Replies : Streamed(item) BY <1>1, <4>1 DEF Streamed, Stores
      <4>2. CASE ~\E item \in Replies : Streamed(item)
        <5>1. pc' \in {"failed", "lost"}
          BY <1>3, <3>1, <4>2 DEF Next, Generate, CallModel, OpenTurn, Critique, Step, Fail, Lose, HostEnds,
             EnterInMemory, StoreInputs, EnterThread, FailOpenTurn, CompleteTurn, RunTools, RefuseCalls,
             Close, CompleteCut, Check, Record, RecordStep, CompleteRecord, GiveAnswer, Finish,
             ModelFails, ToolFails, JudgeFails, Failed
        <5> QED BY <5>1
      <4> QED BY <4>1, <4>2
    <3> QED BY <3>1
  <2>4. ASSUME pc = "stream", NEW item \in Replies, Reply(item)
        PROVE  LastBy(conv', Author) \in DOMAIN conv'
    BY <1>1, <1>3, <2>4, RepliedWithin
  <2> QED BY <2>1, <2>2, <2>3, <2>4
<1>4. CASE ~Restart /\ EnterInMemory
  <2>1. pc = "enter" BY <1>4 DEF EnterInMemory
  <2> QED BY <1>1, <1>4, <2>1, EnteredWithin DEF Phased
<1>5. ASSUME ~Restart, pc = "stream", NEW item \in Replies, Reply(item)
      PROVE  ConvWithin' /\ LastBy(conv', Author) \in DOMAIN conv'
  BY <1>1, <1>5, RepliedWithin
<1>6. CASE ~Restart /\ pc = "tools" /\ Answers("ran")
  BY <1>1, <1>6, AnsweredWithin DEF Phased
<1>7. CASE ~Restart /\ pc = "limit" /\ conf.onLimit # "End" /\ Answers("refused")
  BY <1>1, <1>7, AnsweredWithin DEF Phased
<1>8. CASE ~Restart /\ pc = "closed" /\ Cuts
  BY <1>1, <1>8, CutWithin DEF Phased
<1>9. CASE ~Restart /\ pc = "record" /\ Recorded
  <2> DEFINE r == writing.rank  item == writing.item
  <2>1. RankInv /\ r = NewRank /\ item \in Judgments BY <1>9 DEF Inv, RankInv
  <2>2. r \in Int /\ \A q \in DOMAIN conv : q <= r BY <2>1, AboveAll
  <2>3. item \in Items \ Results /\ "critic" \in Authors BY <2>1 DEF Items, Judgments, Results, Authors
  <2>4. Added(r, "critic", item) BY <1>9 DEF Recorded
  <2> HIDE DEF r, item
  <2>5. ConvWithin' BY <1>1, <1>9, <2>1, <2>2, <2>3, <2>4, AddedWithin
  <2> QED BY <1>1, <1>9, <2>5 DEF Phased
<1> QED BY <1>2, <1>3, <1>4, <1>5, <1>6, <1>7, <1>8, <1>9, ConvMoves

LEMMA ConvKeeps ==
    ASSUME Inv, RunsInv, ConvInv, Next
    PROVE  ConvInv'
<1> SUFFICES ASSUME conf.onLimit # "None", ~conf.durable, OpeningsInLimit PROVE ConvWithin' /\ ConvStands'
  BY FixedBy DEF ConvInv
<1>1. Inv' /\ RunsInv' /\ Phased /\ conf' = conf /\ (~Restart => max' = max)
  BY StepKeeps, RunsKeeps, Phases, FixedBy
<1>2. ConvWithin /\ ConvStands BY DEF ConvInv
<1>3. ConvWithin' /\ (pc' \in {"tools", "limit"} => LastBy(conv', Author) \in DOMAIN conv')
  BY <1>2, ConvKeepsWithin
<1>4. ASSUME pc' = "stream", ~writing'.new PROVE AwaitsStep(conv'[writing'.rank])
  <2>1. pc = "llm" BY <1>1, <1>4 DEF Phased
  <2>2. CallModel \/ OpenTurn
    BY <1>4, <2>1 DEF Next, Generate, Streamed, Restart, Critique, Records, Goes, Step, Fail, Lose, HostEnds,
       EnterInMemory, StoreInputs, EnterThread, FailOpenTurn, CompleteTurn, RunTools, RefuseCalls,
       Close, CompleteCut, Check, Record, RecordStep, CompleteRecord, GiveAnswer, Finish,
       ModelFails, ToolFails, JudgeFails, Failed
  <2>3. ~OpenTurn
    <3>1. OpenTurn => writing'.new BY DEF OpenTurn, Stores, Streams
    <3> QED BY <1>4, <3>1
  <2>4. Continued # {} /\ conv' = conv /\ writing'.rank = Max(Continued)
    BY <2>2, <2>3 DEF CallModel, private
  <2>5. AwaitsStep(conv[Max(Continued)]) BY <2>4, ContinuedIs DEF Inv
  <2> QED BY <2>4, <2>5
<1>5. ASSUME pc' \in {"tools", "limit"}
      PROVE  /\ LastBy(conv', Author) \in DOMAIN conv' /\ AwaitsResults(Turn(conv'))
             /\ pc' = "tools" => Len(Among(Turn(conv').items, Results)) < max'
             /\ pc' = "limit" => ~Reached(Turn(conv').items, max')
  <2>1. pc = "stream" /\ pc' = AfterModel(conv') /\ LastBy(conv', Author) \in DOMAIN conv'
    BY <1>1, <1>3, <1>5 DEF Phased
  <2>2. max' = max
    <3>1. Restart => pc \in Over BY DEF Restart
    <3> QED BY <1>1, <2>1, <3>1 DEF Over
  <2> DEFINE c == conv'  items == Turn(c).items
  <2>3. items \in Seq(Items)
    <3>1. \A r \in DOMAIN c : c[r] \in Turns BY <1>1 DEF Inv, RankInv
    <3>2. Turn(c) \in Turns BY <2>1, <3>1 DEF Turn
    <3> QED BY <3>2 DEF Turns
  <2>4. conf.onLimit = "End" => (Last(items) = "call" => ~Reached(items, max))
    <3>1. conf.onLimit = "End" => \A r \in DOMAIN c :
            Last(c[r].items) \in Results \cup {"call"} => ~Reached(c[r].items, max')
      BY <1>1, <1>3 DEF ConvWithin
    <3>2. LastBy(c, Author) \in DOMAIN c BY <2>1
    <3> QED BY <2>2, <3>1, <3>2 DEF Turn
  <2>5. pc' = AfterModel(c) /\ LastBy(c, Author) \in DOMAIN c BY <2>1
  <2> HIDE DEF c
  <2>6. /\ AfterModel(c) = "tools" => ~(Len(Among(items, Results)) >= max)
        /\ AfterModel(c) = "limit" => conf.onLimit = "End" \/ ~Reached(items, max)
        /\ AwaitsResults(Turn(c))
    BY <1>5, <2>5, ModelLimits
  <2>7. AwaitsResults(Turn(c)) => Last(items) = "call" BY DEF AwaitsResults
  <2>8. Len(Among(items, Results)) \in Nat
    <3>1. "call" \in Items BY DEF Items, Replies
    <3> HIDE DEF items
    <3>2. Among(items, Results) \in Seq(Items) BY <2>3, <3>1, RoundsOf
    <3> QED BY <3>2
  <2>9. max \in Nat BY DurableAgentAssumption DEF RunsInv
  <2> HIDE DEF items
  <2>10. /\ pc' = "tools" => Len(Among(items, Results)) < max
         /\ pc' = "limit" => ~Reached(items, max)
    BY <2>4, <2>5, <2>6, <2>7, <2>8, <2>9
  <2> QED BY <2>2, <2>5, <2>6, <2>10 DEF items, c
<1>6. ASSUME pc' \in {"closing", "closed"}
      PROVE  /\ LastBy(conv', Author) \in DOMAIN conv' /\ AwaitsResults(Turn(conv'))
             /\ ~Reached(Turn(conv').items, max')
  <2>1. pc \in {"limit", "closing"} /\ conv' = conv /\ ~Restart
    <3>1. CASE RefuseCalls
      BY <1>6, <3>1 DEF RefuseCalls, Answering, Stores, Closes, Answers, AfterLimit, AfterLoop, private, Restart, Over
    <3>2. CASE Close BY <1>6, <3>2 DEF Close, Answering, Stores, private, Restart, Over
    <3>3. CASE ~RefuseCalls /\ ~Close
      <4>1. CASE \E item \in Replies : Streamed(item)
        <5>1. AfterModel(conv') \in {"answer", "check", "tools", "limit", "failed"} BY ModelRoutes
        <5> QED BY <1>6, <4>1, <5>1 DEF Streamed, Stores, Reply, Completes, Failed
      <4>2. CASE CompleteTurn BY <1>1, <4>2 DEF CompleteTurn, Inv, ThreadInv
      <4>3. CASE EnterInMemory \/ Record
        <5>1. pc' \in {"llm", "check", "critique", "finish"}
          BY <1>1, <4>3, RoutesNext DEF Inv, EnterInMemory, Route, Record, Recorded, Stores
        <5> QED BY <1>6, <5>1
      <4>4. CASE Check
        <5> DEFINE b == position.rank
        <5>1. b \in Int /\ \A r \in DOMAIN conv : r \in Int /\ r <= b BY DEF Inv, RankInv
        <5> HIDE DEF b
        <5>2. AfterCheck(conv, listed) \in {"llm", "critique", "finish"} BY <5>1, RoutesAre
        <5> QED BY <1>6, <4>4, <5>2 DEF Check, Goes, Records
      <4>5. ~(EnterThread \/ FailOpenTurn \/ RecordStep \/ CompleteRecord)
        BY DEF EnterThread, FailOpenTurn, RecordStep, CompleteRecord, Inv, ThreadInv
      <4>6. CASE CompleteCut
        BY <1>6, <4>6 DEF CompleteCut, Stores, Cuts, Failed, AfterLimit, AfterLoop
      <4>7. CASE RunTools BY <1>6, <4>7 DEF RunTools, Answering, Answers, AfterTools, Stores, Failed
      <4>8. CASE HostEnds BY <1>6, <4>8 DEF HostEnds
      <4>9. CASE CallModel \/ OpenTurn BY <1>6, <4>9 DEF CallModel, OpenTurn, Stores, Streams, Failed
      <4>10. CASE Restart \/ Critique \/ Fail \/ Lose \/ StoreInputs \/ GiveAnswer \/ Finish
        BY <1>6, <4>10 DEF Restart, Critique, Records, Goes, Fail, ModelFails, ToolFails, JudgeFails, Lose,
           StoreInputs, GiveAnswer, Finish, Told, Failed
      <4> QED BY <3>3, <4>1, <4>2, <4>3, <4>4, <4>5, <4>6, <4>7, <4>8, <4>9, <4>10 DEF Next, Generate, Step
    <3> QED BY <3>1, <3>2, <3>3
  <2>2. max' = max BY <1>1, <2>1
  <2> QED BY <1>2, <2>1, <2>2 DEF ConvStands, Reached, Turn
<1> QED BY <1>3, <1>4, <1>5, <1>6 DEF ConvStands, Reached, Turn

-----------------------------------------------------------------------------
(***************************************************************************)
(* The turns of a call as an uninterrupted one would leave them: what a turn is  *)
(* counts, and what comes before it.                                          *)
(***************************************************************************)
Before(l, r) == {q \in l : q < r}
Upto(l, r) == {q \in l : q <= r}
Below(v, n) == IsFiniteSet(DOMAIN v) /\ \A r \in DOMAIN v : r \in Int /\ r < n

Judged(v) ==
    /\ \A r \in CallTurns(v, DOMAIN v) :
         IF Kind(v[r]) = "generation"
         THEN LastKind(v, Before(DOMAIN v, r)) \in {"none", "critique", "revision"}
         ELSE LastKind(v, Before(DOMAIN v, r)) = "generation"
    /\ Critiques(v, DOMAIN v) <= conf.budget
    /\ conf.final \/ \A r \in OfKind(v, DOMAIN v, "generation") :
         LastKind(v, Before(DOMAIN v, r)) = "critique" =>
             Critiques(v, Upto(DOMAIN v, r)) < conf.budget
    /\ \A r \in DOMAIN v : RevisionsInARow(v, Upto(DOMAIN v, r)) <= conf.revisions

\* A generation, a judgment may follow.
MayGenerate(v) ==
    /\ LastKind(v, DOMAIN v) \in {"none", "critique", "revision"}
    /\ LastKind(v, DOMAIN v) = "critique" => conf.final \/ Critiques(v, DOMAIN v) < conf.budget
MayRecord(v, kind) ==
    /\ LastKind(v, DOMAIN v) = "generation"
    /\ kind = "critique" => Critiques(v, DOMAIN v) < conf.budget
    /\ kind = "revision" => RevisionsInARow(v, DOMAIN v) < conf.revisions

\* What is read of some turns is read of those of a kind.
LEMMA ReadAlike ==
    ASSUME NEW v, NEW w, NEW n \in Int, Below(v, n), NEW S,
           S \cap DOMAIN w = S \cap DOMAIN v, \A r \in S \cap DOMAIN v : Kind(w[r]) = Kind(v[r])
    PROVE  /\ CallTurns(w, S) = CallTurns(v, S)
           /\ \A k : OfKind(w, S, k) = OfKind(v, S, k)
           /\ LastKind(w, S) = LastKind(v, S) /\ Critiques(w, S) = Critiques(v, S)
           /\ RevisionsInARow(w, S) = RevisionsInARow(v, S)
<1>1. CallTurns(w, S) = CallTurns(v, S) BY DEF CallTurns
<1>2. \A r \in CallTurns(v, S) : r \in S \cap DOMAIN v BY DEF CallTurns
<1>3. \A k : OfKind(w, S, k) = OfKind(v, S, k) BY <1>1, <1>2 DEF OfKind
<1>4. LastKind(w, S) = LastKind(v, S)
  <2> DEFINE T == CallTurns(v, S)
  <2>1. CASE T = {} BY <1>1, <2>1 DEF LastKind
  <2>2. CASE T # {}
    <3>1. T \in SUBSET Int /\ \A x \in T : x <= n BY <1>2 DEF Below
    <3>2. LastKind(w, S) = Kind(w[Max(T)]) /\ LastKind(v, S) = Kind(v[Max(T)])
      BY <1>1, <2>2 DEF LastKind
    <3>3. \A x \in T : x \in S \cap DOMAIN v BY <1>2
    <3> HIDE DEF T
    <3>4. Max(T) \in T BY <2>2, <3>1, MaxIs
    <3> QED BY <3>2, <3>3, <3>4
  <2> QED BY <2>1, <2>2
<1> QED BY <1>1, <1>3, <1>4 DEF Critiques, RevisionsInARow

\* The counts are counts.
LEMMA CountsAre ==
    ASSUME NEW v, NEW n \in Int, Below(v, n), NEW S
    PROVE  /\ Critiques(v, S) \in Nat /\ RevisionsInARow(v, S) \in Nat
           /\ \A k : IsFiniteSet(OfKind(v, S, k)) /\ OfKind(v, S, k) \subseteq S \cap DOMAIN v
<1>1. \A k : OfKind(v, S, k) \subseteq S \cap DOMAIN v BY DEF OfKind, CallTurns
<1>2. ASSUME NEW T \in SUBSET DOMAIN v PROVE IsFiniteSet(T) /\ Cardinality(T) \in Nat
  <2>1. IsFiniteSet(T) BY FS_Subset DEF Below
  <2> QED BY <2>1, FS_CardinalityType
<1>3. \A k : OfKind(v, S, k) \in SUBSET DOMAIN v BY <1>1
<1>4. Critiques(v, S) \in Nat BY <1>2, <1>3 DEF Critiques
<1>5. RevisionsInARow(v, S) \in Nat
  <2> DEFINE T == {r \in OfKind(v, S, "revision") : \A c \in OfKind(v, S, "critique") : c < r}
  <2>1. T \in SUBSET DOMAIN v BY <1>3
  <2> HIDE DEF T
  <2>2. Cardinality(T) \in Nat BY <1>2, <2>1
  <2> QED BY <2>2 DEF RevisionsInARow, T
<1> QED BY <1>1, <1>2, <1>3, <1>4, <1>5

\* The revisions in a row at the end of the call.
LEMMA RowOfAll ==
    ASSUME NEW v, NEW n \in Int, Below(v, n), Judged(v), conf.revisions \in Nat
    PROVE  RevisionsInARow(v, DOMAIN v) <= conf.revisions
<1>1. CASE DOMAIN v = {}
  <2> DEFINE T == {r \in OfKind(v, DOMAIN v, "revision") : \A c \in OfKind(v, DOMAIN v, "critique") : c < r}
  <2>1. T = {} BY <1>1 DEF OfKind, CallTurns
  <2>2. RevisionsInARow(v, DOMAIN v) = Cardinality(T) BY DEF RevisionsInARow
  <2>3. RevisionsInARow(v, DOMAIN v) = 0 BY <2>1, <2>2, FS_EmptySet
  <2> QED BY <2>3
<1>2. CASE DOMAIN v # {}
  <2> DEFINE l == DOMAIN v
  <2>1. l \in SUBSET Int /\ l # {} /\ \A x \in l : x <= n BY <1>2 DEF Below
  <2> HIDE DEF l
  <2>2. Max(l) \in l /\ \A x \in l : x <= Max(l) BY <2>1, MaxIs
  <2>3. Upto(l, Max(l)) = l BY <2>2 DEF Upto
  <2>4. RevisionsInARow(v, Upto(l, Max(l))) <= conf.revisions BY <2>2 DEF Judged, l
  <2> QED BY <2>3, <2>4 DEF l
<1> QED BY <1>1, <1>2

\* Turns of the same kinds are read the same.
LEMMA JudgedAlike ==
    ASSUME NEW v, NEW w, NEW n \in Int, Below(v, n), DOMAIN w = DOMAIN v,
           \A r \in DOMAIN v : Kind(w[r]) = Kind(v[r])
    PROVE  /\ Judged(v) => Judged(w)
           /\ MayGenerate(v) => MayGenerate(w)
           /\ \A k : MayRecord(v, k) => MayRecord(w, k)
<1>1. ASSUME NEW S
      PROVE  /\ CallTurns(w, S) = CallTurns(v, S)
             /\ \A k : OfKind(w, S, k) = OfKind(v, S, k)
             /\ LastKind(w, S) = LastKind(v, S) /\ Critiques(w, S) = Critiques(v, S)
             /\ RevisionsInARow(w, S) = RevisionsInARow(v, S)
  <2>1. S \cap DOMAIN w = S \cap DOMAIN v /\ \A r \in S \cap DOMAIN v : Kind(w[r]) = Kind(v[r]) OBVIOUS
  <2> QED BY <2>1, ReadAlike
<1>2. MayGenerate(v) => MayGenerate(w) BY <1>1 DEF MayGenerate
<1>3. \A k : MayRecord(v, k) => MayRecord(w, k) BY <1>1 DEF MayRecord
<1>4. Judged(v) => Judged(w)
  <2>1. \A r \in CallTurns(v, DOMAIN v) : r \in DOMAIN v BY DEF CallTurns
  <2> QED BY <1>1, <2>1 DEF Judged
<1> QED BY <1>2, <1>3, <1>4

\* One more turn, that may be.
LEMMA JudgedGrows ==
    ASSUME NEW v, NEW w, NEW n \in Int, Below(v, n), DOMAIN w = DOMAIN v \cup {n},
           \A r \in DOMAIN v : Kind(w[r]) = Kind(v[r]), Judged(v),
           conf.budget \in Nat, conf.revisions \in Nat,
           NEW k, Kind(w[n]) = k, k \in {"none", "generation"} \cup Judgments,
           k = "generation" => MayGenerate(v), k \in Judgments => MayRecord(v, k)
    PROVE  Judged(w)
<1> DEFINE l == DOMAIN v  more == DOMAIN w
<1>1. /\ n \notin l /\ more = l \cup {n} /\ IsFiniteSet(l) /\ \A r \in l : r \in Int /\ r < n
  BY DEF Below
<1> HIDE DEF l, more
<1>2. ASSUME NEW S, n \notin S
      PROVE  /\ CallTurns(w, S) = CallTurns(v, S)
             /\ \A j : OfKind(w, S, j) = OfKind(v, S, j)
             /\ LastKind(w, S) = LastKind(v, S) /\ Critiques(w, S) = Critiques(v, S)
             /\ RevisionsInARow(w, S) = RevisionsInARow(v, S)
  <2>1. S \cap DOMAIN w = S \cap DOMAIN v /\ \A r \in S \cap DOMAIN v : Kind(w[r]) = Kind(v[r])
    BY <1>2
  <2> QED BY <2>1, ReadAlike
<1>3. /\ Before(more, n) = l /\ Upto(more, n) = more
      /\ \A r \in l : Before(more, r) = Before(l, r) /\ Upto(more, r) = Upto(l, r)
  <2>1. Before(more, n) = l BY <1>1 DEF Before
  <2>2. Upto(more, n) = more BY <1>1 DEF Upto
  <2>3. ASSUME NEW r \in l PROVE Before(more, r) = Before(l, r) /\ Upto(more, r) = Upto(l, r)
    <3>1. ~(n < r) /\ ~(n <= r) BY <1>1
    <3> QED BY <1>1, <3>1 DEF Before, Upto
  <2> QED BY <2>1, <2>2, <2>3
<1>4. \A r \in l : n \notin Before(l, r) /\ n \notin Upto(l, r) BY <1>1 DEF Before, Upto
<1>5. CallTurns(w, more) = CallTurns(v, l) \cup IF k = "none" THEN {} ELSE {n}
  BY <1>1 DEF CallTurns, more, l
<1>6. \A j : j # "none" => OfKind(w, more, j) = OfKind(v, l, j) \cup IF j = k THEN {n} ELSE {}
  <2> TAKE j
  <2>1. \A r \in CallTurns(v, l) : Kind(w[r]) = Kind(v[r]) BY DEF CallTurns
  <2>2. \A r \in CallTurns(v, l) : r # n BY <1>1 DEF CallTurns, l
  <2> QED BY <1>5, <2>1, <2>2 DEF OfKind
<1>7. \A r \in CallTurns(v, l) : r \in l /\ Kind(w[r]) = Kind(v[r]) BY DEF CallTurns, l
<1>8. ASSUME NEW r \in CallTurns(w, more)
      PROVE  IF Kind(w[r]) = "generation"
             THEN LastKind(w, Before(more, r)) \in {"none", "critique", "revision"}
             ELSE LastKind(w, Before(more, r)) = "generation"
  <2>1. CASE r \in CallTurns(v, l)
    <3>1. LastKind(w, Before(more, r)) = LastKind(v, Before(l, r)) BY <1>2, <1>3, <1>4, <1>7, <2>1
    <3> QED BY <1>7, <2>1, <3>1 DEF Judged, l
  <2>2. CASE r = n /\ k # "none"
    <3>1. LastKind(w, Before(more, n)) = LastKind(v, l) BY <1>1, <1>2, <1>3
    <3> QED BY <2>2, <3>1 DEF MayGenerate, MayRecord, l, Judgments
  <2> QED BY <1>5, <2>1, <2>2
<1>9. /\ Critiques(w, more) = IF k = "critique" THEN Critiques(v, l) + 1 ELSE Critiques(v, l)
      /\ Critiques(v, l) \in Nat
  <2> DEFINE T == OfKind(v, l, "critique")
  <2>1. IsFiniteSet(T) /\ n \notin T /\ Critiques(v, l) \in Nat BY <1>1, CountsAre
  <2>2. OfKind(w, more, "critique") = T \cup IF k = "critique" THEN {n} ELSE {} BY <1>6
  <2>3. Critiques(w, more) = Cardinality(OfKind(w, more, "critique")) /\ Critiques(v, l) = Cardinality(T)
    BY DEF Critiques
  <2> HIDE DEF T
  <2>4. Cardinality(T \cup {n}) = Cardinality(T) + 1 BY <2>1, FS_AddElement
  <2>5. CASE k = "critique" BY <2>1, <2>2, <2>3, <2>4, <2>5
  <2>6. CASE k # "critique"
    <3>1. OfKind(w, more, "critique") = T BY <2>2, <2>6
    <3> QED BY <2>1, <2>3, <2>6, <3>1
  <2> QED BY <2>5, <2>6
<1>10. Critiques(w, more) <= conf.budget
  <2>1. Critiques(v, l) <= conf.budget BY DEF Judged, l
  <2>2. k = "critique" => Critiques(v, l) < conf.budget BY DEF MayRecord, Judgments, l
  <2> QED BY <1>9, <2>1, <2>2
<1>11. conf.final \/ \A r \in OfKind(w, more, "generation") :
         LastKind(w, Before(more, r)) = "critique" => Critiques(w, Upto(more, r)) < conf.budget
  <2> SUFFICES ASSUME ~conf.final, NEW r \in OfKind(w, more, "generation"),
                      LastKind(w, Before(more, r)) = "critique"
               PROVE  Critiques(w, Upto(more, r)) < conf.budget
    OBVIOUS
  <2>1. CASE r \in OfKind(v, l, "generation")
    <3>1. r \in l BY <2>1 DEF OfKind, CallTurns, l
    <3>2. /\ LastKind(w, Before(more, r)) = LastKind(v, Before(l, r))
          /\ Critiques(w, Upto(more, r)) = Critiques(v, Upto(l, r))
      BY <1>2, <1>3, <1>4, <3>1
    <3> QED BY <2>1, <3>2 DEF Judged, l
  <2>2. CASE r = n /\ k = "generation"
    <3>1. LastKind(v, l) = "critique" BY <1>1, <1>2, <1>3, <2>2
    <3>2. Critiques(v, l) < conf.budget BY <2>2, <3>1 DEF MayGenerate, l
    <3> QED BY <1>3, <1>9, <2>2, <3>2
  <2>3. r \in OfKind(v, l, "generation") \/ (r = n /\ k = "generation") BY <1>6
  <2> QED BY <2>1, <2>2, <2>3
<1>12. RevisionsInARow(w, more) <= conf.revisions
  <2> DEFINE R == OfKind(v, l, "revision")  C == OfKind(v, l, "critique")
             R1 == OfKind(w, more, "revision")  C1 == OfKind(w, more, "critique")
             row == {r \in R : \A c \in C : c < r}
             row1 == {r \in R1 : \A c \in C1 : c < r}
  <2>1. RevisionsInARow(w, more) = Cardinality(row1) /\ RevisionsInARow(v, l) = Cardinality(row)
    BY DEF RevisionsInARow
  <2>2. RevisionsInARow(v, l) <= conf.revisions /\ RevisionsInARow(v, l) \in Nat
    BY RowOfAll, CountsAre DEF l
  <2>3. /\ R1 = R \cup IF k = "revision" THEN {n} ELSE {}
        /\ C1 = C \cup IF k = "critique" THEN {n} ELSE {}
    BY <1>6
  <2>4. IsFiniteSet(R) /\ IsFiniteSet(C) /\ R \subseteq l /\ C \subseteq l BY CountsAre DEF l
  <2> HIDE DEF R, C, R1, C1
  <2>5. CASE k = "critique"
    <3>1. row1 = {} BY <1>1, <2>3, <2>4, <2>5
    <3>2. Cardinality(row1) = 0 BY <3>1, FS_EmptySet
    <3> QED BY <2>1, <3>2
  <2>6. CASE k = "revision"
    <3>1. row1 = row \cup {n} /\ n \notin row BY <1>1, <2>3, <2>4, <2>6
    <3>2. IsFiniteSet(row) BY <2>4, FS_Subset
    <3> HIDE DEF row, row1
    <3>3. Cardinality(row \cup {n}) = Cardinality(row) + 1 BY <3>1, <3>2, FS_AddElement
    <3>4. RevisionsInARow(v, l) < conf.revisions BY <2>6 DEF MayRecord, Judgments, l
    <3> QED BY <2>1, <2>2, <3>1, <3>3, <3>4
  <2>7. CASE k \notin {"critique", "revision"}
    <3>1. R1 = R /\ C1 = C BY <2>3, <2>7
    <3> QED BY <2>1, <2>2, <3>1
  <2> QED BY <2>5, <2>6, <2>7
<1>13. ASSUME NEW r \in more PROVE RevisionsInARow(w, Upto(more, r)) <= conf.revisions
  <2>1. CASE r = n BY <1>3, <1>12, <2>1
  <2>2. CASE r \in l
    <3>1. RevisionsInARow(w, Upto(more, r)) = RevisionsInARow(v, Upto(l, r)) BY <1>2, <1>3, <1>4, <2>2
    <3> QED BY <2>2, <3>1 DEF Judged, l
  <2> QED BY <1>1, <2>1, <2>2
<1> QED BY <1>8, <1>10, <1>11, <1>13 DEF Judged, more

\* Where the routing goes, that turn may be.
LEMMA RoutesAreDue ==
    ASSUME NEW v, NEW n \in Int, Below(v, n), Judged(v),
           conf.budget \in Nat, conf.revisions \in Nat,
           NEW to \in {EntryRoute(v, DOMAIN v), AfterCheck(v, DOMAIN v), AfterCritique(v, DOMAIN v)}
    PROVE  /\ to = "llm" => MayGenerate(v)
           /\ to = "check" => LastKind(v, DOMAIN v) = "generation"
           /\ to = "critique" => MayRecord(v, "critique")
<1> DEFINE l == DOMAIN v  k == LastKind(v, l)
<1>1. k \in {"none", "generation", "critique", "revision", "acceptance"}
  <2>1. \A r \in DOMAIN v : r \in Int /\ r <= n BY DEF Below
  <2> QED BY <2>1, KindRange DEF Judgments
<1>2. RevisionsInARow(v, l) <= conf.revisions /\ RevisionsInARow(v, l) \in Nat BY RowOfAll, CountsAre
<1>3. /\ EntryRoute(v, l) = CASE k = "none" -> "llm"
                             [] k = "generation" -> "check"
                             [] k = "critique" -> AfterRejection(v, l)
                             [] k = "revision" -> RevisionFound(v, l)
                             [] k = "acceptance" -> "finish"
      /\ AfterCheck(v, l) = CASE k = "revision" -> "llm"
                             [] k = "critique" -> AfterRejection(v, l)
                             [] k = "generation" -> AfterPass(v, l)
                             [] OTHER -> "finish"
      /\ AfterCritique(v, l) = IF k = "critique" THEN AfterRejection(v, l) ELSE "finish"
  BY Zenon DEF EntryRoute, AfterCheck, AfterCritique
<1>4. /\ AfterRejection(v, l) \in {"llm", "finish"}
      /\ AfterRejection(v, l) = "llm" => conf.final \/ Critiques(v, l) < conf.budget
  BY DEF AfterRejection
<1>5. /\ AfterPass(v, l) \in {"critique", "finish"}
      /\ AfterPass(v, l) = "critique" => Critiques(v, l) < conf.budget
  BY DEF AfterPass
<1>6. RevisionFound(v, l) = "llm"
  <2>1. RevisionsInARow(v, l) - 1 < conf.revisions BY <1>2
  <2> QED BY <2>1 DEF RevisionFound
<1>7. MayGenerate(v) <=> /\ k \in {"none", "critique", "revision"}
                         /\ k = "critique" => conf.final \/ Critiques(v, l) < conf.budget
  BY DEF MayGenerate
<1>8. k = "generation" /\ Critiques(v, l) < conf.budget => MayRecord(v, "critique") BY DEF MayRecord
<1>9. to \in {EntryRoute(v, l), AfterCheck(v, l), AfterCritique(v, l)} OBVIOUS
<1> HIDE DEF l
<1>10. CASE to = EntryRoute(v, l)
  <2> HIDE DEF k
  <2> QED BY <1>1, <1>3, <1>4, <1>6, <1>7, <1>10 DEF k, l
<1>11. CASE to = AfterCheck(v, l)
  <2> HIDE DEF k
  <2>1. to = "llm" => k = "revision" \/ (k = "critique" /\ AfterRejection(v, l) = "llm")
    BY <1>1, <1>3, <1>5, <1>11
  <2>2. to = "critique" => k = "generation" /\ AfterPass(v, l) = "critique"
    BY <1>1, <1>3, <1>4, <1>11
  <2>3. to # "check" BY <1>1, <1>3, <1>4, <1>5, <1>11
  <2> QED BY <1>4, <1>5, <1>7, <1>8, <2>1, <2>2, <2>3
<1>12. CASE to = AfterCritique(v, l)
  <2> HIDE DEF k
  <2>1. to \in {"llm", "finish"} BY <1>3, <1>4, <1>12
  <2>2. to = "llm" => k = "critique" /\ AfterRejection(v, l) = "llm" BY <1>3, <1>12
  <2> QED BY <1>4, <1>7, <2>1, <2>2
<1> QED BY <1>9, <1>10, <1>11, <1>12

LEMMA ViewBelow ==
    ASSUME NEW th \in Seq(Stored)
    PROVE  /\ Below(View(th), Len(th) + 1)
           /\ th # <<>> /\ Last(th).items = <<>> =>
                 Below(View(th), Len(th)) /\ Len(th) \notin DOMAIN View(th)
<1> DEFINE l == DOMAIN View(th)  n == Len(th)
<1>1. n \in Nat /\ l \subseteq 1..n /\ l = {r \in DOMAIN th : th[r].items # <<>>}
  <2>1. /\ DOMAIN View(th) = {r \in DOMAIN th : th[r].items # <<>>}
        /\ \A r \in DOMAIN View(th) : r \in 1..Len(th)
    BY ViewIs
  <2>2. Len(th) \in Nat OBVIOUS
  <2> QED BY <2>1, <2>2
<1> HIDE DEF l
<1>2. IsFiniteSet(l)
  <2>1. IsFiniteSet(1..n) BY <1>1, FS_Interval
  <2> QED BY <1>1, <2>1, FS_Subset
<1>3. \A r \in l : r \in Int /\ r < n + 1 BY <1>1
<1>4. ASSUME th # <<>>, Last(th).items = <<>> PROVE n \notin l /\ \A r \in l : r \in Int /\ r < n
  <2>1. Last(th) = th[n] BY DEF Last
  <2>2. n \notin l BY <1>1, <1>4, <2>1
  <2> QED BY <1>1, <2>2
<1> QED BY <1>2, <1>3, <1>4 DEF Below, l

\* A turn of the generator is a generation from its first item on.
LEMMA LastIsGeneration ==
    ASSUME NEW th \in Seq(Stored), th # <<>>, Last(th).by = Author, Last(th).items # <<>>
    PROVE  LastKind(View(th), DOMAIN View(th)) = "generation"
<1> DEFINE v == View(th)  n == Len(th)  T == CallTurns(v, DOMAIN v)
<1>1. n \in DOMAIN v /\ n \in Nat \ {0} /\ v[n].by = Author BY ReadOf
<1>2. \A r \in DOMAIN v : r \in Int /\ r <= n
  <2> HIDE DEF v, n, T
  <2>1. \A r \in DOMAIN View(th) : r \in 1..Len(th) BY ViewIs
  <2>2. Len(th) \in Nat OBVIOUS
  <2> QED BY <2>1, <2>2 DEF v, n
<1> HIDE DEF v, n
<1>3. Kind(v[n]) = "generation" BY <1>1 DEF Kind, Author
<1>4. n \in T /\ T \in SUBSET Int /\ \A r \in T : r <= n BY <1>1, <1>2, <1>3 DEF CallTurns
<1>5. LastKind(v, DOMAIN v) = Kind(v[Max(T)]) BY <1>4 DEF LastKind
<1> HIDE DEF T
<1>6. Max(T) \in T /\ \A r \in T : r <= Max(T)
  <2>1. T # {} /\ n \in Int BY <1>1, <1>4
  <2> QED BY <1>4, <2>1, MaxIs
<1>7. Max(T) = n
  <2>1. Max(T) \in Int /\ Max(T) <= n /\ n <= Max(T) BY <1>4, <1>6
  <2> QED BY <1>1, <2>1
<1> QED BY <1>3, <1>5, <1>7 DEF v

\* A turn of the critic of one step.
LEMMA KindOfOne ==
    ASSUME NEW t, t.by = "critic", NEW item \in Items \ Results, t.items = <<item>>
    PROVE  Kind(t) = IF item \in Judgments THEN item ELSE "none"
<1> DEFINE S == Items  none == <<>>  keep == Items \ Results
<1>1. none \in Seq(S) /\ item \in S /\ item \in keep /\ Append(none, item) = <<item>> OBVIOUS
<1>2. Among(none, keep) = none BY AmongNone
<1> HIDE DEF S, none, keep
<1>3. Among(<<item>>, keep) = Append(none, item)
  <2>1. none \in Seq(S) /\ item \in S /\ item \in keep BY <1>1
  <2>2. Among(Append(none, item), keep) =
          IF item \in keep THEN Append(Among(none, keep), item) ELSE Among(none, keep)
    BY ONLY <2>1, AmongAppend
  <2> QED BY <1>1, <1>2, <2>1, <2>2
<1>4. Steps(t) = <<item>> BY <1>1, <1>3 DEF Steps, keep
<1>5. Answer(t) = item
  <2>1. <<item>> # <<>> /\ Last(<<item>>) = item BY DEF Last
  <2> QED BY <1>4, <2>1 DEF Answer
<1> QED BY <1>5 DEF Kind

\* The critic's turn, ended: its judgment, or nothing.
LEMMA CriticRepaired ==
    ASSUME NEW t, Proper(t), t.by = "critic", NEW items \in Repaired(t),
           t.items = <<>> \/ ~t.partial
    PROVE  items = t.items \/ (t.items = <<>> /\ items = <<"partial">>)
<1> DEFINE kept_ == {t.items} \cup IF ~t.partial THEN {} ELSE {Append(t.items, i) : i \in {"partial"}}
<1>1. PICK s \in kept_ : items = IF s # <<>> /\ Last(s) = "call" THEN Append(s, "interrupted") ELSE s
  BY DEF Repaired
<1>2. s = t.items \/ (t.partial /\ s = Append(t.items, "partial")) OBVIOUS
<1>3. CASE s = t.items
  <2>1. s # <<>> => Last(s) # "call"
    <3>1. t.items \in Seq(Items) /\ \A i \in DOMAIN t.items : t.items[i] # "call" BY DEF Proper, Stored
    <3> QED BY <1>3, <3>1 DEF Last
  <2> QED BY <1>1, <1>3, <2>1
<1>4. CASE s = Append(t.items, "partial") /\ t.partial
  <2>1. t.items = <<>> BY <1>4
  <2>2. Append(<<>>, "partial") = <<"partial">> OBVIOUS
  <2>3. s = <<"partial">> BY <1>4, <2>1, <2>2
  <2>4. Last(<<"partial">>) = "partial" BY DEF Last
  <2> QED BY <1>1, <2>1, <2>3, <2>4
<1> QED BY <1>2, <1>3, <1>4

LEMMA RepairedFull ==
    ASSUME NEW t \in Stored, t.items # <<>>, NEW items \in Repaired(t)
    PROVE  items # <<>>
<1> DEFINE steps == IF t.by = "critic" THEN {"partial"} ELSE {"text", "blank"}
           kept_ == {t.items} \cup IF ~t.partial THEN {} ELSE {Append(t.items, i) : i \in steps}
<1>1. PICK s \in kept_ : items = IF s # <<>> /\ Last(s) = "call" THEN Append(s, "interrupted") ELSE s
  BY DEF Repaired
<1>2. t.items \in Seq(Items) BY DEF Stored
<1>3. steps \subseteq Items BY DEF Items, Replies
<1>4. s \in Seq(Items) /\ s # <<>>
  <2>1. CASE s = t.items BY <1>2, <2>1
  <2>2. ASSUME NEW i \in Items, s = Append(t.items, i) PROVE s \in Seq(Items) /\ s # <<>>
    BY <1>2, <2>2, LastStep
  <2>3. s = t.items \/ \E i \in steps : s = Append(t.items, i)
    <3> HIDE DEF steps
    <3> QED OBVIOUS
  <2> QED BY <1>3, <2>1, <2>2, <2>3
<1>5. "interrupted" \in Items BY DEF Items, Results
<1>6. Append(s, "interrupted") # <<>> BY <1>4, <1>5, LastStep
<1> QED BY <1>1, <1>4, <1>6

\* A turn found open may be what it becomes.
OpenTurnInv ==
    OpenTurnFound =>
        /\ Last(thread).by = Author /\ Last(thread).items = <<>> => MayGenerate(View(thread))
        /\ Last(thread).by = "critic" => Last(thread).items = <<>> \/ ~Last(thread).partial

Alike(v, w) == DOMAIN w = DOMAIN v /\ \A r \in DOMAIN v : Kind(w[r]) = Kind(v[r])
Grows(v, w, n, k) ==
    /\ n \in Int /\ Below(v, n) /\ DOMAIN w = DOMAIN v \cup {n}
    /\ \A r \in DOMAIN v : Kind(w[r]) = Kind(v[r])
    /\ Kind(w[n]) = k

\* What a changed turn makes of the turns that are read.
LEMMA ViewMoves ==
    ASSUME Inv, conf.durable, OpenTurnInv, NEW turn, Becomes(turn), Becoming(turn)
    PROVE  \/ Alike(View(thread), View(thread'))
           \/ /\ Last(thread).by = Author /\ Last(thread).items = <<>>
              /\ Grows(View(thread), View(thread'), Len(thread), "generation")
           \/ pc = "recording" /\ Grows(View(thread), View(thread'), Len(thread), writing.item)
           \/ Grows(View(thread), View(thread'), Len(thread), "none")
<1> DEFINE v == View(thread)  w == View(Changed(thread, turn))  n == Len(thread)  t == Last(thread)
<1>1. /\ Sound(thread) /\ thread \in Seq(Stored) /\ thread # <<>> /\ t.status = "streaming"
      /\ Proper(turn) /\ turn \in Stored /\ turn.by = t.by /\ thread' = Changed(thread, turn)
  BY DEF Inv, ThreadInv, Sound, Becomes, Proper
<1>2. t \in Stored /\ Proper(t) BY <1>1, LastIsProper
<1>3. CASE turn.items = t.items
  <2>1. w = v BY <1>1, <1>3, ViewOfChanged
  <2> QED BY <1>1, <2>1 DEF Alike
<1>4. CASE turn.items # t.items
  <2>1. turn.items \in Repaired(t) \/ \E item \in Items : Pushes(turn, item) BY <1>4 DEF Becoming
  <2>2. turn.items # <<>>
    <3>1. CASE turn.items \in Repaired(t)
      <4> HIDE DEF t
      <4> QED BY <1>2, <1>4, <3>1, RepairedFull
    <3>2. ASSUME NEW item \in Items, Pushes(turn, item) PROVE turn.items # <<>>
      <4>1. turn.items = Append(t.items, item) /\ t.items \in Seq(Items) BY <1>2, <3>2 DEF Pushes, Stored
      <4> HIDE DEF t
      <4> QED BY <4>1, LastStep
    <3> QED BY <2>1, <3>1, <3>2
  <2>3. w = [r \in DOMAIN v \cup {n} |->
               IF r = n THEN [by |-> turn.by, items |-> turn.items] ELSE v[r]]
    BY <1>1, <2>2, ViewOfChanged
  <2>4. CASE t.items # <<>>
    <3>1. n \in DOMAIN v /\ v[n].by = t.by BY <1>1, <2>4, ReadOf
    <3>2. CASE t.by = Author
      <4>1. Kind(v[n]) = "generation" BY <3>1, <3>2 DEF Kind, Author
      <4>2. DOMAIN w = DOMAIN v /\ w[n].by = turn.by /\ \A r \in DOMAIN v : r # n => w[r] = v[r]
        <5> HIDE DEF w, v, n, t
        <5>1. /\ DOMAIN w = DOMAIN v /\ w[n] = [by |-> turn.by, items |-> turn.items]
              /\ \A r \in DOMAIN v : r # n => w[r] = v[r]
          BY <2>3, <3>1
        <5> DEFINE a == w[n]
        <5>2. a = [by |-> turn.by, items |-> turn.items] BY <5>1
        <5> HIDE DEF a
        <5>3. a.by = turn.by BY <5>2
        <5> QED BY <5>1, <5>3 DEF a
      <4>3. Kind(w[n]) = "generation" BY <1>1, <3>2, <4>2 DEF Kind, Author
      <4> HIDE DEF w, v, n
      <4>4. Alike(v, w) BY <4>1, <4>2, <4>3 DEF Alike
      <4> QED BY <1>1, <4>4 DEF v, w
    <3>3. CASE t.by # Author
      <4>1. t.by = "critic" BY <1>2, <3>3 DEF Stored, Authors, Author
      <4>2. ~t.partial BY <1>1, <2>4, <4>1 DEF OpenTurnInv, OpenTurnFound
      <4>3. turn.items \notin Repaired(t)
        <5> HIDE DEF t
        <5> QED BY <1>2, <1>4, <2>4, <4>1, <4>2, CriticRepaired
      <4>4. PICK item \in Items : Pushes(turn, item) BY <2>1, <4>3
      <4> QED BY <1>1, <2>4, <3>3, <4>4 DEF Pushes
    <3> QED BY <3>2, <3>3
  <2>5. CASE t.items = <<>>
    <3>1. Below(v, n) /\ n \notin DOMAIN v /\ n \in Int BY <1>1, <2>5, ViewBelow
    <3>2. /\ DOMAIN w = DOMAIN v \cup {n} /\ \A r \in DOMAIN v : Kind(w[r]) = Kind(v[r])
          /\ w[n].by = turn.by /\ w[n].items = turn.items
      <4> HIDE DEF w, v, n, t
      <4>1. /\ DOMAIN w = DOMAIN v \cup {n} /\ \A r \in DOMAIN v : w[r] = v[r]
            /\ w[n] = [by |-> turn.by, items |-> turn.items]
        BY <2>3, <3>1
      <4> DEFINE a == w[n]
      <4>2. a = [by |-> turn.by, items |-> turn.items] BY <4>1
      <4> HIDE DEF a
      <4>3. a.by = turn.by /\ a.items = turn.items BY <4>2
      <4> QED BY <4>1, <4>3 DEF a
    <3>3. \A k : Kind(w[n]) = k => Grows(v, w, n, k) BY <3>1, <3>2 DEF Grows
    <3>4. CASE t.by = Author
      <4>1. Kind(w[n]) = "generation" BY <1>1, <3>2, <3>4 DEF Kind, Author
      <4> QED BY <1>1, <2>5, <3>3, <3>4, <4>1
    <3>5. CASE t.by # Author
      <4>1. t.by = "critic" /\ turn.by = "critic" BY <1>1, <1>2, <3>5 DEF Stored, Authors, Author
      <4>2. CASE turn.items \in Repaired(t)
        <5>1. turn.items = <<"partial">>
          <6> HIDE DEF t
          <6> QED BY <1>2, <1>4, <2>5, <4>1, <4>2, CriticRepaired
        <5>2. "partial" \in Items \ Results /\ "partial" \notin Judgments BY DEF Items, Results, Judgments
        <5>3. w[n].by = "critic" /\ w[n].items = <<"partial">> BY <3>2, <4>1, <5>1
        <5> HIDE DEF w, n
        <5>4. Kind(w[n]) = "none" BY <5>2, <5>3, KindOfOne
        <5> QED BY <1>1, <3>3, <5>4 DEF w, n
      <4>3. ASSUME NEW item \in Items, Pushes(turn, item)
            PROVE  pc = "recording" /\ Kind(w[n]) = writing.item
        <5>1. pc = "recording" /\ item = writing.item /\ turn.items = Append(t.items, item)
          BY <3>5, <1>1, <4>3 DEF Pushes
        <5>2. item \in Judgments BY <5>1 DEF Inv, RankInv
        <5>3. turn.items = <<item>>
          <6>1. Append(<<>>, item) = <<item>> OBVIOUS
          <6> QED BY <2>5, <5>1, <6>1
        <5>4. item \in Items \ Results BY <5>2 DEF Items, Judgments, Results
        <5>5. w[n].by = "critic" /\ w[n].items = <<item>> BY <3>2, <4>1, <5>3
        <5> HIDE DEF w, n
        <5>6. Kind(w[n]) = item BY <5>2, <5>4, <5>5, KindOfOne
        <5> QED BY <5>1, <5>6
      <4> QED BY <1>1, <2>1, <3>3, <4>2, <4>3
    <3> QED BY <3>4, <3>5
  <2> QED BY <2>4, <2>5
<1> QED BY <1>3, <1>4

\* The view of a thread in which a turn is opened.
LEMMA OpenedView ==
    ASSUME Inv, conf.durable, NEW by \in Authors, Opened(by)
    PROVE  /\ View(thread') = View(thread) /\ thread' # <<>> /\ Last(thread').by = by
           /\ Last(thread').items = <<>> /\ Last(thread').status = "streaming"
<1>1. Sound(thread) /\ run \in Nat BY DEF Inv, ThreadInv, ConfInv
<1>2. thread' # <<>> /\ Last(thread') = NewTurn(by) /\ View(thread') = View(thread)
  BY <1>1, OpenIs DEF Opened
<1> QED BY <1>2 DEF NewTurn

LEMMA JudgedWritten ==
    ASSUME Inv, conf.durable, conf.agent = "critic", OpenTurnInv, Written, Judged(View(thread)),
           pc = "recording" => MayRecord(View(thread), writing.item)
    PROVE  Judged(View(thread'))
<1>1. thread \in Seq(Stored) /\ conf.budget \in Nat /\ conf.revisions \in Nat
  <2>1. conf \in ReactConf \cup CriticConf BY DurableAgentAssumption DEF Inv, ConfInv
  <2>2. conf.agent # "react" OBVIOUS
  <2>3. conf \in CriticConf BY <2>1, <2>2 DEF ReactConf
  <2> QED BY <2>3 DEF CriticConf, Inv, ThreadInv, Sound
<1>2. Author \in Authors /\ "critic" \in Authors BY DEF Author, Authors
<1>3. CASE thread' = thread BY <1>3
<1>4. CASE Opened(Author) \/ Opened("critic")
  <2>1. View(thread') = View(thread) BY <1>2, <1>4, OpenedView
  <2> QED BY <2>1
<1>5. ASSUME NEW turn, Becomes(turn), Becoming(turn) PROVE Judged(View(thread'))
  <2> DEFINE v == View(thread)  w == View(thread')  n == Len(thread)
  <2>1. Below(v, n + 1) /\ n + 1 \in Int
    <3>1. n \in Nat BY <1>1
    <3> QED BY <1>1, <3>1, ViewBelow
  <2>2. \/ Alike(v, w)
        \/ Last(thread).by = Author /\ Last(thread).items = <<>> /\ Grows(v, w, n, "generation")
        \/ pc = "recording" /\ Grows(v, w, n, writing.item)
        \/ Grows(v, w, n, "none")
    BY <1>5, ViewMoves
  <2> DEFINE m == n + 1
  <2>3. Below(v, m) /\ m \in Int BY <2>1
  <2>4. OpenTurnFound BY <1>5 DEF Becomes, OpenTurnFound
  <2>5. Last(thread).by = Author /\ Last(thread).items = <<>> => MayGenerate(v)
    BY <2>4 DEF OpenTurnInv
  <2>6. pc = "recording" => writing.item \in Judgments /\ MayRecord(v, writing.item)
    BY DEF Inv, RankInv
  <2>7. Judged(v) OBVIOUS
  <2> HIDE DEF v, w, n, m
  <2>8. CASE Alike(v, w)
    <3>1. DOMAIN w = DOMAIN v /\ \A r \in DOMAIN v : Kind(w[r]) = Kind(v[r]) BY <2>8 DEF Alike
    <3>2. Judged(w) BY <2>3, <2>7, <3>1, JudgedAlike
    <3> QED BY <3>2 DEF w
  <2>9. ASSUME NEW k \in {"none", "generation"} \cup Judgments, Grows(v, w, n, k),
               k = "generation" => MayGenerate(v), k \in Judgments => MayRecord(v, k)
        PROVE  Judged(w)
    <3>1. /\ n \in Int /\ Below(v, n) /\ DOMAIN w = DOMAIN v \cup {n}
          /\ \A r \in DOMAIN v : Kind(w[r]) = Kind(v[r])
          /\ Kind(w[n]) = k
      BY <2>9 DEF Grows
    <3> QED BY <1>1, <2>7, <2>9, <3>1, JudgedGrows
  <2>10. CASE Last(thread).by = Author /\ Last(thread).items = <<>> /\ Grows(v, w, n, "generation")
    <3>1. "generation" \notin Judgments BY DEF Judgments
    <3>2. Judged(w) BY <2>5, <2>9, <2>10, <3>1
    <3> QED BY <3>2 DEF w
  <2>11. CASE pc = "recording" /\ Grows(v, w, n, writing.item)
    <3> DEFINE k == writing.item
    <3>1. k \in Judgments /\ k # "generation" /\ MayRecord(v, k) BY <2>6, <2>11 DEF Judgments
    <3>2. Grows(v, w, n, k) BY <2>11
    <3> HIDE DEF k
    <3>3. Judged(w) BY <2>9, <3>1, <3>2
    <3> QED BY <3>3 DEF w
  <2>12. CASE Grows(v, w, n, "none")
    <3>1. "none" \notin Judgments BY DEF Judgments
    <3>2. Judged(w) BY <2>9, <2>12, <3>1
    <3> QED BY <3>2 DEF w
  <2> QED BY <2>2, <2>8, <2>10, <2>11, <2>12
<1> QED BY <1>3, <1>4, <1>5 DEF Written

\* A turn that is open after a step may be what it becomes.
LEMMA OpenTurnWritten ==
    ASSUME Inv, conf.durable, OpenTurnInv, Written,
           pc = "llm" /\ Closed => MayGenerate(View(thread)),
           thread' # <<>>, Last(thread').status = "streaming"
    PROVE  /\ Last(thread').by = Author /\ Last(thread').items = <<>> => MayGenerate(View(thread'))
           /\ Last(thread').by = "critic" => Last(thread').items = <<>> \/ ~Last(thread').partial
<1>1. Sound(thread) /\ thread \in Seq(Stored) BY DEF Inv, ThreadInv, Sound
<1>2. Author \in Authors /\ "critic" \in Authors /\ Author # "critic" BY DEF Author, Authors
<1>3. CASE thread' = thread BY <1>3 DEF OpenTurnInv, OpenTurnFound
<1>4. CASE pc = "llm" /\ Opened(Author)
  <2>1. View(thread') = View(thread) /\ Last(thread').by = Author BY <1>2, <1>4, OpenedView
  <2> QED BY <1>2, <1>4, <2>1 DEF Opened
<1>5. CASE Opened("critic")
  <2>1. Last(thread').by = "critic" /\ Last(thread').items = <<>> BY <1>2, <1>5, OpenedView
  <2> QED BY <1>2, <2>1
<1>6. ASSUME NEW turn, Becomes(turn), Becoming(turn)
      PROVE  /\ Last(thread').by = Author /\ Last(thread').items = <<>> => MayGenerate(View(thread'))
             /\ Last(thread').by = "critic" => Last(thread').items = <<>> \/ ~Last(thread').partial
  <2>1. /\ thread # <<>> /\ thread' = Changed(thread, turn) /\ turn \in Stored
        /\ turn.by = Last(thread).by /\ Last(thread).status = "streaming"
    BY <1>6 DEF Becomes, Proper
  <2>2. Last(thread') = turn BY <1>1, <2>1, ChangedIs
  <2>3. turn.status = "streaming" BY <2>2
  <2>4. OpenTurnFound BY <2>1 DEF OpenTurnFound
  <2>5. ASSUME NEW item \in Items, Pushes(turn, item)
        PROVE  turn.items # <<>> /\ (turn.by = "critic" => ~turn.partial)
    <3>1. Last(thread) \in Stored BY <1>1, <2>1, LastIsProper
    <3>2. turn.items = Append(Last(thread).items, item) /\ Last(thread).items \in Seq(Items)
      BY <2>5, <3>1 DEF Pushes, Stored
    <3>3. turn.items # <<>>
      <4> DEFINE items == Last(thread).items
      <4>1. items \in Seq(Items) /\ turn.items = Append(items, item) BY <3>2
      <4> HIDE DEF items
      <4> QED BY <4>1, LastStep
    <3> QED BY <1>2, <2>5, <3>3 DEF Pushes
  <2>6. CASE turn.items = Last(thread).items /\ turn.by = Author
    <3>1. View(thread') = View(thread) BY <1>1, <2>1, <2>6, ViewOfChanged
    <3> QED BY <1>2, <2>1, <2>2, <2>4, <2>6, <3>1 DEF OpenTurnInv
  <2>7. CASE \E item \in Items : Pushes(turn, item) BY <2>2, <2>5, <2>7
  <2> QED BY <1>6, <2>3, <2>6, <2>7 DEF Becoming
<1> QED BY <1>3, <1>4, <1>5, <1>6 DEF Written

-----------------------------------------------------------------------------
(***************************************************************************)
(* Where a step of the generator and critic goes, and why.                     *)
(***************************************************************************)
Routed == pc' \in {EntryRoute(conv', listed'), AfterCheck(conv', listed'), AfterCritique(conv', listed')}
Generated == thread # <<>> /\ Last(thread).by = Author /\ Last(thread).items # <<>>
Recordable(item) ==
    \/ pc = "check" /\ item = "critique" /\ Critiques(conv, listed) < conf.budget
    \/ pc = "check" /\ item = "revision" /\ RevisionsInARow(conv, listed) < conf.revisions
    \/ pc = "critique" /\ item \in {"critique", "acceptance"}
JudgePhased ==
    /\ pc' = "llm" => Routed \/ ~Closed'
    /\ pc' = "check" => Routed \/ Generated'
    /\ pc' = "critique" => Routed \/ (pc = "critique" /\ thread' = thread)
    /\ pc' = "record" => thread' = thread /\ Recordable(writing'.item)
    /\ pc' = "recording" => pc = "record" /\ writing' = writing /\ Opened("critic")

LEMMA RoutedPhased ==
    ASSUME Inv', Routed
    PROVE  JudgePhased
<1>1. pc' \in {"llm", "check", "critique", "finish"} BY RoutesNext DEF Inv, Routed
<1> QED BY <1>1 DEF JudgePhased

\* The turn the generator writes.
LEMMA PushedGenerated ==
    ASSUME Sound(thread), Own(Author), NEW item \in Items, thread' = Push(Len(thread), item)
    PROVE  Generated' /\ ~Closed'
<1>1. PICK turn \in Stored :
        /\ Push(Len(thread), item) = Changed(thread, turn) /\ Proper(turn)
        /\ turn.by = Author /\ turn.status = "streaming"
        /\ turn.items = Append(Last(thread).items, item)
  BY PushedTurn
<1>2. thread # <<>> /\ thread \in Seq(Stored) /\ Last(thread) \in Stored
  BY LastIsProper DEF Own, Sound
<1>3. thread' # <<>> /\ Last(thread') = turn BY <1>1, <1>2, ChangedIs
<1>4. turn.items # <<>>
  <2> DEFINE items == Last(thread).items
  <2>1. items \in Seq(Items) /\ turn.items = Append(items, item) BY <1>1, <1>2 DEF Stored
  <2> HIDE DEF items
  <2> QED BY <2>1, LastStep
<1> QED BY <1>1, <1>3, <1>4 DEF Generated, Closed

LEMMA CompletedGenerated ==
    ASSUME Sound(thread), Own(Author), Last(thread).items # <<>>, Last(Last(thread).items) \notin Results,
           thread' = Complete(Len(thread))
    PROVE  Generated'
<1>1. thread # <<>> /\ Last(thread).status = "streaming" /\ Last(thread).by = Author
      /\ thread \in Seq(Stored)
  BY DEF Own, Sound
<1>2. PICK turn \in Stored :
        /\ Complete(Len(thread)) = Changed(thread, turn)
        /\ turn.by = Last(thread).by /\ turn.items = Last(thread).items
  BY <1>1, CompletedTurn
<1>3. thread' # <<>> /\ Last(thread') = turn BY <1>1, <1>2, ChangedIs
<1> QED BY <1>1, <1>2, <1>3 DEF Generated

LEMMA ReadingIs ==
    ASSUME NEW reply \in {"accepts", "rejects", "rejects_blank", "no_block", "misshapen"},
           Reading(reply) # "unreadable"
    PROVE  Reading(reply) \in {"critique", "acceptance"}
<1>1. CASE reply = "accepts" BY <1>1 DEF Reading
<1>2. CASE reply = "rejects" BY <1>2 DEF Reading
<1>3. CASE reply \in {"rejects_blank", "no_block", "misshapen"}
  <2>1. Reading(reply) = "unreadable" BY <1>3 DEF Reading
  <2> QED BY <2>1
<1> QED BY <1>1, <1>2, <1>3

LEMMA ModelPhased ==
    ASSUME Inv, conf.durable, \/ \E item \in Replies : Streamed(item)
                              \/ CompleteTurn \/ RunTools \/ RefuseCalls \/ CompleteCut
    PROVE  JudgePhased
<1>1. Sound(thread) /\ RankInv BY DEF Inv, ThreadInv
<1>2. CASE Failed BY <1>2 DEF Failed, JudgePhased
<1>3. ASSUME NEW item \in Replies, Streamed(item) PROVE JudgePhased
  <2>1. AtStream /\ Own(Author) /\ writing.rank = Len(thread) /\ item \in Items
    BY <1>3 DEF Streamed, Inv, ThreadInv, AtStream, Items
  <2>2. CASE thread' = Push(writing.rank, item) /\ (Reply(item) \/ Completes(item))
    <3>1. Generated' BY <1>1, <2>1, <2>2, PushedGenerated
    <3>2. pc' = "complete" \/ pc' = AfterModel(conv') BY <2>2 DEF Reply, Completes
    <3>3. AfterModel(conv') \in {"answer", "check", "tools", "limit", "failed"} BY ModelRoutes
    <3> QED BY <3>1, <3>2, <3>3 DEF JudgePhased
  <2> QED BY <1>2, <1>3, <2>2 DEF Streamed, Stores
<1>4. CASE CompleteTurn
  <2>1. AtComplete /\ writing.item \in {"text", "blank"} BY <1>1, <1>4 DEF CompleteTurn, Inv, ThreadInv, RankInv
  <2>2. PICK items \in Seq(Items) : Last(thread).items = Append(items, writing.item)
    BY <2>1 DEF AtComplete
  <2>3. Own(Author) /\ writing.rank = Len(thread) BY <2>1 DEF AtComplete
  <2>4. writing.item \in Items /\ writing.item \notin Results BY <2>1 DEF Items, Replies, Results
  <2>5. Last(thread).items # <<>> /\ Last(Last(thread).items) \notin Results BY <2>2, <2>4, LastStep
  <2>6. CASE thread' = Complete(writing.rank) /\ Reply(writing.item)
    <3>1. Generated' BY <1>1, <2>3, <2>5, <2>6, CompletedGenerated
    <3>2. pc' = AfterModel(conv') BY <2>6 DEF Reply
    <3>3. AfterModel(conv') \in {"answer", "check", "tools", "limit", "failed"} BY ModelRoutes
    <3> QED BY <3>1, <3>2, <3>3 DEF JudgePhased
  <2> QED BY <1>2, <1>4, <2>6 DEF CompleteTurn, Stores
<1>5. CASE RunTools \/ (RefuseCalls /\ conf.onLimit # "End")
  <2>1. AtTools BY <1>5 DEF RunTools, RefuseCalls, Inv, ThreadInv
  <2>2. /\ conv = View(thread) /\ Own(Author) /\ thread # <<>> /\ thread \in Seq(Stored)
        /\ Last(thread).items # <<>> /\ Last(thread).by = Author
    BY <1>1, <2>1 DEF AtTools, Own, Sound
  <2>3. LastBy(conv, Author) = Len(thread) BY <2>2, ReadOf
  <2>4. "ran" \in Items /\ "refused" \in Items BY DEF Items, Results
  <2>5. ASSUME NEW item \in Items, thread' = Push(Len(thread), item), pc' = "llm" PROVE JudgePhased
    <3>1. ~Closed' BY <1>1, <2>2, <2>5, PushedGenerated
    <3> QED BY <2>5, <3>1 DEF JudgePhased
  <2>6. \/ Failed
        \/ pc' = "llm" /\ thread' \in {Push(Len(thread), "ran"), Push(Len(thread), "refused")}
    BY <1>5, <2>3 DEF RunTools, RefuseCalls, Answering, Stores, Answers, AfterTools, AfterLimit
  <2> QED BY <1>2, <2>4, <2>5, <2>6
<1>6. CASE RefuseCalls /\ conf.onLimit = "End"
  <2>1. pc' \in {"closing", "failed"} BY <1>6 DEF RefuseCalls, Answering, Stores, Closes, Failed
  <2> QED BY <2>1 DEF JudgePhased
<1>7. CASE CompleteCut
  <2>1. AtClosing(<<"refused", "closing">>) BY <1>7 DEF CompleteCut, Inv, ThreadInv
  <2>2. LastBy(conv, Author) = Len(thread) /\ Own(Author) BY <2>1, ClosingRank DEF AtClosing
  <2>3. Last(thread).items # <<>> /\ Last(Last(thread).items) \notin Results BY <2>1, ClosedTurn
  <2>4. CASE thread' = Complete(LastBy(conv, Author)) /\ Cuts
    <3>1. Generated' BY <1>1, <2>2, <2>3, <2>4, CompletedGenerated
    <3>2. pc' \in {"check", "answer"} BY <2>1, <2>4 DEF Cuts, AfterLimit, AfterLoop, AtClosing
    <3> QED BY <3>1, <3>2 DEF JudgePhased
  <2> QED BY <1>2, <1>7, <2>4 DEF CompleteCut, Stores
<1> QED BY <1>3, <1>4, <1>5, <1>6, <1>7

LEMMA CheckPhased ==
    ASSUME Inv', Check
    PROVE  JudgePhased
<1>1. pc = "check" /\ thread' = thread BY DEF Check
<1>2. CASE Goes(AfterCheck(conv, listed))
  <2>1. Routed BY <1>2 DEF Goes, private, Routed
  <2> QED BY <2>1, RoutedPhased
<1>3. CASE Records("critique") /\ Critiques(conv, listed) < conf.budget
  <2>1. pc' = "record" /\ writing'.item = "critique" BY <1>3 DEF Records
  <2> QED BY <1>1, <1>3, <2>1 DEF JudgePhased, Recordable
<1>4. CASE Records("revision") /\ RevisionsInARow(conv, listed) < conf.revisions
  <2>1. pc' = "record" /\ writing'.item = "revision" BY <1>4 DEF Records
  <2> QED BY <1>1, <1>4, <2>1 DEF JudgePhased, Recordable
<1> QED BY <1>2, <1>3, <1>4 DEF Check

LEMMA CritiquePhased ==
    ASSUME Critique
    PROVE  JudgePhased
<1>1. pc = "critique" /\ thread' = thread BY DEF Critique
<1>2. CASE Goes("critique") BY <1>1, <1>2 DEF Goes, JudgePhased
<1>3. CASE Failed BY <1>3 DEF Failed, JudgePhased
<1>4. ASSUME NEW kind \in {"critique", "acceptance"}, Records(kind) PROVE JudgePhased
  <2>1. pc' = "record" /\ writing'.item = kind BY <1>4 DEF Records
  <2> QED BY <1>1, <1>4, <2>1 DEF JudgePhased, Recordable
<1> QED BY <1>2, <1>3, <1>4, ReadingIs DEF Critique

LEMMA RecordJudgePhased ==
    ASSUME Inv, Inv', conf.durable, Record \/ CompleteRecord
    PROVE  JudgePhased
<1>1. CASE Failed BY <1>1 DEF Failed, JudgePhased
<1>2. CASE Record
  <2>1. pc = "record" BY <1>2 DEF Record
  <2>2. Sound(thread) /\ AtRest /\ RankInv BY <2>1 DEF Inv, ThreadInv
  <2>3. conv = View(thread) /\ Stands /\ Closed BY <2>2 DEF AtRest
  <2>4. writing.rank = Len(thread) + 1
    <3>1. writing.rank = NewRank BY <2>1, <2>2 DEF RankInv
    <3>2. NewRank = Len(thread) + 1 BY <2>2, <2>3, NewRankIs DEF RankInv
    <3> QED BY <3>1, <3>2
  <2>5. CASE thread' = Open(writing.rank, "critic") /\ pc' = "recording" /\ writing' = writing
    BY <2>1, <2>3, <2>4, <2>5 DEF JudgePhased, Opened
  <2> QED BY <1>1, <1>2, <2>5 DEF Record, Stores
<1>3. CASE CompleteRecord
  <2>1. Recorded => Routed BY DEF Recorded, Routed
  <2> QED BY <1>1, <1>3, <2>1, RoutedPhased DEF CompleteRecord, Stores
<1> QED BY <1>2, <1>3

LEMMA JudgePhases ==
    ASSUME Inv, conf.durable, conf.agent = "critic", Next
    PROVE  JudgePhased
<1>1. Inv' /\ conf' = conf BY StepKeeps, FixedBy
<1>2. CASE Generate
  <2>1. CASE CallModel \/ OpenTurn
    <3>1. pc' \in {"stream", "failed"} BY <2>1 DEF CallModel, OpenTurn, Stores, Streams, Failed
    <3> QED BY <3>1 DEF JudgePhased
  <2> QED BY <1>2, <2>1, ModelPhased DEF Generate
<1>3. CASE Restart \/ Fail \/ Lose \/ HostEnds
  <2>1. pc' \in {"enter", "failed", "lost"}
    BY <1>3 DEF Restart, Fail, ModelFails, ToolFails, JudgeFails, Lose, HostEnds, Failed
  <2> QED BY <2>1 DEF JudgePhased
<1>4. CASE Critique BY <1>4, CritiquePhased
<1>5. CASE Step
  <2>1. ~EnterInMemory BY DEF EnterInMemory
  <2>2. CASE StoreInputs \/ Close \/ RecordStep \/ GiveAnswer \/ Finish
    <3>1. pc' \in {"enter", "failed", "closed", "recorded", "done"}
      BY <2>2 DEF StoreInputs, Close, Answering, RecordStep, GiveAnswer, Finish, Told, Stores, Failed
    <3> QED BY <3>1 DEF JudgePhased
  <2>3. CASE EnterThread \/ FailOpenTurn
    <3>1. CASE Failed BY <3>1 DEF Failed, JudgePhased
    <3>2. ASSUME NEW th, Entered(th) PROVE JudgePhased
      <4>1. Routed BY <1>1, <3>2 DEF Entered, Route, Routed
      <4> QED BY <1>1, <4>1, RoutedPhased
    <3>3. Failed \/ \E th : Entered(th) BY <2>3 DEF EnterThread, FailOpenTurn, Stores
    <3> QED BY <3>1, <3>2, <3>3
  <2>4. CASE CompleteTurn \/ RunTools \/ RefuseCalls \/ CompleteCut BY <2>4, ModelPhased
  <2>5. CASE Check BY <1>1, <2>5, CheckPhased
  <2>6. CASE Record \/ CompleteRecord BY <1>1, <2>6, RecordJudgePhased
  <2> QED BY <1>5, <2>1, <2>2, <2>3, <2>4, <2>5, <2>6 DEF Step
<1> QED BY <1>2, <1>3, <1>4, <1>5 DEF Next

-----------------------------------------------------------------------------
(***************************************************************************)
(* The invariant of the bounds, and the theorem.                               *)
(***************************************************************************)
JudgeInv ==
    conf.durable /\ conf.agent = "critic" =>
        /\ Judged(View(thread)) /\ OpenTurnInv
        /\ pc \notin Over \cup {"enter"} => listed = DOMAIN conv
        /\ pc = "llm" /\ Closed => MayGenerate(View(thread))
        /\ pc = "check" => LastKind(View(thread), DOMAIN View(thread)) = "generation"
        /\ pc = "critique" => MayRecord(View(thread), "critique")
        /\ pc \in {"record", "recording"} => MayRecord(View(thread), writing.item)

LEMMA CriticIs ==
    ASSUME ConfInv, conf.agent = "critic"
    PROVE  conf.budget \in Nat /\ conf.revisions \in Nat
<1>1. conf \in ReactConf \cup CriticConf BY DurableAgentAssumption DEF ConfInv
<1>2. conf.agent # "react" OBVIOUS
<1>3. conf \in CriticConf BY <1>1, <1>2 DEF ReactConf
<1> QED BY <1>3 DEF CriticConf

\* The turns the routing counts are those of the conversation.
LEMMA ListedKeeps ==
    ASSUME Inv, conf.durable, Next, pc \notin Over \cup {"enter"} => listed = DOMAIN conv,
           pc' \notin Over \cup {"enter"}
    PROVE  listed' = DOMAIN conv'
<1>1. ConvFits BY DEF Inv, RankInv, ConvFits
<1>2. CASE UNCHANGED private /\ pc \notin Over \cup {"enter"} BY <1>2 DEF private
<1>3. ASSUME NEW r, NEW by, NEW item, Added(r, by, item), listed' = listed \cup {r},
             pc \notin Over \cup {"enter"}
      PROVE  listed' = DOMAIN conv'
  BY <1>3 DEF Added
<1>4. ASSUME DOMAIN conv' = DOMAIN conv, listed' = listed, pc \notin Over \cup {"enter"}
      PROVE  listed' = DOMAIN conv'
  BY <1>4
<1>5. ~Failed BY DEF Failed, Over
<1>6. ASSUME NEW item, Reply(item), pc \notin Over \cup {"enter"} PROVE listed' = DOMAIN conv'
  <2>1. CASE writing.new BY <1>3, <1>6, <2>1 DEF Reply
  <2>2. CASE ~writing.new
    <3>1. DOMAIN conv' = DOMAIN conv /\ listed' = listed BY <1>6, <2>2 DEF Reply, Pushed
    <3> QED BY <1>4, <1>6, <3>1
  <2> QED BY <2>1, <2>2
<1>7. CASE Generate
  <2>1. pc \notin Over \cup {"enter"} BY <1>7 DEF Generate, CallModel, OpenTurn, Streamed, Over
  <2>2. CASE CallModel \/ OpenTurn
    <3>1. UNCHANGED private BY <1>5, <2>2 DEF CallModel, OpenTurn, Stores, Streams
    <3> QED BY <1>2, <2>1, <3>1
  <2>3. ASSUME NEW item \in Replies, Streamed(item) PROVE listed' = DOMAIN conv'
    <3>1. Reply(item) \/ Completes(item) BY <1>5, <2>3 DEF Streamed, Stores
    <3>2. CASE Completes(item)
      <4>1. UNCHANGED private BY <3>2 DEF Completes
      <4> QED BY <1>2, <2>1, <4>1
    <3> QED BY <1>6, <2>1, <3>1, <3>2
  <2> QED BY <1>7, <2>2, <2>3 DEF Generate
<1>8. CASE Restart BY <1>8 DEF Restart
<1>9. CASE Fail \/ Lose \/ HostEnds
  <2>1. pc' \in Over BY <1>5, <1>9 DEF Fail, ModelFails, ToolFails, JudgeFails, Lose, HostEnds, Over
  <2> QED BY <2>1
<1>10. CASE Critique
  <2>1. pc \notin Over \cup {"enter"} BY <1>10 DEF Critique, Over
  <2>2. UNCHANGED private BY <1>5, <1>10 DEF Critique, Records, Goes
  <2> QED BY <1>2, <2>1, <2>2
<1>11. CASE Step
  <2>1. CASE EnterInMemory BY <2>1 DEF EnterInMemory
  <2>2. CASE StoreInputs BY <2>2 DEF StoreInputs, Over
  <2>3. CASE EnterThread \/ FailOpenTurn BY <1>5, <2>3 DEF EnterThread, FailOpenTurn, Stores, Entered
  <2>4. CASE CompleteTurn
    <3>1. Reply(writing.item) /\ pc = "complete" BY <1>5, <2>4 DEF CompleteTurn, Stores
    <3>2. pc \notin Over \cup {"enter"} BY <3>1 DEF Over
    <3> QED BY <1>6, <3>1, <3>2
  <2>5. CASE RunTools \/ RefuseCalls
    <3>1. pc \notin Over \cup {"enter"} BY <2>5 DEF RunTools, RefuseCalls, Over
    <3>2. Answers("ran") \/ Answers("refused") \/ Closes
      BY <1>5, <2>5 DEF RunTools, RefuseCalls, Answering, Stores
    <3>3. CASE Closes
      <4>1. UNCHANGED private BY <3>3 DEF Closes
      <4> QED BY <1>2, <3>1, <4>1
    <3>4. CASE Answers("ran") \/ Answers("refused")
      <4>1. DOMAIN conv' = DOMAIN conv /\ listed' = listed BY <3>4 DEF Answers, Pushed
      <4> QED BY <1>4, <3>1, <4>1
    <3> QED BY <3>2, <3>3, <3>4
  <2>6. CASE Close \/ RecordStep
    <3>1. pc \notin Over \cup {"enter"} BY <2>6 DEF Close, RecordStep, Over
    <3>2. UNCHANGED private BY <1>5, <2>6 DEF Close, RecordStep, Answering, Stores
    <3> QED BY <1>2, <3>1, <3>2
  <2>7. CASE CompleteCut
    <3>1. pc \notin Over \cup {"enter"} /\ Cuts BY <1>5, <2>7 DEF CompleteCut, Stores, Over
    <3>2. DOMAIN conv' = DOMAIN conv /\ listed' = listed BY <3>1 DEF Cuts
    <3> QED BY <1>4, <3>1, <3>2
  <2>8. CASE Check
    <3>1. pc \notin Over \cup {"enter"} BY <2>8 DEF Check, Over
    <3>2. UNCHANGED private BY <2>8 DEF Check, Records, Goes
    <3> QED BY <1>2, <3>1, <3>2
  <2>9. CASE Record
    <3>1. pc \notin Over \cup {"enter"} BY <2>9 DEF Record, Over
    <3>2. UNCHANGED private BY <1>5, <2>9 DEF Record, Stores
    <3> QED BY <1>2, <3>1, <3>2
  <2>10. CASE CompleteRecord
    <3>1. pc \notin Over \cup {"enter"} BY <2>10 DEF CompleteRecord, Over
    <3>2. Recorded BY <1>5, <2>10 DEF CompleteRecord, Stores
    <3> QED BY <1>3, <3>1, <3>2 DEF Recorded
  <2>11. CASE GiveAnswer \/ Finish
    <3>1. pc' \in Over BY <2>11 DEF GiveAnswer, Finish, Told, Over
    <3> QED BY <3>1
  <2> QED BY <1>11, <2>1, <2>2, <2>3, <2>4, <2>5, <2>6, <2>7, <2>8, <2>9, <2>10, <2>11 DEF Step
<1> QED BY <1>7, <1>8, <1>9, <1>10, <1>11 DEF Next

LEMMA JudgeKeeps ==
    ASSUME Inv, JudgeInv, Next
    PROVE  JudgeInv'
<1>1. Inv' /\ conf' = conf BY StepKeeps, FixedBy
<1> SUFFICES ASSUME conf.durable, conf.agent = "critic"
             PROVE  /\ Judged(View(thread')) /\ OpenTurnInv'
                    /\ pc' \notin Over \cup {"enter"} => listed' = DOMAIN conv'
                    /\ pc' = "llm" /\ Closed' => MayGenerate(View(thread'))
                    /\ pc' = "check" => LastKind(View(thread'), DOMAIN View(thread')) = "generation"
                    /\ pc' = "critique" => MayRecord(View(thread'), "critique")
                    /\ pc' \in {"record", "recording"} => MayRecord(View(thread'), writing'.item)
  BY <1>1 DEF JudgeInv, Judged, MayGenerate, MayRecord, View
<1>2. Written /\ JudgePhased BY Writes, JudgePhases
<1>3. /\ Judged(View(thread)) /\ OpenTurnInv
      /\ pc \notin Over \cup {"enter"} => listed = DOMAIN conv
      /\ pc = "llm" /\ Closed => MayGenerate(View(thread))
      /\ pc = "check" => LastKind(View(thread), DOMAIN View(thread)) = "generation"
      /\ pc = "critique" => MayRecord(View(thread), "critique")
      /\ pc \in {"record", "recording"} => MayRecord(View(thread), writing.item)
  BY DEF JudgeInv
<1>4. Judged(View(thread')) BY <1>2, <1>3, JudgedWritten
<1>5. OpenTurnInv'
  <2>1. thread' # <<>> /\ Last(thread').status = "streaming" =>
          /\ Last(thread').by = Author /\ Last(thread').items = <<>> => MayGenerate(View(thread'))
          /\ Last(thread').by = "critic" => Last(thread').items = <<>> \/ ~Last(thread').partial
    BY <1>2, <1>3, OpenTurnWritten
  <2> QED BY <1>1, <2>1 DEF OpenTurnInv, OpenTurnFound, MayGenerate, View
<1>6. pc' \notin Over \cup {"enter"} => listed' = DOMAIN conv' BY <1>3, ListedKeeps
<1> DEFINE v == View(thread')
<1>7. /\ thread' \in Seq(Stored) /\ Len(thread') + 1 \in Int /\ Below(v, Len(thread') + 1)
      /\ conf.budget \in Nat /\ conf.revisions \in Nat
  <2> DEFINE th == thread'
  <2>1. th \in Seq(Stored) BY <1>1 DEF Inv, ThreadInv, Sound
  <2> HIDE DEF th
  <2>2. Len(th) \in Nat BY <2>1
  <2>3. Below(View(th), Len(th) + 1) BY <2>1, ViewBelow
  <2>4. conf.budget \in Nat /\ conf.revisions \in Nat BY CriticIs DEF Inv
  <2> QED BY <2>1, <2>2, <2>3, <2>4 DEF th
<1>8. pc' \in {"llm", "check", "critique"} => conv' = v
  BY <1>1 DEF Inv, ThreadInv, AtLlm, AtRest, View
<1>9. ASSUME Routed, pc' \in {"llm", "check", "critique"}
      PROVE  /\ pc' = "llm" => MayGenerate(v)
             /\ pc' = "check" => LastKind(v, DOMAIN v) = "generation"
             /\ pc' = "critique" => MayRecord(v, "critique")
  <2> DEFINE m == Len(thread') + 1
  <2>1. conv' = v /\ listed' = DOMAIN v BY <1>6, <1>8, <1>9 DEF Over
  <2>2. pc' \in {EntryRoute(v, DOMAIN v), AfterCheck(v, DOMAIN v), AfterCritique(v, DOMAIN v)}
    BY <1>9, <2>1 DEF Routed
  <2>3. Judged(v) /\ Below(v, m) /\ m \in Int BY <1>4, <1>7
  <2> DEFINE to == pc'
  <2>4. to \in {EntryRoute(v, DOMAIN v), AfterCheck(v, DOMAIN v), AfterCritique(v, DOMAIN v)} BY <2>2
  <2> HIDE DEF v, m, to
  <2>5. /\ to = "llm" => MayGenerate(v)
        /\ to = "check" => LastKind(v, DOMAIN v) = "generation"
        /\ to = "critique" => MayRecord(v, "critique")
    BY <1>7, <2>3, <2>4, RoutesAreDue
  <2> QED BY <2>5 DEF to
<1>10. pc' = "llm" /\ Closed' => MayGenerate(v) BY <1>2, <1>9 DEF JudgePhased
<1>11. pc' = "check" => LastKind(v, DOMAIN v) = "generation"
  <2>1. ASSUME Generated' PROVE LastKind(v, DOMAIN v) = "generation"
    <3> DEFINE th == thread'
    <3>1. th \in Seq(Stored) /\ th # <<>> /\ Last(th).by = Author /\ Last(th).items # <<>>
      BY <1>7, <2>1 DEF Generated
    <3>2. v = View(th) OBVIOUS
    <3> HIDE DEF th, v
    <3> QED BY <3>1, <3>2, LastIsGeneration
  <2> QED BY <1>2, <1>9, <2>1 DEF JudgePhased
<1>12. pc' = "critique" => MayRecord(v, "critique")
  <2>1. pc = "critique" /\ thread' = thread => MayRecord(v, "critique") BY <1>3
  <2> QED BY <1>2, <1>9, <2>1 DEF JudgePhased
<1>13. pc' = "record" => MayRecord(v, writing'.item)
  <2> SUFFICES ASSUME pc' = "record" PROVE MayRecord(v, writing'.item) OBVIOUS
  <2>1. thread' = thread /\ Recordable(writing'.item) BY <1>2 DEF JudgePhased
  <2>2. v = View(thread) BY <2>1
  <2>3. pc \in {"check", "critique"} BY <2>1 DEF Recordable
  <2>4. conv = v /\ listed = DOMAIN v BY <1>3, <2>2, <2>3 DEF Inv, ThreadInv, AtRest, Over
  <2>5. pc = "check" => LastKind(v, DOMAIN v) = "generation" BY <1>3, <2>2
  <2>6. pc = "critique" => MayRecord(v, "critique") BY <1>3, <2>2
  <2> HIDE DEF v
  <2> QED BY <2>1, <2>4, <2>5, <2>6 DEF Recordable, MayRecord
<1>14. pc' = "recording" => MayRecord(v, writing'.item)
  <2> SUFFICES ASSUME pc' = "recording" PROVE MayRecord(v, writing'.item) OBVIOUS
  <2>1. pc = "record" /\ writing' = writing /\ Opened("critic") BY <1>2 DEF JudgePhased
  <2>2. "critic" \in Authors BY DEF Authors
  <2>3. v = View(thread) BY <2>1, <2>2, OpenedView
  <2> QED BY <1>3, <2>1, <2>3
<1> QED BY <1>4, <1>5, <1>6, <1>10, <1>11, <1>12, <1>13, <1>14

-----------------------------------------------------------------------------
BudgetInv == Inv /\ RunsInv /\ OwnInv /\ ConvInv /\ JudgeInv

\* A call whose thread holds nothing to read.
LEMMA NothingJudged ==
    ASSUME NEW v, DOMAIN v = {}, conf.budget \in Nat, conf.revisions \in Nat
    PROVE  Judged(v)
<1>1. \A S : CallTurns(v, S) = {} BY DEF CallTurns
<1>2. \A S, k : OfKind(v, S, k) = {} BY <1>1 DEF OfKind
<1>3. Critiques(v, DOMAIN v) = 0 BY <1>2, FS_EmptySet DEF Critiques
<1> QED BY <1>1, <1>2, <1>3 DEF Judged

LEMMA BudgetInit == Init => BudgetInv
<1> SUFFICES ASSUME Init PROVE BudgetInv OBVIOUS
<1>1. Inv BY InitInv
<1>2. /\ max \in Maxes /\ thread = <<>> /\ conv = <<>> /\ pc = "enter"
  BY DEF Init, NewKeys
<1>3. DOMAIN <<>> = {} OBVIOUS
<1>4. RunsInv BY <1>2, <1>3 DEF RunsInv
<1>5. OwnInv BY <1>2, <1>3 DEF OwnInv
<1>6. ConvInv BY <1>2, <1>3 DEF ConvInv, ConvWithin, ConvStands
<1>7. JudgeInv
  <2> SUFFICES ASSUME conf.agent = "critic" PROVE Judged(View(thread)) /\ OpenTurnInv
    BY <1>2 DEF JudgeInv
  <2>1. conf.budget \in Nat /\ conf.revisions \in Nat BY <1>1, CriticIs DEF Inv
  <2>2. DOMAIN View(thread) = {} BY <1>2, <1>3 DEF View
  <2>3. Judged(View(thread)) BY <2>1, <2>2, NothingJudged
  <2> QED BY <1>2, <2>3 DEF OpenTurnInv, OpenTurnFound
<1> QED BY <1>1, <1>4, <1>5, <1>6, <1>7 DEF BudgetInv

LEMMA BudgetSame == BudgetInv /\ UNCHANGED vars => BudgetInv'
<1> SUFFICES ASSUME BudgetInv, UNCHANGED vars PROVE BudgetInv' OBVIOUS
<1>1. Inv' BY StutterKeeps DEF BudgetInv
<1>2. UNCHANGED <<conf, max, thread, conv, position, listed, pc, writing, run>> BY DEF vars
<1>3. RunsInv' BY <1>2 DEF BudgetInv, RunsInv
<1>4. OwnInv' BY <1>2 DEF BudgetInv, OwnInv, Own, Within, Reached
<1>5. ConvInv' BY <1>2 DEF BudgetInv, ConvInv, ConvWithin, ConvStands, Turn, AwaitsResults, AwaitsStep, Within,
                           Reached
<1>6. JudgeInv'
  BY <1>2 DEF BudgetInv, JudgeInv, OpenTurnInv, OpenTurnFound, Closed, Judged, MayGenerate, MayRecord, View
<1> QED BY <1>1, <1>3, <1>4, <1>5, <1>6 DEF BudgetInv

LEMMA LimitIsHeld ==
    ASSUME BudgetInv, conf.durable \/ OpeningsInLimit
    PROVE  LimitHolds
<1> SUFFICES ASSUME conf.onLimit # "None", NEW t \in TurnsOfRun
             PROVE  /\ \A i \in DOMAIN Rounds(t) : i > max => Rounds(t)[i] # "ran"
                    /\ Cardinality({i \in DOMAIN Rounds(t) : i > max /\ Rounds(t)[i] = "refused"}) <= 1
  BY DEF LimitHolds
<1>1. Within(t.items, max)
  <2>1. CASE conf.durable BY <2>1 DEF TurnsOfRun, BudgetInv, OwnInv
  <2>2. CASE ~conf.durable BY <2>2 DEF TurnsOfRun, BudgetInv, ConvInv, ConvWithin
  <2> QED BY <2>1, <2>2
<1> DEFINE rounds == Among(t.items, Results)
           refused == {i \in DOMAIN rounds : i > max /\ rounds[i] = "refused"}
<1>2. /\ \A i \in DOMAIN rounds : i > max => rounds[i] # "ran"
      /\ \A i, j \in refused : i = j
  BY <1>1 DEF Within
<1> HIDE DEF rounds, refused
<1>3. Cardinality(refused) <= 1
  <2>1. CASE refused = {}
    <3>1. Cardinality(refused) = 0 BY <2>1, FS_EmptySet
    <3> QED BY <3>1
  <2>2. CASE refused # {}
    <3>1. PICK x \in refused : TRUE BY <2>2
    <3>2. refused = {x} BY <1>2, <3>1
    <3>3. Cardinality(refused) = 1 BY <3>2, FS_Singleton
    <3> QED BY <3>3
  <2> QED BY <2>1, <2>2
<1> QED BY <1>2, <1>3 DEF Rounds, rounds, refused

LEMMA JudgedOnceHeld ==
    ASSUME BudgetInv
    PROVE  JudgedOnce
<1> SUFFICES ASSUME conf.agent = "critic" PROVE Judged(View(thread))
  BY DEF JudgedOnce, Judged, Before, Upto
<1>1. CASE conf.durable BY <1>1 DEF BudgetInv, JudgeInv
<1>2. CASE ~conf.durable
  <2>1. thread = <<>> /\ DOMAIN <<>> = {} BY <1>2 DEF BudgetInv, Inv, ThreadInv
  <2>2. DOMAIN View(thread) = {} BY <2>1 DEF View
  <2>3. conf.budget \in Nat /\ conf.revisions \in Nat BY CriticIs DEF BudgetInv, Inv
  <2> QED BY <2>2, <2>3, NothingJudged
<1> QED BY <1>1, <1>2

LEMMA BudgetStep == BudgetInv /\ [Next]_vars => BudgetInv'
<1>1. ASSUME BudgetInv, Next PROVE BudgetInv'
  <2>1. Inv' BY <1>1, StepKeeps DEF BudgetInv
  <2>2. RunsInv' BY <1>1, RunsKeeps DEF BudgetInv
  <2>3. OwnInv' BY <1>1, OwnKeeps DEF BudgetInv
  <2>4. ConvInv' BY <1>1, ConvKeeps DEF BudgetInv
  <2>5. JudgeInv' BY <1>1, JudgeKeeps DEF BudgetInv
  <2> QED BY <2>1, <2>2, <2>3, <2>4, <2>5 DEF BudgetInv
<1> QED BY <1>1, BudgetSame

\* The bounds of a call hold over every failure of a run, every loss and every restart:
\* no tool runs past the limit of the rounds, which answers a turn once, and the critic
\* judges and the rules revise no more than was asked, each generation once and in its
\* place.  What an agent in memory finds in its opening is not its own: that stands
\* within the limit as it is given.
THEOREM BudgetsAreKept == Spec => [](conf.durable \/ OpeningsInLimit => BudgetsHold)
<1>1. Init => BudgetInv BY BudgetInit
<1>2. BudgetInv /\ [Next]_vars => BudgetInv' BY BudgetStep
<1>3. BudgetInv => (conf.durable \/ OpeningsInLimit => BudgetsHold)
  BY LimitIsHeld, JudgedOnceHeld DEF BudgetsHold
<1> QED BY <1>1, <1>2, <1>3, PTL DEF Spec

-----------------------------------------------------------------------------
(***************************************************************************)
(* The answer.  What a run gives is read from its thread, whether it wrote it or  *)
(* found it: a call that was answered is answered the same.  These are the steps   *)
(* a durable agent takes while it works, by what they do to what it read.          *)
(***************************************************************************)
Judges == {"check", "critique", "record", "recording", "recorded"}
Working == pc \notin Over \cup {"enter"}

Quiet ==
    /\ UNCHANGED private
    /\ \/ pc = "llm" /\ pc' = "stream" /\ (writing'.new => Continued = {})
       \/ pc = "stream" /\ pc' = "complete" /\ writing'.new = writing.new
       \/ pc = "limit" /\ pc' = "closing"
       \/ pc = "closing" /\ pc' = "closed"
       \/ pc = "check" /\ Check /\ pc' \in {"llm", "critique", "record", "finish"}
       \/ pc \in Judges /\ pc' \in {"critique", "record", "recording", "recorded"}
Enters == pc = "enter" /\ stored /\ \E th : thread' = th /\ Entered(th)
ModelReplies == pc \in {"stream", "complete"} /\ \E item \in Replies : Reply(item)
CallsAnswered ==
    \/ pc = "tools" /\ Answers("ran")
    \/ pc = "limit" /\ Answers("refused")
Moved ==
    \/ Quiet
    \/ Enters
    \/ ModelReplies
    \/ CallsAnswered
    \/ pc = "closed" /\ Cuts
    \/ pc = "recorded" /\ Recorded

LEMMA CheckGoes ==
    ASSUME Inv, Check
    PROVE  pc' \in {"llm", "critique", "record", "finish"} /\ UNCHANGED private
<1>1. \/ pc' = "record" /\ UNCHANGED private
      \/ pc' = AfterCheck(conv, listed) /\ UNCHANGED private
  BY DEF Check, Records, Goes
<1>2. AfterCheck(conv, listed) \in {"llm", "critique", "finish"}
  <2> DEFINE b == position.rank
  <2>1. b \in Int /\ \A r \in DOMAIN conv : r \in Int /\ r <= b BY DEF Inv, RankInv
  <2> HIDE DEF b
  <2> QED BY <2>1, RoutesAre
<1> QED BY <1>1, <1>2

LEMMA Moves ==
    ASSUME Inv, conf.durable, Next, Working'
    PROVE  Moved
<1>1. ~Failed BY DEF Failed, Over, Working
<1>2. CASE Generate
  <2>1. CASE CallModel BY <2>1 DEF CallModel, Moved, Quiet
  <2>2. CASE OpenTurn
    <3>1. Streams(NewRank) /\ pc = "llm" /\ Continued = {} BY <1>1, <2>2 DEF OpenTurn, Stores
    <3> QED BY <3>1 DEF Streams, Moved, Quiet
  <2>3. ASSUME NEW item \in Replies, Streamed(item) PROVE Moved
    <3>1. pc = "stream" /\ (Reply(item) \/ Completes(item)) BY <1>1, <2>3 DEF Streamed, Stores
    <3>2. CASE Completes(item)
      <4>1. writing'.new = writing.new BY <3>2 DEF Completes, Inv, RankInv
      <4> QED BY <3>1, <3>2, <4>1 DEF Completes, Moved, Quiet
    <3> QED BY <3>1, <3>2 DEF Moved, ModelReplies
  <2> QED BY <1>2, <2>1, <2>2, <2>3 DEF Generate
<1>3. CASE Restart \/ Fail \/ Lose \/ HostEnds
  <2>1. pc' \in Over \cup {"enter"}
    BY <1>1, <1>3 DEF Restart, Fail, ModelFails, ToolFails, JudgeFails, Lose, HostEnds, Over
  <2> QED BY <2>1 DEF Working
<1>4. CASE Critique
  <2>1. pc = "critique" /\ UNCHANGED private /\ pc' \in {"critique", "record"}
    BY <1>1, <1>4 DEF Critique, Records, Goes
  <2> QED BY <2>1 DEF Moved, Quiet, Judges
<1>5. CASE Step
  <2>1. ~EnterInMemory BY DEF EnterInMemory
  <2>2. CASE StoreInputs \/ GiveAnswer \/ Finish
    <3>1. pc' \in Over \cup {"enter"} BY <2>2 DEF StoreInputs, GiveAnswer, Finish, Told, Over
    <3> QED BY <3>1 DEF Working
  <2>3. CASE EnterThread \/ FailOpenTurn
    <3>1. pc = "enter" /\ stored BY <2>3 DEF EnterThread, FailOpenTurn
    <3>2. \E th : thread' = th /\ Entered(th) BY <1>1, <2>3 DEF EnterThread, FailOpenTurn, Stores
    <3> QED BY <3>1, <3>2 DEF Moved, Enters
  <2>4. CASE CompleteTurn
    <3>1. pc = "complete" /\ Reply(writing.item) BY <1>1, <2>4 DEF CompleteTurn, Stores
    <3>2. writing.item \in Replies BY <3>1 DEF Inv, RankInv, Replies
    <3> QED BY <3>1, <3>2 DEF Moved, ModelReplies
  <2>5. CASE RunTools BY <1>1, <2>5 DEF RunTools, Answering, Stores, Moved, CallsAnswered
  <2>6. CASE RefuseCalls
    <3>1. pc = "limit" /\ (Closes \/ Answers("refused")) BY <1>1, <2>6 DEF RefuseCalls, Answering, Stores
    <3> QED BY <3>1 DEF Closes, Moved, Quiet, CallsAnswered
  <2>7. CASE Close
    <3>1. pc = "closing" /\ pc' = "closed" /\ UNCHANGED private
      BY <1>1, <2>7 DEF Close, Answering, Stores
    <3> QED BY <3>1 DEF Moved, Quiet
  <2>8. CASE CompleteCut
    <3>1. pc = "closed" /\ Cuts BY <1>1, <2>8 DEF CompleteCut, Stores
    <3> QED BY <3>1 DEF Moved
  <2>9. CASE Check
    <3>1. pc = "check" BY <2>9 DEF Check
    <3> QED BY <2>9, <3>1, CheckGoes DEF Moved, Quiet
  <2>10. CASE Record
    <3>1. pc = "record" /\ pc' = "recording" /\ UNCHANGED private BY <1>1, <2>10 DEF Record, Stores
    <3> QED BY <3>1 DEF Moved, Quiet, Judges
  <2>11. CASE RecordStep
    <3>1. pc = "recording" /\ pc' = "recorded" /\ UNCHANGED private BY <1>1, <2>11 DEF RecordStep, Stores
    <3> QED BY <3>1 DEF Moved, Quiet, Judges
  <2>12. CASE CompleteRecord
    <3>1. pc = "recorded" /\ Recorded BY <1>1, <2>12 DEF CompleteRecord, Stores
    <3> QED BY <3>1 DEF Moved
  <2> QED BY <1>5, <2>1, <2>2, <2>3, <2>4, <2>5, <2>6, <2>7, <2>8, <2>9, <2>10, <2>11, <2>12 DEF Step
<1> QED BY <1>2, <1>3, <1>4, <1>5 DEF Next

-----------------------------------------------------------------------------
\* Each agent has its nodes, and works on a thread that holds its inputs.
NodesInv ==
    conf.durable =>
        /\ Working => stored
        /\ conf.agent = "react" => pc \notin Judges \cup {"finish"}
        /\ conf.agent = "critic" => pc # "answer"

LEMMA LoopLeads ==
    ASSUME NEW c
    PROVE  AfterModel(c) \in {AfterLoop, "tools", "limit", "failed"}
<1>1. Limited(c) \in {"limit", "failed"}
  <2>1. CASE conf.onLimit = "End" BY <2>1 DEF Limited
  <2>2. CASE conf.onLimit # "End" /\ conf.onLimit = "Continue" /\ ~AnsweredByLimit(c) BY <2>2 DEF Limited
  <2>3. CASE conf.onLimit # "End" /\ ~(conf.onLimit = "Continue" /\ ~AnsweredByLimit(c))
    BY <2>3 DEF Limited
  <2> QED BY <2>1, <2>2, <2>3
<1> QED BY <1>1 DEF AfterModel

LEMMA StoredStays ==
    ASSUME Next, stored
    PROVE  stored'
  BY DEF Next, Generate, CallModel, OpenTurn, Streamed, Restart, Critique, Step, EnterInMemory,
         StoreInputs, EnterThread, FailOpenTurn, CompleteTurn, RunTools, RefuseCalls, Close,
         CompleteCut, Answering, Check, Record, RecordStep, CompleteRecord, GiveAnswer, Finish, Told, Fail,
         ModelFails, ToolFails, JudgeFails, Lose, HostEnds, Stores

LEMMA NodesKeep ==
    ASSUME Inv, NodesInv, Next
    PROVE  NodesInv'
<1>1. Inv' /\ conf' = conf /\ conf.agent \in {"react", "critic"}
  BY StepKeeps, FixedBy, ConfIs DEF Inv
<1> SUFFICES ASSUME conf.durable
             PROVE  /\ Working' => stored'
                    /\ conf.agent = "react" => pc' \notin Judges \cup {"finish"}
                    /\ conf.agent = "critic" => pc' # "answer"
  BY <1>1 DEF NodesInv, Working
<1>2. /\ Working => stored
      /\ conf.agent = "react" => pc \notin Judges \cup {"finish"}
      /\ conf.agent = "critic" => pc # "answer"
  BY DEF NodesInv
<1>3. CASE ~Working'
  <2>1. pc' \notin Judges \cup {"finish", "answer"} BY <1>3 DEF Working, Over, Judges
  <2> QED BY <1>3, <2>1
<1>4. CASE Working'
  <2>1. Moved BY <1>4, Moves
  <2>2. Working \/ Enters BY <2>1 DEF Moved, Quiet, ModelReplies, CallsAnswered, Working, Over, Judges
  <2>3. stored' BY <1>2, <2>2, StoredStays DEF Enters
  <2>4. CASE Quiet
    <3>1. conf.agent = "react" => pc' \notin Judges \cup {"finish"} BY <1>2, <2>4 DEF Quiet, Judges
    <3>2. pc' # "answer" BY <2>4 DEF Quiet
    <3> QED BY <2>3, <3>1, <3>2
  <2>5. CASE Enters
    <3>1. pc' = IF conf.agent = "critic" THEN EntryRoute(conv', listed') ELSE pc'
      BY <2>5 DEF Enters, Entered, Route
    <3>2. conf.agent = "react" => pc' \in {"answer", "llm"} BY <2>5 DEF Enters, Entered, Route
    <3>3. EntryRoute(conv', listed') # "answer" BY <1>1, RoutesNext DEF Inv
    <3> QED BY <2>3, <3>1, <3>2, <3>3 DEF Judges
  <2>6. CASE ModelReplies
    <3>1. pc' = AfterModel(conv') BY <2>6 DEF ModelReplies, Reply
    <3>2. pc' \in {AfterLoop, "tools", "limit", "failed"} BY <3>1, LoopLeads
    <3> QED BY <1>1, <2>3, <3>2 DEF AfterLoop, Judges
  <2>7. CASE CallsAnswered \/ Cuts
    <3>1. pc' \in {AfterLoop, "llm"} BY <2>7 DEF CallsAnswered, Answers, AfterTools, Cuts, AfterLimit
    <3> QED BY <1>1, <2>3, <3>1 DEF AfterLoop, Judges
  <2>8. CASE pc = "recorded" /\ Recorded
    <3>1. pc' \in {"llm", "critique", "finish"} BY <1>1, <2>8, RoutesNext DEF Inv, Recorded
    <3>2. conf.agent # "react" BY <1>2, <2>8 DEF Judges
    <3> QED BY <2>3, <3>1, <3>2
  <2> QED BY <2>1, <2>4, <2>5, <2>6, <2>7, <2>8 DEF Moved
<1> QED BY <1>3, <1>4

-----------------------------------------------------------------------------
(***************************************************************************)
(* The flag of the limit, which a run keeps in memory, is what its turns say: of a  *)
(* react agent, the turn of the run.                                          *)
(***************************************************************************)
Limits(t) == conf.onLimit \in {"Continue", "End"} /\ Reached(t.items, max)

\* A react agent writes one turn in a run, and none in a run that finds the answer.
LoopInv ==
    conf.durable /\ conf.agent = "react" /\ Working =>
        /\ position.answered => pc = "answer"
        /\ pc = "llm" /\ position.rank \in DOMAIN conv => AwaitsStep(conv[position.rank])
        /\ pc \in {"stream", "complete"} /\ writing.new => position.rank \notin DOMAIN conv

LEMMA LastAwaits ==
    ASSUME Inv, conf.durable, CallsAnswered
    PROVE  /\ position' = position /\ position.rank \in DOMAIN conv
           /\ AwaitsStep(conv'[position.rank]) /\ DOMAIN conv' = DOMAIN conv
           /\ LastBy(conv, Author) = position.rank /\ conv[position.rank].by = Author
           /\ conv[position.rank].items \in Seq(Items)
           /\ \A q \in DOMAIN conv : q # position.rank => conv'[q] = conv[q]
           /\ conv'[position.rank].by = Author
           /\ pc = "tools" => conv'[position.rank].items = Append(conv[position.rank].items, "ran")
           /\ pc = "limit" => conv'[position.rank].items = Append(conv[position.rank].items, "refused")
<1> DEFINE r == LastBy(conv, Author)
<1>1. AtTools /\ Sound(thread) /\ ConvFits BY DEF CallsAnswered, Inv, ThreadInv, RankInv, ConvFits
<1>2. /\ conv = View(thread) /\ position.rank = Len(thread) /\ thread # <<>> /\ Last(thread).by = Author
      /\ Last(thread).items # <<>> /\ thread \in Seq(Stored)
  BY <1>1 DEF AtTools, Own, Sound
<1>3. r = position.rank /\ r \in DOMAIN conv /\ conv[r].by = Author BY <1>2, ReadOf
<1>4. conv[r].items \in Seq(Items) BY <1>1, <1>3 DEF ConvFits, Turns
<1> HIDE DEF r
<1>5. ASSUME NEW item \in Results,
             conv' = [conv EXCEPT ![r].items = Append(@, item)]
      PROVE  /\ DOMAIN conv' = DOMAIN conv /\ conv'[r].items = Append(conv[r].items, item)
             /\ conv'[r].by = Author /\ Last(conv'[r].items) \in Results
             /\ \A q \in DOMAIN conv : q # r => conv'[q] = conv[q]
  <2> DEFINE more == Append(conv[r].items, item)
  <2>1. item \in Items BY DEF Items
  <2>2. more \in Seq(Items) /\ Last(more) = item BY <1>4, <2>1, LastStep
  <2>3. conv' = [conv EXCEPT ![r].items = more] BY <1>3, <1>5
  <2> HIDE DEF more
  <2>4. /\ DOMAIN conv' = DOMAIN conv /\ conv'[r].items = more /\ conv'[r].by = conv[r].by
        /\ \A q \in DOMAIN conv : q # r => conv'[q] = conv[q]
    BY <1>1, <1>3, <2>2, <2>3, PushedIs
  <2> QED BY <1>3, <2>2, <2>4 DEF more
<1>6. "ran" \in Results /\ "refused" \in Results BY DEF Results
<1>7. CASE pc = "tools" /\ Answers("ran")
  <2>1. conv' = [conv EXCEPT ![r].items = Append(@, "ran")] /\ position' = position
    BY <1>7 DEF Answers, Pushed, r
  <2> QED BY <1>3, <1>4, <1>5, <1>6, <1>7, <2>1 DEF AwaitsStep, r
<1>8. CASE pc = "limit" /\ Answers("refused")
  <2>1. conv' = [conv EXCEPT ![r].items = Append(@, "refused")] /\ position' = position
    BY <1>8 DEF Answers, Pushed, r
  <2> QED BY <1>3, <1>4, <1>5, <1>6, <1>8, <2>1 DEF AwaitsStep, r
<1> QED BY <1>7, <1>8 DEF CallsAnswered

LEMMA EntersAt ==
    ASSUME Inv', conf.durable, conf' = conf, Enters
    PROVE  /\ Sound(thread') /\ conv' = View(thread') /\ flag' = FALSE
           /\ position'.answered = Answered(thread')
           /\ position'.rank = StandsAt(thread')
           /\ ~Answered(thread') => position'.rank \notin DOMAIN conv'
           /\ conf.agent = "react" => pc' = IF Answered(thread') THEN "answer" ELSE "llm"
           /\ conf.agent = "critic" => pc' = EntryRoute(conv', listed')
<1>1. PICK th : thread' = th /\ Entered(th) BY DEF Enters
<1>2. Sound(th) BY <1>1 DEF Inv, ThreadInv, Sound
<1>3. /\ conv' = View(th) /\ position' = Position(StandsAt(th), Answered(th)) /\ flag' = FALSE
      /\ conf.agent = "react" => pc' = IF Answered(th) THEN "answer" ELSE "llm"
      /\ conf.agent = "critic" => pc' = EntryRoute(conv', listed')
  BY <1>1 DEF Entered, Route
<1>4. position'.rank = StandsAt(th) /\ position'.answered = Answered(th) BY <1>2, <1>3, StandsAtIs
<1>5. ~Answered(th) => position'.rank \notin DOMAIN conv'
  <2>1. th \in Seq(Stored) /\ Len(th) \in Nat BY <1>2 DEF Sound
  <2>2. \A r \in DOMAIN View(th) : r \in 1..Len(th) BY <2>1, ViewIs
  <2>3. ~Answered(th) => StandsAt(th) = Len(th) + 1 BY DEF StandsAt
  <2>4. Len(th) + 1 \notin 1..Len(th) BY <2>1
  <2> QED BY <1>3, <1>4, <2>2, <2>3, <2>4
<1> QED BY <1>1, <1>2, <1>3, <1>4, <1>5

LEMMA ReplyIs ==
    ASSUME Inv, conf.durable, ModelReplies
    PROVE  /\ position'.answered = position.answered /\ flag' = flag
           /\ pc' = AfterModel(conv')
           /\ position'.rank = IF writing.new THEN writing.rank ELSE position.rank
           /\ writing.rank \in DOMAIN conv' /\ DOMAIN conv \subseteq DOMAIN conv'
           /\ writing.new => writing.rank \notin DOMAIN conv
           /\ ~writing.new => writing.rank \in DOMAIN conv /\ conv'[writing.rank].by = conv[writing.rank].by
           /\ \A q \in DOMAIN conv : q # writing.rank => conv'[q] = conv[q]
           /\ \A q \in DOMAIN conv : conv'[q].by = conv[q].by
           /\ \E item \in Replies :
                /\ writing.new => conv'[writing.rank].items = <<item>>
                /\ ~writing.new => /\ conv[writing.rank].items \in Seq(Items)
                                   /\ conv'[writing.rank].items = Append(conv[writing.rank].items, item)
<1> DEFINE r == writing.rank
<1>1. PICK item \in Replies : Reply(item) BY DEF ModelReplies
<1>2. /\ RankInv /\ ConvFits /\ position \in [rank : Nat \ {0}, answered : BOOLEAN]
      /\ item \in Items /\ item \notin Results /\ pc \in {"stream", "complete"}
  BY DEF Inv, RankInv, ConvFits, Items, ModelReplies, Replies, Results
<1>3. pc' = AfterModel(conv') /\ flag' = flag BY <1>1 DEF Reply
<1>4. CASE writing.new
  <2>1. Added(r, Author, item) /\ position' = [position EXCEPT !.rank = r] BY <1>1, <1>4 DEF Reply
  <2>2. r = NewRank BY <1>2, <1>4 DEF RankInv
  <2>3. r \in Int /\ r \notin DOMAIN conv /\ \A q \in DOMAIN conv : q <= r BY <1>2, <2>2, AboveAll
  <2>4. Author \in Authors BY DEF Author, Authors
  <2> HIDE DEF r
  <2>5. /\ DOMAIN conv' = DOMAIN conv \cup {r} /\ \A q \in DOMAIN conv : q # r => conv'[q] = conv[q]
        /\ conv'[r] = [by |-> Author, items |-> <<item>>]
    BY <1>2, <2>1, <2>3, <2>4, AddedIs
  <2>6. conv'[r].items = <<item>>
    <3> DEFINE t == conv'[r]
    <3>1. t = [by |-> Author, items |-> <<item>>] BY <2>5
    <3> HIDE DEF t
    <3> QED BY <3>1 DEF t
  <2>7. position'.rank = r /\ position'.answered = position.answered BY <1>2, <2>1
  <2>8. \A q \in DOMAIN conv : q # r BY <2>3
  <2> QED BY <1>3, <1>4, <2>3, <2>5, <2>6, <2>7, <2>8 DEF r
<1>5. CASE ~writing.new
  <2>1. Pushed(r, item) /\ position' = position BY <1>1, <1>5 DEF Reply
  <2>2. r \in DOMAIN conv BY <1>2, <1>5 DEF RankInv
  <2>3. conv[r].items \in Seq(Items) BY <1>2, <2>2 DEF ConvFits, Turns
  <2> DEFINE more == Append(conv[r].items, item)
  <2>4. more \in Seq(Items) BY <1>2, <2>3, LastStep
  <2>5. conv' = [conv EXCEPT ![r].items = more] BY <2>1, <2>2 DEF Pushed
  <2> HIDE DEF more, r
  <2>6. /\ DOMAIN conv' = DOMAIN conv /\ \A q \in DOMAIN conv : q # r => conv'[q] = conv[q]
        /\ conv'[r].items = more /\ \A q \in DOMAIN conv : conv'[q].by = conv[q].by
    BY <1>2, <2>2, <2>4, <2>5, PushedIs
  <2> QED BY <1>3, <1>5, <2>1, <2>2, <2>3, <2>6 DEF r, more
<1> QED BY <1>4, <1>5

LEMMA RepliesLead ==
    ASSUME Inv, conf.durable, ModelReplies
    PROVE  pc' \in {AfterLoop, "tools", "limit", "failed"}
  BY ReplyIs, LoopLeads

LEMMA LoopKeeps ==
    ASSUME Inv, NodesInv, LoopInv, Next
    PROVE  LoopInv'
<1>1. Inv' /\ NodesInv' /\ conf' = conf BY StepKeeps, NodesKeep, FixedBy
<1> SUFFICES ASSUME conf.durable, conf.agent = "react", Working'
             PROVE  /\ position'.answered => pc' = "answer"
                    /\ pc' = "llm" /\ position'.rank \in DOMAIN conv' => AwaitsStep(conv'[position'.rank])
                    /\ pc' \in {"stream", "complete"} /\ writing'.new => position'.rank \notin DOMAIN conv'
  BY <1>1 DEF LoopInv, AwaitsStep, Working
<1>2. Moved /\ pc \notin Judges \cup {"finish"} BY Moves DEF NodesInv
<1>3. Working =>
        /\ position.answered => pc = "answer"
        /\ pc = "llm" /\ position.rank \in DOMAIN conv => AwaitsStep(conv[position.rank])
        /\ pc \in {"stream", "complete"} /\ writing.new => position.rank \notin DOMAIN conv
  BY DEF LoopInv
<1>4. CASE Quiet
  <2>1. /\ UNCHANGED <<conv, position>>
        /\ \/ pc = "llm" /\ pc' = "stream" /\ (writing'.new => Continued = {})
           \/ pc = "stream" /\ pc' = "complete" /\ writing'.new = writing.new
           \/ pc = "limit" /\ pc' = "closing"
           \/ pc = "closing" /\ pc' = "closed"
    BY <1>2, <1>4 DEF Quiet, private, Judges
  <2>2. Working BY <2>1 DEF Working, Over
  <2>3. ASSUME Continued = {}, pc = "llm" PROVE position.rank \notin DOMAIN conv
    <3>1. position.rank \in DOMAIN conv => position.rank \in Continued BY <1>3, <2>2, <2>3 DEF Continued
    <3> QED BY <2>3, <3>1
  <2> QED BY <1>3, <2>1, <2>2, <2>3
<1>5. CASE Enters BY <1>1, <1>5, EntersAt
<1>6. CASE ModelReplies
  <2>1. pc \in {"stream", "complete"} BY <1>6 DEF ModelReplies
  <2>2. ~position.answered BY <1>3, <2>1 DEF Working, Over
  <2>3. ~position'.answered BY <1>6, <2>2, ReplyIs
  <2>4. pc' \in {"answer", "tools", "limit", "failed"} BY <1>6, RepliesLead DEF AfterLoop
  <2> QED BY <2>3, <2>4
<1>7. CASE CallsAnswered
  <2>1. pc \in {"tools", "limit"} /\ pc' \in {AfterTools, AfterLimit} BY <1>7 DEF CallsAnswered, Answers
  <2>2. ~position.answered BY <1>3, <2>1 DEF Working, Over
  <2>3. pc' \in {"llm", "answer"} BY <2>1 DEF AfterTools, AfterLimit, AfterLoop
  <2>4. position' = position /\ AwaitsStep(conv'[position.rank]) BY <1>7, LastAwaits
  <2> QED BY <2>2, <2>3, <2>4
<1>8. CASE pc = "closed" /\ Cuts
  <2>1. ~position.answered BY <1>3, <1>8 DEF Working, Over
  <2>2. position' = position /\ pc' = AfterLimit BY <1>8 DEF Cuts
  <2>3. AtClosing(<<"refused", "closing">>) BY <1>8 DEF Inv, ThreadInv
  <2>4. pc' = "answer" BY <2>2, <2>3 DEF AtClosing, AfterLimit, AfterLoop
  <2> QED BY <2>1, <2>2, <2>4
<1>9. ~(pc = "recorded" /\ Recorded) BY <1>2 DEF Judges
<1> QED BY <1>2, <1>4, <1>5, <1>6, <1>7, <1>8, <1>9 DEF Moved

\* The limit answers a turn that has the rounds it allows.
RefusedInv ==
    conf.durable /\ pc \in {"limit", "closing", "closed"} => Len(Among(Turn(conv).items, Results)) >= max

LEMMA RefusedKeeps ==
    ASSUME Inv, RefusedInv, Next
    PROVE  RefusedInv'
<1>1. Phased /\ conf' = conf BY Phases, FixedBy
<1> SUFFICES ASSUME conf.durable, pc' \in {"limit", "closing", "closed"}
             PROVE  Len(Among(Turn(conv').items, Results)) >= max'
  BY <1>1 DEF RefusedInv, Turn
<1>2. max' = max
  <2>1. ~Restart BY DEF Restart
  <2> QED BY <2>1, FixedBy
<1>3. CASE pc' = "limit"
  <2>1. pc' = AfterModel(conv') BY <1>1, <1>3 DEF Phased
  <2>2. AfterModel(conv') # "limit" \/ LimitReached(conv') BY DEF AfterModel, AfterLoop
  <2>3. LimitReached(conv') BY <1>3, <2>1, <2>2
  <2> QED BY <1>2, <2>3 DEF LimitReached, CompletedRounds, AnsweredRounds, Rounds
<1>4. CASE pc' # "limit"
  <2>1. Working' BY <1>4 DEF Working, Over
  <2>2. Moved BY <2>1, Moves
  <2>3. Enters => pc' \in {"llm", "check", "critique", "finish", "answer"}
    <3>1. Inv' BY StepKeeps
    <3> QED BY <3>1, RoutesNext DEF Inv, Enters, Entered, Route
  <2>4. ModelReplies => pc' \in {"answer", "check", "tools", "limit", "failed"}
    BY RepliesLead DEF AfterLoop
  <2>5. CallsAnswered \/ Cuts => pc' \in {"llm", "answer", "check"}
    BY DEF CallsAnswered, Answers, AfterTools, Cuts, AfterLimit, AfterLoop
  <2>6. Recorded => pc' \in {"llm", "critique", "finish"}
    <3>1. Inv' BY StepKeeps
    <3> QED BY <3>1, RoutesNext DEF Inv, Recorded
  <2>7. Quiet BY <1>4, <2>2, <2>3, <2>4, <2>5, <2>6 DEF Moved
  <2>8. conv' = conv /\ pc \in {"limit", "closing"} BY <1>4, <2>7 DEF Quiet, private, Judges
  <2> QED BY <1>2, <2>8 DEF RefusedInv
<1> QED BY <1>3, <1>4

FlagInv ==
    conf.durable /\ Working =>
        /\ flag \in BOOLEAN
        /\ flag => \E r \in DOMAIN conv : conv[r].by = Author /\ Limits(conv[r])
        /\ conf.agent = "react" =>
              (flag <=> /\ ~position.answered /\ position.rank \in DOMAIN conv
                        /\ Limits(conv[position.rank]))

\* One more round, answered by the limit, past those it allows.
LEMMA RefusedReaches ==
    ASSUME NEW m \in Nat, NEW items \in Seq(Items), Len(Among(items, Results)) >= m
    PROVE  Reached(Append(items, "refused"), m)
<1> DEFINE s == Among(items, Results)  more == Append(items, "refused")  t == Among(more, Results)
<1>1. "refused" \in Results /\ "refused" \in Items BY DEF Items, Results
<1>2. s \in Seq(Items) /\ t = Append(s, "refused") BY <1>1, RoundsOf
<1>3. Len(s) \in Nat /\ Len(s) + 1 \in DOMAIN t /\ t[Len(s) + 1] = "refused"
  <2> HIDE DEF s, t
  <2> QED BY <1>1, <1>2
<1>4. Len(s) + 1 > m BY <1>3
<1> QED BY <1>3, <1>4 DEF Reached

LEMMA ReplyReaches ==
    ASSUME NEW m \in Nat, NEW items \in Seq(Items), NEW item \in Replies
    PROVE  /\ Reached(Append(items, item), m) <=> Reached(items, m)
           /\ ~Reached(<<item>>, m)
<1>1. item \in Items /\ item # "refused" BY DEF Items, Replies
<1>2. Reached(Append(items, item), m) <=> Reached(items, m) BY <1>1, RoundsGrow
<1> DEFINE none == <<>>
<1>3. none \in Seq(Items) /\ Append(none, item) = <<item>> OBVIOUS
<1>4. ~Reached(none, m) BY NoRounds
<1> HIDE DEF none
<1>5. Reached(Append(none, item), m) <=> Reached(none, m) BY <1>1, <1>3, RoundsGrow
<1> QED BY <1>2, <1>3, <1>4, <1>5

\* The turn that is cut, given back.
LEMMA CutIs ==
    ASSUME Inv, RunsInv, RefusedInv, conf.durable, pc = "closed", Cuts
    PROVE  /\ position' = position /\ position.rank \in DOMAIN conv' /\ flag' = TRUE
           /\ conv'[position.rank].by = Author /\ Limits(conv'[position.rank])
           /\ pc' = AfterLoop
<1> DEFINE r == LastBy(conv, Author)  end == <<"refused", "closing">>  items == conv[r].items
<1>1. AtClosing(end) /\ Sound(thread) /\ ConvFits BY DEF Inv, ThreadInv, RankInv, ConvFits
<1>2. PICK had \in Seq(Items) \ {<<>>} : Behind(had) BY <1>1 DEF AtClosing
<1>3. /\ conf.onLimit = "End" /\ Own(Author) /\ position.rank = Len(thread) /\ thread # <<>>
      /\ Last(thread).by = Author
  BY <1>1 DEF AtClosing, Own
<1> DEFINE th == Had(had)
<1>4. /\ th \in Seq(Stored) /\ th # <<>> /\ Len(th) = Len(thread) /\ Last(th).items = had
      /\ Last(th).by = Author
  BY <1>1, <1>2, <1>3, HadIs
<1>5. conv = View(th) BY <1>2 DEF Behind
<1> HIDE DEF th
<1>6. r = Len(thread) /\ r \in DOMAIN conv /\ conv[r].by = Author BY <1>2, <1>4, <1>5, ReadOf
<1>7. items \in Seq(Items) BY <1>1, <1>6 DEF ConvFits, Turns
<1> DEFINE more == items \o end
<1>8. /\ conv' = [conv EXCEPT ![r].items = more] /\ flag' = TRUE /\ position' = position
      /\ pc' = AfterLimit
  BY <1>6 DEF Cuts
<1>9. more = Append(Append(items, "refused"), "closing") /\ more \in Seq(Items)
      /\ Append(items, "refused") \in Seq(Items)
  <2> DEFINE one == <<"refused">>
  <2>1. one \in Seq(Items) /\ "closing" \in Items /\ Append(one, "closing") = end /\ "refused" \in Items
    BY ClosingEnd DEF Items, Results
  <2>2. Append(items, "refused") = items \o one /\ Append(items, "refused") \in Seq(Items)
    <3> HIDE DEF items
    <3> QED BY <1>7, <2>1
  <2> HIDE DEF one, items, end
  <2>3. Append(items \o one, "closing") = items \o end BY <1>7, <2>1, ItemsAppend
  <2>4. items \o end \in Seq(Items) BY <1>7, <2>1, <2>2, <2>3, LastStep
  <2> QED BY <2>2, <2>3, <2>4
<1>10. max \in Nat BY DurableAgentAssumption DEF RunsInv
<1>11. Len(Among(items, Results)) >= max BY DEF RefusedInv, Turn
<1> HIDE DEF items, more, end
<1>12. Reached(Append(items, "refused"), max) BY <1>7, <1>10, <1>11, RefusedReaches
<1>13. Reached(more, max)
  <2> DEFINE one == Append(items, "refused")
  <2>1. one \in Seq(Items) /\ "closing" \in Items /\ more = Append(one, "closing") BY <1>9 DEF Items
  <2>2. Reached(one, max) BY <1>12
  <2> HIDE DEF one
  <2>3. Reached(Append(one, "closing"), max) <=> Reached(one, max) BY <1>10, <2>1, RoundsGrow
  <2> QED BY <2>1, <2>2, <2>3
<1> HIDE DEF r
<1>14. /\ DOMAIN conv' = DOMAIN conv /\ conv'[r].items = more /\ conv'[r].by = conv[r].by
  BY <1>1, <1>6, <1>8, <1>9, PushedIs
<1> QED BY <1>3, <1>6, <1>8, <1>13, <1>14 DEF Limits, AfterLimit

\* A turn the model continues is the one the call stands at.
LEMMA ContinuesItsTurn ==
    ASSUME Inv, conf.durable, pc \in {"stream", "complete"}, ~writing.new
    PROVE  writing.rank = position.rank
  BY DEF Inv, ThreadInv, AtStream, AtComplete

LEMMA FlagKeeps ==
    ASSUME Inv, RunsInv, NodesInv, LoopInv, RefusedInv, FlagInv, Next
    PROVE  FlagInv'
<1>1. Inv' /\ LoopInv' /\ conf' = conf BY StepKeeps, LoopKeeps, FixedBy
<1>2. Working' => max' = max
  <2>1. Restart => pc' = "enter" BY DEF Restart
  <2> QED BY <2>1, FixedBy DEF Working
<1>3. \A t : Working' => (Limits(t)' <=> Limits(t)) BY <1>1, <1>2 DEF Limits, Reached
<1> DEFINE Held == position.rank \in DOMAIN conv /\ Limits(conv[position.rank])
           HeldAfter == position'.rank \in DOMAIN conv' /\ Limits(conv'[position'.rank])
<1> SUFFICES ASSUME conf.durable, Working'
             PROVE  /\ flag' \in BOOLEAN
                    /\ flag' => \E r \in DOMAIN conv' : conv'[r].by = Author /\ Limits(conv'[r])
                    /\ conf.agent = "react" => (flag' <=> (~position'.answered /\ HeldAfter))
  BY <1>1, <1>2, <1>3 DEF FlagInv, Working, Limits, Reached
<1>4. Moved BY Moves
<1>5. Working =>
        /\ flag \in BOOLEAN
        /\ flag => \E r \in DOMAIN conv : conv[r].by = Author /\ Limits(conv[r])
        /\ conf.agent = "react" => (flag <=> (~position.answered /\ Held))
  BY DEF FlagInv
<1>6. max \in Nat BY DurableAgentAssumption DEF RunsInv
<1>7. CASE Quiet
  <2>1. UNCHANGED <<conv, position, flag>> BY <1>7 DEF Quiet, private
  <2>2. Working BY <1>7 DEF Quiet, Judges, Working, Over
  <2> QED BY <1>5, <2>1, <2>2
<1>8. CASE Enters
  <2>1. flag' = FALSE /\ (position'.answered \/ position'.rank \notin DOMAIN conv')
    BY <1>1, <1>8, EntersAt
  <2> QED BY <2>1
<1>9. CASE ModelReplies
  <2> DEFINE w == writing.rank
  <2>1. Working /\ pc \in {"stream", "complete"} BY <1>9 DEF ModelReplies, Working, Over
  <2>2. /\ position'.answered = position.answered /\ flag' = flag
        /\ position'.rank = IF writing.new THEN w ELSE position.rank
        /\ w \in DOMAIN conv' /\ DOMAIN conv \subseteq DOMAIN conv'
        /\ writing.new => w \notin DOMAIN conv
        /\ \A q \in DOMAIN conv : q # w => conv'[q] = conv[q]
        /\ \A q \in DOMAIN conv : conv'[q].by = conv[q].by
    BY <1>9, ReplyIs
  <2>3. ~writing.new => w = position.rank /\ w \in DOMAIN conv BY <1>9, <2>1, ContinuesItsTurn, ReplyIs
  <2>4. ASSUME writing.new PROVE ~Limits(conv'[w])
    <3>1. PICK item \in Replies : conv'[w].items = <<item>> BY <1>9, <2>4, ReplyIs
    <3>2. ~Reached(<<item>>, max)
      <4> DEFINE none == <<>>
      <4>1. none \in Seq(Items) OBVIOUS
      <4> QED BY <1>6, <4>1, ReplyReaches
    <3> QED BY <3>1, <3>2 DEF Limits
  <2>5. ASSUME ~writing.new PROVE Limits(conv'[w]) <=> Limits(conv[w])
    <3> DEFINE items == conv[w].items
    <3>1. PICK item \in Replies : items \in Seq(Items) /\ conv'[w].items = Append(items, item)
      BY <1>9, <2>5, ReplyIs
    <3>2. Reached(Append(items, item), max) <=> Reached(items, max)
      <4> HIDE DEF items
      <4> QED BY <1>6, <3>1, ReplyReaches
    <3> QED BY <3>1, <3>2 DEF Limits
  <2>6. \A q \in DOMAIN conv : Limits(conv'[q]) <=> Limits(conv[q]) BY <2>2, <2>5
  <2>7. flag' => \E r \in DOMAIN conv' : conv'[r].by = Author /\ Limits(conv'[r])
    BY <1>5, <2>1, <2>2, <2>6
  <2>8. ASSUME conf.agent = "react" PROVE flag' <=> (~position'.answered /\ HeldAfter)
    <3>1. CASE writing.new
      <4>1. position.rank \notin DOMAIN conv BY <2>1, <2>8, <3>1 DEF LoopInv
      <4> QED BY <1>5, <2>1, <2>2, <2>4, <2>8, <3>1, <4>1
    <3>2. CASE ~writing.new
      BY <1>5, <2>1, <2>2, <2>3, <2>5, <2>8, <3>2
    <3> QED BY <3>1, <3>2
  <2> QED BY <1>5, <2>1, <2>2, <2>7, <2>8
<1>10. CASE CallsAnswered
  <2> DEFINE p == position.rank
  <2>1. /\ position' = position /\ p \in DOMAIN conv /\ DOMAIN conv' = DOMAIN conv
        /\ LastBy(conv, Author) = p /\ conv[p].by = Author /\ conv[p].items \in Seq(Items)
        /\ \A q \in DOMAIN conv : q # p => conv'[q] = conv[q]
        /\ conv'[p].by = Author
    BY <1>10, LastAwaits
  <2>2. Working /\ pc \in {"tools", "limit"} BY <1>10 DEF CallsAnswered, Working, Over
  <2>3. conf.agent = "react" => ~position.answered BY <2>2 DEF LoopInv
  <2>4. CASE pc = "tools"
    <3>1. conv'[p].items = Append(conv[p].items, "ran") BY <1>10, <2>4, LastAwaits
    <3>2. flag' = flag
      <4>1. flag' = (flag \/ "ran" = "refused") BY <1>10, <2>4 DEF CallsAnswered, Answers
      <4> QED BY <1>5, <2>2, <4>1
    <3>3. "ran" \in Items /\ "ran" # "refused" BY DEF Items, Results
    <3>4. Reached(Append(conv[p].items, "ran"), max) <=> Reached(conv[p].items, max)
      <4> DEFINE items == conv[p].items
      <4>1. items \in Seq(Items) BY <2>1
      <4> HIDE DEF items
      <4>2. Reached(Append(items, "ran"), max) <=> Reached(items, max) BY <1>6, <3>3, <4>1, RoundsGrow
      <4> QED BY <4>2 DEF items
    <3>5. Limits(conv'[p]) <=> Limits(conv[p]) BY <3>1, <3>4 DEF Limits
    <3>6. \A q \in DOMAIN conv : /\ Limits(conv'[q]) <=> Limits(conv[q])
                                 /\ conv[q].by = Author => conv'[q].by = Author
      BY <2>1, <3>5
    <3> QED BY <1>5, <2>1, <2>2, <3>2, <3>6
  <2>5. CASE pc = "limit"
    <3>1. conv'[p].items = Append(conv[p].items, "refused") BY <1>10, <2>5, LastAwaits
    <3>2. flag' = TRUE
      <4>1. flag' = (flag \/ "refused" = "refused") BY <1>10, <2>5 DEF CallsAnswered, Answers
      <4> QED BY <4>1
    <3>3. Len(Among(conv[p].items, Results)) >= max BY <2>1, <2>5 DEF RefusedInv, Turn
    <3>4. Reached(Append(conv[p].items, "refused"), max) BY <1>6, <2>1, <3>3, RefusedReaches
    <3>5. conf.onLimit \in {"End", "Continue"} BY <2>5 DEF Inv, ThreadInv
    <3>6. Limits(conv'[p]) BY <3>1, <3>4, <3>5 DEF Limits
    <3> QED BY <2>1, <2>3, <3>2, <3>6
  <2> QED BY <2>2, <2>4, <2>5
<1>11. CASE pc = "closed" /\ Cuts
  <2>1. /\ position' = position /\ position.rank \in DOMAIN conv' /\ flag' = TRUE
        /\ conv'[position.rank].by = Author /\ Limits(conv'[position.rank])
    BY <1>11, CutIs
  <2>2. conf.agent = "react" => ~position.answered BY <1>11 DEF LoopInv, Working, Over
  <2> QED BY <2>1, <2>2
<1>12. CASE pc = "recorded" /\ Recorded
  <2> DEFINE w == writing.rank
  <2>1. Working /\ conf.agent # "react" BY <1>12 DEF NodesInv, Judges, Working, Over
  <2>2. Added(w, "critic", writing.item) /\ flag' = flag BY <1>12 DEF Recorded
  <2>3. w = NewRank /\ RankInv BY <1>12 DEF Inv, RankInv
  <2>4. w \notin DOMAIN conv BY <2>3, AboveAll
  <2>5. DOMAIN conv \subseteq DOMAIN conv' /\ \A q \in DOMAIN conv : q # w => conv'[q] = conv[q]
    BY <2>2 DEF Added
  <2> HIDE DEF w
  <2> QED BY <1>5, <2>1, <2>2, <2>4, <2>5
<1> QED BY <1>4, <1>7, <1>8, <1>9, <1>10, <1>11, <1>12 DEF Moved

-----------------------------------------------------------------------------
\* Where a react agent answers: at the last turn of its thread, which is completed.
AtCompletedTurn ==
    /\ thread # <<>> /\ Last(thread).status = "completed" /\ position.rank = Len(thread)
    /\ ~position.answered => Last(thread).by = Author
AnswerInv == conf.durable /\ pc = "answer" => AtCompletedTurn

LEMMA AnswerReached ==
    ASSUME Inv, conf.durable, Next, pc' = "answer"
    PROVE  \/ Enters
           \/ pc = "complete" /\ Reply(writing.item) /\ thread' = Complete(writing.rank)
           \/ pc = "closed" /\ Cuts /\ thread' = Complete(LastBy(conv, Author))
<1>1. ~Failed BY DEF Failed
<1>2. UNCHANGED conf BY FixedBy
<1>3. CASE Generate
  <2>1. ~CallModel BY DEF CallModel
  <2>2. ~OpenTurn BY <1>1 DEF OpenTurn, Stores, Streams
  <2>3. ASSUME NEW item \in Replies, Streamed(item) PROVE FALSE
    <3>1. /\ pc = "stream" /\ UNCHANGED served /\ kept' = (IF item = "call" THEN kept ELSE {})
          /\ IF item = "call" THEN Reply(item) ELSE Completes(item)
      BY <1>1, <2>3 DEF Streamed, Stores, LetsGo
    <3>2. item = "call" /\ Reply(item) /\ kept' = kept BY <3>1 DEF Completes
    <3>3. kept # {} BY <3>1 DEF Inv, ClientInv
    <3>4. pc' \in {"tools", "limit", "failed"} BY <1>2, <3>1, <3>2, <3>3, Replied DEF Inv
    <3> QED BY <3>4
  <2> QED BY <1>3, <2>1, <2>2, <2>3 DEF Generate
<1>4. ~(Restart \/ Fail \/ Lose \/ HostEnds)
  BY <1>1 DEF Restart, Fail, ModelFails, ToolFails, JudgeFails, Lose, HostEnds
<1>5. ~Critique BY <1>1 DEF Critique, Records, Goes
<1>6. CASE Step
  <2>1. ~(EnterInMemory \/ StoreInputs \/ GiveAnswer \/ Finish \/ Record \/ RecordStep \/ Close)
    BY <1>1 DEF EnterInMemory, StoreInputs, GiveAnswer, Finish, Told, Record, RecordStep, Close, Answering, Stores
  <2>2. ~RunTools BY <1>1 DEF RunTools, Answering, Stores, Answers, AfterTools
  <2>3. ~RefuseCalls BY <1>1 DEF RefuseCalls, Answering, Stores, Closes, Answers, AfterLimit
  <2>4. ~Check
    <3>1. Check => pc' # "answer" BY CheckGoes
    <3> QED BY <3>1
  <2>5. ~CompleteRecord
    <3>1. CompleteRecord => Recorded BY <1>1 DEF CompleteRecord, Stores
    <3>2. Inv' BY StepKeeps
    <3>3. Recorded => pc' \in {"llm", "critique", "finish"} BY <3>2, RoutesNext DEF Inv, Recorded
    <3> QED BY <3>1, <3>3
  <2>6. CASE EnterThread \/ FailOpenTurn
    <3>1. pc = "enter" /\ stored BY <2>6 DEF EnterThread, FailOpenTurn
    <3>2. \E th : thread' = th /\ Entered(th) BY <1>1, <2>6 DEF EnterThread, FailOpenTurn, Stores
    <3> QED BY <3>1, <3>2 DEF Enters
  <2>7. CASE CompleteTurn BY <1>1, <2>7 DEF CompleteTurn, Stores
  <2>8. CASE CompleteCut BY <1>1, <2>8 DEF CompleteCut, Stores
  <2> QED BY <1>6, <2>1, <2>2, <2>3, <2>4, <2>5, <2>6, <2>7, <2>8 DEF Step
<1> QED BY <1>3, <1>4, <1>5, <1>6 DEF Next

\* The turn that is completed, which the call stands at.
LEMMA CompletesLast ==
    ASSUME Sound(thread), Own(Author), thread' = Complete(Len(thread))
    PROVE  /\ thread' # <<>> /\ Last(thread').status = "completed" /\ Len(thread') = Len(thread)
           /\ Last(thread').by = Author
<1> DEFINE t == Last(thread)  turn == TurnOf(t, t.items, t.partial, "completed")
<1>1. thread # <<>> /\ t.by = Author /\ thread \in Seq(Stored) BY DEF Own, Sound
<1>2. t \in Stored BY <1>1, LastIsProper
<1>3. thread' = Changed(thread, turn) BY <1>1, CompleteIs
<1> HIDE DEF t
<1>4. turn \in Stored /\ turn.status = "completed" /\ turn.by = Author BY <1>1, <1>2 DEF TurnOf, Stored
<1> HIDE DEF turn
<1>5. /\ Changed(thread, turn) # <<>> /\ Last(Changed(thread, turn)) = turn
      /\ Len(Changed(thread, turn)) = Len(thread)
  BY <1>1, <1>4, ChangedIs
<1> QED BY <1>3, <1>4, <1>5

LEMMA AnswerKeeps ==
    ASSUME Inv, NodesInv, AnswerInv, Next
    PROVE  AnswerInv'
<1>1. Inv' /\ conf' = conf BY StepKeeps, FixedBy
<1> SUFFICES ASSUME conf.durable, pc' = "answer" PROVE AtCompletedTurn' BY <1>1 DEF AnswerInv
<1>2. CASE Enters
  <2>1. /\ position'.answered = Answered(thread') /\ position'.rank = StandsAt(thread')
        /\ conf.agent = "react" => pc' = IF Answered(thread') THEN "answer" ELSE "llm"
        /\ conf.agent = "critic" => pc' = EntryRoute(conv', listed')
    BY <1>1, <1>2, EntersAt
  <2>2. conf.agent \in {"react", "critic"} BY ConfIs DEF Inv
  <2>3. EntryRoute(conv', listed') # "answer" BY <1>1, RoutesNext DEF Inv
  <2>4. Answered(thread') BY <2>1, <2>2, <2>3
  <2>5. thread' # <<>> /\ Last(thread').status = "completed" /\ position'.rank = Len(thread')
    BY <2>1, <2>4 DEF Answered, StandsAt
  <2> QED BY <2>1, <2>4, <2>5 DEF AtCompletedTurn
<1>3. CASE pc = "complete" /\ Reply(writing.item) /\ thread' = Complete(writing.rank)
  <2>1. Sound(thread) /\ AtComplete BY <1>3 DEF Inv, ThreadInv
  <2>2. Own(Author) /\ writing.rank = Len(thread) /\ (~writing.new => position.rank = Len(thread))
    BY <2>1 DEF AtComplete
  <2>3. /\ thread' # <<>> /\ Last(thread').status = "completed" /\ Len(thread') = Len(thread)
        /\ Last(thread').by = Author
    BY <1>3, <2>1, <2>2, CompletesLast
  <2>4. position'.rank = Len(thread)
    <3>1. writing.item \in Replies BY <1>3 DEF Inv, RankInv, Replies
    <3>2. ModelReplies BY <1>3, <3>1 DEF ModelReplies
    <3> QED BY <2>2, <3>2, ReplyIs
  <2> QED BY <2>3, <2>4 DEF AtCompletedTurn
<1>4. CASE pc = "closed" /\ Cuts /\ thread' = Complete(LastBy(conv, Author))
  <2>1. Sound(thread) /\ AtClosing(<<"refused", "closing">>) BY <1>4 DEF Inv, ThreadInv
  <2>2. Own(Author) /\ position.rank = Len(thread) BY <2>1 DEF AtClosing
  <2>3. LastBy(conv, Author) = Len(thread) BY <2>1, ClosingRank
  <2>4. /\ thread' # <<>> /\ Last(thread').status = "completed" /\ Len(thread') = Len(thread)
        /\ Last(thread').by = Author
    BY <1>4, <2>1, <2>2, <2>3, CompletesLast
  <2>5. position' = position BY <1>4 DEF Cuts
  <2> QED BY <2>2, <2>4, <2>5 DEF AtCompletedTurn
<1> QED BY <1>2, <1>3, <1>4, AnswerReached

-----------------------------------------------------------------------------
\* The routing ends a call that holds these turns, whatever run reads them: by the
\* last of them, or by what the rule check says of it.
Ends(v, l) ==
    \/ EntryRoute(v, l) = "finish"
    \/ /\ LastKind(v, l) = "generation" /\ ~(Critiques(v, l) < conf.budget)
       /\ \/ Empty(v[LastGeneration(v, l)], conf)
          \/ /\ LastGeneration(v, l) \in DOMAIN ruling
             /\ \/ ~ruling[LastGeneration(v, l)]
                \/ ~(RevisionsInARow(v, l) < conf.revisions)
FinishInv == conf.durable /\ pc = "finish" => Ends(conv, listed)

LEMMA RoutesBy ==
    ASSUME NEW c, NEW l
    PROVE  /\ LastKind(c, l) = "generation" => EntryRoute(c, l) = "check" /\ AfterCheck(c, l) = AfterPass(c, l)
           /\ LastKind(c, l) = "critique" =>
                EntryRoute(c, l) = AfterRejection(c, l) /\ AfterCheck(c, l) = AfterRejection(c, l)
           /\ LastKind(c, l) = "revision" => AfterCheck(c, l) = "llm"
           /\ LastKind(c, l) = "acceptance" => EntryRoute(c, l) = "finish"
<1> DEFINE k == LastKind(c, l)
<1>1. EntryRoute(c, l) = CASE k = "none" -> "llm"
                           [] k = "generation" -> "check"
                           [] k = "critique" -> AfterRejection(c, l)
                           [] k = "revision" -> RevisionFound(c, l)
                           [] k = "acceptance" -> "finish"
  BY Zenon DEF EntryRoute
<1>2. AfterCheck(c, l) = CASE k = "revision" -> "llm"
                           [] k = "critique" -> AfterRejection(c, l)
                           [] k = "generation" -> AfterPass(c, l)
                           [] OTHER -> "finish"
  BY Zenon DEF AfterCheck
<1> HIDE DEF k
<1>3. /\ k = "generation" => EntryRoute(c, l) = "check" /\ AfterCheck(c, l) = AfterPass(c, l)
      /\ k = "critique" => EntryRoute(c, l) = AfterRejection(c, l) /\ AfterCheck(c, l) = AfterRejection(c, l)
      /\ k = "revision" => AfterCheck(c, l) = "llm"
      /\ k = "acceptance" => EntryRoute(c, l) = "finish"
  BY <1>1, <1>2
<1> QED BY <1>3 DEF k

\* The last of the turns decides.
LEMMA LastKindIs ==
    ASSUME NEW c, NEW l, NEW rank \in Int, \A r \in DOMAIN c : r \in Int /\ r <= rank,
           rank \in DOMAIN c, rank \in l, Kind(c[rank]) # "none"
    PROVE  LastKind(c, l) = Kind(c[rank])
<1> DEFINE S == CallTurns(c, l)
<1>1. S \in SUBSET Int /\ rank \in S /\ \A x \in S : x <= rank BY DEF CallTurns
<1> HIDE DEF S
<1>2. Max(S) \in S /\ \A x \in S : x <= Max(S) BY <1>1, MaxIs
<1>3. Max(S) = rank
  <2>1. Max(S) \in Int /\ Max(S) <= rank /\ rank <= Max(S) BY <1>1, <1>2
  <2> QED BY <2>1
<1> QED BY <1>1, <1>3 DEF LastKind, S

LEMMA EntryNext ==
    ASSUME conf' = conf
    PROVE  EntryRoute(conv, listed)' = EntryRoute(conv', listed')
<1>1. /\ AfterRejection(conv, listed)' = AfterRejection(conv', listed')
      /\ RevisionFound(conv, listed)' = RevisionFound(conv', listed')
  BY DEF AfterRejection, RevisionFound, AfterPass
<1> QED BY <1>1, Zenon DEF EntryRoute

\* A judgment that ends the call.
LEMMA RecordedEnds ==
    ASSUME Inv, conf.durable, pc = "recorded", Recorded, pc' = "finish"
    PROVE  EntryRoute(conv', listed') = "finish"
<1> DEFINE w == writing.rank  item == writing.item
<1>1. /\ Added(w, "critic", item) /\ listed' = listed \cup {w}
      /\ pc' = IF item = "acceptance" THEN AfterCritique(conv', listed') ELSE AfterCheck(conv', listed')
  BY DEF Recorded
<1>2. w = NewRank /\ item \in Judgments /\ RankInv /\ ConvFits BY DEF Inv, RankInv, ConvFits
<1>3. w \in Int /\ w \notin DOMAIN conv /\ \A q \in DOMAIN conv : q \in Int /\ q <= w BY <1>2, AboveAll
<1>4. item \in Items /\ item \in Items \ Results /\ "critic" \in Authors
  BY <1>2 DEF Items, Judgments, Results, Authors
<1> HIDE DEF w, item
<1>5. DOMAIN conv' = DOMAIN conv \cup {w} /\ conv'[w] = [by |-> "critic", items |-> <<item>>]
  BY <1>1, <1>2, <1>3, <1>4, AddedIs
<1> DEFINE t == conv'[w]
<1>6. t.by = "critic" /\ t.items = <<item>>
  <2> HIDE DEF t
  <2>1. t = [by |-> "critic", items |-> <<item>>] BY <1>5 DEF t
  <2> QED BY <2>1
<1>7. Kind(t) = item
  <2> HIDE DEF t
  <2>1. Kind(t) = IF item \in Judgments THEN item ELSE "none" BY <1>4, <1>6, KindOfOne
  <2> QED BY <1>2, <2>1
<1> DEFINE c == conv'  l == listed'
<1>8. /\ \A r \in DOMAIN c : r \in Int /\ r <= w
      /\ w \in DOMAIN c /\ w \in l /\ Kind(c[w]) = item /\ item # "none"
  BY <1>1, <1>2, <1>3, <1>5, <1>7 DEF Judgments
<1>9. pc' = IF item = "acceptance" THEN AfterCritique(c, l) ELSE AfterCheck(c, l) BY <1>1
<1> HIDE DEF c, l
<1>10. LastKind(c, l) = item BY <1>3, <1>8, LastKindIs
<1>11. EntryRoute(c, l) = "finish"
  <2>1. CASE item = "acceptance" BY <1>10, <2>1, RoutesBy
  <2>2. CASE item = "critique" BY <1>9, <1>10, <2>2, RoutesBy
  <2>3. CASE item = "revision"
    <3>1. pc' = "llm" BY <1>9, <1>10, <2>3, RoutesBy
    <3> QED BY <3>1
  <2> QED BY <1>2, <2>1, <2>2, <2>3 DEF Judgments
<1> QED BY <1>11 DEF c, l

\* The check that ends the call.
LEMMA CheckEnds ==
    ASSUME Check, pc' = "finish", LastKind(conv, listed) = "generation", conf' = conf
    PROVE  Ends(conv, listed)'
<1> DEFINE judged == LastGeneration(conv, listed)
<1>1. UNCHANGED private BY DEF Check, Records, Goes
<1>2. UNCHANGED <<conv, listed>> BY <1>1 DEF private
<1>3. AfterCheck(conv, listed) = "finish" => ~(Critiques(conv, listed) < conf.budget)
  <2>1. AfterCheck(conv, listed) = AfterPass(conv, listed) BY RoutesBy
  <2> QED BY <2>1 DEF AfterPass
<1>4. \/ Empty(conv[judged], conf) /\ ~(Critiques(conv, listed) < conf.budget)
      \/ /\ ~(Critiques(conv, listed) < conf.budget)
         /\ \E revises \in BOOLEAN :
              /\ Rules(judged, revises)
              /\ ~(revises /\ RevisionsInARow(conv, listed) < conf.revisions)
  BY <1>3 DEF Check, Records, Goes
<1>5. \A revises : Rules(judged, revises) => judged \in DOMAIN ruling' /\ ruling'[judged] = revises
  BY DEF Rules
<1> HIDE DEF judged
<1>6. /\ ~(Critiques(conv, listed) < conf.budget)
      /\ \/ Empty(conv[judged], conf)
         \/ /\ judged \in DOMAIN ruling'
            /\ ~ruling'[judged] \/ ~(RevisionsInARow(conv, listed) < conf.revisions)
  BY <1>4, <1>5
<1> QED BY <1>2, <1>6 DEF Ends, judged

LEMMA EndsKeeps ==
    ASSUME Inv, JudgeInv, NodesInv, FinishInv, Next
    PROVE  FinishInv'
<1>1. Inv' /\ conf' = conf BY StepKeeps, FixedBy
<1> SUFFICES ASSUME conf.durable, pc' = "finish" PROVE Ends(conv, listed)' BY <1>1 DEF FinishInv
<1>2. Moved BY Moves DEF Working, Over
<1>3. CASE Quiet
  <2>1. pc = "check" /\ Check BY <1>3 DEF Quiet
  <2>2. conf.agent = "critic" BY <2>1, ConfIs DEF NodesInv, Judges, Inv
  <2>3. conv = View(thread) BY <2>1 DEF Inv, ThreadInv, AtRest
  <2>4. LastKind(conv, listed) = "generation" BY <2>1, <2>2, <2>3 DEF JudgeInv, Over
  <2> QED BY <1>1, <2>1, <2>4, CheckEnds
<1>4. CASE Enters
  <2>1. /\ conf.agent = "react" => pc' = IF Answered(thread') THEN "answer" ELSE "llm"
        /\ conf.agent = "critic" => pc' = EntryRoute(conv', listed')
    BY <1>1, <1>4, EntersAt
  <2>2. conf.agent \in {"react", "critic"} BY ConfIs DEF Inv
  <2>3. EntryRoute(conv', listed') = "finish" BY <2>1, <2>2
  <2> QED BY <1>1, <2>3, EntryNext DEF Ends
<1>5. CASE ModelReplies BY <1>5, RepliesLead DEF AfterLoop
<1>6. CASE CallsAnswered \/ Cuts BY <1>6 DEF CallsAnswered, Answers, AfterTools, Cuts, AfterLimit, AfterLoop
<1>7. CASE pc = "recorded" /\ Recorded
  <2>1. EntryRoute(conv', listed') = "finish" BY <1>7, RecordedEnds
  <2> QED BY <1>1, <2>1, EntryNext DEF Ends
<1> QED BY <1>2, <1>3, <1>4, <1>5, <1>6, <1>7 DEF Moved

-----------------------------------------------------------------------------
\* What is answered, read from the thread.
ReactOut(th) == [label |-> "done", answer |-> Len(th), flag |-> Limits(Last(th))]
CriticOut(v) ==
    LET l == DOMAIN v  r == LastGeneration(v, l)
    IN [label  |-> IF LastKind(v, l) = "acceptance" THEN "validated" ELSE "exhausted",
        answer |-> IF Cut(v[r], conf) THEN 0 ELSE r,
        flag   |-> \E g \in OfKind(v, l, "generation") : Limits(v[g])]

\* A call that was answered writes no more, and each run of it reads its answer.
Given ==
    /\ stored /\ Closed
    /\ conf.agent = "react" =>
          /\ thread # <<>> /\ Last(thread).status = "completed"
          /\ pc \in {"enter", "answer"} \cup Over /\ (pc = "answer" => position.answered)
          /\ out = ReactOut(thread)
    /\ conf.agent = "critic" =>
          /\ pc \in {"enter", "check", "finish"} \cup Over
          /\ Ends(View(thread), DOMAIN View(thread)) /\ out = CriticOut(View(thread))
GivenInv == conf.durable /\ out # NoOut => Given

LEMMA ReactAnswers ==
    ASSUME Inv, FlagInv, AnswerInv, conf.durable, conf.agent = "react", GiveAnswer
    PROVE  out' = ReactOut(thread)
<1> DEFINE n == Len(thread)  r == IF position.answered THEN position.rank ELSE LastBy(conv, Author)
<1>1. /\ pc = "answer" /\ Told(r, "done", position.answered /\ ReachedInTurn(r)) BY DEF GiveAnswer
<1>2. Sound(thread) /\ AtRest /\ position.answered \in BOOLEAN BY <1>1 DEF Inv, ThreadInv, RankInv
<1>3. /\ thread # <<>> /\ Last(thread).status = "completed" /\ position.rank = n
      /\ ~position.answered => Last(thread).by = Author
  BY <1>1 DEF AnswerInv, AtCompletedTurn
<1>4. Last(thread).items # <<>> /\ thread \in Seq(Stored)
  BY <1>2, <1>3, LastIsProper DEF Proper, Sound
<1>5. /\ n \in DOMAIN conv /\ conv[n].items = Last(thread).items
      /\ Last(thread).by = Author => LastBy(conv, Author) = n
  BY <1>2, <1>3, <1>4, ReadOf DEF AtRest
<1>6. r = n BY <1>3, <1>5
<1>7. Limits(conv[n]) <=> Limits(Last(thread)) BY <1>5 DEF Limits
<1>8. ReachedInTurn(n) <=> Limits(conv[n]) BY DEF ReachedInTurn, ReachedIn, Limits, Reached, Rounds
<1> HIDE DEF r, n
<1>9. flag \in BOOLEAN /\ (flag <=> (~position.answered /\ Limits(conv[n])))
  BY <1>1, <1>3, <1>5 DEF FlagInv, Working, Over
<1>10. /\ flag' = (flag \/ (position.answered /\ ReachedInTurn(r)))
       /\ out' = [label |-> "done", answer |-> r, flag |-> flag']
  BY <1>1 DEF Told
<1>11. flag' = Limits(Last(thread))
  <2>1. Limits(Last(thread)) \in BOOLEAN BY DEF Limits
  <2>2. (flag \/ (position.answered /\ ReachedInTurn(r))) <=> Limits(Last(thread))
    BY <1>2, <1>6, <1>7, <1>8, <1>9
  <2> QED BY <1>10, <2>1, <2>2
<1> QED BY <1>6, <1>10, <1>11 DEF ReactOut, n

LEMMA CriticAnswers ==
    ASSUME Inv, JudgeInv, FlagInv, conf.durable, conf.agent = "critic", Finish
    PROVE  out' = CriticOut(View(thread))
<1> DEFINE r == LastGeneration(conv, listed)
           reached == \E g \in OfKind(conv, listed, "generation") : ReachedInTurn(g)
           limited == \E g \in OfKind(conv, listed, "generation") : Limits(conv[g])
           label == IF LastKind(conv, listed) = "acceptance" THEN "validated" ELSE "exhausted"
           answer == IF Cut(conv[r], conf) THEN 0 ELSE r
<1>1. pc = "finish" /\ Told(answer, label, reached) BY DEF Finish
<1>2. conv = View(thread) BY <1>1 DEF Inv, ThreadInv, AtRest
<1>3. listed = DOMAIN conv BY <1>1 DEF JudgeInv, Over
<1>4. \A g : ReachedInTurn(g) <=> Limits(conv[g])
  BY DEF ReachedInTurn, ReachedIn, Limits, Reached, Rounds
<1>5. reached <=> limited BY <1>4
<1>6. flag \in BOOLEAN /\ (flag => \E g \in DOMAIN conv : conv[g].by = Author /\ Limits(conv[g]))
  BY <1>1 DEF FlagInv, Working, Over
<1>7. \A g \in DOMAIN conv : conv[g].by = Author => g \in OfKind(conv, listed, "generation")
  <2>1. \A g \in DOMAIN conv : conv[g].by = Author => Kind(conv[g]) = "generation" BY DEF Kind, Author
  <2> QED BY <1>3, <2>1 DEF OfKind, CallTurns
<1>8. flag => limited BY <1>6, <1>7
<1>9. flag' = (flag \/ reached) /\ out' = [label |-> label, answer |-> answer, flag |-> flag']
  BY <1>1 DEF Told
<1>10. flag' = limited
  <2>1. (flag \/ reached) <=> limited BY <1>5, <1>8
  <2>2. limited \in BOOLEAN OBVIOUS
  <2> HIDE DEF limited, reached
  <2> QED BY <1>9, <2>1, <2>2
<1> HIDE DEF limited
<1>11. out' = [label |-> label, answer |-> answer, flag |-> limited] BY <1>9, <1>10
<1> QED BY <1>2, <1>3, <1>11 DEF CriticOut, limited

RulesKept == \A r \in DOMAIN ruling : r \in DOMAIN ruling' /\ ruling'[r] = ruling[r]
LEMMA EndsStays ==
    ASSUME conf' = conf, thread' = thread, RulesKept, Ends(View(thread), DOMAIN View(thread))
    PROVE  Ends(View(thread), DOMAIN View(thread))'
<1> PICK v : v = View(thread) OBVIOUS
<1> PICK l : l = DOMAIN v OBVIOUS
<1>1. View(thread)' = v
  <2>1. View(thread') = v OBVIOUS
  <2> QED BY <2>1 DEF View
<1>2. Ends(v, l) OBVIOUS
<1>3. (EntryRoute(v, l) = "finish") => (EntryRoute(v, l) = "finish")'
  <2>1. AfterRejection(v, l)' = AfterRejection(v, l) /\ RevisionFound(v, l)' = RevisionFound(v, l)
    BY DEF AfterRejection, RevisionFound, AfterPass
  <2>2. EntryRoute(v, l)' = EntryRoute(v, l) BY <2>1, Zenon DEF EntryRoute
  <2> QED BY <2>2
<1>4. Ends(v, l)' BY <1>2, <1>3 DEF Ends, RulesKept
<1> QED BY <1>1, <1>4

\* The check of a call that was answered: it says the same.
LEMMA CheckAgain ==
    ASSUME Check, LastKind(conv, listed) = "generation", Ends(conv, listed)
    PROVE  pc' = "finish"
<1> DEFINE judged == LastGeneration(conv, listed)
<1>1. EntryRoute(conv, listed) = "check" /\ AfterCheck(conv, listed) = AfterPass(conv, listed) BY RoutesBy
<1>2. /\ ~(Critiques(conv, listed) < conf.budget)
      /\ \/ Empty(conv[judged], conf)
         \/ /\ judged \in DOMAIN ruling
            /\ ~ruling[judged] \/ ~(RevisionsInARow(conv, listed) < conf.revisions)
  BY <1>1 DEF Ends
<1>3. AfterCheck(conv, listed) = "finish" BY <1>1, <1>2 DEF AfterPass
<1>4. IF Empty(conv[judged], conf)
      THEN IF Critiques(conv, listed) < conf.budget THEN Records("critique") ELSE Goes(AfterCheck(conv, listed))
      ELSE \E revises \in BOOLEAN :
             /\ Rules(judged, revises)
             /\ IF revises /\ RevisionsInARow(conv, listed) < conf.revisions
                THEN Records("revision") ELSE Goes(AfterCheck(conv, listed))
  BY DEF Check
<1>5. \A revises : Rules(judged, revises) /\ judged \in DOMAIN ruling => revises = ruling[judged]
  BY DEF Rules
<1> HIDE DEF judged
<1>6. Goes(AfterCheck(conv, listed)) BY <1>2, <1>4, <1>5
<1> QED BY <1>3, <1>6 DEF Goes

LEMMA CheckRules ==
    ASSUME Check
    PROVE  RulesKept
<1>1. ruling' = ruling \/ \E revises \in BOOLEAN : Rules(LastGeneration(conv, listed), revises)
  BY DEF Check
<1>2. ASSUME NEW judged, NEW revises \in BOOLEAN, Rules(judged, revises) PROVE RulesKept
  BY <1>2 DEF Rules, RulesKept
<1>3. CASE ruling' = ruling BY <1>3 DEF RulesKept
<1> QED BY <1>1, <1>2, <1>3

\* What happens to a call that was answered.
GivenMoved ==
    \/ pc' \in Over \cup {"enter"} /\ out' = out
    \/ Enters /\ out' = out
    \/ Check /\ out' = out
    \/ GiveAnswer /\ pc' = "done"
    \/ Finish /\ pc' = "done"
LEMMA GivenMoves ==
    ASSUME conf.durable, stored, Closed, pc \in {"enter", "answer", "check", "finish"} \cup Over, Next
    PROVE  GivenMoved /\ thread' = thread /\ stored' /\ RulesKept
<1>1. ~OpenTurnFound BY DEF OpenTurnFound, Closed
<1>2. pc \notin {"llm", "stream", "complete", "tools", "limit", "closing", "closed", "critique", "record",
                 "recording", "recorded"}
  BY DEF Over
<1>3. ~Generate /\ ~Critique BY <1>2 DEF Generate, CallModel, OpenTurn, Streamed, Critique
<1>4. stored' BY StoredStays
<1>5. CASE Restart BY <1>4, <1>5 DEF Restart, GivenMoved, RulesKept
<1>6. CASE Lose BY <1>4, <1>6 DEF Lose, GivenMoved, Over, RulesKept
<1>7. CASE Fail
  <2>1. Failed /\ UNCHANGED <<thread, out>> BY <1>7 DEF Fail, ModelFails, ToolFails, JudgeFails
  <2> QED BY <1>4, <2>1 DEF Failed, GivenMoved, Over, RulesKept
<1>8. ~HostEnds BY <1>1 DEF HostEnds
<1>9. CASE Step
  <2>1. ~(EnterInMemory \/ StoreInputs \/ FailOpenTurn \/ CompleteTurn \/ RunTools \/ RefuseCalls \/ Close
          \/ CompleteCut \/ Record \/ RecordStep \/ CompleteRecord)
    BY <1>1, <1>2 DEF EnterInMemory, StoreInputs, FailOpenTurn, CompleteTurn, RunTools, RefuseCalls, Close,
                      CompleteCut, Record, RecordStep, CompleteRecord
  <2>2. CASE EnterThread
    <3>1. /\ pc = "enter" /\ thread' = thread /\ out' = out /\ (Entered(thread) \/ Failed)
      BY <2>2 DEF EnterThread, Stores
    <3>2. Failed => pc' \in Over BY DEF Failed, Over
    <3>3. Entered(thread) => Enters BY <3>1 DEF Enters
    <3>4. RulesKept BY <3>1 DEF Entered, Failed, RulesKept
    <3> QED BY <1>4, <3>1, <3>2, <3>3, <3>4 DEF GivenMoved
  <2>3. CASE Check
    <3>1. thread' = thread /\ out' = out BY <2>3 DEF Check
    <3> QED BY <1>4, <2>3, <3>1, CheckRules DEF GivenMoved
  <2>4. CASE GiveAnswer \/ Finish
    <3>1. thread' = thread /\ ruling' = ruling /\ pc' = "done" BY <2>4 DEF GiveAnswer, Finish, Told
    <3> QED BY <1>4, <2>4, <3>1 DEF GivenMoved, RulesKept
  <2> QED BY <1>9, <2>1, <2>2, <2>3, <2>4 DEF Step
<1> QED BY <1>3, <1>5, <1>6, <1>7, <1>8, <1>9 DEF Next

AnsweredInv ==
    /\ BudgetInv /\ NodesInv /\ LoopInv /\ RefusedInv /\ FlagInv /\ AnswerInv /\ FinishInv
    /\ GivenInv

\* A run of a call that was answered.
LEMMA GivenKeeps ==
    ASSUME AnsweredInv, conf.durable, out # NoOut, Next, max' = max
    PROVE  Given' /\ out' = out
<1>1. /\ Inv /\ JudgeInv /\ NodesInv /\ FlagInv /\ AnswerInv /\ Given /\ Inv'
      /\ conf' = conf /\ conf.agent \in {"react", "critic"}
  BY StepKeeps, FixedBy, ConfIs DEF AnsweredInv, BudgetInv, GivenInv, Inv
<1>2. stored /\ Closed /\ pc \in {"enter", "answer", "check", "finish"} \cup Over
  BY <1>1 DEF Given
<1>3. GivenMoved /\ thread' = thread /\ stored' /\ RulesKept BY <1>2, GivenMoves
<1>4. Closed' BY <1>2, <1>3 DEF Closed
<1>5. CASE conf.agent = "react"
  <2>1. /\ thread # <<>> /\ Last(thread).status = "completed" /\ pc \in {"enter", "answer"} \cup Over
        /\ out = ReactOut(thread)
    BY <1>1, <1>5 DEF Given
  <2>2. pc' \in {"enter", "answer"} \cup Over /\ (pc' = "answer" => position'.answered) /\ out' = out
    <3>1. CASE pc' \in Over \cup {"enter"} /\ out' = out BY <3>1 DEF Over
    <3>2. CASE Enters /\ out' = out
      <4>1. /\ position'.answered = Answered(thread')
            /\ pc' = IF Answered(thread') THEN "answer" ELSE "llm"
        BY <1>1, <1>5, <3>2, EntersAt
      <4>2. Answered(thread') BY <1>3, <1>5, <2>1 DEF Answered
      <4> QED BY <3>2, <4>1, <4>2
    <3>3. ~Check /\ ~Finish BY <2>1 DEF Check, Finish, Over
    <3>4. CASE GiveAnswer /\ pc' = "done"
      <4>1. out' = ReactOut(thread) BY <1>1, <1>5, <3>4, ReactAnswers
      <4> QED BY <2>1, <3>4, <4>1 DEF Over
    <3> QED BY <1>3, <3>1, <3>2, <3>3, <3>4 DEF GivenMoved
  <2>3. ReactOut(thread)' = ReactOut(thread) BY <1>1, <1>3 DEF ReactOut, Limits, Reached
  <2> QED BY <1>1, <1>3, <1>4, <1>5, <2>1, <2>2, <2>3 DEF Given
<1>6. CASE conf.agent = "critic"
  <2> DEFINE v == View(thread)
  <2>1. pc \in {"enter", "check", "finish"} \cup Over /\ Ends(v, DOMAIN v) /\ out = CriticOut(v)
    BY <1>1, <1>6 DEF Given
  <2>2. pc' \in {"enter", "check", "finish"} \cup Over /\ out' = out
    <3>1. CASE pc' \in Over \cup {"enter"} /\ out' = out BY <3>1 DEF Over
    <3>2. CASE Enters /\ out' = out
      <4>1. pc' = EntryRoute(conv', listed') /\ conv' = View(thread') BY <1>1, <1>6, <3>2, EntersAt
      <4>2. listed' = DOMAIN conv' BY <3>2 DEF Enters, Entered
      <4>3. pc' = EntryRoute(v, DOMAIN v) BY <1>3, <4>1, <4>2
      <4>4. EntryRoute(v, DOMAIN v) \in {"check", "finish"} BY <2>1, RoutesBy DEF Ends
      <4> QED BY <3>2, <4>3, <4>4
    <3>3. CASE Check /\ out' = out
      <4>1. pc = "check" BY <3>3 DEF Check
      <4>2. conv = v BY <1>1, <4>1 DEF Inv, ThreadInv, AtRest
      <4>3. listed = DOMAIN conv /\ LastKind(v, DOMAIN v) = "generation" BY <1>1, <1>6, <4>1 DEF JudgeInv, Over
      <4>4. pc' = "finish" BY <2>1, <3>3, <4>2, <4>3, CheckAgain
      <4> QED BY <3>3, <4>4
    <3>4. ~GiveAnswer BY <2>1 DEF GiveAnswer, Over
    <3>5. CASE Finish /\ pc' = "done"
      <4>1. out' = CriticOut(v) BY <1>1, <1>6, <3>5, CriticAnswers
      <4> QED BY <2>1, <3>5, <4>1 DEF Over
    <3> QED BY <1>3, <3>1, <3>2, <3>3, <3>4, <3>5 DEF GivenMoved
  <2>3. (Ends(View(thread), DOMAIN View(thread)))' BY <1>1, <1>3, <2>1, EndsStays
  <2>4. CriticOut(View(thread))' = CriticOut(View(thread))
    BY <1>1, <1>3 DEF CriticOut, Limits, Reached, View
  <2> QED BY <1>1, <1>3, <1>4, <1>6, <2>1, <2>2, <2>3, <2>4 DEF Given
<1> QED BY <1>1, <1>5, <1>6

\* The first answer of a call.
LEMMA GivenFirst ==
    ASSUME AnsweredInv, conf.durable, out = NoOut, Next, max' = max, out' # NoOut
    PROVE  Given'
<1>1. /\ Inv /\ JudgeInv /\ NodesInv /\ FlagInv /\ AnswerInv /\ FinishInv
      /\ conf' = conf /\ conf.agent \in {"react", "critic"}
  BY FixedBy, ConfIs DEF AnsweredInv, BudgetInv, Inv
<1>2. GiveAnswer \/ Finish
  BY DEF Next, Generate, CallModel, OpenTurn, Streamed, Restart, Critique, Step, EnterInMemory,
         StoreInputs, EnterThread, FailOpenTurn, CompleteTurn, RunTools, RefuseCalls, Close,
         CompleteCut, Answering, Check, Record, RecordStep, CompleteRecord, Fail,
         ModelFails, ToolFails, JudgeFails, Lose, HostEnds, Stores
<1>3. /\ pc \in {"answer", "finish"} /\ thread' = thread /\ ruling' = ruling /\ stored' = stored /\ pc' = "done"
  BY <1>2 DEF GiveAnswer, Finish, Told
<1>4. stored /\ Closed
  BY <1>1, <1>3 DEF NodesInv, Working, Over, Inv, ThreadInv, AtRest
<1>5. stored' /\ Closed' /\ RulesKept BY <1>3, <1>4 DEF Closed, RulesKept
<1>6. CASE conf.agent = "react"
  <2>1. pc = "answer" /\ GiveAnswer BY <1>1, <1>2, <1>3, <1>6 DEF NodesInv, Finish
  <2>2. thread # <<>> /\ Last(thread).status = "completed" BY <1>1, <2>1 DEF AnswerInv, AtCompletedTurn
  <2>3. out' = ReactOut(thread) BY <1>1, <1>6, <2>1, ReactAnswers
  <2>4. ReactOut(thread)' = ReactOut(thread) BY <1>1, <1>3 DEF ReactOut, Limits, Reached
  <2> QED BY <1>1, <1>3, <1>5, <1>6, <2>2, <2>3, <2>4 DEF Given, Over
<1>7. CASE conf.agent = "critic"
  <2>1. pc = "finish" /\ Finish BY <1>1, <1>2, <1>3, <1>7 DEF NodesInv, GiveAnswer
  <2>2. conv = View(thread) /\ listed = DOMAIN conv
    BY <1>1, <1>7, <2>1 DEF Inv, ThreadInv, AtRest, JudgeInv, Over
  <2>3. Ends(View(thread), DOMAIN View(thread)) BY <1>1, <2>1, <2>2 DEF FinishInv
  <2>4. (Ends(View(thread), DOMAIN View(thread)))' BY <1>1, <1>3, <1>5, <2>3, EndsStays
  <2>5. out' = CriticOut(View(thread)) BY <1>1, <1>7, <2>1, CriticAnswers
  <2>6. CriticOut(View(thread))' = CriticOut(View(thread))
    BY <1>1, <1>3 DEF CriticOut, Limits, Reached, View
  <2> QED BY <1>1, <1>3, <1>5, <1>7, <2>4, <2>5, <2>6 DEF Given, Over
<1> QED BY <1>1, <1>6, <1>7

LEMMA AnsweredInit == Init => AnsweredInv
<1> SUFFICES ASSUME Init PROVE AnsweredInv OBVIOUS
<1>1. BudgetInv BY BudgetInit
<1>2. pc = "enter" /\ out = NoOut BY DEF Init
<1> QED BY <1>1, <1>2 DEF AnsweredInv, NodesInv, LoopInv, RefusedInv, FlagInv, AnswerInv, FinishInv, GivenInv, Working,
                         Judges

LEMMA AnsweredSame == AnsweredInv /\ UNCHANGED vars => AnsweredInv'
<1> SUFFICES ASSUME AnsweredInv, UNCHANGED vars PROVE AnsweredInv' OBVIOUS
<1>1. BudgetInv' BY BudgetSame DEF AnsweredInv
<1>2. UNCHANGED <<conf, max, thread, stored, conv, position, listed, flag, pc, writing, ruling, out>>
  BY DEF vars
<1>3. NodesInv' /\ LoopInv' /\ AnswerInv'
  BY <1>2 DEF AnsweredInv, NodesInv, LoopInv, AnswerInv, AtCompletedTurn, Working, AwaitsStep
<1>4. RefusedInv' /\ FlagInv'
  BY <1>2 DEF AnsweredInv, RefusedInv, FlagInv, Working, Limits, Reached, Turn
<1>5. FinishInv'
  <2> SUFFICES ASSUME conf.durable, pc = "finish" PROVE Ends(conv, listed)' BY <1>2 DEF FinishInv
  <2>1. Ends(conv, listed) BY DEF AnsweredInv, FinishInv
  <2>2. EntryRoute(conv, listed)' = EntryRoute(conv, listed) BY <1>2, EntryNext
  <2> QED BY <1>2, <2>1, <2>2 DEF Ends
<1>6. GivenInv'
  <2> SUFFICES ASSUME conf.durable, out # NoOut PROVE Given' BY <1>2 DEF GivenInv
  <2>1. Given BY DEF AnsweredInv, GivenInv
  <2>2. RulesKept BY <1>2 DEF RulesKept
  <2>3. ReactOut(thread)' = ReactOut(thread) BY <1>2 DEF ReactOut, Limits, Reached
  <2>4. CriticOut(View(thread))' = CriticOut(View(thread)) BY <1>2 DEF CriticOut, Limits, Reached, View
  <2>5. Ends(View(thread), DOMAIN View(thread)) => (Ends(View(thread), DOMAIN View(thread)))'
    BY <1>2, <2>2, EndsStays
  <2> QED BY <1>2, <2>1, <2>3, <2>4, <2>5 DEF Given, Closed
<1> QED BY <1>1, <1>3, <1>4, <1>5, <1>6 DEF AnsweredInv

LEMMA AnsweredStep ==
    ASSUME \A m, n \in Maxes : m = n, AnsweredInv, [Next]_vars
    PROVE  AnsweredInv' /\ (conf.durable /\ out # NoOut => out' = out)
<1>1. CASE UNCHANGED vars BY <1>1, AnsweredSame DEF vars
<1>2. CASE Next
  <2>1. BudgetInv' BY <1>2, BudgetStep DEF AnsweredInv
  <2>2. max' = max BY <2>1 DEF AnsweredInv, BudgetInv, RunsInv
  <2>3. Inv /\ RunsInv /\ JudgeInv BY DEF AnsweredInv, BudgetInv
  <2>4. /\ NodesInv' /\ LoopInv' /\ RefusedInv' /\ FlagInv' /\ AnswerInv' /\ FinishInv'
    BY <1>2, <2>3, NodesKeep, LoopKeeps, RefusedKeeps, FlagKeeps, AnswerKeeps, EndsKeeps DEF AnsweredInv
  <2>5. conf' = conf BY <1>2, FixedBy
  <2>6. CASE conf.durable /\ out # NoOut
    <3>1. Given' /\ out' = out BY <1>2, <2>2, <2>6, GivenKeeps
    <3> QED BY <2>1, <2>4, <2>6, <3>1 DEF AnsweredInv, GivenInv
  <2>7. CASE conf.durable /\ out = NoOut
    <3>1. out' # NoOut => Given' BY <1>2, <2>2, <2>7, GivenFirst
    <3>2. GivenInv' BY <3>1 DEF GivenInv, NoOut
    <3> QED BY <2>1, <2>4, <2>7, <3>2 DEF AnsweredInv
  <2>8. CASE ~conf.durable
    <3>1. GivenInv' BY <2>5, <2>8 DEF GivenInv
    <3> QED BY <2>1, <2>4, <2>8, <3>1 DEF AnsweredInv
  <2> QED BY <2>6, <2>7, <2>8
<1> QED BY <1>1, <1>2

\* A call that was answered is answered the same by every run of it, whatever fails, is
\* lost or started again: it writes nothing more, its routing leads back to the node
\* that answers, by what its thread holds and what the rule check says again, and the
\* answer, its label and its flag are read from the thread as the first run, which
\* wrote them, kept them in memory.  The runs read the same limit of the rounds: one
\* that reads another says of the answer's turn what that limit says of it.
THEOREM AnswersAreKept == ASSUME \A m, n \in Maxes : m = n PROVE Spec => AnswerKept
<1>1. Init => AnsweredInv BY AnsweredInit
<1>2. AnsweredInv /\ [Next]_vars => AnsweredInv' BY AnsweredStep
<1>3. AnsweredInv /\ [Next]_vars => [conf.durable /\ out # NoOut => out' = out]_vars
  <2>1. ASSUME AnsweredInv, [Next]_vars PROVE conf.durable /\ out # NoOut => out' = out BY <2>1, AnsweredStep
  <2> QED BY <2>1
<1> QED BY <1>1, <1>2, <1>3, PTL DEF Spec, AnswerKept
================================================================================
