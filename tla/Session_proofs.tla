---------------------------- MODULE Session_proofs ----------------------------
(***************************************************************************)
(* Proofs about Session, for every graph, every bound and every number of  *)
(* commands, failures, crashes and resumes.                                *)
(***************************************************************************)
EXTENDS Session, Lists_proofs

-----------------------------------------------------------------------------
\* What the edges leave owed: some node of the graph, always.

LEMMA OwedAfterType ==
    ASSUME NEW S \in Seq(Superstep), NEW i \in 0 .. Len(S)
    PROVE  OwedAfter(S, i) \in SUBSET Nodes /\ OwedAfter(S, i) # {}
<1>1. CASE i = 0
  BY <1>1, SessionAssumption DEF OwedAfter
<1>2. CASE i # 0
  <2>1. S[i] \in Superstep
    BY <1>2
  <2> QED
    BY <2>1, SessionAssumption DEF OwedAfter, Superstep
<1> QED
  BY <1>1, <1>2

LEMMA OwedType == TypeOK => Owed \in SUBSET Nodes /\ Owed # {}
<1> SUFFICES ASSUME TypeOK PROVE Owed \in SUBSET Nodes /\ Owed # {}
  OBVIOUS
<1>1. steps \in Seq(Superstep) /\ Len(steps) \in 0 .. Len(steps)
  BY DEF TypeOK
<1> QED
  BY <1>1, OwedAfterType DEF Owed

\* Of the nodes owed a run, those that are ready: some, and the rest are joins.
LEMMA ReadyType ==
    ASSUME NEW owed \in SUBSET Nodes, owed # {}
    PROVE  /\ Ready(owed) \subseteq owed /\ Ready(owed) # {}
           /\ owed \ Ready(owed) \subseteq Joins
  BY DEF Ready

\* An applied superstep takes the last place of the log.
LEMMA OwedAppend ==
    ASSUME NEW S \in Seq(Superstep), NEW e \in Superstep
    PROVE  /\ OwedAfter(Append(S, e), Len(Append(S, e))) = IF e.owed = {} THEN {Entry} ELSE e.owed
           /\ \A i \in 0 .. Len(S) : OwedAfter(Append(S, e), i) = OwedAfter(S, i)
<1>1. Len(Append(S, e)) = Len(S) + 1 /\ Len(S) \in Nat
  OBVIOUS
<1>2. Append(S, e)[Len(S) + 1] = e /\ \A i \in 1 .. Len(S) : Append(S, e)[i] = S[i]
  OBVIOUS
<1> QED
  BY <1>1, <1>2 DEF OwedAfter

\* The cursor made of what is owed fits it.
LEMMA CursorOfOwed ==
    ASSUME NEW owed, owed # {}
    PROVE  Fits(At(Ready(owed), owed \ Ready(owed)), owed)
<1>1. Ready(owed) # {}
  BY DEF Ready
<1>2. At(Ready(owed), owed \ Ready(owed)) # NoCursor
  <2>1. At(Ready(owed), owed \ Ready(owed)).active # {}
    BY <1>1 DEF At
  <2> QED
    BY <2>1 DEF NoCursor
<1> QED
  BY <1>2 DEF Fits

\* A cursor made of what is owed, and the cursor of what is owed next.
LEMMA NextSetsFollow ==
    ASSUME NEW A \in SUBSET Nodes, NEW P \in SUBSET Nodes,
           TypeOK, active = Ready(Owed), deferred = Owed \ active
    PROVE  LET owed == (Owed \ active) \cup P
           IN NextSets(P) = At(Ready(owed), owed \ Ready(owed))
<1> DEFINE owed == (Owed \ active) \cup P
<1>1. P \cup deferred = owed
  OBVIOUS
<1>2. CASE owed \ Joins = {}
  <2>1. Ready(owed) = owed
    BY <1>2 DEF Ready
  <2> QED
    BY <1>1, <1>2, <2>1 DEF NextSets, At
<1>3. CASE owed \ Joins # {}
  <2>1. Ready(owed) = owed \ Joins
    BY <1>3 DEF Ready
  <2>2. owed \ Ready(owed) = owed \cap Joins
    BY <2>1
  <2> QED
    BY <1>1, <1>3, <2>1, <2>2 DEF NextSets, At
<1> QED
  BY <1>2, <1>3

-----------------------------------------------------------------------------
\* Types.

Kept == [steps : Seq(Superstep), inputs : Seq(Command), cursor : Cursor,
         pending : SUBSET Nodes]

\* A session out of its runs holds a cursor, no node of a run, and the
\* checkpoint the host keeps.
LEMMA AbsorbType ==
    ASSUME TypeOK, NEW x \in {"gone", "waiting"}, NEW STATE at, at \in Cursor, Absorb(x, at),
           steps' \in Seq(Superstep), inputs' \in Seq(Command), pending' \in SUBSET Nodes
    PROVE  /\ pc' \in {"idle", "waiting", "gone"}
           /\ cursor' \in Cursor /\ active' = {} /\ deferred' \in SUBSET Nodes
           /\ body' \in [Nodes -> {"none", "running", "done", "failed"}]
           /\ held' \in Seq(Command) /\ pause' \in BOOLEAN /\ kept' \in Kept
<1>1. /\ pc' \in {"idle", "waiting", "gone"} /\ active' = {} /\ deferred' = {}
      /\ body' = NoBodies /\ held' = <<>> /\ pause' = FALSE /\ cursor' = at
  BY DEF Absorb, Leave
<1>2. kept' \in Kept
  BY DEF Absorb, Kept
<1>3. NoBodies \in [Nodes -> {"none", "running", "done", "failed"}]
  BY DEF NoBodies
<1>4. <<>> \in Seq(Command)
  OBVIOUS
<1> QED
  BY <1>1, <1>2, <1>3, <1>4

LEMMA CursorType == NoCursor \in Cursor /\ (TypeOK => At(active, deferred) \in Cursor)
  BY DEF NoCursor, At, Cursor, TypeOK

\* A run starts on a node: the cursor's or the entry.
LEMMA StartRunType ==
    ASSUME TypeOK, cursor # NoCursor => cursor.active # {}, StartRun
    PROVE  /\ pc' = "head" /\ cursor' \in Cursor
           /\ active' \in SUBSET Nodes /\ active' # {} /\ deferred' \in SUBSET Nodes
           /\ body' \in [Nodes -> {"none", "running", "done", "failed"}]
           /\ held' \in Seq(Command) /\ pause' \in BOOLEAN
<1>1. cursor \in Cursor
  BY DEF TypeOK
<1>2. cursor.active \in SUBSET Nodes /\ cursor.deferred \in SUBSET Nodes
  BY <1>1 DEF Cursor
<1>3. active' \in SUBSET Nodes /\ active' # {} /\ deferred' \in SUBSET Nodes
  BY <1>2, SessionAssumption DEF StartRun
<1> QED
  BY <1>3, CursorType DEF StartRun, TypeOK

\* Taking the first command leaves commands.
LEMMA TailType ==
    ASSUME TypeOK, queue # <<>>
    PROVE  Head(queue) \in Command /\ Tail(queue) \in Seq(Command)
  BY DEF TypeOK

LEMMA ConcatType ==
    ASSUME TypeOK
    PROVE  inputs \o held \in Seq(Command)
  BY DEF TypeOK

LEMMA CancelledType ==
    ASSUME TypeOK, Cancelled
    PROVE  /\ pc' \in {"idle", "waiting", "gone"}
           /\ cursor' \in Cursor /\ active' = {} /\ deferred' \in SUBSET Nodes
           /\ body' \in [Nodes -> {"none", "running", "done", "failed"}]
           /\ held' \in Seq(Command) /\ pause' \in BOOLEAN /\ kept' \in Kept
           /\ paused' \in BOOLEAN /\ inputs' \in Seq(Command)
           /\ UNCHANGED <<steps, pending, returned>>
<1>1. /\ UNCHANGED <<steps, pending, returned>> /\ paused' \in BOOLEAN
      /\ inputs' \in Seq(Command) /\ Absorb("gone", At(active, deferred))
  BY ConcatType DEF Cancelled, TypeOK
<1>2. steps' \in Seq(Superstep) /\ pending' \in SUBSET Nodes
  BY <1>1 DEF TypeOK
<1> QED
  BY <1>1, <1>2, CursorType, AbsorbType

LEMMA FailedType ==
    ASSUME TypeOK, Failed, pending' \in SUBSET Nodes
    PROVE  /\ pc' \in {"idle", "waiting", "gone"}
           /\ cursor' \in Cursor /\ active' = {} /\ deferred' \in SUBSET Nodes
           /\ body' \in [Nodes -> {"none", "running", "done", "failed"}]
           /\ held' \in Seq(Command) /\ pause' \in BOOLEAN /\ kept' \in Kept
           /\ inputs' \in Seq(Command)
           /\ UNCHANGED <<steps, paused, queue>>
<1>1. /\ UNCHANGED <<steps, paused, queue>>
      /\ inputs' \in Seq(Command) /\ Absorb("gone", At(active, deferred))
  BY ConcatType DEF Failed, TypeOK
<1>2. steps' \in Seq(Superstep)
  BY <1>1 DEF TypeOK
<1> QED
  BY <1>1, <1>2, CursorType, AbsorbType

LEMMA NextSetsType ==
    ASSUME NEW P \in SUBSET Nodes, TypeOK
    PROVE  /\ NextSets(P) \in Cursor
           /\ NextSets(P) # NoCursor => NextSets(P).active # {}
  BY DEF NextSets, At, NoCursor, Cursor, TypeOK

\* The cursor of a session out of its runs names a node, unless it is none.
LEMMA CursorNamesNode ==
    ASSUME TypeOK, CursorFitsState, pc \in {"idle", "waiting"}, cursor # NoCursor
    PROVE  cursor.active # {}
<1>1. cursor = At(Ready(Owed), Owed \ Ready(Owed))
  BY DEF CursorFitsState, Fits
<1>2. Ready(Owed) # {}
  BY OwedType, ReadyType
<1> QED
  BY <1>1, <1>2 DEF At

\* The types hold initially and every step keeps them.
LEMMA InitType == Init => TypeOK
<1> SUFFICES ASSUME Init PROVE TypeOK
  OBVIOUS
<1>1. NoBodies \in [Nodes -> {"none", "running", "done", "failed"}]
  BY DEF NoBodies
<1>2. kept \in Kept
  BY CursorType DEF Init, Kept
<1>3. <<>> \in Seq(Command) /\ <<>> \in Seq(Superstep)
  OBVIOUS
<1> QED
  BY <1>1, <1>2, <1>3, CursorType DEF Init, TypeOK, Kept, InRun

LEMMA StepType ==
    ASSUME TypeOK, CursorFitsState, Next
    PROVE  TypeOK'
<1> USE DEF Kept
<1>1. CASE StartStep
  <2>1. body' \in [Nodes -> {"none", "running", "done", "failed"}]
    BY <1>1 DEF StartStep, FirstPoll
  <2>2. <<>> \in Seq(Command) /\ asked' \in BOOLEAN
    BY <1>1 DEF StartStep
  <2> QED
    BY <1>1, <2>1, <2>2 DEF StartStep, TypeOK, InRun, session, state
<1>2. CASE StepDone
  BY <1>2 DEF StepDone, TypeOK, InRun, session, state, run, history
<1>3. CASE TakeInput
  <2>1. held' \in Seq(Command) /\ queue' \in Seq(Command)
    BY <1>3, TailType DEF TakeInput, Is, TypeOK
  <2> QED
    BY <1>3, <2>1 DEF TakeInput, TypeOK, session, state, history
<1>4. CASE TakePause
  <2>1. queue' \in Seq(Command) /\ pause' \in BOOLEAN
    BY <1>4, TailType DEF TakePause, Is, TypeOK
  <2> QED
    BY <1>4, <2>1 DEF TakePause, TypeOK, session, state, history
<1>5. CASE TakeCancel
  <2>1. queue' \in Seq(Command)
    BY <1>5, TailType DEF TakeCancel, Is
  <2> QED
    BY <1>5, <2>1, CancelledType DEF TakeCancel, TypeOK, InRun
<1>6. CASE DrainDone
  BY <1>6 DEF DrainDone, TypeOK, InRun, session, state, run, history
<1>7. CASE StepFails
  <2>1. pending' \in SUBSET Nodes /\ returned' \in SUBSET Nodes
    BY <1>7 DEF StepFails, TypeOK
  <2> QED
    BY <1>7, <2>1, FailedType DEF StepFails, TypeOK, InRun
<1>8. CASE InputsOrEdgeFail
  BY <1>8, FailedType DEF InputsOrEdgeFail, TypeOK, InRun
<1>9. CASE StepEndsTwice
  BY <1>9, FailedType DEF StepEndsTwice, TypeOK, InRun
<1>10. CASE StepContinues
  <2>1. PICK T \in Chosen :
          LET next == NextSets(T \ Labels)
          IN /\ Applies(T) /\ next # NoCursor /\ pending' = DropPending
             /\ IF pause
                THEN Absorb("waiting", next) /\ paused' = TRUE
                ELSE /\ pc' = "head"
                     /\ active' = next.active /\ deferred' = next.deferred
                     /\ body' = NoBodies /\ held' = <<>>
                     /\ kept' = [steps |-> steps', inputs |-> inputs',
                                 cursor |-> next, pending |-> {}]
                     /\ UNCHANGED <<cursor, paused, pause>>
             /\ UNCHANGED <<serving, queue, expected, asked, sent>>
    BY <1>10 DEF StepContinues
  <2>2. T \ Labels \in SUBSET Nodes
    BY SessionAssumption DEF Chosen, TypeOK
  <2> DEFINE next == NextSets(T \ Labels)
  <2>3. next \in Cursor /\ next.active # {}
    BY <2>1, <2>2, NextSetsType
  <2>4. /\ steps' \in Seq(Superstep) /\ inputs' \in Seq(Command)
        /\ pending' \in SUBSET Nodes /\ returned' \in SUBSET Nodes
    <3>1. [ran |-> active, owed |-> (Owed \ active) \cup (T \ Labels)] \in Superstep
      BY <2>2, OwedType DEF Superstep, TypeOK
    <3> QED
      BY <2>1, <3>1, ConcatType DEF Applies, DropPending, TypeOK
  <2>5. CASE pause
    BY <2>1, <2>3, <2>4, <2>5, AbsorbType DEF TypeOK, InRun
  <2>6. CASE ~pause
    <3>1. next.active \in SUBSET Nodes /\ next.deferred \in SUBSET Nodes
      BY <2>3 DEF Cursor
    <3>2. kept' \in Kept
      BY <2>1, <2>3, <2>4, <2>6
    <3>3. body' \in [Nodes -> {"none", "running", "done", "failed"}]
      BY <2>1, <2>6 DEF NoBodies
    <3>4. held' \in Seq(Command)
      BY <2>1, <2>6
    <3> HIDE DEF next
    <3> QED
      BY <2>1, <2>3, <2>4, <2>6, <3>1, <3>2, <3>3, <3>4 DEF TypeOK, InRun, next
  <2> QED
    BY <2>5, <2>6
<1>11. CASE StepEnds
  <2>1. PICK T \in Chosen : /\ Applies(T) /\ pending' = {} /\ paused' = FALSE
                            /\ Absorb("waiting", NoCursor)
                            /\ UNCHANGED <<serving, queue, expected, asked, sent>>
    BY <1>11 DEF StepEnds
  <2>2. T \ Labels \in SUBSET Nodes
    BY SessionAssumption DEF Chosen, TypeOK
  <2>3. [ran |-> active, owed |-> (Owed \ active) \cup (T \ Labels)] \in Superstep
    BY <2>2, OwedType DEF Superstep, TypeOK
  <2>4. /\ steps' \in Seq(Superstep) /\ inputs' \in Seq(Command) /\ returned' = {}
    BY <2>1, <2>3, ConcatType DEF Applies, TypeOK
  <2> QED
    BY <2>1, <2>4, AbsorbType, CursorType DEF TypeOK, InRun
<1>12. CASE RunOnce \/ ServeNow
  <2>1. pc = "idle" /\ StartRun /\ serving' \in BOOLEAN
        /\ UNCHANGED <<paused, state, pending, queue, kept, history>>
    BY <1>12 DEF RunOnce, ServeNow, TypeOK
  <2> QED
    BY <2>1, StartRunType, CursorNamesNode DEF TypeOK, InRun, state, history
<1>13. CASE ServeOnInput
  BY <1>13 DEF ServeOnInput, TypeOK, InRun, state, run, history
<1>14. CASE ServeInput
  <2>1. queue' \in Seq(Command) /\ inputs' \in Seq(Command)
    BY <1>14, TailType DEF ServeInput, Is, TypeOK
  <2>2. CASE paused
    BY <1>14, <2>1, <2>2 DEF ServeInput, TypeOK, InRun, run, history
  <2>3. CASE ~paused
    <3>1. StartRun /\ pc = "waiting"
      BY <1>14, <2>3 DEF ServeInput
    <3> QED
      BY <1>14, <2>1, <3>1, StartRunType, CursorNamesNode
         DEF ServeInput, TypeOK, InRun, history
  <2> QED
    BY <2>2, <2>3
<1>15. CASE ServeRefuses
  <2>1. queue' \in Seq(Command)
    BY <1>15, TailType DEF ServeRefuses, Is
  <2> QED
    BY <1>15, <2>1, AbsorbType DEF ServeRefuses, TypeOK, InRun, state
<1>16. CASE ServePause
  BY <1>16, TailType DEF ServePause, Is, TypeOK, InRun, state, run, history
<1>17. CASE ServeResume
  <2>1. queue' \in Seq(Command)
    BY <1>17, TailType DEF ServeResume, Is
  <2>2. CASE paused
    BY <1>17, <2>1, <2>2, StartRunType, CursorNamesNode
       DEF ServeResume, TypeOK, InRun, state, history
  <2>3. CASE ~paused
    BY <1>17, <2>1, <2>3 DEF ServeResume, TypeOK, InRun, state, run, history
  <2> QED
    BY <2>2, <2>3
<1>18. CASE ServeCancel
  <2>1. queue' \in Seq(Command)
    BY <1>18, TailType DEF ServeCancel, Is
  <2> QED
    BY <1>18, <2>1, AbsorbType DEF ServeCancel, TypeOK, InRun, state, history
<1>19. CASE HostSends
  <2>1. queue' \in Seq(Command) /\ asked' \in BOOLEAN
    <3>1. PICK kind \in {"Input", "Pause", "Resume", "Cancel"}, good \in BOOLEAN :
            /\ queue' = Append(queue, [kind |-> kind,
                                       rank |-> IF kind = "Input" THEN sent' ELSE 0,
                                       good |-> good])
            /\ asked' = (asked \/ (kind = "Pause" /\ pc \in {"nodes", "drain"}))
      BY <1>19 DEF HostSends
    <3>2. sent' \in Nat
      BY <1>19 DEF HostSends, TypeOK
    <3>3. [kind |-> kind, rank |-> IF kind = "Input" THEN sent' ELSE 0, good |-> good]
              \in Command
      BY <3>2 DEF Command
    <3> QED
      BY <3>1, <3>3 DEF TypeOK
  <2>2. sent' \in Nat
    BY <1>19 DEF HostSends, TypeOK
  <2> QED
    BY <1>19, <2>1, <2>2 DEF HostSends, TypeOK, session, state, run
<1>20. CASE HostCrashes
  <2>1. /\ NoBodies \in [Nodes -> {"none", "running", "done", "failed"}]
        /\ <<>> \in Seq(Command)
    BY DEF NoBodies
  <2> QED
    BY <1>20, <2>1 DEF HostCrashes, TypeOK, InRun, session, state
<1>21. CASE Resume
  <2>1. kept.steps \in Seq(Superstep) /\ kept.inputs \in Seq(Command)
        /\ kept.cursor \in Cursor /\ kept.pending \in SUBSET Nodes
    BY DEF TypeOK
  <2>2. <<>> \in Seq(Command)
    OBVIOUS
  <2> QED
    BY <1>21, <2>1, <2>2 DEF Resume, TypeOK, InRun, run
<1>22. CASE \E n \in Nodes : NodeStep(n)
  <2>1. PICK n \in Nodes : NodeStep(n)
    BY <1>22
  <2>2. CASE NodeReturns(n)
    <3>1. body' \in [Nodes -> {"none", "running", "done", "failed"}]
      BY <2>2 DEF NodeReturns, TypeOK
    <3>2. pending' \in SUBSET Nodes /\ returned' \in SUBSET Nodes
      BY <2>2 DEF NodeReturns, TypeOK
    <3>3. kept' \in Kept
      <4>1. kept \in Kept
        BY DEF TypeOK
      <4>2. kept.pending \cup {n} \in SUBSET Nodes
        BY <4>1
      <4>3. [kept EXCEPT !.pending = @ \cup {n}] \in Kept
        BY <4>1, <4>2
      <4> QED
        BY <2>2, <4>1, <4>3 DEF NodeReturns
    <3> QED
      BY <2>2, <3>1, <3>2, <3>3 DEF NodeReturns, TypeOK, session, state
  <2>3. CASE NodeFails(n)
    <3>1. body' \in [Nodes -> {"none", "running", "done", "failed"}]
      BY <2>3 DEF NodeFails, TypeOK
    <3> QED
      BY <2>3, <3>1 DEF NodeFails, TypeOK, session, state, history
  <2> QED
    BY <2>1, <2>2, <2>3 DEF NodeStep
<1> QED
  BY <1>1, <1>2, <1>3, <1>4, <1>5, <1>6, <1>7, <1>8, <1>9, <1>10, <1>11, <1>12, <1>13,
     <1>14, <1>15, <1>16, <1>17, <1>18, <1>19, <1>20, <1>21, <1>22
     DEF Next, RunStep, ServeStep, HostStep

-----------------------------------------------------------------------------
\* The inductive invariant: beside the four properties, the checkpoint the host
\* keeps is of the same supersteps as a living session, and what it and the
\* session hold covers the nodes that returned.

KeptOwed == OwedAfter(kept.steps, Len(kept.steps))
KeptInv ==
    /\ \A i \in DOMAIN kept.steps : kept.steps[i].ran = Ready(OwedAfter(kept.steps, i - 1))
    /\ pc # "gone" => kept.steps = steps
    /\ returned \subseteq IF pc = "gone" THEN kept.pending ELSE pending
    /\ \A n \in Nodes : body[n] # "none" => n \in active

Safe == StepsFollowEdges /\ CursorFitsState /\ PendingIsOfOpenStep /\ KeptInv
IInv == TypeOK /\ Safe

LEMMA InitSafe == Init => Safe
<1> SUFFICES ASSUME Init PROVE Safe
  OBVIOUS
<1>1. Owed = {Entry} /\ KeptOwed = {Entry} /\ cursor = NoCursor /\ kept.cursor = NoCursor
  BY DEF Init, Owed, KeptOwed, OwedAfter
<1>2. CursorFitsState
  BY <1>1 DEF Init, CursorFitsState, Fits, InRun, KeptOwed
<1>3. PendingIsOfOpenStep /\ StepsFollowEdges
  BY DEF Init, PendingIsOfOpenStep, StepsFollowEdges
<1>4. KeptInv
  BY DEF Init, KeptInv, NoBodies
<1> QED
  BY <1>2, <1>3, <1>4 DEF Safe

\* A step of a run that leaves its superstep open and its nodes in place.
LEMMA RunGoesOn ==
    ASSUME IInv, pc \in InRun, pc' \in InRun, UNCHANGED <<steps, active, deferred>>,
           kept'.steps = kept.steps, kept'.cursor = kept.cursor,
           pending' \subseteq pending \cup active, kept'.pending \subseteq kept.pending \cup active,
           returned' \subseteq pending',
           \A n \in Nodes : body'[n] # "none" => n \in active
    PROVE  Safe'
<1>1. pc # "gone" /\ pc' # "gone" /\ pc' \notin {"idle", "waiting"}
  BY DEF InRun
<1>2. kept.steps = steps /\ active = Ready(Owed)
  BY <1>1 DEF IInv, Safe, KeptInv, CursorFitsState
<1>3. Owed' = Owed /\ KeptOwed' = KeptOwed /\ KeptOwed = Owed
  BY <1>2 DEF Owed, KeptOwed, OwedAfter
<1>4. StepsFollowEdges'
  BY DEF IInv, Safe, StepsFollowEdges, OwedAfter
<1>5. CursorFitsState'
  BY <1>1, <1>3 DEF IInv, Safe, CursorFitsState, KeptOwed
<1>6. PendingIsOfOpenStep'
  BY <1>1, <1>2, <1>3 DEF IInv, Safe, PendingIsOfOpenStep, KeptOwed
<1>7. KeptInv'
  BY <1>1, <1>2 DEF IInv, Safe, KeptInv, OwedAfter
<1> QED
  BY <1>4, <1>5, <1>6, <1>7 DEF Safe

\* The run returns with its superstep open: a cancel or a failure.
LEMMA RunLeaves ==
    ASSUME IInv, pc \in InRun, Absorb("gone", At(active, deferred)), steps' = steps,
           pending' \subseteq pending, returned' \subseteq pending'
    PROVE  Safe'
<1>1. /\ pc # "gone" /\ pc' \in {"idle", "gone"} /\ pc' \notin InRun
      /\ kept'.steps = steps /\ kept'.cursor = At(active, deferred)
      /\ cursor' = At(active, deferred) /\ kept'.pending = pending'
      /\ body' = NoBodies
  BY DEF InRun, Absorb, Leave
<1>2. kept.steps = steps /\ active = Ready(Owed) /\ deferred = Owed \ active
  BY <1>1 DEF IInv, Safe, KeptInv, CursorFitsState
<1>3. Owed' = Owed /\ KeptOwed' = Owed
  BY <1>1 DEF Owed, KeptOwed, OwedAfter
<1>4. Fits(At(active, deferred), Owed)
  <2>1. active # {}
    BY DEF IInv, TypeOK
  <2> QED
    BY <1>2, <2>1 DEF Fits, At, NoCursor
<1>5. StepsFollowEdges'
  BY DEF IInv, Safe, StepsFollowEdges, OwedAfter
<1>6. CursorFitsState'
  BY <1>1, <1>3, <1>4 DEF CursorFitsState, KeptOwed
<1>7. PendingIsOfOpenStep'
  BY <1>1, <1>3 DEF IInv, Safe, PendingIsOfOpenStep, KeptOwed
<1>8. KeptInv'
  <2>1. \A i \in DOMAIN kept'.steps : kept'.steps[i].ran = Ready(OwedAfter(kept'.steps, i - 1))
    BY <1>1 DEF IInv, Safe, StepsFollowEdges
  <2>2. \A n \in Nodes : body'[n] = "none"
    BY <1>1 DEF NoBodies
  <2> QED
    BY <1>1, <2>1, <2>2 DEF KeptInv
<1> QED
  BY <1>5, <1>6, <1>7, <1>8 DEF Safe

\* A session that is not in a run, over what keeps its cursor and its writes.
LEMMA SessionWaits ==
    ASSUME IInv, pc' = pc \/ (pc \in {"idle", "waiting"} /\ pc' \in {"idle", "waiting"}),
           UNCHANGED <<steps, pending, cursor, kept, returned, active, deferred, body>>
    PROVE  Safe'
<1>1. StepsFollowEdges'
  BY DEF IInv, Safe, StepsFollowEdges, OwedAfter
<1>2. CursorFitsState'
  BY DEF IInv, Safe, CursorFitsState, Owed, OwedAfter, InRun
<1>3. PendingIsOfOpenStep'
  BY DEF IInv, Safe, PendingIsOfOpenStep, Owed, OwedAfter
<1>4. KeptInv'
  BY DEF IInv, Safe, KeptInv, OwedAfter
<1> QED
  BY <1>1, <1>2, <1>3, <1>4 DEF Safe

\* A run starts where the cursor says, or at the entry when nothing else is owed.
LEMMA RunStarts ==
    ASSUME IInv, pc \in {"idle", "waiting"}, StartRun,
           UNCHANGED <<steps, pending, kept, returned>>
    PROVE  Safe'
<1>1. /\ pc' = "head" /\ pc' \in InRun /\ pc \notin InRun /\ body' = body
      /\ active' = (IF cursor = NoCursor THEN {Entry} ELSE cursor.active)
      /\ deferred' = cursor.deferred
  BY DEF StartRun, InRun
<1>2. Fits(cursor, Owed)
  BY DEF IInv, Safe, CursorFitsState
<1>3. active' = Ready(Owed) /\ deferred' = Owed \ active'
  <2>1. CASE cursor = NoCursor
    <3>1. Owed = {Entry} /\ cursor.deferred = {}
      BY <1>2, <2>1 DEF Fits, NoCursor
    <3> QED
      BY <1>1, <2>1, <3>1 DEF Ready
  <2>2. CASE cursor # NoCursor
    BY <1>1, <1>2, <2>2 DEF Fits, At
  <2> QED
    BY <2>1, <2>2
<1>4. Owed' = Owed
  BY DEF Owed, OwedAfter
<1>5. StepsFollowEdges'
  BY DEF IInv, Safe, StepsFollowEdges, OwedAfter
<1>6. CursorFitsState'
  BY <1>1, <1>3, <1>4 DEF IInv, Safe, CursorFitsState, OwedAfter
<1>7. PendingIsOfOpenStep'
  BY <1>1, <1>4 DEF IInv, Safe, PendingIsOfOpenStep, OwedAfter
<1>8. KeptInv'
  <2>1. \A n \in Nodes : body'[n] = "none"
    BY <1>1 DEF IInv, TypeOK, Safe, KeptInv
  <2> QED
    BY <1>1, <2>1 DEF IInv, Safe, KeptInv, OwedAfter
<1> QED
  BY <1>5, <1>6, <1>7, <1>8 DEF Safe

\* Serving ends between two runs.
LEMMA ServeLeaves ==
    ASSUME IInv, pc = "waiting", Absorb("gone", cursor), UNCHANGED <<steps, pending, returned>>
    PROVE  Safe'
<1>1. /\ pc' \in {"idle", "gone"} /\ pc' \notin InRun /\ kept.steps = steps
      /\ kept'.steps = steps /\ kept'.cursor = cursor /\ cursor' = cursor
      /\ kept'.pending = pending /\ body' = NoBodies
  BY DEF InRun, Absorb, Leave, IInv, Safe, KeptInv
<1>2. Owed' = Owed /\ KeptOwed' = Owed
  BY <1>1 DEF Owed, KeptOwed, OwedAfter
<1>3. Fits(cursor, Owed)
  BY DEF IInv, Safe, CursorFitsState
<1>4. StepsFollowEdges'
  BY DEF IInv, Safe, StepsFollowEdges, OwedAfter
<1>5. CursorFitsState'
  BY <1>1, <1>2, <1>3 DEF CursorFitsState, KeptOwed
<1>6. PendingIsOfOpenStep'
  BY <1>1, <1>2 DEF IInv, Safe, PendingIsOfOpenStep, KeptOwed
<1>7. KeptInv'
  <2>1. \A i \in DOMAIN kept'.steps : kept'.steps[i].ran = Ready(OwedAfter(kept'.steps, i - 1))
    BY <1>1 DEF IInv, Safe, StepsFollowEdges
  <2>2. \A n \in Nodes : body'[n] = "none"
    BY <1>1 DEF NoBodies
  <2> QED
    BY <1>1, <2>1, <2>2 DEF IInv, Safe, KeptInv
<1> QED
  BY <1>4, <1>5, <1>6, <1>7 DEF Safe

\* A superstep is applied: the log takes it, and what it leaves is owed.
LEMMA StepApplied ==
    ASSUME IInv, NEW P \in SUBSET Nodes, pc \in InRun,
           steps' = Append(steps, [ran |-> active, owed |-> (Owed \ active) \cup P])
    PROVE  /\ Owed' = IF (Owed \ active) \cup P = {} THEN {Entry} ELSE (Owed \ active) \cup P
           /\ StepsFollowEdges'
           /\ NextSets(P) = At(Ready((Owed \ active) \cup P),
                               ((Owed \ active) \cup P) \ Ready((Owed \ active) \cup P))
<1> DEFINE e == [ran |-> active, owed |-> (Owed \ active) \cup P]
<1>1. active = Ready(Owed) /\ deferred = Owed \ active
  BY DEF IInv, Safe, CursorFitsState
<1>2. e \in Superstep /\ steps \in Seq(Superstep)
  BY OwedType DEF IInv, TypeOK, Superstep
<1>3. Owed' = OwedAfter(Append(steps, e), Len(Append(steps, e)))
  BY DEF Owed, OwedAfter
<1>4. StepsFollowEdges'
  <2> SUFFICES ASSUME NEW i \in DOMAIN steps'
               PROVE  steps'[i].ran = Ready(OwedAfter(steps', i - 1))
    BY DEF StepsFollowEdges, OwedAfter
  <2>1. i \in 1 .. Len(steps) + 1 /\ Len(steps) \in Nat /\ i - 1 \in 0 .. Len(steps)
    BY <1>2
  <2>2. OwedAfter(steps', i - 1) = OwedAfter(steps, i - 1)
    BY <1>2, <2>1, OwedAppend
  <2>3. CASE i = Len(steps) + 1
    <3>1. steps'[i] = e
      BY <1>2, <2>3
    <3> QED
      BY <1>1, <2>1, <2>2, <2>3, <3>1 DEF Owed
  <2>4. CASE i # Len(steps) + 1
    <3>1. i \in DOMAIN steps /\ steps'[i] = steps[i]
      BY <1>2, <2>1, <2>4
    <3> QED
      BY <2>2, <3>1 DEF IInv, Safe, StepsFollowEdges
  <2> QED
    BY <2>3, <2>4
<1>5. NextSets(P) = At(Ready((Owed \ active) \cup P),
                       ((Owed \ active) \cup P) \ Ready((Owed \ active) \cup P))
  BY <1>1, NextSetsFollow DEF IInv, TypeOK
<1>6. Owed' = IF (Owed \ active) \cup P = {} THEN {Entry} ELSE (Owed \ active) \cup P
  <2>1. OwedAfter(Append(steps, e), Len(Append(steps, e))) = IF e.owed = {} THEN {Entry} ELSE e.owed
    BY <1>2, OwedAppend
  <2> QED
    BY <1>3, <2>1
<1> QED
  BY <1>4, <1>5, <1>6

\* And the run goes on, pauses or ends with nothing pending, on that cursor.
LEMMA AfterStep ==
    ASSUME IInv, NEW P \in SUBSET Nodes, pc \in InRun, NEW STATE next,
           steps' = Append(steps, [ran |-> active, owed |-> (Owed \ active) \cup P]),
           next = NextSets(P),
           kept'.steps = steps', kept'.cursor = next, kept'.pending = {}, pending' = {},
           returned' = {}, body' = NoBodies,
           \/ pc' = "head" /\ next # NoCursor /\ active' = next.active /\ deferred' = next.deferred
           \/ pc' \in {"idle", "waiting"} /\ cursor' = next
    PROVE  Safe'
<1> DEFINE owed == (Owed \ active) \cup P
<1>1. /\ Owed' = (IF owed = {} THEN {Entry} ELSE owed) /\ StepsFollowEdges'
      /\ next = At(Ready(owed), owed \ Ready(owed))
  BY StepApplied
<1>2. KeptOwed' = Owed'
  BY DEF Owed, KeptOwed, OwedAfter
<1>3. Fits(next, Owed')
  <2>1. CASE owed = {}
    BY <1>1, <2>1 DEF Fits, At, NoCursor, Ready
  <2>2. CASE owed # {}
    <3>1. Fits(At(Ready(owed), owed \ Ready(owed)), owed)
      BY <2>2, CursorOfOwed
    <3>2. Owed' = owed
      BY <1>1, <2>2
    <3> QED
      BY <1>1, <3>1, <3>2
  <2> QED
    BY <2>1, <2>2
<1>4. pc' = "head" => active' = Ready(Owed') /\ deferred' = Owed' \ active'
  <2> SUFFICES ASSUME pc' = "head" PROVE active' = Ready(Owed') /\ deferred' = Owed' \ active'
    OBVIOUS
  <2>1. next # NoCursor /\ active' = next.active /\ deferred' = next.deferred
    OBVIOUS
  <2> QED
    BY <1>3, <2>1 DEF Fits, At
<1>5. CursorFitsState'
  <2>1. pc' \in {"head", "idle", "waiting"} /\ (pc' \in InRun => pc' = "head")
    BY DEF InRun
  <2> QED
    BY <1>2, <1>3, <1>4, <2>1 DEF CursorFitsState, KeptOwed
<1>6. PendingIsOfOpenStep'
  BY DEF PendingIsOfOpenStep
<1>7. KeptInv'
  <2>1. \A i \in DOMAIN kept'.steps : kept'.steps[i].ran = Ready(OwedAfter(kept'.steps, i - 1))
    BY <1>1 DEF StepsFollowEdges, OwedAfter
  <2> QED
    BY <2>1 DEF KeptInv, NoBodies
<1> QED
  BY <1>1, <1>5, <1>6, <1>7 DEF Safe

LEMMA StepSafe ==
    ASSUME IInv, Next
    PROVE  Safe'
<1> USE DEF InRun
<1>1. TypeOK /\ TypeOK'
  BY StepType DEF IInv, Safe
<1>2. CASE StartStep
  <2>1. \A n \in Nodes : body'[n] # "none" => n \in active
    BY <1>2 DEF StartStep
  <2> QED
    BY <1>2, <2>1, RunGoesOn DEF StartStep, state, IInv, Safe, KeptInv
<1>3. CASE StepDone \/ DrainDone
  <2>1. /\ pc \in InRun /\ pc' \in InRun /\ pc # "gone"
        /\ UNCHANGED <<steps, active, deferred, body, pending, kept, returned>>
    BY <1>3 DEF StepDone, DrainDone, state, run, history
  <2> QED
    BY <2>1, RunGoesOn DEF IInv, Safe, KeptInv
<1>4. CASE TakeInput \/ TakePause
  <2>1. /\ pc \in InRun /\ pc' = pc /\ pc # "gone"
        /\ UNCHANGED <<steps, active, deferred, body, pending, kept, returned>>
    BY <1>4 DEF TakeInput, TakePause, Listens, state, history
  <2> QED
    BY <2>1, RunGoesOn DEF IInv, Safe, KeptInv
<1>5. CASE TakeCancel
  <2>1. /\ pc \in InRun /\ pc # "gone" /\ Absorb("gone", At(active, deferred))
        /\ UNCHANGED <<steps, pending, returned>>
    BY <1>5 DEF TakeCancel, Listens, Cancelled
  <2> QED
    BY <2>1, RunLeaves DEF IInv, Safe, KeptInv
<1>6. CASE StepFails \/ InputsOrEdgeFail \/ StepEndsTwice
  <2>1. /\ pc \in InRun /\ pc # "gone" /\ Absorb("gone", At(active, deferred))
        /\ UNCHANGED steps
    BY <1>6 DEF StepFails, InputsOrEdgeFail, StepEndsTwice, Failed
  <2>2. pending' \subseteq pending /\ returned' \subseteq pending'
    <3>1. returned \subseteq pending
      BY <2>1 DEF IInv, Safe, KeptInv
    <3> QED
      BY <1>6, <3>1 DEF StepFails, InputsOrEdgeFail, StepEndsTwice
  <2> QED
    BY <2>1, <2>2, RunLeaves
<1>7. CASE StepContinues
  <2>1. PICK T \in Chosen :
          LET next == NextSets(T \ Labels)
          IN /\ Applies(T) /\ next # NoCursor /\ pending' = DropPending
             /\ IF pause
                THEN Absorb("waiting", next) /\ paused' = TRUE
                ELSE /\ pc' = "head"
                     /\ active' = next.active /\ deferred' = next.deferred
                     /\ body' = NoBodies /\ held' = <<>>
                     /\ kept' = [steps |-> steps', inputs |-> inputs',
                                 cursor |-> next, pending |-> {}]
                     /\ UNCHANGED <<cursor, paused, pause>>
    BY <1>7 DEF StepContinues
  <2>2. T \ Labels \in SUBSET Nodes
    BY <1>1, SessionAssumption DEF Chosen, TypeOK
  <2>3. /\ pc = "settle" /\ returned' = {}
        /\ steps' = Append(steps, [ran |-> active,
                                  owed |-> (Owed \ active) \cup (T \ Labels)])
    BY <2>1 DEF Applies
  <2>4. pending' = {}
    BY <2>1, <2>3 DEF IInv, Safe, PendingIsOfOpenStep, CursorFitsState, DropPending
  <2>5. CASE pause
    <3>1. /\ pc' \in {"idle", "waiting"} /\ cursor' = NextSets(T \ Labels)
          /\ body' = NoBodies
          /\ kept' = [steps |-> steps', inputs |-> inputs',
                      cursor |-> NextSets(T \ Labels), pending |-> pending']
      BY <2>1, <2>5 DEF Absorb, Leave
    <3>2. kept'.steps = steps' /\ kept'.cursor = NextSets(T \ Labels) /\ kept'.pending = {}
      BY <2>4, <3>1
    <3> QED
      BY <2>2, <2>3, <2>4, <3>1, <3>2, AfterStep
  <2>6. CASE ~pause
    <3>1. /\ pc' = "head" /\ NextSets(T \ Labels) # NoCursor
          /\ active' = NextSets(T \ Labels).active
          /\ deferred' = NextSets(T \ Labels).deferred /\ body' = NoBodies
          /\ kept' = [steps |-> steps', inputs |-> inputs',
                      cursor |-> NextSets(T \ Labels), pending |-> {}]
      BY <2>1, <2>6
    <3>2. kept'.steps = steps' /\ kept'.cursor = NextSets(T \ Labels) /\ kept'.pending = {}
      BY <3>1
    <3> QED
      BY <2>2, <2>3, <2>4, <3>1, <3>2, AfterStep
  <2> QED
    BY <2>5, <2>6
<1>8. CASE StepEnds
  <2>1. PICK T \in Chosen : /\ Applies(T) /\ NextSets(T \ Labels) = NoCursor
                            /\ pending' = {} /\ Absorb("waiting", NoCursor)
    BY <1>8 DEF StepEnds
  <2>2. T \ Labels \in SUBSET Nodes
    BY <1>1, SessionAssumption DEF Chosen, TypeOK
  <2>3. /\ pc = "settle" /\ returned' = {}
        /\ steps' = Append(steps, [ran |-> active,
                                  owed |-> (Owed \ active) \cup (T \ Labels)])
    BY <2>1 DEF Applies
  <2>4. /\ pc' \in {"idle", "waiting"} /\ cursor' = NoCursor /\ body' = NoBodies
        /\ kept' = [steps |-> steps', inputs |-> inputs', cursor |-> NoCursor,
                    pending |-> pending']
    BY <2>1 DEF Absorb, Leave
  <2>5. kept'.steps = steps' /\ kept'.cursor = NoCursor /\ kept'.pending = {}
    BY <2>1, <2>4
  <2> QED
    BY <2>1, <2>2, <2>3, <2>4, <2>5, AfterStep
<1>9. CASE RunOnce \/ ServeNow
  BY <1>9, RunStarts DEF RunOnce, ServeNow, state, history
<1>10. CASE ServeOnInput
  BY <1>10, SessionWaits DEF ServeOnInput, state, run, history
<1>11. CASE ServeInput \/ ServeResume
  <2>1. /\ pc = "waiting" /\ UNCHANGED <<steps, pending, kept, returned>>
        /\ StartRun \/ UNCHANGED <<pc, cursor, run>>
    BY <1>11 DEF ServeInput, ServeResume, state, history
  <2>2. CASE StartRun
    BY <2>1, <2>2, RunStarts
  <2>3. CASE UNCHANGED <<pc, cursor, run>>
    BY <2>1, <2>3, SessionWaits DEF run
  <2> QED
    BY <2>1, <2>2, <2>3
<1>12. CASE ServeRefuses \/ ServeCancel
  BY <1>12, ServeLeaves DEF ServeRefuses, ServeCancel, state, history
<1>13. CASE ServePause \/ HostSends
  BY <1>13, SessionWaits DEF ServePause, HostSends, session, state, run, history
<1>14. CASE HostCrashes
  <2>1. /\ pc' = "gone" /\ UNCHANGED <<steps, kept>> /\ returned' = kept.pending
        /\ body' = NoBodies
    BY <1>14 DEF HostCrashes, state
  <2>2. StepsFollowEdges'
    BY <2>1 DEF IInv, Safe, StepsFollowEdges, OwedAfter
  <2>3. CursorFitsState' /\ PendingIsOfOpenStep'
    BY <2>1 DEF IInv, Safe, CursorFitsState, PendingIsOfOpenStep, OwedAfter
  <2>4. KeptInv'
    <3>1. \A n \in Nodes : body'[n] = "none"
      BY <2>1 DEF NoBodies
    <3> QED
      BY <2>1, <3>1 DEF IInv, Safe, KeptInv, OwedAfter
  <2> QED
    BY <2>2, <2>3, <2>4 DEF Safe
<1>15. CASE Resume
  <2>1. /\ pc' = "idle" /\ pc = "gone" /\ UNCHANGED <<kept, returned, body, active>>
        /\ steps' = kept.steps /\ cursor' = kept.cursor /\ pending' = kept.pending
    BY <1>15 DEF Resume, run
  <2>2. StepsFollowEdges'
    BY <2>1 DEF IInv, Safe, KeptInv, StepsFollowEdges, OwedAfter
  <2>3. CursorFitsState' /\ PendingIsOfOpenStep'
    BY <2>1 DEF IInv, Safe, CursorFitsState, PendingIsOfOpenStep, Owed, OwedAfter
  <2>4. KeptInv'
    BY <2>1 DEF IInv, Safe, KeptInv, OwedAfter
  <2> QED
    BY <2>2, <2>3, <2>4 DEF Safe
<1>16. CASE \E n \in Nodes : NodeStep(n)
  <2>1. PICK n \in Nodes : NodeReturns(n) \/ NodeFails(n)
    BY <1>16 DEF NodeStep
  <2>2. n \in active /\ returned \subseteq pending
    BY <2>1 DEF IInv, Safe, KeptInv, NodeReturns, NodeFails
  <2>3. \A m \in Nodes : body'[m] # "none" => m \in active
    BY <2>1, <2>2 DEF IInv, TypeOK, Safe, KeptInv, NodeReturns, NodeFails
  <2>4. CASE NodeReturns(n)
    <3>1. kept \in Kept
      BY <1>1 DEF TypeOK, Kept
    <3>2. /\ kept'.steps = kept.steps /\ kept'.cursor = kept.cursor
          /\ kept'.pending \subseteq kept.pending \cup {n}
      BY <2>4, <3>1 DEF NodeReturns, Kept
    <3> QED
      BY <2>2, <2>3, <2>4, <3>2, RunGoesOn DEF NodeReturns, state
  <2>5. CASE NodeFails(n)
    BY <2>2, <2>3, <2>5, RunGoesOn DEF NodeFails, state, history
  <2> QED
    BY <2>1, <2>4, <2>5
<1> QED
  BY <1>2, <1>3, <1>4, <1>5, <1>6, <1>7, <1>8, <1>9, <1>10, <1>11, <1>12, <1>13, <1>14,
     <1>15, <1>16 DEF Next, RunStep, ServeStep, HostStep

LEMMA StutterSafe == IInv /\ UNCHANGED vars => IInv'
<1> SUFFICES ASSUME IInv, UNCHANGED vars PROVE IInv'
  OBVIOUS
<1>1. Safe'
  BY SessionWaits DEF vars, session, state, run, history
<1>2. TypeOK'
  BY DEF IInv, TypeOK, vars, session, state, run, history
<1> QED
  BY <1>1, <1>2 DEF IInv

-----------------------------------------------------------------------------
\* The types of the session and its run hold for every graph (session/mod.rs,
\* run/loop.rs); a run always has a node to run.
THEOREM SessionInvariant == Spec => []IInv
<1>1. Init => IInv
  BY InitType, InitSafe DEF IInv
<1>2. IInv /\ [Next]_vars => IInv'
  BY StepType, StepSafe, StutterSafe DEF IInv, Safe
<1> QED
  BY <1>1, <1>2, PTL DEF Spec

THEOREM SessionTypeCorrect == Spec => []TypeOK
<1>1. IInv => TypeOK
  BY DEF IInv
<1> QED
  BY <1>1, SessionInvariant, PTL

\* Whatever fails, is cancelled, paused, lost in a crash or resumed, the
\* supersteps applied are those the edges called for (settle.rs, next_sets).
THEOREM SessionFollowsEdges == Spec => []StepsFollowEdges
<1>1. IInv => StepsFollowEdges
  BY DEF IInv, Safe
<1> QED
  BY <1>1, SessionInvariant, PTL

\* And the cursor of a run, a session or a checkpoint names what comes next
\* (cursor.rs, checkpoint.rs, Session::resume).
THEOREM SessionCursorFits == Spec => []CursorFitsState
<1>1. IInv => CursorFitsState
  BY DEF IInv, Safe
<1> QED
  BY <1>1, SessionInvariant, PTL

\* A pending entry is only ever of the superstep that is open (pending.rs,
\* drop_pending).
THEOREM SessionPendingIsOpen == Spec => []PendingIsOfOpenStep
<1>1. IInv => PendingIsOfOpenStep
  BY DEF IInv, Safe
<1> QED
  BY <1>1, SessionInvariant, PTL

\* A node of the superstep that returned is not run again for it
\* (superstep.rs, run_recorded).
THEOREM SessionNotRunAgain == Spec => NotRunAgain
<1>1. IInv /\ [Next]_vars =>
        [\A n \in Nodes : body[n] # "running" /\ body'[n] = "running" => n \notin returned]_vars
  <2> SUFFICES ASSUME IInv, Next, NEW n \in Nodes, body[n] # "running", body'[n] = "running"
               PROVE  n \notin returned
    BY DEF vars
  <2>1. CASE StartStep
    <3>1. body'[n] = IF n \in active THEN FirstPoll(n) ELSE "none"
      BY <2>1 DEF StartStep
    <3>2. n \notin pending
      BY <3>1 DEF FirstPoll
    <3> QED
      BY <2>1, <3>2 DEF StartStep, IInv, Safe, KeptInv
  <2>2. CASE \E m \in Nodes : NodeStep(m)
    BY <2>2 DEF NodeStep, NodeReturns, NodeFails, IInv, TypeOK
  <2>3. CASE body' = body
    BY <2>3
  <2>4. CASE body' = NoBodies
    BY <2>4 DEF NoBodies
  <2>5. CASE RunStep
    BY <2>1, <2>3, <2>4, <2>5
       DEF RunStep, StepDone, TakeInput, TakePause, TakeCancel, DrainDone, StepFails,
           InputsOrEdgeFail, StepContinues, StepEnds, StepEndsTwice, Cancelled, Failed,
           Absorb, Leave, run
  <2>6. CASE ServeStep
    BY <2>3, <2>4, <2>6
       DEF ServeStep, ServeInput, ServeRefuses, ServePause, ServeResume, ServeCancel,
           Absorb, Leave, StartRun, run
  <2>7. CASE HostStep
    BY <2>3, <2>4, <2>7
       DEF HostStep, RunOnce, ServeNow, ServeOnInput, HostSends, HostCrashes, Resume,
           StartRun, run
  <2> QED
    BY <2>2, <2>5, <2>6, <2>7 DEF Next
<1> QED
  BY <1>1, SessionInvariant, PTL DEF Spec, NotRunAgain

-----------------------------------------------------------------------------
\* A pause sent while the superstep is open is in the queue until it is taken.
PauseQueued == \E i \in DOMAIN queue : queue[i].kind = "Pause"
PauseInv ==
    /\ pc \in {"nodes", "drain"} /\ asked => pause \/ PauseQueued
    /\ pc = "settle" /\ asked => pause

LEMMA QueueTail ==
    ASSUME TypeOK, queue # <<>>, queue' = Tail(queue), PauseQueued, ~PauseQueued'
    PROVE  Head(queue).kind = "Pause"
<1>1. PICK i \in DOMAIN queue : queue[i].kind = "Pause"
  BY DEF PauseQueued
<1>2. CASE i = 1
  BY <1>1, <1>2 DEF TypeOK
<1>3. CASE i # 1
  <2>1. i - 1 \in DOMAIN Tail(queue) /\ Tail(queue)[i - 1] = queue[i]
    BY <1>3 DEF TypeOK
  <2> QED
    BY <1>1, <2>1 DEF PauseQueued
<1> QED
  BY <1>2, <1>3

LEMMA QueueGrows ==
    ASSUME TypeOK, NEW c \in Command, queue' = Append(queue, c)
    PROVE  PauseQueued \/ c.kind = "Pause" => PauseQueued'
<1>1. /\ Len(queue') = Len(queue) + 1 /\ DOMAIN queue = 1 .. Len(queue)
      /\ DOMAIN queue' = 1 .. Len(queue') /\ Len(queue) \in Nat
  BY DEF TypeOK
<1>2. queue'[Len(queue) + 1] = c /\ \A i \in 1 .. Len(queue) : queue'[i] = queue[i]
  BY DEF TypeOK
<1> QED
  BY <1>1, <1>2 DEF PauseQueued

LEMMA PauseStep ==
    ASSUME TypeOK, PauseInv, Next
    PROVE  PauseInv'
<1>1. CASE StartStep
  BY <1>1 DEF StartStep, PauseInv, PauseQueued
<1>2. CASE StepDone \/ DrainDone
  BY <1>2 DEF StepDone, DrainDone, PauseInv, PauseQueued, run, history
<1>3. CASE TakeInput
  BY <1>3, QueueTail DEF TakeInput, Is, PauseInv, history
<1>4. CASE TakePause
  <2>1. /\ queue # <<>> /\ queue' = Tail(queue) /\ pause' = (pause \/ Is("Pause"))
        /\ UNCHANGED <<pc, asked>> /\ pc \in {"nodes", "drain"}
    BY <1>4 DEF TakePause, Is, Listens, history
  <2>2. CASE pause \/ Is("Pause")
    BY <2>1, <2>2 DEF PauseInv
  <2>3. CASE ~pause /\ ~Is("Pause")
    BY <2>1, <2>3, QueueTail DEF PauseInv, Is
  <2> QED
    BY <2>2, <2>3
<1>5. CASE pc' \notin {"nodes", "drain", "settle"}
  BY <1>5 DEF PauseInv
<1>6. CASE HostSends
  <2>1. PICK kind \in {"Input", "Pause", "Resume", "Cancel"}, good \in BOOLEAN :
          /\ queue' = Append(queue, [kind |-> kind,
                                     rank |-> IF kind = "Input" THEN sent' ELSE 0,
                                     good |-> good])
          /\ asked' = (asked \/ (kind = "Pause" /\ pc \in {"nodes", "drain"}))
    BY <1>6 DEF HostSends
  <2> DEFINE c == [kind |-> kind, rank |-> IF kind = "Input" THEN sent' ELSE 0, good |-> good]
  <2>2. c \in Command /\ queue' = Append(queue, c) /\ c.kind = kind
    <3>1. sent' \in Nat
      BY <1>6 DEF HostSends, TypeOK
    <3> QED
      BY <2>1, <3>1 DEF Command
  <2>3. PauseQueued \/ kind = "Pause" => PauseQueued'
    <3> HIDE DEF c
    <3> QED
      BY <2>2, QueueGrows
  <2>4. UNCHANGED <<pc, pause>>
    BY <1>6 DEF HostSends, run
  <2> QED
    BY <2>1, <2>3, <2>4 DEF PauseInv
<1>7. CASE \E n \in Nodes : NodeStep(n)
  BY <1>7 DEF NodeStep, NodeReturns, NodeFails, PauseInv, PauseQueued, history
<1>8. CASE RunStep
  BY <1>1, <1>2, <1>3, <1>4, <1>5, <1>8
     DEF RunStep, TakeCancel, StepFails, InputsOrEdgeFail, StepContinues, StepEnds,
         StepEndsTwice, Cancelled, Failed, Absorb, Leave
<1>9. CASE ServeStep
  BY <1>5, <1>9
     DEF ServeStep, ServeInput, ServeRefuses, ServePause, ServeResume, ServeCancel,
         Absorb, Leave, StartRun
<1>10. CASE HostStep
  BY <1>5, <1>6, <1>10
     DEF HostStep, RunOnce, ServeNow, ServeOnInput, HostCrashes, Resume, StartRun
<1> QED
  BY <1>7, <1>8, <1>9, <1>10 DEF Next

\* A pause that reached the queue before the superstep settled stops the run
\* (loop.rs, drain_after_step).
THEOREM SessionPauseStops == Spec => PauseStops
<1>1. Init => PauseInv
  BY DEF Init, PauseInv
<1>2. TypeOK /\ PauseInv /\ [Next]_vars => PauseInv'
  <2>1. CASE UNCHANGED vars
    BY <2>1 DEF PauseInv, PauseQueued, vars, run, history
  <2> QED
    BY <2>1, PauseStep
<1>3. PauseInv /\ [Next]_vars => [pc = "settle" /\ pc' = "head" => ~asked]_vars
  <2> SUFFICES ASSUME PauseInv, Next, pc = "settle", pc' = "head"
               PROVE  ~asked
    BY DEF vars
  <2>1. StepContinues
    BY DEF Next, RunStep, ServeStep, HostStep, NodeStep, StartStep, StepDone, TakeInput,
           TakePause, TakeCancel, DrainDone, StepFails, InputsOrEdgeFail, StepEnds,
           StepEndsTwice, Listens, Failed, Absorb, Leave, RunOnce, ServeNow, ServeOnInput,
           ServeInput, ServeRefuses, ServePause, ServeResume, ServeCancel, HostSends,
           HostCrashes, Resume, NodeReturns, NodeFails
  <2>2. ~pause
    BY <2>1 DEF StepContinues, Absorb, Leave
  <2> QED
    BY <2>2 DEF PauseInv
<1> QED
  BY <1>1, <1>2, <1>3, SessionTypeCorrect, PTL DEF Spec, PauseStops
-----------------------------------------------------------------------------

-----------------------------------------------------------------------------
(***************************************************************************)
(* What InputsIn gives, by induction on the length of the queue.              *)
(***************************************************************************)
Finds(f, Q, n) ==
    f = [i \in 0..n |->
           IF i = 0 THEN <<>>
           ELSE IF Q[i].kind = "Input" THEN Append(f[i - 1], Q[i]) ELSE f[i - 1]]

LEMMA FindsIs ==
    ASSUME NEW Q, NEW n \in Nat, NEW f, Finds(f, Q, n)
    PROVE  /\ f[0] = <<>>
           /\ \A i \in 1..n : f[i] = IF Q[i].kind = "Input" THEN Append(f[i - 1], Q[i]) ELSE f[i - 1]
<1>1. \A i \in 0..n : f[i] = IF i = 0 THEN <<>>
                             ELSE IF Q[i].kind = "Input" THEN Append(f[i - 1], Q[i]) ELSE f[i - 1]
  BY DEF Finds
<1> QED BY <1>1

LEMMA FindsIsThere ==
    ASSUME NEW Q, NEW n \in Nat
    PROVE  \E f : Finds(f, Q, n)
<1> DEFINE Lacking == {m \in Nat : ~\E f : Finds(f, Q, m)}
<1> SUFFICES ASSUME Lacking # {} PROVE FALSE OBVIOUS
<1>1. PICK m \in Lacking : \A k \in Lacking : m <= k
  <2>1. Lacking \in SUBSET Nat OBVIOUS
  <2> HIDE DEF Lacking
  <2> QED BY <2>1, LeastNumber
<1>2. m \in Nat /\ ~\E f : Finds(f, Q, m) OBVIOUS
<1>3. m # 0
  <2> SUFFICES ASSUME m = 0 PROVE FALSE OBVIOUS
  <2>1. Finds([i \in 0..0 |-> <<>>], Q, 0) BY DEF Finds
  <2> QED BY <2>1, <1>2
<1>4. m - 1 \in Nat /\ m - 1 \notin Lacking BY <1>1, <1>2, <1>3
<1>5. PICK g : Finds(g, Q, m - 1) BY <1>4
<1> DEFINE f == [i \in 0..m |-> IF i = m THEN (IF Q[m].kind = "Input" THEN Append(g[m - 1], Q[m])
                                              ELSE g[m - 1])
                               ELSE g[i]]
<1>6. Finds(f, Q, m)
  <2>1. \A i \in 0..(m - 1) : f[i] = g[i] /\ i \in 0..m BY <1>2
  <2>2. \A i \in 0..m : i = m \/ i \in 0..(m - 1) BY <1>2
  <2>3. \A i \in 1..(m - 1) : i - 1 \in 0..(m - 1) BY <1>2
  <2>4. f[m] = IF Q[m].kind = "Input" THEN Append(f[m - 1], Q[m]) ELSE f[m - 1]
    BY <1>2, <1>3, <2>1
  <2>5. g[0] = <<>> /\ \A i \in 1..(m - 1) :
          g[i] = IF Q[i].kind = "Input" THEN Append(g[i - 1], Q[i]) ELSE g[i - 1]
    BY <1>4, <1>5, FindsIs
  <2>6. f = [i \in 0..m |-> f[i]] OBVIOUS
  <2> HIDE DEF f
  <2>7. f[0] = <<>> /\ \A i \in 1..(m - 1) :
          f[i] = IF Q[i].kind = "Input" THEN Append(f[i - 1], Q[i]) ELSE f[i - 1]
    BY <1>2, <1>3, <2>1, <2>3, <2>5
  <2>8. \A i \in 0..m : i = 0 \/ i = m \/ i \in 1..(m - 1) BY <1>2
  <2>9. \A i \in 0..m : f[i] = IF i = 0 THEN <<>>
                               ELSE IF Q[i].kind = "Input" THEN Append(f[i - 1], Q[i]) ELSE f[i - 1]
    BY <1>3, <2>4, <2>7, <2>8
  <2> QED BY <2>6, <2>9 DEF Finds
<1> QED BY <1>2, <1>6

\* What is found in the rest of a queue comes after what was found before it.
Stretch(P, k, Q) == k + Len(Q) <= Len(P) /\ \A i \in 1..Len(Q) : P[k + i] = Q[i]

LEMMA CommandsAppend ==
    ASSUME NEW s \in Seq(Command), NEW e \in Seq(Command), NEW c \in Command
    PROVE  Append(s \o e, c) = s \o Append(e, c)
<1> DEFINE S == Command
<1>1. s \in Seq(S) /\ e \in Seq(S) /\ c \in S OBVIOUS
<1> HIDE DEF S
<1> QED BY <1>1, AppendOfConcat

After(f, k, g, Q) == g[Len(Q)] \in Seq(Command) /\ f[k + Len(Q)] = f[k] \o g[Len(Q)]

LEMMA FindsAfter ==
    ASSUME NEW P \in Seq(Command), NEW Q \in Seq(Command), NEW k \in Nat, Stretch(P, k, Q),
           NEW f, Finds(f, P, Len(P)), NEW g, Finds(g, Q, Len(Q)), f[k] \in Seq(Command)
    PROVE  After(f, k, g, Q)
<1> DEFINE Good(i) == g[i] \in Seq(Command) /\ f[k + i] = f[k] \o g[i]
           Bad == {i \in 0..Len(Q) : ~Good(i)}
<1>1. Len(P) \in Nat /\ Len(Q) \in Nat OBVIOUS
<1>2. /\ g[0] = <<>>
      /\ \A i \in 1..Len(Q) : g[i] = IF Q[i].kind = "Input" THEN Append(g[i - 1], Q[i]) ELSE g[i - 1]
      /\ \A i \in 1..Len(P) : f[i] = IF P[i].kind = "Input" THEN Append(f[i - 1], P[i]) ELSE f[i - 1]
  BY <1>1, FindsIs
<1>3. Good(0)
  <2>1. <<>> \in Seq(Command) /\ f[k] \o <<>> = f[k] OBVIOUS
  <2> QED BY <1>2, <2>1
<1>4. ASSUME NEW i \in 1..Len(Q), Good(i - 1) PROVE Good(i)
  <2>1. k + i \in 1..Len(P) /\ k + (i - 1) = k + i - 1 /\ P[k + i] = Q[i] /\ Q[i] \in Command
    BY <1>1 DEF Stretch
  <2>2. f[k + i] = IF Q[i].kind = "Input" THEN Append(f[k + i - 1], Q[i]) ELSE f[k + i - 1]
    BY <1>2, <2>1
  <2>3. g[i - 1] \in Seq(Command) /\ f[k + i - 1] = f[k] \o g[i - 1] BY <1>4, <2>1
  <2>4. CASE Q[i].kind # "Input" BY <1>2, <2>2, <2>3, <2>4
  <2>5. CASE Q[i].kind = "Input"
    <3>1. g[i] = Append(g[i - 1], Q[i]) BY <1>2, <2>5
    <3>2. f[k + i] = Append(f[k] \o g[i - 1], Q[i]) BY <2>2, <2>3, <2>5
    <3>3. Append(f[k] \o g[i - 1], Q[i]) = f[k] \o Append(g[i - 1], Q[i]) 
      <4>1. f[k] \in Seq(Command) /\ g[i - 1] \in Seq(Command) /\ Q[i] \in Command BY <2>1, <2>3
      <4> QED BY <4>1, CommandsAppend, Zenon
    <3>4. g[i] \in Seq(Command) BY <2>1, <2>3, <3>1
    <3> QED BY <3>1, <3>2, <3>3, <3>4
  <2> QED BY <2>4, <2>5
<1>5. Bad = {}
  <2> SUFFICES ASSUME Bad # {} PROVE FALSE OBVIOUS
  <2>1. PICK m \in Bad : \A j \in Bad : m <= j
    <3> HIDE DEF Good
    <3>1. Bad \in SUBSET Nat BY <1>1
    <3> HIDE DEF Bad
    <3> QED BY <3>1, LeastNumber
  <2> HIDE DEF Good
  <2>2. m \in 0..Len(Q) /\ ~Good(m) BY <2>1
  <2>3. m # 0 BY <2>2, <1>3
  <2>4. m - 1 \in 0..Len(Q) /\ m \in 1..Len(Q) /\ ~(m <= m - 1) BY <2>2, <2>3, <1>1
  <2>5. m - 1 \notin Bad
    <3> HIDE DEF Bad
    <3> QED BY <2>1, <2>4
  <2> QED BY <2>2, <2>4, <2>5, <1>4
<1> HIDE DEF Good
<1>6. Good(Len(Q)) BY <1>1, <1>5
<1> QED BY <1>6 DEF Good, After

LEMMA InputsInIs ==
    ASSUME NEW Q, Len(Q) \in Nat
    PROVE  \E f : Finds(f, Q, Len(Q)) /\ InputsIn(Q) = f[Len(Q)]
<1> DEFINE found == CHOOSE f : Finds(f, Q, Len(Q))
<1>1. Finds(found, Q, Len(Q)) BY FindsIsThere
<1>2. InputsIn(Q) = found[Len(Q)] BY Zenon DEF InputsIn, Finds
<1> HIDE DEF found
<1> QED BY <1>1, <1>2

\* The inputs of a queue are those of its head and then those of its tail.
Only(c) == IF c.kind = "Input" THEN <<c>> ELSE <<>>

LEMMA InputsOfEmpty == InputsIn(<<>>) = <<>>
<1>1. Len(<<>>) = 0 OBVIOUS
<1>2. PICK f : Finds(f, <<>>, 0) /\ InputsIn(<<>>) = f[0] BY <1>1, InputsInIs
<1> QED BY <1>2, FindsIs

LEMMA InputsOfQueue ==
    ASSUME NEW Q \in Seq(Command)
    PROVE  /\ InputsIn(Q) \in Seq(Command)
           /\ Q # <<>> => InputsIn(Q) = Only(Head(Q)) \o InputsIn(Tail(Q))
           /\ \A c \in Command : InputsIn(Append(Q, c)) = InputsIn(Q) \o Only(c)
<1>1. PICK g : Finds(g, Q, Len(Q)) /\ InputsIn(Q) = g[Len(Q)] BY InputsInIs
<1>2. g[0] = <<>> /\ <<>> \in Seq(Command) BY <1>1, FindsIs
<1>3. InputsIn(Q) \in Seq(Command)
  <2>1. PICK k \in Nat : k = 0 OBVIOUS
  <2>2. Stretch(Q, k, Q) BY <2>1 DEF Stretch
  <2>3. g[k] \in Seq(Command) BY <1>2, <2>1
  <2>4. After(g, k, g, Q) BY <1>1, <2>2, <2>3, FindsAfter
  <2> QED BY <1>1, <2>4 DEF After
<1>4. ASSUME Q # <<>> PROVE InputsIn(Q) = Only(Head(Q)) \o InputsIn(Tail(Q))
  <2>0. PICK R : R = Tail(Q) OBVIOUS
  <2>1. /\ R \in Seq(Command) /\ Len(R) = Len(Q) - 1
        /\ \A i \in 1..Len(R) : Q[1 + i] = R[i]
        /\ Head(Q) = Q[1] /\ Head(Q) \in Command /\ 1 \in 1..Len(Q) /\ Len(Q) \in Nat
    BY <1>4, <2>0
  <2>2. PICK h : Finds(h, R, Len(R)) /\ InputsIn(R) = h[Len(R)] BY <2>1, InputsInIs
  <2>3. g[1] = Only(Head(Q))
    <3>1. g[1] = IF Q[1].kind = "Input" THEN Append(g[1 - 1], Q[1]) ELSE g[1 - 1]
      BY <1>1, <2>1, FindsIs
    <3>2. Append(<<>>, Q[1]) = <<Q[1]>> OBVIOUS
    <3>3. g[1 - 1] = <<>> BY <1>2
    <3> QED BY <2>1, <3>1, <3>2, <3>3, Zenon DEF Only
  <2>4. g[1] \in Seq(Command)
    <3>1. <<Head(Q)>> \in Seq(Command) BY <2>1
    <3> QED BY <1>2, <2>3, <3>1 DEF Only
  <2>5. PICK k \in Nat : k = 1 OBVIOUS
  <2>6. k + Len(R) = Len(Q) /\ Stretch(Q, k, R)
    <3>1. k + Len(R) = Len(Q) BY <2>1, <2>5
    <3>2. \A i \in 1..Len(R) : Q[k + i] = R[i] BY <2>1, <2>5
    <3> QED BY <2>1, <3>1, <3>2 DEF Stretch
  <2>7. g[k] \in Seq(Command) BY <2>4, <2>5
  <2>8. g[k + Len(R)] = g[k] \o h[Len(R)] 
    <3>1. R \in Seq(Command) /\ Finds(g, Q, Len(Q)) /\ Finds(h, R, Len(R)) BY <1>1, <2>1, <2>2
    <3>2. After(g, k, h, R) BY <2>6, <2>7, <3>1, FindsAfter
    <3> QED BY <3>2 DEF After
  <2>9. g[Len(Q)] = g[1] \o h[Len(R)] BY <2>5, <2>6, <2>8
  <2> QED BY <1>1, <2>0, <2>2, <2>3, <2>9
<1>5. ASSUME NEW c \in Command PROVE InputsIn(Append(Q, c)) = InputsIn(Q) \o Only(c)
  <2>0. PICK P : P = Append(Q, c) OBVIOUS
  <2>1. /\ P \in Seq(Command) /\ Len(P) = Len(Q) + 1
        /\ \A i \in 1..Len(Q) : P[i] = Q[i]
        /\ P[Len(P)] = c /\ Len(P) \in 1..Len(P) /\ Len(Q) \in Nat
    BY <2>0
  <2>2. PICK f : Finds(f, P, Len(P)) /\ InputsIn(P) = f[Len(P)] BY <2>1, InputsInIs
  <2>3. f[0] = <<>> BY <2>1, <2>2, FindsIs
  <2>4. PICK k \in Nat : k = 0 OBVIOUS
  <2>5. k + Len(Q) = Len(Q) /\ Stretch(P, k, Q) BY <2>1, <2>4 DEF Stretch
  <2>6. f[Len(Q)] = InputsIn(Q)
    <3>1. f[k] = <<>> /\ f[k] \in Seq(Command) BY <1>2, <2>3, <2>4
    <3>2. f[k + Len(Q)] = f[k] \o g[Len(Q)]
      <4>1. P \in Seq(Command) /\ Finds(f, P, Len(P)) /\ Finds(g, Q, Len(Q)) BY <1>1, <2>1, <2>2
      <4>2. After(f, k, g, Q) BY <2>5, <3>1, <4>1, FindsAfter
      <4> QED BY <4>2 DEF After
    <3>3. f[Len(Q)] = <<>> \o InputsIn(Q) BY <1>1, <2>5, <3>1, <3>2
    <3> QED BY <1>3, <3>3
  <2>7. f[Len(P)] = IF c.kind = "Input" THEN Append(f[Len(Q)], c) ELSE f[Len(Q)]
    <3>1. Len(P) - 1 = Len(Q) BY <2>1
    <3>2. f[Len(P)] = IF P[Len(P)].kind = "Input" THEN Append(f[Len(P) - 1], P[Len(P)])
                      ELSE f[Len(P) - 1]
      BY <2>1, <2>2, FindsIs
    <3> QED BY <2>1, <3>1, <3>2
  <2>8. CASE c.kind = "Input"
    <3>1. Append(InputsIn(Q), c) = InputsIn(Q) \o <<c>> BY <1>3
    <3> QED BY <2>2, <2>6, <2>7, <2>8, <2>0, <3>1 DEF Only
  <2>9. CASE c.kind # "Input"
    <3>1. InputsIn(Q) \o <<>> = InputsIn(Q) BY <1>3
    <3> QED BY <2>2, <2>6, <2>7, <2>9, <2>0, <3>1 DEF Only
  <2> QED BY <2>8, <2>9
<1> QED BY <1>3, <1>4, <1>5

-----------------------------------------------------------------------------
(***************************************************************************)
(* The inputs a host sent are in the state, held by the superstep that is      *)
(* open, or in the channel; only an open superstep holds any.                 *)
(***************************************************************************)
Open == {"nodes", "drain", "settle"}
InputInv ==
    /\ InputsKept
    /\ pc \notin Open => held = <<>>

InputTypes ==
    /\ inputs \in Seq(Command) /\ held \in Seq(Command) /\ queue \in Seq(Command)
    /\ pc # "gone" => expected = (inputs \o held) \o InputsIn(queue)
    /\ pc \notin Open => held = <<>>

LEMMA InputTypesHold == TypeOK /\ InputInv => InputTypes
  BY DEF TypeOK, InputInv, InputsKept, InputTypes

\* The superstep gives the inputs it held to the state, or keeps none of them.
LEMMA HeldIsGiven ==
    ASSUME InputTypes, pc # "gone", held' = <<>>, InputsIn(queue') = InputsIn(queue),
           inputs' = inputs \o held, expected' = expected
    PROVE  InputInv'
<1>1. (inputs \o held) \o <<>> = inputs \o held BY DEF InputTypes
<1>2. inputs' \o held' = inputs \o held BY <1>1
<1>3. InputsKept' BY <1>2 DEF InputTypes, InputsKept
<1> QED BY <1>3 DEF InputInv

LEMMA HeldIsRefused ==
    ASSUME InputTypes, held' = <<>>, inputs' = inputs, expected' = inputs \o InputsIn(queue')
    PROVE  InputInv'
<1>1. inputs \o <<>> = inputs BY DEF InputTypes
<1>2. InputsKept' BY <1>1 DEF InputTypes, InputsKept
<1> QED BY <1>2 DEF InputInv

\* What is not an input leaves the queue.
LEMMA HeadIsNone ==
    ASSUME InputTypes, queue # <<>>, Head(queue).kind # "Input"
    PROVE  InputsIn(Tail(queue)) = InputsIn(queue)
<1>1. InputsIn(queue) = Only(Head(queue)) \o InputsIn(Tail(queue)) BY InputsOfQueue DEF InputTypes
<1>2. Only(Head(queue)) = <<>> BY DEF Only
<1>3. Tail(queue) \in Seq(Command) BY DEF InputTypes
<1>4. InputsIn(Tail(queue)) \in Seq(Command) BY <1>3, InputsOfQueue
<1>5. <<>> \o InputsIn(Tail(queue)) = InputsIn(Tail(queue)) BY <1>4
<1> QED BY <1>1, <1>2, <1>5

\* An input leaves the queue and is put at the end of what is held, or applied.
LEMMA HeadIsInput ==
    ASSUME InputTypes, queue # <<>>, Head(queue).kind = "Input", NEW s \in Seq(Command)
    PROVE  s \o InputsIn(queue) = Append(s, Head(queue)) \o InputsIn(Tail(queue))
<1>1. InputsIn(queue) = Only(Head(queue)) \o InputsIn(Tail(queue)) BY InputsOfQueue DEF InputTypes
<1>2. Head(queue) \in Command /\ Tail(queue) \in Seq(Command) BY DEF InputTypes
<1>3. PICK one \in Seq(Command) : one = <<Head(queue)>>
  <2>1. <<Head(queue)>> \in Seq(Command) BY <1>2
  <2> QED BY <2>1, Zenon
<1>4. Only(Head(queue)) = one BY <1>3 DEF Only
<1>5. InputsIn(Tail(queue)) \in Seq(Command) BY <1>2, InputsOfQueue
<1>6. (s \o one) \o InputsIn(Tail(queue)) = s \o (one \o InputsIn(Tail(queue)))
  BY <1>3, <1>5, ConcatAssociative
<1>7. s \o one = Append(s, Head(queue)) BY <1>2, <1>3
<1> QED BY <1>1, <1>4, <1>6, <1>7

LEMMA InputStep ==
    ASSUME TypeOK, InputInv, Next
    PROVE  InputInv'
<1>1. InputTypes BY InputTypesHold
<1>2. ASSUME UNCHANGED <<inputs, held, queue, expected>>, pc # "gone" \/ pc' = "gone",
             pc \in Open => pc' \in Open
      PROVE  InputInv'
  <2>1. InputsKept' BY <1>2 DEF InputInv, InputsKept
  <2> QED BY <1>2, <2>1 DEF InputInv
<1>3. CASE StartStep
  <2>1. held = <<>> /\ held' = <<>> /\ pc = "head" /\ pc' = "nodes" /\ UNCHANGED <<inputs, queue, expected>>
    BY <1>1, <1>3 DEF StartStep, state, InputTypes, Open
  <2> QED BY <1>2, <2>1 DEF Open
<1>4. CASE StepDone \/ DrainDone \/ \E n \in Nodes : NodeStep(n)
  <2>1. UNCHANGED <<inputs, held, queue, expected>> /\ pc \in Open /\ pc' \in Open
    BY <1>4 DEF StepDone, DrainDone, NodeStep, NodeReturns, NodeFails, state, run, history, Open
  <2> QED BY <1>2, <2>1 DEF Open
<1>5. CASE TakeInput
  <2>1. /\ queue # <<>> /\ Head(queue).kind = "Input" /\ held' = Append(held, Head(queue))
        /\ queue' = Tail(queue) /\ UNCHANGED <<inputs, expected>> /\ pc \in Open /\ pc' = pc
    BY <1>5 DEF TakeInput, Is, Listens, state, history, Open
  <2>2. inputs \o held \in Seq(Command) /\ Head(queue) \in Command BY <1>1, <2>1 DEF InputTypes
  <2>3. (inputs \o held) \o InputsIn(queue) = Append(inputs \o held, Head(queue)) \o InputsIn(Tail(queue))
    BY <1>1, <2>1, <2>2, HeadIsInput
  <2>4. Append(inputs \o held, Head(queue)) = inputs \o held'
    BY <1>1, <2>1, <2>2, CommandsAppend DEF InputTypes
  <2>5. pc # "gone" BY <2>1 DEF Open
  <2>6. expected' = (inputs' \o held') \o InputsIn(queue')
    BY <1>1, <2>1, <2>3, <2>4, <2>5 DEF InputTypes
  <2>7. InputsKept' BY <2>6 DEF InputsKept
  <2> QED BY <2>1, <2>7 DEF InputInv
<1>6. CASE TakePause
  <2>1. /\ queue # <<>> /\ Head(queue).kind # "Input" /\ queue' = Tail(queue)
        /\ UNCHANGED <<inputs, held, expected>> /\ pc \in Open /\ pc' = pc
    BY <1>6 DEF TakePause, Is, Listens, state, history, Open
  <2>2. InputsIn(queue') = InputsIn(queue) BY <1>1, <2>1, HeadIsNone
  <2>3. InputsKept' BY <2>1, <2>2 DEF InputInv, InputsKept
  <2> QED BY <2>1, <2>3 DEF InputInv
<1>7. CASE TakeCancel
  <2>1. /\ queue # <<>> /\ Head(queue).kind # "Input" /\ queue' = Tail(queue)
        /\ Cancelled /\ held' = <<>> /\ pc \in Open
    BY <1>7 DEF TakeCancel, Is, Listens, Cancelled, Absorb, Leave, Open
  <2>2. InputsIn(queue') = InputsIn(queue) /\ pc # "gone" BY <1>1, <2>1, HeadIsNone DEF Open
  <2>3. CASE Takes(held) BY <1>1, <2>1, <2>2, <2>3, HeldIsGiven DEF Cancelled
  <2>4. CASE ~Takes(held) BY <1>1, <2>1, <2>4, HeldIsRefused DEF Cancelled
  <2> QED BY <2>3, <2>4
<1>8. CASE StepFails \/ InputsOrEdgeFail \/ StepEndsTwice
  <2>1. Failed /\ held' = <<>> /\ queue' = queue /\ pc = "settle"
    BY <1>8 DEF StepFails, InputsOrEdgeFail, StepEndsTwice, Failed, Absorb, Leave
  <2>2. CASE Takes(held) BY <1>1, <2>1, <2>2, HeldIsGiven DEF Failed
  <2>3. CASE ~Takes(held) BY <1>1, <2>1, <2>3, HeldIsRefused DEF Failed
  <2> QED BY <2>2, <2>3
<1>9. CASE StepContinues \/ StepEnds
  <2>1. inputs' = inputs \o held /\ held' = <<>> /\ queue' = queue /\ expected' = expected /\ pc = "settle"
    BY <1>9 DEF StepContinues, StepEnds, Applies, Absorb, Leave
  <2> QED BY <1>1, <2>1, HeldIsGiven
<1>10. CASE RunOnce \/ ServeNow \/ ServeOnInput
  <2>1. /\ pc = "idle" /\ UNCHANGED <<inputs, held, queue, expected>>
    BY <1>10 DEF RunOnce, ServeNow, ServeOnInput, StartRun, state, run, history
  <2> QED BY <1>2, <2>1 DEF Open
<1>11. CASE ServeInput
  <2>1. /\ queue # <<>> /\ Head(queue).kind = "Input" /\ queue' = Tail(queue) /\ pc = "waiting"
        /\ inputs' = Append(inputs, Head(queue)) /\ UNCHANGED <<held, expected>>
    BY <1>11 DEF ServeInput, Is, StartRun, run, history
  <2>2. held = <<>> /\ expected = (inputs \o held) \o InputsIn(queue) BY <1>1, <2>1 DEF InputTypes, Open
  <2>3. inputs \o <<>> = inputs /\ inputs' \o <<>> = inputs' /\ inputs \in Seq(Command)
    BY <1>1, <2>1 DEF InputTypes
  <2>4. inputs \o InputsIn(queue) = inputs' \o InputsIn(queue')
    BY <1>1, <2>1, <2>3, HeadIsInput
  <2>5. expected' = (inputs' \o held') \o InputsIn(queue') BY <2>1, <2>2, <2>3, <2>4
  <2>6. InputsKept' BY <2>5 DEF InputsKept
  <2> QED BY <2>1, <2>2, <2>6 DEF InputInv
<1>12. CASE ServeRefuses
  <2>1. inputs' = inputs /\ held' = <<>> /\ expected' = inputs \o InputsIn(queue')
    BY <1>12 DEF ServeRefuses, Absorb, Leave, state
  <2> QED BY <1>1, <2>1, HeldIsRefused
<1>13. CASE ServePause \/ ServeResume \/ ServeCancel
  <2>1. /\ queue # <<>> /\ Head(queue).kind # "Input" /\ queue' = Tail(queue) /\ pc = "waiting"
        /\ UNCHANGED <<inputs, expected>> /\ (held' = held \/ held' = <<>>)
    BY <1>13 DEF ServePause, ServeResume, ServeCancel, Is, StartRun, Absorb, Leave, state, run, history
  <2>2. held = <<>> /\ held' = <<>> BY <1>1, <2>1 DEF InputTypes, Open
  <2>3. InputsIn(queue') = InputsIn(queue) BY <1>1, <2>1, HeadIsNone
  <2>4. InputsKept' BY <2>1, <2>2, <2>3 DEF InputInv, InputsKept
  <2> QED BY <2>2, <2>4 DEF InputInv
<1>14. CASE HostSends
  <2>1. PICK c \in Command :
          /\ queue' = Append(queue, c)
          /\ expected' = IF c.kind = "Input" THEN Append(expected, c) ELSE expected
    <3>1. PICK kind \in {"Input", "Pause", "Resume", "Cancel"}, good \in BOOLEAN :
            LET c == [kind |-> kind, rank |-> IF kind = "Input" THEN sent' ELSE 0, good |-> good]
            IN /\ queue' = Append(queue, c)
               /\ expected' = IF c.kind = "Input" THEN Append(expected, c) ELSE expected
      BY <1>14 DEF HostSends
    <3>2. sent' \in Nat BY <1>14 DEF HostSends, TypeOK
    <3>3. [kind |-> kind, rank |-> IF kind = "Input" THEN sent' ELSE 0, good |-> good] \in Command
      BY <3>2 DEF Command
    <3> QED BY <3>1, <3>3
  <2>2. pc # "gone" /\ UNCHANGED <<pc, inputs, held>> BY <1>14 DEF HostSends, state, run
  <2>3. InputsIn(queue) \in Seq(Command) /\ InputsIn(queue') = InputsIn(queue) \o Only(c)
    BY <1>1, <2>1, InputsOfQueue DEF InputTypes
  <2>4. inputs \o held \in Seq(Command) /\ expected = (inputs \o held) \o InputsIn(queue)
    BY <1>1, <2>2 DEF InputTypes
  <2>5. expected' = (inputs \o held) \o InputsIn(queue')
    <3>1. CASE c.kind = "Input"
      <4>1. Append(InputsIn(queue), c) = InputsIn(queue) \o <<c>> BY <2>3
      <4>2. Append((inputs \o held) \o InputsIn(queue), c) = (inputs \o held) \o Append(InputsIn(queue), c)
        BY <2>3, <2>4, CommandsAppend
      <4> QED BY <2>1, <2>3, <2>4, <3>1, <4>1, <4>2 DEF Only
    <3>2. CASE c.kind # "Input"
      <4>1. InputsIn(queue) \o <<>> = InputsIn(queue) BY <2>3
      <4> QED BY <2>1, <2>3, <2>4, <3>2, <4>1 DEF Only
    <3> QED BY <3>1, <3>2
  <2>6. InputsKept' BY <2>2, <2>5 DEF InputsKept
  <2> QED BY <2>2, <2>6 DEF InputInv
<1>15. CASE HostCrashes
  <2>1. pc' = "gone" /\ held' = <<>> BY <1>15 DEF HostCrashes
  <2> QED BY <2>1 DEF InputInv, InputsKept
<1>16. CASE Resume
  <2>1. /\ held' = held /\ queue' = <<>> /\ inputs' = kept.inputs /\ expected' = kept.inputs
        /\ kept.inputs \in Seq(Command) /\ held = <<>>
    BY <1>1, <1>16 DEF Resume, run, TypeOK, InputTypes, Open
  <2>2. inputs' \o <<>> = inputs' BY <2>1
  <2>3. (inputs' \o held') \o InputsIn(queue') = expected' BY <2>1, <2>2, InputsOfEmpty
  <2>4. InputsKept' BY <2>3 DEF InputsKept
  <2> QED BY <2>1, <2>4 DEF InputInv
<1> QED
  BY <1>3, <1>4, <1>5, <1>6, <1>7, <1>8, <1>9, <1>10, <1>11, <1>12, <1>13, <1>14, <1>15, <1>16
     DEF Next, RunStep, ServeStep, HostStep

\* Every input is applied once and in the order sent, whatever becomes of the supersteps
\* that held it, unless its batch was refused or the session is gone (loop.rs,
\* with_inputs, serve).
THEOREM SessionInputsKept == Spec => []InputsKept
<1>1. Init => InputInv
  <2> SUFFICES ASSUME Init PROVE InputInv OBVIOUS
  <2>1. inputs = <<>> /\ held = <<>> /\ queue = <<>> /\ expected = <<>> BY DEF Init
  <2>2. (inputs \o held) \o InputsIn(queue) = expected BY <2>1, InputsOfEmpty
  <2> QED BY <2>1, <2>2 DEF InputInv, InputsKept
<1>2. TypeOK /\ InputInv /\ [Next]_vars => InputInv'
  <2>1. CASE UNCHANGED vars
    BY <2>1 DEF InputInv, InputsKept, vars, state, run, history
  <2> QED BY <2>1, InputStep
<1>3. InputInv => InputsKept BY DEF InputInv
<1> QED BY <1>1, <1>2, <1>3, SessionTypeCorrect, PTL DEF Spec
=============================================================================
