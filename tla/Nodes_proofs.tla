----------------------------- MODULE Nodes_proofs -----------------------------
(***************************************************************************)
(* Proofs about the nodes of a graph.  What an instance of map-reduce        *)
(* guarantees for every list and limit; what a merger does for every set of  *)
(* lanes; and, for every number of tool nodes and calls, every owner of a    *)
(* call and every width, that the gate the tool nodes of a superstep share   *)
(* loses no place and holds none back, and that the item of a round is in    *)
(* the thread before any of its nodes gives back its updates.                *)
(***************************************************************************)
EXTENDS MapReduce, Merger, ToolRound, Lists_proofs

\* A creation is in flight only while its select runs, for an element that is
\* left to start, and it counts against the limit.
Pool ==
    /\ pc \notin {"select", "arms"} => creation = "none"
    /\ creation # "none" => next <= Elements
    /\ LimitKept

\* The elements not started are those from next on; one that was joined while
\* the work went on is in the outcomes, with what its own instance sent.
Collected ==
    /\ pc \in {"waiting", "mapping"} => next = 1
    /\ \A p \in Positions : p >= next <=> child[p] = "unborn"
    /\ \A p \in done \cup failures : child[p] = "joined"
    /\ \A p \in done : sent[p] = "Result"
    /\ done \cap failures = {}
    /\ strict => failures = {}
    /\ pc \in {"starting", "select", "arms"} =>
          \A p \in Positions : child[p] # "dropped"
                               /\ (child[p] = "joined" => p \in done \cup failures)
    /\ outcome # "None" <=> pc = "done"

IInv == TypeOK /\ Pool /\ Collected /\ ResultIsWhole /\ NoneLeftBehind
            /\ (pc = "failing" => scope)

-----------------------------------------------------------------------------
\* The steps by what they do to the internal instances.
Working ==
    FirstInput \/ NoInput \/ Map \/ Start \/ StartedAll \/ Finish \/ Select \/ Park
    \/ CreationFailed \/ Failed \/ Joined \/ CreationAnswers \/ TokenTriggered \/ EndDropped
Ending(p) == Receive(p) \/ Discard(p) \/ Aborts(p) \/ ChildEnds(p)

\* Every step is of one of these kinds.
LEMMA StepKinds ==
    [Next]_vars => Working \/ Give \/ (\E p \in Positions : Ending(p)) \/ UNCHANGED vars
BY DEF Next, Task, Working, Ending

\* A new instance has started nothing.
LEMMA InitInv == Init => IInv
<1> SUFFICES ASSUME Init PROVE IInv
  OBVIOUS
<1>1. Live = {}
  BY DEF Init, Live
<1>2. Cardinality(Live) = 0
  BY <1>1, FS_EmptySet
<1>3. TypeOK
  <2>1. next \in 1..(Elements + 1)
    BY MapReduceAssumption DEF Init
  <2>2. child \in [Positions -> {"unborn", "working", "ended", "joined", "dropped"}]
        /\ sent \in [Positions -> Faults \cup {"nothing", "Result", "Cancelled"}]
    BY DEF Init
  <2> QED
    BY <2>1, <2>2 DEF Init, TypeOK
<1>4. Pool
  BY <1>2, MapReduceAssumption DEF Init, Pool, LimitKept
<1>5. Collected
  BY DEF Init, Collected, Positions
<1> QED
  BY <1>3, <1>4, <1>5 DEF Init, IInv, ResultIsWhole, NoneLeftBehind

\* A creation is in flight for an element of the list, so its instance has a
\* position.
LEMMA NextType == IInv /\ [Next]_vars => TypeOK'
<1> SUFFICES ASSUME IInv, [Next]_vars PROVE TypeOK'
  OBVIOUS
<1> USE MapReduceAssumption DEF IInv, TypeOK, Faults
<1> USE DEF ends, collected, outside, Ends, Return, HaltCancel, HaltFault, GoesOn
<1>1. CASE Working
  <2>1. UNCHANGED <<next, ends, collected, strict>>
    BY <1>1 DEF Working, FirstInput, NoInput, Map, Start, StartedAll, Finish, Select, Park,
                CreationFailed, Failed, Joined, CreationAnswers, TokenTriggered, EndDropped
  <2>2. /\ pc' \in {"waiting", "mapping", "starting", "select", "arms", "joining", "failing", "done"}
        /\ creation' \in {"none", "running", "created", "failed"}
        /\ outcome' \in {"None", "Result", "Cancelled", "Failed", "Silent"}
    BY <1>1 DEF Working, FirstInput, NoInput, Map, Start, StartedAll, Finish, Select, Park,
                CreationFailed, Failed, Joined, CreationAnswers, TokenTriggered, EndDropped
  <2>3. scope' \in {scope, TRUE} /\ token' \in {token, TRUE} /\ attached' \in {attached, FALSE}
    BY <1>1 DEF Working, FirstInput, NoInput, Map, Start, StartedAll, Finish, Select, Park,
                CreationFailed, Failed, Joined, CreationAnswers, TokenTriggered, EndDropped
  <2> QED
    BY <2>1, <2>2, <2>3
<1>2. CASE Give
  <2>1. next \in Positions
    BY <1>2 DEF Give, Pool, Positions
  <2>2. child' \in [Positions -> {"unborn", "working", "ended", "joined", "dropped"}]
    BY <1>2 DEF Give
  <2>3. next' \in 1..(Elements + 1)
    BY <1>2, <2>1 DEF Give, Positions
  <2> QED
    BY <1>2, <2>2, <2>3 DEF Give
<1>3. CASE \E p \in Positions : Ending(p)
  <2> PICK p \in Positions : Ending(p)
    BY <1>3
  <2>1. child' \in [Positions -> {"unborn", "working", "ended", "joined", "dropped"}]
        /\ sent' \in [Positions -> Faults \cup {"nothing", "Result", "Cancelled"}]
    BY DEF Ending, Receive, Discard, Aborts, ChildEnds
  <2>2. done' \subseteq Positions /\ failures' \subseteq Positions
    BY DEF Ending, Receive, Discard, Aborts, ChildEnds, Applies
  <2>3. next' = next /\ UNCHANGED outside
    BY DEF Ending, Receive, Discard, Aborts, ChildEnds
  <2>4. pc' \in {"waiting", "mapping", "starting", "select", "arms", "joining", "failing", "done"}
        /\ creation' \in {"none", "running", "created", "failed"}
        /\ scope' \in BOOLEAN /\ outcome' = outcome
    BY DEF Ending, Receive, Discard, Aborts, ChildEnds
  <2> QED
    BY <2>1, <2>2, <2>3, <2>4
<1>4. CASE UNCHANGED vars
  BY <1>4 DEF vars
<1> QED
  BY <1>1, <1>2, <1>3, <1>4, StepKinds

-----------------------------------------------------------------------------
\* The internal instances are finitely many, and counted.
LEMMA LiveIsFinite == TypeOK => IsFiniteSet(Live) /\ Cardinality(Live) \in Nat
<1>1. IsFiniteSet(Positions)
  BY FS_Interval, MapReduceAssumption DEF Positions
<1>2. Live \subseteq Positions
  BY DEF Live
<1> QED
  BY <1>1, <1>2, FS_Subset, FS_CardinalityType

\* A step of the task alone keeps the live instances.
LEMMA WorkingLive == Working => Live' = Live /\ UNCHANGED ends
BY DEF Working, FirstInput, NoInput, Map, Start, StartedAll, Finish, Select, Park,
       CreationFailed, Failed, Joined, CreationAnswers, TokenTriggered, EndDropped,
       ends, collected, outside, Ends, Return, HaltCancel, HaltFault, Live

\* An instance that ends, is joined or is dropped makes them no more.
LEMMA EndingLive == ASSUME TypeOK, NEW p \in Positions, Ending(p) PROVE Live' \subseteq Live
BY DEF Ending, Receive, Discard, Aborts, ChildEnds, TypeOK, Live, Joinable, ends

\* The limit, with what makes it inductive.
LEMMA NextPool == IInv /\ [Next]_vars => Pool'
<1> SUFFICES ASSUME IInv, [Next]_vars PROVE Pool'
  OBVIOUS
<1>1. IsFiniteSet(Live) /\ Cardinality(Live) \in Nat
  BY LiveIsFinite DEF IInv
<1>2. Limit \in Nat \ {0} /\ Elements \in Nat /\ next \in Nat
  BY MapReduceAssumption DEF IInv, TypeOK
<1>3. CASE Working
  <2>1. Live' = Live
    BY <1>3, WorkingLive
  <2>2. CASE Start /\ creation' = "running"
    <3>1. next <= Elements /\ Cardinality(Live) < Limit /\ next' = next /\ pc' = "select"
      BY <2>2 DEF Start, Startable, HaltCancel, IInv, Pool
    <3> QED
      BY <2>1, <2>2, <3>1, <1>1, <1>2 DEF Pool, LimitKept
  <2>3. CASE ~(Start /\ creation' = "running")
    <3>1. /\ next' = next
          /\ creation' # "none" => creation # "none" /\ pc' \in {"select", "arms"}
      BY <1>3, <2>3 DEF Working, FirstInput, NoInput, Map, Start, StartedAll, Finish, Select,
           Park, CreationFailed, Failed, Joined, CreationAnswers, TokenTriggered, EndDropped,
           ends, collected, outside, Ends, Return, HaltCancel, HaltFault, IInv, Pool
    <3>2. Cardinality(Live) + (IF creation = "none" THEN 0 ELSE 1) <= Limit
          /\ (creation # "none" => next <= Elements)
      BY DEF IInv, Pool, LimitKept
    <3> QED
      BY <2>1, <3>1, <3>2, <1>1, <1>2 DEF Pool, LimitKept
  <2> QED
    BY <2>2, <2>3
<1>4. CASE Give
  <2>1. creation' = "none"
    BY <1>4 DEF Give, HaltFault
  <2>2. Live' \subseteq Live \cup {next}
    BY <1>4 DEF Give, IInv, TypeOK, Live
  <2>3. IsFiniteSet(Live \cup {next}) /\ Cardinality(Live \cup {next}) <= Cardinality(Live) + 1
    BY <1>1, FS_AddElement
  <2>4. IsFiniteSet(Live') /\ Cardinality(Live') <= Cardinality(Live \cup {next})
        /\ Cardinality(Live') \in Nat /\ Cardinality(Live \cup {next}) \in Nat
    BY <2>2, <2>3, FS_Subset, FS_CardinalityType
  <2>5. Cardinality(Live) + 1 <= Limit
    BY <1>4 DEF Give, IInv, Pool, LimitKept
  <2> QED
    BY <2>1, <2>3, <2>4, <2>5, <1>1, <1>2 DEF Pool, LimitKept
<1>5. CASE \E p \in Positions : Ending(p)
  <2> PICK p \in Positions : Ending(p)
    BY <1>5
  <2>1. Live' \subseteq Live
    BY EndingLive DEF IInv
  <2>2. Cardinality(Live') <= Cardinality(Live) /\ Cardinality(Live') \in Nat
    BY <2>1, <1>1, FS_Subset, FS_CardinalityType
  <2>3. next' = next /\ creation' \in {creation, "none"}
        /\ (creation' # "none" => pc' = pc \/ pc' = "select")
    BY DEF Ending, Receive, Discard, Aborts, ChildEnds, GoesOn, HaltCancel, HaltFault
  <2>4. Cardinality(Live) + (IF creation = "none" THEN 0 ELSE 1) <= Limit
        /\ (pc \notin {"select", "arms"} => creation = "none")
        /\ (creation # "none" => next <= Elements)
    BY DEF IInv, Pool, LimitKept
  <2> QED
    BY <2>2, <2>3, <2>4, <1>1, <1>2 DEF Pool, LimitKept
<1>6. CASE UNCHANGED vars
  BY <1>6 DEF vars, ends, IInv, Pool, LimitKept, Live
<1> QED
  BY <1>3, <1>4, <1>5, <1>6, StepKinds

-----------------------------------------------------------------------------
\* An end is recorded once, at the position it came from.
LEMMA NextCollected == IInv /\ [Next]_vars => Collected'
<1> SUFFICES ASSUME IInv, [Next]_vars PROVE Collected'
  OBVIOUS
<1> USE DEF IInv
<1>1. CASE Working
  <2>1. UNCHANGED <<ends, collected, next, strict>>
    BY <1>1 DEF Working, FirstInput, NoInput, Map, Start, StartedAll, Finish, Select, Park,
         CreationFailed, Failed, Joined, CreationAnswers, TokenTriggered, EndDropped,
         ends, collected, outside, Ends, Return, HaltCancel, HaltFault
  <2>2. /\ pc' \in {"waiting", "mapping"} => pc \in {"waiting", "mapping"}
        /\ outcome' # "None" <=> pc' = "done"
    BY <1>1 DEF Working, FirstInput, NoInput, Map, Start, StartedAll, Finish, Select, Park,
         CreationFailed, Failed, Joined, CreationAnswers, TokenTriggered, EndDropped,
         ends, collected, outside, Ends, Return, HaltCancel, HaltFault, Collected
  <2>3. pc' \in {"starting", "select", "arms"} =>
           pc = "mapping" \/ pc \in {"starting", "select", "arms"}
    BY <1>1 DEF Working, FirstInput, NoInput, Map, Start, StartedAll, Finish, Select, Park,
         CreationFailed, Failed, Joined, CreationAnswers, TokenTriggered, EndDropped,
         ends, collected, outside, Ends, Return, HaltCancel, HaltFault
  <2>4. pc = "mapping" => \A p \in Positions : child[p] = "unborn"
    BY DEF Collected, Positions
  <2> QED
    BY <2>1, <2>2, <2>3, <2>4 DEF Collected, ends, collected
<1>2. CASE Give
  <2>1. /\ UNCHANGED <<sent, done, failures, strict, outcome>>
        /\ pc = "arms" /\ pc' \in {"starting", "failing"}
    BY <1>2 DEF Give, HaltFault, collected, outside
  <2>2. \/ next' = next /\ child' = child
        \/ /\ next' = next + 1 /\ next \in Positions
           /\ child' = [child EXCEPT ![next] = "working"]
    BY <1>2, MapReduceAssumption DEF Give, HaltFault, Pool, TypeOK, Positions
  <2>3. next \in Positions => child[next] = "unborn"
    BY DEF Collected, Positions
  <2>4. \A p \in Positions : p >= next' <=> child'[p] = "unborn"
    BY <2>2, MapReduceAssumption DEF Collected, TypeOK, Positions
  <2>5. \A p \in Positions : /\ child[p] # "unborn" => child'[p] = child[p]
                             /\ child'[p] \in {child[p], "working"}
    BY <2>2, <2>3 DEF TypeOK
  <2> QED
    BY <2>1, <2>4, <2>5 DEF Collected, TypeOK
<1>3. CASE \E p \in Positions : Ending(p)
  <2> PICK p \in Positions : Ending(p)
    BY <1>3
  <2>1. UNCHANGED <<next, strict, outcome>>
    BY DEF Ending, Receive, Discard, Aborts, ChildEnds, GoesOn, HaltCancel, HaltFault, outside
  <2>2. CASE Receive(p)
    <3>1. /\ pc = "arms" /\ child[p] = "ended" /\ child' = [child EXCEPT ![p] = "joined"]
          /\ sent' = sent
      BY <2>2 DEF Receive, Joinable
    <3>2. p \notin done \cup failures /\ child[p] # "unborn"
      BY <3>1 DEF Collected
    <3>3. \/ sent[p] = "Result" /\ done' = done \cup {p} /\ failures' = failures
          \/ done' = done /\ failures' = failures \cup {p} /\ ~strict
          \/ done' = done /\ failures' = failures /\ pc' \in {"joining", "failing"}
      BY <2>2 DEF Receive, Applies, HaltCancel, HaltFault, collected
    <3>4. pc' \notin {"waiting", "mapping", "done"}
      BY <2>2 DEF Receive, GoesOn, HaltCancel, HaltFault
    <3>5. \A q \in Positions : child'[q] = IF q = p THEN "joined" ELSE child[q]
      BY <3>1 DEF TypeOK
    <3>6. strict' = strict /\ next' = next /\ outcome' = outcome
      BY <2>1
    <3>7. done \subseteq Positions /\ failures \subseteq Positions
      BY DEF TypeOK
    <3> QED
      BY <3>1, <3>2, <3>3, <3>4, <3>5, <3>6, <3>7 DEF Collected
  <2>3. CASE Discard(p) \/ Aborts(p) \/ ChildEnds(p)
    <3>1. /\ UNCHANGED <<pc, done, failures>>
          /\ child[p] \in {"working", "ended"}
      BY <2>3 DEF Discard, Aborts, ChildEnds, Joinable, Live, collected
    <3>2. \/ child' = [child EXCEPT ![p] = "ended"]
          \/ /\ pc \notin {"waiting", "mapping", "starting", "select", "arms"}
             /\ \/ child' = [child EXCEPT ![p] = "joined"]
                \/ child' = [child EXCEPT ![p] = "dropped"]
      BY <2>3 DEF Discard, Aborts, ChildEnds
    <3>3. p \notin done \cup failures
      BY <3>1 DEF Collected
    <3>4. \A q \in Positions : q # p => sent'[q] = sent[q]
      BY <2>3 DEF Discard, Aborts, ChildEnds, TypeOK
    <3>5. \A q \in Positions : child'[q] = IF q = p THEN child'[p] ELSE child[q]
      BY <3>2 DEF TypeOK
    <3>6. \/ child'[p] = "ended"
          \/ /\ child'[p] \in {"joined", "dropped"}
             /\ pc \notin {"waiting", "mapping", "starting", "select", "arms"}
      BY <3>2 DEF TypeOK
    <3>7. done \subseteq Positions /\ failures \subseteq Positions
      BY DEF TypeOK
    <3> QED
      BY <2>1, <3>1, <3>3, <3>4, <3>5, <3>6, <3>7 DEF Collected
  <2> QED
    BY <2>2, <2>3 DEF Ending
<1>4. CASE UNCHANGED vars
  BY <1>4 DEF vars, ends, collected, outside, Collected
<1> QED
  BY <1>1, <1>2, <1>3, <1>4, StepKinds

-----------------------------------------------------------------------------
\* finish comes when nothing is startable and nothing lives: the limit is not
\* zero, so every element was started, and all of them were joined.
LEMMA FinishIsWhole ==
    ASSUME IInv, pc = "starting", ~Startable, Live = {}
    PROVE  done \cup failures = Positions
<1>1. Cardinality(Live) = 0
  BY FS_EmptySet
<1>2. next = Elements + 1
  BY <1>1, MapReduceAssumption DEF Startable, IInv, TypeOK
<1>3. \A p \in Positions : child[p] = "joined"
  <2> TAKE p \in Positions
  <2>1. ~(p >= next)
    BY <1>2, MapReduceAssumption DEF Positions
  <2> QED
    BY <2>1 DEF IInv, Collected, TypeOK, Live
<1> QED
  BY <1>3 DEF IInv, Collected, TypeOK

\* What a Result covers and what an end leaves stay as they were at the end.
LEMMA NextWhole ==
    IInv /\ [Next]_vars => ResultIsWhole' /\ NoneLeftBehind' /\ (pc' = "failing" => scope')
<1> SUFFICES ASSUME IInv, [Next]_vars
             PROVE  ResultIsWhole' /\ NoneLeftBehind' /\ (pc' = "failing" => scope')
  OBVIOUS
<1> USE DEF IInv
<1>0. Collected' /\ Pool'
  BY NextCollected, NextPool
<1>1. CASE Working
  <2>1. Live' = Live /\ UNCHANGED <<sent, done, failures, strict>>
    BY <1>1, WorkingLive DEF Working, FirstInput, NoInput, Map, Start, StartedAll, Finish,
         Select, Park, CreationFailed, Failed, Joined, CreationAnswers, TokenTriggered,
         EndDropped, ends, collected, outside, Ends, Return, HaltCancel, HaltFault
  <2>2. pc = "mapping" \/ pc = "waiting" => Live = {}
    BY DEF Collected, Positions, Live
  <2>3. outcome' = "Result" => \/ outcome = "Result"
                               \/ pc = "starting" /\ ~Startable /\ Live = {}
    BY <1>1 DEF Working, FirstInput, NoInput, Map, Start, StartedAll, Finish, Select, Park,
         CreationFailed, Failed, Joined, CreationAnswers, TokenTriggered, EndDropped,
         ends, collected, outside, Ends, Return, HaltCancel, HaltFault
  <2>4. ResultIsWhole'
    BY <2>1, <2>3, FinishIsWhole DEF ResultIsWhole, Collected
  <2>5. pc' = "done" => \/ pc = "done" /\ UNCHANGED <<outcome, scope>>
                        \/ Live = {}
                        \/ outcome' = "Silent" /\ scope'
    BY <1>1, <2>2 DEF Working, FirstInput, NoInput, Map, Start, StartedAll, Finish, Select,
         Park, CreationFailed, Failed, Joined, CreationAnswers, TokenTriggered, EndDropped,
         ends, collected, outside, Ends, Return, HaltCancel, HaltFault
  <2>6. pc' = "failing" => scope'
    BY <1>1 DEF Working, FirstInput, NoInput, Map, Start, StartedAll, Finish, Select, Park,
         CreationFailed, Failed, Joined, CreationAnswers, TokenTriggered, EndDropped,
         ends, collected, outside, Ends, Return, HaltCancel, HaltFault
  <2>7. NoneLeftBehind'
    BY <1>0, <2>1, <2>5 DEF NoneLeftBehind, Pool
  <2> QED
    BY <2>4, <2>6, <2>7
<1>2. CASE Give
  <2>1. pc' # "done" /\ (pc' = "failing" => scope')
    BY <1>2 DEF Give, HaltFault
  <2> QED
    BY <1>0, <2>1 DEF ResultIsWhole, NoneLeftBehind, Collected
<1>3. CASE \E p \in Positions : Ending(p)
  <2> PICK p \in Positions : Ending(p)
    BY <1>3
  <2>1. Live' \subseteq Live
    BY EndingLive
  <2>2. /\ pc' = "done" <=> pc = "done"
        /\ pc = "done" => UNCHANGED <<done, failures, strict, scope, outcome>>
        /\ outcome' = outcome
        /\ pc' = "failing" => scope'
    BY DEF Ending, Receive, Discard, Aborts, ChildEnds, GoesOn, HaltCancel, HaltFault,
           collected, outside
  <2> QED
    BY <1>0, <2>1, <2>2 DEF ResultIsWhole, NoneLeftBehind, Collected, Pool
<1>4. CASE UNCHANGED vars
  BY <1>4 DEF vars, ends, collected, outside, ResultIsWhole, NoneLeftBehind, Live
<1> QED
  BY <1>1, <1>2, <1>3, <1>4, StepKinds

\* The inductive invariant, from which the four theorems follow.
THEOREM MapReduceInvariant == Spec => []IInv
<1>1. IInv /\ [Next]_vars => IInv'
  BY NextType, NextPool, NextCollected, NextWhole DEF IInv
<1> QED
  BY <1>1, InitInv, PTL DEF Spec

\* Every variable keeps its type, whatever the internal instances, the runtime
\* and the executor do.
THEOREM MapReduceTypeCorrect == Spec => []TypeOK
<1>1. IInv => TypeOK
  BY DEF IInv
<1> QED
  BY <1>1, MapReduceInvariant, PTL

\* Never more internal instances than the limit, the one in creation counted.
THEOREM LimitIsKept == Spec => []LimitKept
<1>1. IInv => LimitKept
  BY DEF IInv, Pool
<1> QED
  BY <1>1, MapReduceInvariant, PTL

\* A Result joins the end of every element, each at its own position.
THEOREM ResultCoversEveryElement == Spec => []ResultIsWhole
<1>1. IInv => ResultIsWhole
  BY DEF IInv
<1> QED
  BY <1>1, MapReduceInvariant, PTL

\* No internal instance outlives a terminal event, and one that was abandoned
\* reads a triggered token.
THEOREM NothingIsLeftBehind == Spec => []NoneLeftBehind
<1>1. IInv => NoneLeftBehind
  BY DEF IInv
<1> QED
  BY <1>1, MapReduceInvariant, PTL

-----------------------------------------------------------------------------
\* The merger.  Its state and what its channel carries are states of the graph.
GraphStates == [lanes : SUBSET Lanes, shown : BOOLEAN]
MergerTypeOK ==
    /\ policy \in {"Silent", "Fail", "FireAgain"}
    /\ graph \in GraphStates
    /\ inputs \in Seq(GraphStates) /\ fired \in Seq(GraphStates)
    /\ task \in {"absent", "reading", "settling", "closed", "ended"}
    /\ answer \in {"none", "Result", "Cancelled", "Refused", "Vanished"}
    /\ owed \in BOOLEAN /\ cancelled \in BOOLEAN /\ endHeld \in BOOLEAN /\ stopped \in BOOLEAN
    /\ merged \in SUBSET Lanes
    /\ updates \in Nat /\ showing \in Nat

\* What is the last thing a merger reads is the state of now; one that read all
\* of it waits for lanes, or knows that the merge is shown.
Heard == inputs[Len(inputs)]
LanesHeard ==
    /\ task = "absent" => graph.lanes = {} \/ merged = graph.lanes
    /\ task = "reading" /\ inputs = <<>> =>
           Cardinality(graph.lanes) < Needed \/ (policy = "Silent" /\ graph.shown)
    /\ task = "reading" /\ inputs # <<>> =>
           Heard.lanes = graph.lanes /\ (Heard.shown => graph.shown)
FiredRight == policy # "FireAgain" => \A i \in DOMAIN fired : ~fired[i].shown
MergerInv ==
    /\ MergerTypeOK /\ FiredRight
    /\ ~endHeld => stopped
    /\ ~stopped /\ ~cancelled => LanesHeard

\* The state is the last input of a sequence it was put at the end of, and the
\* one of a sequence whose head was taken.
LEMMA LastOfAppend ==
    ASSUME NEW S, NEW s \in Seq(S), NEW e \in S
    PROVE  /\ Append(s, e) \in Seq(S) /\ Append(s, e) # <<>>
           /\ Append(s, e)[Len(Append(s, e))] = e
           /\ \A i \in DOMAIN Append(s, e) : \/ i \in DOMAIN s /\ Append(s, e)[i] = s[i]
                                             \/ Append(s, e)[i] = e
<1>1. Len(Append(s, e)) = Len(s) + 1 /\ Append(s, e)[Len(s) + 1] = e
  OBVIOUS
<1>2. Append(s, e) \in Seq(S) /\ Append(s, e) # <<>>
  BY <1>1
<1>3. ASSUME NEW i \in DOMAIN Append(s, e)
      PROVE  \/ i \in DOMAIN s /\ Append(s, e)[i] = s[i]
             \/ Append(s, e)[i] = e
  OBVIOUS
<1> QED
  BY <1>1, <1>2, <1>3

LEMMA LastOfTail ==
    ASSUME NEW S, NEW s \in Seq(S), s # <<>>
    PROVE  /\ Head(s) \in S /\ Tail(s) \in Seq(S)
           /\ Tail(s) = <<>> => Head(s) = s[Len(s)]
           /\ Tail(s) # <<>> => Tail(s)[Len(Tail(s))] = s[Len(s)]
<1>1. Len(s) \in Nat \ {0} /\ Head(s) = s[1] /\ Head(s) \in S /\ Tail(s) \in Seq(S)
  OBVIOUS
<1>2. Len(Tail(s)) = Len(s) - 1 /\ \A i \in 1..Len(Tail(s)) : Tail(s)[i] = s[i + 1]
  OBVIOUS
<1>3. Tail(s) = <<>> => Len(s) = 1
  <2>1. \A t \in Seq(S) : t = <<>> => Len(t) = 0
    OBVIOUS
  <2>2. Tail(s) = <<>> => Len(Tail(s)) = 0
    BY <1>1, <2>1
  <2> QED
    BY <1>1, <1>2, <2>2
<1>4. Tail(s) # <<>> => Len(Tail(s)) \in 1..Len(Tail(s))
  <2>1. ASSUME NEW t \in Seq(S), t # <<>> PROVE Len(t) \in Nat \ {0}
    BY <2>1
  <2> QED
    BY <1>1, <2>1
<1> QED
  BY <1>1, <1>2, <1>3, <1>4

LEMMA MergerInitInv == MergerInit => MergerInv
<1> SUFFICES ASSUME MergerInit PROVE MergerInv
  OBVIOUS
<1>1. MergerTypeOK
  <2>1. inputs \in Seq(GraphStates) /\ fired \in Seq(GraphStates)
    BY DEF MergerInit
  <2>2. graph \in GraphStates
    BY DEF MergerInit, GraphStates
  <2> QED
    BY <2>1, <2>2 DEF MergerInit, MergerTypeOK
<1>2. FiredRight /\ LanesHeard /\ endHeld
  BY DEF MergerInit, FiredRight, LanesHeard
<1> QED
  BY <1>1, <1>2 DEF MergerInv

\* Giving the state makes it the last input, or keeps it for the next instance.
LEMMA HandsOverType ==
    ASSUME MergerTypeOK, graph' \in GraphStates, HandsOver(graph')
    PROVE  /\ inputs' \in Seq(GraphStates) /\ owed' \in BOOLEAN
           /\ task' \in {"reading", "settling", "closed", "ended"}
           /\ task' = "reading" => inputs' # <<>> /\ inputs'[Len(inputs')] = graph'
<1>1. CASE task = "absent"
  <2>1. inputs' = <<graph'>> /\ task' = "reading" /\ owed' = FALSE
    BY <1>1 DEF HandsOver
  <2>2. Len(<<graph'>>) = 1 /\ <<graph'>>[1] = graph' /\ <<graph'>> # <<>>
        /\ <<graph'>> \in Seq(GraphStates)
    OBVIOUS
  <2> QED
    BY <2>1, <2>2
<1>2. CASE task \in {"reading", "settling"}
  <2>1. inputs' = Append(inputs, graph') /\ task' = task /\ owed' = FALSE
    BY <1>2 DEF HandsOver
  <2>2. inputs \in Seq(GraphStates)
    BY DEF MergerTypeOK
  <2>3. /\ Append(inputs, graph') \in Seq(GraphStates) /\ Append(inputs, graph') # <<>>
        /\ Append(inputs, graph')[Len(Append(inputs, graph'))] = graph'
    BY <2>2, LastOfAppend
  <2> QED
    BY <1>2, <2>1, <2>3
<1>3. CASE task \notin {"absent", "reading", "settling"}
  <2>1. owed' = TRUE /\ UNCHANGED <<task, inputs>>
    BY <1>3 DEF HandsOver
  <2> QED
    BY <1>3, <2>1 DEF MergerTypeOK
<1> QED
  BY <1>1, <1>2, <1>3

\* A judgement fires only on an input that does not show the merge, unless the
\* policy is to fire again.
LEMMA JudgesKeeps ==
    ASSUME MergerInv, Judges
    PROVE  MergerInv'
<1> DEFINE first == Head(inputs)
           decision == Decide(first)
<1>1. /\ task = "reading" /\ inputs # <<>> /\ inputs' = Tail(inputs)
      /\ task' = IF decision = "Wait" THEN "reading" ELSE "settling"
      /\ fired' = IF decision = "Fire" THEN Append(fired, first) ELSE fired
      /\ UNCHANGED <<policy, graph, updates, showing, owed, cancelled, endHeld, stopped, merged>>
  BY DEF Judges, around
<1>2. inputs \in Seq(GraphStates) /\ fired \in Seq(GraphStates)
      /\ policy \in {"Silent", "Fail", "FireAgain"}
  BY DEF MergerInv, MergerTypeOK
<1>3. /\ first \in GraphStates /\ Tail(inputs) \in Seq(GraphStates)
      /\ Tail(inputs) = <<>> => first = Heard
      /\ Tail(inputs) # <<>> => Tail(inputs)[Len(Tail(inputs))] = Heard
  BY <1>1, <1>2, LastOfTail DEF Heard
<1>4. /\ decision \in {"Wait", "Refuse", "Fire"}
      /\ decision = "Fire" => policy = "FireAgain" \/ ~first.shown
      /\ decision = "Wait" => \/ first.shown /\ policy = "Silent"
                              \/ ~(Cardinality(first.lanes) >= Needed)
  BY <1>2 DEF Decide, IsSpent, IsReady
<1>5. answer' \in {answer, "Result", "Refused"}
  BY <1>4 DEF Judges
<1> HIDE DEF first, decision
<1>6. fired' \in Seq(GraphStates)
  BY <1>1, <1>2, <1>3, LastOfAppend
<1>7. FiredRight'
  <2>1. CASE decision = "Fire"
    <3>1. \A i \in DOMAIN fired' : \/ i \in DOMAIN fired /\ fired'[i] = fired[i]
                                   \/ fired'[i] = first
      BY <1>1, <1>2, <1>3, <2>1, LastOfAppend
    <3> QED
      BY <1>1, <1>4, <2>1, <3>1 DEF MergerInv, FiredRight
  <2>2. CASE decision # "Fire"
    BY <1>1, <2>2 DEF MergerInv, FiredRight
  <2> QED
    BY <2>1, <2>2
<1>8. MergerTypeOK'
  BY <1>1, <1>3, <1>5, <1>6 DEF MergerInv, MergerTypeOK
<1>9. ASSUME ~stopped, ~cancelled PROVE LanesHeard'
  <2>1. Heard.lanes = graph.lanes /\ (Heard.shown => graph.shown)
    BY <1>1, <1>9 DEF MergerInv, LanesHeard
  <2>2. CASE Tail(inputs) # <<>>
    BY <1>1, <1>3, <2>1, <2>2 DEF LanesHeard, Heard
  <2>3. CASE Tail(inputs) = <<>> /\ decision = "Wait"
    <3>1. Cardinality(graph.lanes) \in Nat /\ Needed \in Nat
      BY MergerAssumption, FS_Subset, FS_CardinalityType DEF MergerInv, MergerTypeOK, GraphStates
    <3>2. first.lanes = graph.lanes /\ (first.shown => graph.shown)
      BY <1>3, <2>1, <2>3
    <3>3. Cardinality(graph.lanes) < Needed \/ (policy = "Silent" /\ graph.shown)
      BY <1>4, <2>3, <3>1, <3>2
    <3> QED
      BY <1>1, <2>3, <3>3 DEF LanesHeard
  <2>4. CASE Tail(inputs) = <<>> /\ decision # "Wait"
    BY <1>1, <2>4 DEF LanesHeard
  <2> QED
    BY <2>2, <2>3, <2>4
<1> QED
  BY <1>1, <1>7, <1>8, <1>9 DEF MergerInv

\* Every other step of the instance's task ends the reading or comes after it.
LEMMA OtherTaskKeeps ==
    ASSUME MergerInv, HearsSignal \/ Panics \/ Closes \/ Sends
    PROVE  MergerInv'
<1>1. UNCHANGED <<policy, graph, updates, showing, owed, cancelled, endHeld, stopped, merged, fired>>
  BY DEF HearsSignal, Panics, Closes, Sends, around
<1>2. /\ task' \in {"settling", "closed", "ended"}
      /\ answer' \in {answer, "Cancelled", "Vanished"}
      /\ inputs' = inputs \/ inputs' = <<>>
  BY DEF HearsSignal, Panics, Closes, Sends
<1>3. inputs' \in Seq(GraphStates)
  <2>1. inputs \in Seq(GraphStates) /\ <<>> \in Seq(GraphStates)
    BY DEF MergerInv, MergerTypeOK
  <2> QED
    BY <1>2, <2>1
<1>4. MergerTypeOK' /\ FiredRight'
  BY <1>1, <1>2, <1>3 DEF MergerInv, MergerTypeOK, FiredRight
<1>5. LanesHeard'
  BY <1>2 DEF LanesHeard
<1> QED
  BY <1>1, <1>4, <1>5 DEF MergerInv

LEMMA LaneKeeps ==
    ASSUME MergerInv, NEW l \in Lanes, LaneArrives(l)
    PROVE  MergerInv'
<1>1. /\ graph' = [graph EXCEPT !.lanes = @ \cup {l}] /\ HandsOver(graph')
      /\ updates' = updates + 1
      /\ UNCHANGED <<policy, showing, answer, cancelled, endHeld, stopped, fired, merged>>
  BY DEF LaneArrives
<1>2. graph' \in GraphStates
  BY <1>1 DEF MergerInv, MergerTypeOK, GraphStates
<1>3. /\ inputs' \in Seq(GraphStates) /\ owed' \in BOOLEAN
      /\ task' \in {"reading", "settling", "closed", "ended"}
      /\ task' = "reading" => inputs' # <<>> /\ inputs'[Len(inputs')] = graph'
  BY <1>1, <1>2, HandsOverType DEF MergerInv
<1>4. MergerTypeOK' /\ FiredRight'
  BY <1>1, <1>2, <1>3 DEF MergerInv, MergerTypeOK, FiredRight
<1>5. LanesHeard'
  BY <1>3 DEF LanesHeard, Heard
<1> QED
  BY <1>1, <1>4, <1>5 DEF MergerInv

\* The executor starts the next instance with the state the last one merged, if
\* it held one back; else that state is the merged one.
LEMMA AroundKeeps ==
    ASSUME MergerInv, ShowsMerge \/ TakesResult \/ TakesStop \/ RunCancels \/ RunLetsGo
    PROVE  MergerInv'
<1>1. graph \in GraphStates /\ showing \in Nat
  BY DEF MergerInv, MergerTypeOK
<1>2. CASE ShowsMerge
  <2>1. graph' \in GraphStates /\ graph'.lanes = graph.lanes /\ graph'.shown = TRUE
    BY <1>1, <1>2 DEF ShowsMerge, GraphStates
  <2>2. showing' \in Nat
    BY <1>1, <1>2 DEF ShowsMerge
  <2>3. UNCHANGED <<policy, updates, owed, task, inputs, answer, cancelled, endHeld, stopped,
                    fired, merged>>
    BY <1>2 DEF ShowsMerge
  <2>4. MergerTypeOK' /\ FiredRight'
    BY <2>1, <2>2, <2>3 DEF MergerInv, MergerTypeOK, FiredRight
  <2>5. LanesHeard => LanesHeard'
    BY <2>1, <2>3 DEF LanesHeard, Heard
  <2> QED
    BY <2>3, <2>4, <2>5 DEF MergerInv
<1>3. CASE TakesResult
  <2>1. /\ showing' = showing + 1 /\ owed' = FALSE /\ answer' = "none"
        /\ merged' = graph.lanes
        /\ UNCHANGED <<policy, graph, updates, cancelled, endHeld, stopped, fired>>
    BY <1>3 DEF TakesResult
  <2>2. \/ task' = "reading" /\ inputs' = <<graph>>
        \/ task' = "absent" /\ inputs' = inputs
    BY <1>3 DEF TakesResult
  <2>3. <<graph>> \in Seq(GraphStates) /\ <<graph>> # <<>> /\ <<graph>>[Len(<<graph>>)] = graph
    BY <1>1
  <2>4. inputs' \in Seq(GraphStates) /\ graph.lanes \in SUBSET Lanes
    BY <1>1, <2>2, <2>3 DEF MergerInv, MergerTypeOK, GraphStates
  <2>5. MergerTypeOK' /\ FiredRight'
    <3>1. showing' \in Nat /\ task' \in {"reading", "absent"} /\ merged' \in SUBSET Lanes
      BY <1>1, <2>1, <2>2, <2>4
    <3> QED
      BY <2>1, <2>4, <3>1 DEF MergerInv, MergerTypeOK, FiredRight
  <2>6. LanesHeard'
    BY <2>1, <2>2, <2>3 DEF LanesHeard, Heard
  <2> QED
    BY <2>1, <2>5, <2>6 DEF MergerInv
<1>4. CASE TakesStop \/ RunCancels \/ RunLetsGo
  <2>1. /\ UNCHANGED <<policy, graph, updates, showing, owed, task, inputs, answer, fired,
                       merged>>
        /\ stopped' \/ cancelled'
        /\ stopped' \in BOOLEAN /\ cancelled' \in BOOLEAN /\ endHeld' \in BOOLEAN
        /\ ~endHeld' => stopped'
    BY <1>4 DEF TakesStop, RunCancels, RunLetsGo, MergerInv, MergerTypeOK
  <2>2. MergerTypeOK' /\ FiredRight'
    BY <2>1 DEF MergerInv, MergerTypeOK, FiredRight
  <2> QED
    BY <2>1, <2>2 DEF MergerInv
<1> QED
  BY <1>2, <1>3, <1>4

LEMMA MergerNextInv ==
    ASSUME MergerInv, [MergerNext]_mergervars
    PROVE  MergerInv'
<1>1. CASE UNCHANGED mergervars
  BY <1>1 DEF mergervars, MergerInv, MergerTypeOK, FiredRight, LanesHeard, Heard
<1> QED
  BY <1>1, JudgesKeeps, OtherTaskKeeps, LaneKeeps, AroundKeeps DEF MergerNext, MergerTask

\* A merger at rest left no lane out: the last merge held them all, or the lane
\* is late and the policy silent; one that is silent or fails never merged on a
\* state that showed the merge.
THEOREM MergeIsKept == MergerSpec => []MergeKept
<1>1. MergerInv => MergeKept
  <2> SUFFICES ASSUME MergerInv, AtRest, Cardinality(graph.lanes) >= Needed
               PROVE  merged = graph.lanes \/ (policy = "Silent" /\ graph.shown)
    BY DEF MergeKept, MergerInv, FiredRight
  <2>1. LanesHeard
    BY DEF AtRest, MergerInv
  <2>2. Cardinality(graph.lanes) \in Nat /\ Needed \in Nat \ {0}
    BY MergerAssumption, FS_Subset, FS_CardinalityType DEF MergerInv, MergerTypeOK, GraphStates
  <2>3. graph.lanes # {}
    BY <2>2, FS_EmptySet
  <2> QED
    BY <2>1, <2>2, <2>3 DEF AtRest, LanesHeard
<1> QED
  BY <1>1, MergerInitInv, MergerNextInv, PTL DEF MergerSpec

-----------------------------------------------------------------------------
(***************************************************************************)
(* What Without gives: the queue has a filter for each of its prefixes, by      *)
(* induction on the length, whose least counterexample LeastNumber names.       *)
(***************************************************************************)
Departs(f, queue, leaving, n) ==
    f = [i \in 0..n |->
           IF i = 0 THEN <<>>
           ELSE IF queue[i] \in leaving THEN f[i - 1] ELSE Append(f[i - 1], queue[i])]

LEMMA DepartureIsThere ==
    ASSUME NEW queue, NEW leaving, NEW n \in Nat
    PROVE  \E f : Departs(f, queue, leaving, n)
<1> DEFINE Lacking == {m \in Nat : ~\E f : Departs(f, queue, leaving, m)}
<1> SUFFICES ASSUME Lacking # {} PROVE FALSE OBVIOUS
<1>1. PICK m \in Lacking : \A k \in Lacking : m <= k
  <2> HIDE DEF Lacking
  <2>1. Lacking \in SUBSET Nat BY DEF Lacking
  <2> QED BY <2>1, LeastNumber
<1>2. m \in Nat /\ ~\E f : Departs(f, queue, leaving, m) OBVIOUS
<1>3. m # 0
  <2> SUFFICES ASSUME m = 0 PROVE FALSE OBVIOUS
  <2>1. Departs([i \in 0..0 |-> <<>>], queue, leaving, 0) BY DEF Departs
  <2> QED BY <2>1, <1>2
<1>4. m - 1 \in Nat /\ m - 1 \notin Lacking BY <1>1, <1>2, <1>3
<1>5. PICK g : Departs(g, queue, leaving, m - 1) BY <1>4
<1> DEFINE h == IF queue[m] \in leaving THEN g[m - 1] ELSE Append(g[m - 1], queue[m])
           f == [i \in 0..m |-> IF i = m THEN h ELSE g[i]]
<1>6. Departs(f, queue, leaving, m)
  <2>1. \A i \in 0..m : i # m => i \in 0..(m - 1) BY <1>2
  <2>2. \A i \in 0..(m - 1) : f[i] = g[i] BY <1>2
  <2>3. f[m] = IF queue[m] \in leaving THEN f[m - 1] ELSE Append(f[m - 1], queue[m])
    BY <1>2, <1>3, <2>2
  <2>4. \A i \in 0..(m - 1) :
          g[i] = IF i = 0 THEN <<>>
                 ELSE IF queue[i] \in leaving THEN g[i - 1] ELSE Append(g[i - 1], queue[i])
    BY <1>5 DEF Departs
  <2>5. \A i \in 0..(m - 1) : i # 0 => i - 1 \in 0..(m - 1) BY <1>2
  <2>6. \A i \in 0..m :
          f[i] = IF i = 0 THEN <<>>
                 ELSE IF queue[i] \in leaving THEN f[i - 1] ELSE Append(f[i - 1], queue[i])
    <3> HIDE DEF f
    <3> QED BY <1>2, <1>3, <2>1, <2>2, <2>3, <2>4, <2>5
  <2>7. f = [i \in 0..m |-> f[i]] OBVIOUS
  <2> HIDE DEF f
  <2> QED BY <2>6, <2>7 DEF Departs
<1> QED BY <1>2, <1>6

\* What stays: what the queue holds and does not leave, each once if it is in it once.

LEMMA WithoutKeeps ==
    ASSUME NEW S, NEW queue \in Seq(S), NEW leaving, Apart(queue)
    PROVE  /\ Without(queue, leaving) \in Seq(S)
           /\ ToSet(Without(queue, leaving)) = ToSet(queue) \ leaving
           /\ Apart(Without(queue, leaving))
<1> DEFINE kept == CHOOSE f : Departs(f, queue, leaving, Len(queue))
<1>1. Len(queue) \in Nat /\ DOMAIN queue = 1..Len(queue) OBVIOUS
<1>2. Departs(kept, queue, leaving, Len(queue)) BY <1>1, DepartureIsThere
<1>3. Without(queue, leaving) = kept[Len(queue)] BY Zenon DEF Without, Departs
<1> HIDE DEF kept
<1>4. /\ kept[0] = <<>>
      /\ \A i \in 1..Len(queue) :
           kept[i] = IF queue[i] \in leaving THEN kept[i - 1] ELSE Append(kept[i - 1], queue[i])
  <2>1. \A i \in 0..Len(queue) :
          kept[i] = IF i = 0 THEN <<>>
                    ELSE IF queue[i] \in leaving THEN kept[i - 1]
                    ELSE Append(kept[i - 1], queue[i])
    BY <1>2 DEF Departs
  <2> QED BY <2>1, <1>1
<1> DEFINE Typed(n) == kept[n] \in Seq(S)
           From(n) == \A k \in 1..Len(kept[n]) :
                         \E j \in 1..n : kept[n][k] = queue[j] /\ queue[j] \notin leaving
           Into(n) == \A j \in 1..n : queue[j] \notin leaving =>
                         \E k \in 1..Len(kept[n]) : kept[n][k] = queue[j]
           Good(n) == Typed(n) /\ From(n) /\ Into(n) /\ Apart(kept[n])
           Bad == {n \in 0..Len(queue) : ~Good(n)}
<1>5. Good(0) BY <1>4 DEF Apart
<1>6. ASSUME NEW n \in 1..Len(queue), Good(n - 1) PROVE Good(n)
  <2>1. queue[n] \in S BY <1>1
  <2>2. n - 1 \in 0..Len(queue) /\ \A j \in 1..n : j = n \/ j \in 1..(n - 1) BY <1>1
  <2>3. 1..(n - 1) \subseteq 1..n /\ n \in 1..n BY <1>1
  <2>4. CASE queue[n] \in leaving
    <3>1. kept[n] = kept[n - 1] BY <2>4, <1>4
    <3>2. Typed(n) /\ Apart(kept[n]) BY <3>1, <1>6
    <3>3. From(n) BY <3>1, <1>6, <2>3
    <3>4. Into(n) BY <3>1, <1>6, <2>2, <2>4
    <3> QED BY <3>2, <3>3, <3>4
  <2>5. CASE queue[n] \notin leaving
    <3> DEFINE s == kept[n - 1]
    <3>1. kept[n] = Append(s, queue[n]) BY <2>5, <1>4
    <3>2. s \in Seq(S) BY <1>6
    <3> HIDE DEF s
    <3>3. /\ kept[n] \in Seq(S) /\ Len(kept[n]) = Len(s) + 1 /\ Len(s) \in Nat
          /\ kept[n][Len(s) + 1] = queue[n]
          /\ \A k \in 1..Len(s) : kept[n][k] = s[k]
      BY <2>1, <3>1, <3>2
    <3>4. /\ \A k \in 1..Len(kept[n]) : k = Len(s) + 1 \/ k \in 1..Len(s)
          /\ 1..Len(s) \subseteq 1..Len(kept[n]) /\ Len(s) + 1 \in 1..Len(kept[n])
          /\ DOMAIN kept[n] = 1..Len(kept[n])
      BY <3>3
    <3>5. /\ \A k \in 1..Len(s) : \E j \in 1..(n - 1) : s[k] = queue[j] /\ queue[j] \notin leaving
          /\ \A j \in 1..(n - 1) : queue[j] \notin leaving => \E k \in 1..Len(s) : s[k] = queue[j]
          /\ Apart(s) /\ DOMAIN s = 1..Len(s)
      BY <1>6, <3>2 DEF s
    <3>6. From(n)
      <4> SUFFICES ASSUME NEW k \in 1..Len(kept[n])
                   PROVE  \E j \in 1..n : kept[n][k] = queue[j] /\ queue[j] \notin leaving
        OBVIOUS
      <4>1. CASE k = Len(s) + 1 BY <4>1, <3>3, <2>3, <2>5
      <4>2. CASE k \in 1..Len(s)
        <5>1. PICK j \in 1..(n - 1) : s[k] = queue[j] /\ queue[j] \notin leaving BY <4>2, <3>5
        <5>2. kept[n][k] = queue[j] /\ j \in 1..n BY <4>2, <5>1, <3>3, <2>3
        <5> QED BY <5>1, <5>2
      <4> QED BY <4>1, <4>2, <3>4
    <3>7. Into(n)
      <4> SUFFICES ASSUME NEW j \in 1..n, queue[j] \notin leaving
                   PROVE  \E k \in 1..Len(kept[n]) : kept[n][k] = queue[j]
        OBVIOUS
      <4>1. CASE j = n BY <4>1, <3>3, <3>4
      <4>2. CASE j \in 1..(n - 1) BY <4>2, <3>3, <3>4, <3>5
      <4> QED BY <4>1, <4>2, <2>2
    <3>8. \A k \in 1..Len(s) : s[k] # queue[n]
      <4> SUFFICES ASSUME NEW k \in 1..Len(s), s[k] = queue[n] PROVE FALSE OBVIOUS
      <4>1. PICK j \in 1..(n - 1) : s[k] = queue[j] BY <3>5
      <4>2. j \in DOMAIN queue /\ n \in DOMAIN queue /\ j # n BY <1>1
      <4> QED BY <4>1, <4>2 DEF Apart
    <3>9. Apart(kept[n]) BY <3>3, <3>4, <3>5, <3>8 DEF Apart
    <3> QED BY <3>3, <3>6, <3>7, <3>9
  <2> QED BY <2>4, <2>5
<1>7. Bad = {}
  <2> SUFFICES ASSUME Bad # {} PROVE FALSE OBVIOUS
  <2>1. PICK m \in Bad : \A k \in Bad : m <= k
    <3>1. Bad \in SUBSET Nat OBVIOUS
    <3> HIDE DEF Bad
    <3> QED BY <3>1, LeastNumber
  <2>2. m \in 0..Len(queue) /\ ~Good(m) BY <2>1
  <2>3. m # 0 BY <2>2, <1>5
  <2>4. m - 1 \in 0..Len(queue) /\ m - 1 \notin Bad /\ m \in 1..Len(queue)
    <3> HIDE DEF Good
    <3> QED BY <2>1, <2>2, <2>3, <1>1
  <2> HIDE DEF Good
  <2> QED BY <2>2, <2>4, <1>6
<1>8. Good(Len(queue))
  <2> HIDE DEF Good
  <2> QED BY <1>1, <1>7
<1>9. ToSet(kept[Len(queue)]) = ToSet(queue) \ leaving
  <2>1. DOMAIN kept[Len(queue)] = 1..Len(kept[Len(queue)]) BY <1>8
  <2>2. From(Len(queue)) /\ Into(Len(queue)) BY <1>8
  <2>3. ASSUME NEW c \in ToSet(kept[Len(queue)]) PROVE c \in ToSet(queue) \ leaving
    BY <2>1, <2>2, <1>1 DEF ToSet
  <2>4. ASSUME NEW c \in ToSet(queue) \ leaving PROVE c \in ToSet(kept[Len(queue)])
    <3>1. PICK j \in 1..Len(queue) : c = queue[j] /\ queue[j] \notin leaving BY <1>1 DEF ToSet
    <3>2. PICK k \in 1..Len(kept[Len(queue)]) : kept[Len(queue)][k] = queue[j] BY <3>1, <2>2
    <3> QED BY <2>1, <3>1, <3>2 DEF ToSet
  <2> QED BY <2>3, <2>4
<1> QED BY <1>3, <1>8, <1>9

-----------------------------------------------------------------------------
(***************************************************************************)
(* The gate.  The invariant of PlacesKept says more: a call waits once, the     *)
(* calls that wait, run or were handed a place are those of nodes that run      *)
(* their calls, and these are the holders of the gate, which is forgotten with   *)
(* the last of them.                                                         *)
(***************************************************************************)
NodeStates == {"new", "calls", "waiting", "writing", "done", "failed", "panicked", "cancelled"}
CallStates == {"idle", "queued", "handed", "running", "answered", "hook_failed", "not_started",
               "dropped"}
InGate == {"queued", "handed", "running"}
NodeTypes == durable \in BOOLEAN /\ node \in [AllNodes -> NodeStates]

CallsIn(cs, state) == {c \in AllCalls : cs[c] = state}
Gates == [free : Nat, queue : Seq(AllCalls), holders : SUBSET AllNodes]

\* What the places, the queue and the calls say of each other.
Fitting(g, cs) ==
    /\ g \in Gates /\ cs \in [AllCalls -> CallStates]
    /\ g.free + Cardinality(CallsIn(cs, "running")) + Cardinality(CallsIn(cs, "handed")) = Width
    /\ g.free > 0 => g.queue = <<>>
    /\ ToSet(g.queue) = CallsIn(cs, "queued")
    /\ Apart(g.queue)

Within(cs, ns) == \A c \in AllCalls : cs[c] \in InGate => ns[Owner[c]] = "calls"
Holding(ns) == {n \in AllNodes : ns[n] = "calls"}
GateInv == Fitting(gate, call) /\ Within(call, node) /\ gate.holders = Holding(node)

LEMMA CallsAreFinite ==
    /\ IsFiniteSet(AllCalls)
    /\ \A T \in SUBSET AllCalls : IsFiniteSet(T) /\ Cardinality(T) \in Nat
<1>1. IsFiniteSet(AllCalls) BY FS_Interval, ToolRoundAssumption DEF AllCalls
<1>2. \A T \in SUBSET AllCalls : IsFiniteSet(T) /\ Cardinality(T) \in Nat
  BY <1>1, FS_Subset, FS_CardinalityType
<1> QED BY <1>1, <1>2

\* Calls of two kinds are counted apart.
LEMMA CountedApart ==
    ASSUME NEW A \in SUBSET AllCalls, NEW B \in SUBSET AllCalls, A \cap B = {}
    PROVE  Cardinality(A \cup B) = Cardinality(A) + Cardinality(B)
<1>1. IsFiniteSet(A) /\ IsFiniteSet(B) BY CallsAreFinite
<1>2. Cardinality(A \cup B) = Cardinality(A) + Cardinality(B) - Cardinality(A \cap B)
  BY <1>1, FS_Union
<1>3. Cardinality(A \cap B) = 0 BY FS_EmptySet
<1>4. Cardinality(A) \in Nat /\ Cardinality(B) \in Nat BY CallsAreFinite
<1> QED BY <1>2, <1>3, <1>4

\* As many calls are handed a place as places are given.
LEMMA HandedAreGiven ==
    ASSUME Fitting(gate, call), NEW leaving \in SUBSET AllCalls
    PROVE  /\ Given(leaving) \in Nat
           /\ Given(leaving) <= Cardinality(Places(leaving))
           /\ Given(leaving) <= Len(Staying(leaving))
           /\ Given(leaving) = Cardinality(Places(leaving)) \/ Given(leaving) = Len(Staying(leaving))
           /\ Handed(leaving) \subseteq CallsIn(call, "queued") \ leaving
           /\ Cardinality(Handed(leaving)) = Given(leaving)
<1> DEFINE s == Staying(leaving)  G == Given(leaving)
<1>1. /\ s \in Seq(AllCalls) /\ ToSet(s) = ToSet(gate.queue) \ leaving /\ Apart(s)
  BY WithoutKeeps DEF Fitting, Gates, Staying
<1>2. Len(s) \in Nat /\ DOMAIN s = 1..Len(s) BY <1>1
<1>3. Cardinality(Places(leaving)) \in Nat BY CallsAreFinite DEF Places
<1>4. /\ G \in Nat /\ G <= Cardinality(Places(leaving)) /\ G <= Len(s)
      /\ G = Cardinality(Places(leaving)) \/ G = Len(s)
  <2> HIDE DEF s
  <2>1. G = IF Cardinality(Places(leaving)) < Len(s) THEN Cardinality(Places(leaving)) ELSE Len(s)
    BY DEF Given, s
  <2> HIDE DEF G
  <2> QED BY <1>2, <1>3, <2>1
<1>5. Handed(leaving) \subseteq CallsIn(call, "queued") \ leaving
  <2>1. \A i \in 1..G : i \in DOMAIN s /\ s[i] \in ToSet(s) BY <1>2, <1>4 DEF ToSet
  <2>2. ToSet(gate.queue) = CallsIn(call, "queued") BY DEF Fitting
  <2> QED BY <2>1, <2>2, <1>1 DEF Handed
<1>6. Cardinality(Handed(leaving)) = G
  <2> DEFINE f == [i \in 1..G |-> s[i]]
  <2> HIDE DEF s, G
  <2>1. f \in Surjection(1..G, Handed(leaving))
    <3>1. Handed(leaving) = {s[i] : i \in 1..G} BY Zenon DEF Handed, s, G
    <3>2. f \in [1..G -> Handed(leaving)] BY <3>1
    <3>3. \A c \in Handed(leaving) : \E i \in 1..G : f[i] = c BY <3>1
    <3> HIDE DEF f
    <3> QED BY <3>2, <3>3 DEF Surjection
  <2>2. f \in Injection(1..G, Handed(leaving))
    <3>1. \A i \in 1..G : f[i] = s[i] OBVIOUS
    <3>2. \A i, j \in 1..G : f[i] = f[j] => i = j
      <4> HIDE DEF f
      <4>1. \A i \in 1..G : i \in 1..Len(s)
        <5>1. G \in Nat /\ Len(s) \in Nat /\ G <= Len(s) BY Zenon, <1>2, <1>4
        <5> QED BY <5>1
      <4> QED BY <1>1, <1>2, <3>1, <4>1 DEF Apart
    <3>3. f \in [1..G -> Handed(leaving)] BY <2>1 DEF Surjection
    <3> HIDE DEF f
    <3> QED BY <3>2, <3>3 DEF Injection, IsInjective
  <2>3. IsFiniteSet(1..G) /\ Cardinality(1..G) = G BY <1>4, FS_Interval
  <2> HIDE DEF f
  <2> QED BY <2>1, <2>2, <2>3, FS_Surjection
<1> QED BY <1>4, <1>5, <1>6

\* What is left of the queue once its first n are handed a place.
LEMMA RestOfQueue ==
    ASSUME NEW s \in Seq(AllCalls), Apart(s), NEW n \in Nat, n <= Len(s)
    PROVE  LET rest == SubSeq(s, n + 1, Len(s)) IN
           /\ rest \in Seq(AllCalls) /\ Apart(rest)
           /\ ToSet(rest) = ToSet(s) \ {s[i] : i \in 1..n}
           /\ n = Len(s) => rest = <<>>
<1> DEFINE rest == SubSeq(s, n + 1, Len(s))
<1>1. /\ rest \in Seq(AllCalls) /\ Len(rest) = Len(s) - n
      /\ \A i \in 1..(Len(s) - n) : rest[i] = s[n + i]
  <2>1. Len(s) \in Nat /\ \A i \in (n + 1)..Len(s) : s[i] \in AllCalls OBVIOUS
  <2>2. /\ rest \in Seq(AllCalls)
        /\ Len(rest) = IF n + 1 <= Len(s) THEN Len(s) - (n + 1) + 1 ELSE 0
        /\ \A i \in 1..(Len(s) - (n + 1) + 1) : rest[i] = s[(n + 1) + i - 1]
    BY <2>1, SubSeqProperties
  <2> HIDE DEF rest
  <2>3. Len(rest) = Len(s) - n BY <2>1, <2>2
  <2>4. Len(s) - (n + 1) + 1 = Len(s) - n BY <2>1
  <2>5. \A i \in 1..(Len(s) - n) : (n + 1) + i - 1 = n + i BY <2>1
  <2> QED BY <2>2, <2>3, <2>4, <2>5
<1>2. Len(s) \in Nat /\ DOMAIN s = 1..Len(s) /\ DOMAIN rest = 1..(Len(s) - n) BY <1>1
<1> HIDE DEF rest
<1>3. Apart(rest)
  <2> SUFFICES ASSUME NEW i \in 1..(Len(s) - n), NEW j \in 1..(Len(s) - n), rest[i] = rest[j]
               PROVE  i = j
    BY <1>2 DEF Apart
  <2>1. n + i \in 1..Len(s) /\ n + j \in 1..Len(s) BY <1>2
  <2>2. s[n + i] = s[n + j] BY <1>1
  <2>3. n + i = n + j BY <1>2, <2>1, <2>2 DEF Apart
  <2> QED BY <2>3
<1>4. ToSet(rest) = ToSet(s) \ {s[i] : i \in 1..n}
  <2>1. ASSUME NEW c \in ToSet(rest) PROVE c \in ToSet(s) /\ c \notin {s[i] : i \in 1..n}
    <3>1. PICK i \in 1..(Len(s) - n) : c = rest[i] BY <1>2 DEF ToSet
    <3>2. n + i \in 1..Len(s) /\ c = s[n + i] BY <3>1, <1>1, <1>2
    <3>3. \A j \in 1..n : j \in 1..Len(s) /\ j # n + i BY <3>1, <1>2
    <3> QED BY <3>2, <3>3, <1>2 DEF ToSet, Apart
  <2>2. ASSUME NEW c \in ToSet(s), c \notin {s[i] : i \in 1..n} PROVE c \in ToSet(rest)
    <3>1. PICK j \in 1..Len(s) : c = s[j] BY <1>2 DEF ToSet
    <3>2. j \notin 1..n BY <3>1, <2>2
    <3>3. j - n \in 1..(Len(s) - n) /\ n + (j - n) = j BY <3>1, <3>2, <1>2
    <3>4. rest[j - n] = c BY <3>1, <3>3, <1>1
    <3> QED BY <3>3, <3>4, <1>2 DEF ToSet
  <2> QED BY <2>1, <2>2
<1>5. n = Len(s) => rest = <<>> BY <1>1, <1>2
<1> QED BY <1>1, <1>3, <1>4, <1>5 DEF rest

\* Calls that leave give back their places, to those that wait first.
LEMMA ReleaseFits ==
    ASSUME Fitting(gate, call), NEW leaving \in SUBSET AllCalls,
           NEW to \in {"answered", "hook_failed", "not_started", "dropped"},
           Released(leaving, to)
    PROVE  /\ Fitting(GateWithout(leaving), call')
           /\ GateWithout(leaving).holders = gate.holders
           /\ \A c \in AllCalls : call'[c] \in InGate => call[c] \in InGate /\ c \notin leaving
<1> DEFINE P == Places(leaving)  G == Given(leaving)  H == Handed(leaving)
           g == GateWithout(leaving)
           left == CallsIn(call, "running")  given == CallsIn(call, "handed")
<1>1. /\ gate \in Gates /\ call \in [AllCalls -> CallStates]
      /\ gate.free + Cardinality(left) + Cardinality(given) = Width
      /\ gate.free > 0 => gate.queue = <<>>
      /\ ToSet(gate.queue) = CallsIn(call, "queued") /\ Apart(gate.queue)
  BY DEF Fitting
<1>2. /\ G \in Nat /\ G <= Cardinality(P) /\ G <= Len(Staying(leaving))
      /\ G = Cardinality(P) \/ G = Len(Staying(leaving))
      /\ H \subseteq CallsIn(call, "queued") \ leaving
      /\ Cardinality(H) = G
  BY HandedAreGiven
<1>3. /\ g.free = gate.free + (Cardinality(P) - G)
      /\ g.queue = SubSeq(Staying(leaving), G + 1, Len(Staying(leaving)))
      /\ g.holders = gate.holders
      /\ g = [free |-> g.free, queue |-> g.queue, holders |-> g.holders]
  <2>1. g = [gate EXCEPT !.free = @ + (Cardinality(P) - G),
                         !.queue = SubSeq(Staying(leaving), G + 1, Len(Staying(leaving)))]
    BY Zenon DEF GateWithout
  <2>2. gate = [free |-> gate.free, queue |-> gate.queue, holders |-> gate.holders]
    BY <1>1 DEF Gates
  <2> HIDE DEF g, P, G
  <2> QED BY <2>1, <2>2
<1>4. call' = [c \in AllCalls |-> IF c \in leaving THEN to
                                  ELSE IF c \in H THEN "handed" ELSE call[c]]
  <2>1. call' = [c \in AllCalls |->
                   CASE c \in leaving -> to [] c \in H -> "handed" [] OTHER -> call[c]]
    BY Zenon DEF Released
  <2>2. \A c \in H : c \notin leaving BY <1>2
  <2> HIDE DEF H
  <2> QED BY <2>1, <2>2
<1>5. call' \in [AllCalls -> CallStates]
  <2> HIDE DEF H
  <2> QED BY <1>1, <1>4 DEF CallStates
<1> HIDE DEF P, G, H, g
<1>6. /\ CallsIn(call', "running") = left \ P
      /\ CallsIn(call', "handed") = (given \ P) \cup H
      /\ CallsIn(call', "queued") = (CallsIn(call, "queued") \ leaving) \ H
  <2>1. \A c \in AllCalls : c \in P <=> c \in leaving /\ call[c] \in {"running", "handed"}
    BY DEF P, Places
  <2>2. \A c \in H : c \notin leaving /\ call[c] = "queued" /\ c \in AllCalls BY <1>2 DEF CallsIn
  <2>3. CallsIn(call', "running") = left \ P BY <1>4, <2>1, <2>2 DEF CallsIn
  <2>4. CallsIn(call', "handed") = (given \ P) \cup H BY <1>4, <2>1, <2>2 DEF CallsIn
  <2>5. CallsIn(call', "queued") = (CallsIn(call, "queued") \ leaving) \ H
    BY <1>4, <2>2 DEF CallsIn
  <2> QED BY <2>3, <2>4, <2>5
<1>7. Cardinality(left \ P) + Cardinality(given \ P) + Cardinality(P)
        = Cardinality(left) + Cardinality(given)
  <2>1. P = (left \cap P) \cup (given \cap P) BY DEF P, Places, CallsIn
  <2>2. left \subseteq AllCalls /\ given \subseteq AllCalls /\ left \cap given = {} BY DEF CallsIn
  <2>3. Cardinality(P) = Cardinality(left \cap P) + Cardinality(given \cap P)
    <3>1. Cardinality((left \cap P) \cup (given \cap P))
            = Cardinality(left \cap P) + Cardinality(given \cap P)
      BY <2>2, CountedApart
    <3> QED BY <2>1, <3>1
  <2>4. Cardinality(left) = Cardinality(left \ P) + Cardinality(left \cap P)
    <3>1. (left \ P) \cup (left \cap P) = left /\ (left \ P) \cap (left \cap P) = {} OBVIOUS
    <3>2. Cardinality((left \ P) \cup (left \cap P))
            = Cardinality(left \ P) + Cardinality(left \cap P)
      BY <2>2, <3>1, CountedApart
    <3> QED BY <3>1, <3>2
  <2>5. Cardinality(given) = Cardinality(given \ P) + Cardinality(given \cap P)
    <3>1. (given \ P) \cup (given \cap P) = given /\ (given \ P) \cap (given \cap P) = {} OBVIOUS
    <3>2. Cardinality((given \ P) \cup (given \cap P))
            = Cardinality(given \ P) + Cardinality(given \cap P)
      BY <2>2, <3>1, CountedApart
    <3> QED BY <3>1, <3>2
  <2>6. /\ Cardinality(left \ P) \in Nat /\ Cardinality(given \ P) \in Nat
        /\ Cardinality(left \cap P) \in Nat /\ Cardinality(given \cap P) \in Nat
    BY <2>2, CallsAreFinite
  <2> HIDE DEF left, given
  <2> QED BY <2>3, <2>4, <2>5, <2>6
<1>8. Cardinality((given \ P) \cup H) = Cardinality(given \ P) + G
  <2>1. given \ P \subseteq AllCalls /\ H \subseteq AllCalls /\ (given \ P) \cap H = {}
    BY <1>2 DEF CallsIn
  <2>2. Cardinality((given \ P) \cup H) = Cardinality(given \ P) + Cardinality(H)
    BY <2>1, CountedApart
  <2> QED BY <1>2, <2>2
<1>9. /\ Cardinality(P) \in Nat /\ Cardinality(left \ P) \in Nat /\ Cardinality(given \ P) \in Nat
      /\ Cardinality(left) \in Nat /\ Cardinality(given) \in Nat /\ gate.free \in Nat
      /\ Width \in Nat
  <2>1. P \subseteq AllCalls /\ left \subseteq AllCalls /\ given \subseteq AllCalls
    BY DEF P, Places, CallsIn
  <2> QED BY <2>1, <1>1, CallsAreFinite, ToolRoundAssumption DEF Gates
<1>10. g.free \in Nat
  <2>1. Cardinality(P) - G \in Nat BY <1>2, <1>9
  <2> QED BY <1>3, <1>9, <2>1
<1>11. g.free + Cardinality(CallsIn(call', "running")) + Cardinality(CallsIn(call', "handed")) = Width
  <2> HIDE DEF left, given
  <2>1. /\ Cardinality(CallsIn(call', "running")) = Cardinality(left \ P)
        /\ Cardinality(CallsIn(call', "handed")) = Cardinality(given \ P) + G
    BY <1>6, <1>8
  <2>2. G \in Nat BY <1>2
  <2>3. gate.free + Cardinality(left) + Cardinality(given) = Width BY <1>1 DEF left, given
  <2>4. g.free = gate.free + (Cardinality(P) - G) BY <1>3
  <2> QED BY <1>7, <1>9, <2>1, <2>2, <2>3, <2>4
<1> DEFINE s == Staying(leaving)
<1>12. s \in Seq(AllCalls) /\ ToSet(s) = ToSet(gate.queue) \ leaving /\ Apart(s)
  BY <1>1, WithoutKeeps DEF Gates, Staying
<1>13. H = {s[i] : i \in 1..G} BY Zenon DEF H, Handed, G
<1>14. /\ g.queue \in Seq(AllCalls) /\ Apart(g.queue)
       /\ ToSet(g.queue) = ToSet(s) \ H
       /\ G = Len(s) => g.queue = <<>>
  <2> HIDE DEF s
  <2>1. G \in Nat /\ G <= Len(s) BY <1>2 DEF s
  <2>2. g.queue = SubSeq(s, G + 1, Len(s)) BY <1>3 DEF s
  <2> QED BY <1>12, <1>13, <2>1, <2>2, RestOfQueue
<1>15. ToSet(g.queue) = CallsIn(call', "queued") BY <1>1, <1>6, <1>12, <1>14
<1>16. g.free > 0 => g.queue = <<>>
  <2> SUFFICES ASSUME g.free > 0 PROVE g.queue = <<>> OBVIOUS
  <2>1. CASE G = Len(s) BY <2>1, <1>14
  <2>2. CASE G = Cardinality(P)
    <3>1. gate.free > 0 BY <2>2, <1>3, <1>9
    <3>2. ToSet(gate.queue) = {} BY <3>1, <1>1 DEF ToSet
    <3>3. ToSet(g.queue) = {} BY <3>2, <1>12, <1>14
    <3>4. Len(g.queue) = 0
      <4>1. g.queue \in Seq(AllCalls) /\ 1 \notin DOMAIN g.queue BY <3>3, <1>14 DEF ToSet
      <4> QED BY <4>1
    <3> QED BY <3>4, <1>14
  <2> QED BY <2>1, <2>2, <1>2
<1>17. g \in Gates BY <1>1, <1>3, <1>10, <1>14 DEF Gates
<1>18. \A c \in AllCalls : call'[c] \in InGate => call[c] \in InGate /\ c \notin leaving
  <2>1. \A c \in H : call[c] = "queued" /\ c \notin leaving BY <1>2 DEF CallsIn
  <2> QED BY <1>4, <2>1 DEF InGate
<1> QED BY <1>3, <1>5, <1>11, <1>14, <1>15, <1>16, <1>17, <1>18 DEF Fitting, g

\* The lease of a node none of whose calls is in the gate is dropped.
LEMMA UnleaseFits ==
    ASSUME NEW g, NEW cs, Fitting(g, cs), NEW n \in AllNodes,
           \A c \in AllCalls : cs[c] \in InGate => Owner[c] \in g.holders /\ Owner[c] # n
    PROVE  Fitting(Unleased(g, n), cs) /\ Unleased(g, n).holders = g.holders \ {n}
<1>1. CASE g.holders = {n}
  <2>1. \A c \in AllCalls : cs[c] \notin InGate BY <1>1
  <2>2. CallsIn(cs, "running") = {} /\ CallsIn(cs, "handed") = {} /\ CallsIn(cs, "queued") = {}
    BY <2>1 DEF CallsIn, InGate
  <2>3. Unleased(g, n) = NewGate BY <1>1 DEF Unleased
  <2>4. NewGate \in Gates BY ToolRoundAssumption DEF NewGate, Gates
  <2>5. Cardinality({}) = 0 BY FS_EmptySet
  <2>6. NewGate.free + Cardinality({}) + Cardinality({}) = Width
    BY <2>5, ToolRoundAssumption DEF NewGate
  <2>7. NewGate.queue = <<>> /\ ToSet(<<>>) = {} /\ Apart(<<>>) BY DEF NewGate, ToSet, Apart
  <2>8. NewGate.holders = {} BY DEF NewGate
  <2> HIDE DEF NewGate
  <2> QED BY <1>1, <2>2, <2>3, <2>4, <2>6, <2>7, <2>8 DEF Fitting
<1>2. CASE g.holders # {n}
  <2>1. g \in Gates BY DEF Fitting
  <2>2. Unleased(g, n) = [g EXCEPT !.holders = @ \ {n}] BY <1>2 DEF Unleased
  <2>3. /\ Unleased(g, n) \in Gates /\ Unleased(g, n).free = g.free
        /\ Unleased(g, n).queue = g.queue /\ Unleased(g, n).holders = g.holders \ {n}
    BY <2>1, <2>2 DEF Gates
  <2> QED BY <2>3 DEF Fitting
<1> QED BY <1>1, <1>2

LEMMA NodesNext == NodeTypes /\ [ToolNext]_toolvars => NodeTypes'
<1> SUFFICES ASSUME NodeTypes, [ToolNext]_toolvars PROVE NodeTypes' OBVIOUS
<1>1. durable' = durable
  BY DEF ToolNext, Poll, Enter, Collect, StoreEnds, Told, CallStart, TakePlace, CallEnds, CallPanics, Cancel, DropNode,
         toolvars
<1>2. \/ node' = node
      \/ \E n \in AllNodes : \E to \in NodeStates : node' = [node EXCEPT ![n] = to]
  <2>1. ASSUME NEW n \in AllNodes, Enter(n) \/ StoreEnds(n) \/ Told(n)
        PROVE  \E to \in NodeStates : node' = [node EXCEPT ![n] = to]
    BY <2>1 DEF Enter, StoreEnds, Told, NodeStates
  <2>2. ASSUME NEW n \in AllNodes, Collect(n)
        PROVE  \E to \in NodeStates : node' = [node EXCEPT ![n] = to]
    BY <2>2 DEF Collect, NodeStates
  <2>3. ASSUME NEW c \in AllCalls, CallStart(c) \/ TakePlace(c) \/ CallEnds(c) PROVE node' = node
    BY <2>3 DEF CallStart, TakePlace, CallEnds
  <2>4. ASSUME NEW c \in AllCalls, CallPanics(c)
        PROVE  \E n \in AllNodes : \E to \in NodeStates : node' = [node EXCEPT ![n] = to]
    <3>1. Owner[c] \in AllNodes BY ToolRoundAssumption DEF AllCalls, AllNodes
    <3> QED BY <2>4, <3>1 DEF CallPanics, Dropped, NodeStates
  <2>5. ASSUME NEW n \in AllNodes, DropNode(n)
        PROVE  \E to \in NodeStates : node' = [node EXCEPT ![n] = to]
    BY <2>5 DEF DropNode, Dropped, NodeStates
  <2>6. CASE Cancel \/ UNCHANGED toolvars BY <2>6 DEF Cancel, toolvars
  <2> QED BY <2>1, <2>2, <2>3, <2>4, <2>5, <2>6 DEF ToolNext, Poll
<1> QED BY <1>1, <1>2 DEF NodeTypes

\* A step that leaves the gate alone, and the calls in it.
LEMMA SameGate ==
    ASSUME NEW g, NEW cs, Fitting(g, cs), NEW ds \in [AllCalls -> CallStates],
           \A c \in AllCalls : cs[c] # ds[c] => cs[c] \notin InGate /\ ds[c] \notin InGate
    PROVE  Fitting(g, ds)
<1>1. /\ CallsIn(cs, "running") = CallsIn(ds, "running")
      /\ CallsIn(cs, "handed") = CallsIn(ds, "handed")
      /\ CallsIn(cs, "queued") = CallsIn(ds, "queued")
  BY DEF CallsIn, InGate
<1> QED BY <1>1 DEF Fitting

\* The gate and its calls, as nodes that run no calls change.
LEMMA OtherNodes ==
    ASSUME GateInv, NodeTypes, UNCHANGED <<gate, call>>, NodeTypes',
           \A n \in AllNodes : node[n] # node'[n] => node[n] # "calls" /\ node'[n] # "calls"
    PROVE  GateInv'
<1>1. Holding(node') = Holding(node) BY DEF Holding
<1>2. Within(call, node')
  <2>1. \A c \in AllCalls : Owner[c] \in AllNodes BY ToolRoundAssumption DEF AllCalls, AllNodes
  <2> QED BY <2>1 DEF Within, GateInv
<1> QED BY <1>1, <1>2 DEF GateInv

\* The first poll of a call.
LEMMA StartKeepsGate ==
    ASSUME GateInv, NEW c \in AllCalls, CallStart(c)
    PROVE  GateInv'
<1> USE DEF GateInv
<1>1. /\ node' = node /\ node[Owner[c]] = "calls" /\ call[c] = "idle"
      /\ gate \in Gates /\ call \in [AllCalls -> CallStates]
  BY DEF CallStart, Active, Fitting
<1>2. /\ gate = [free |-> gate.free, queue |-> gate.queue, holders |-> gate.holders]
      /\ gate.free \in Nat /\ gate.queue \in Seq(AllCalls)
  BY <1>1 DEF Gates
<1>3. /\ c \notin CallsIn(call, "running") /\ c \notin CallsIn(call, "handed")
      /\ c \notin CallsIn(call, "queued")
  BY <1>1 DEF CallsIn
<1>4. ASSUME UNCHANGED gate, NEW to \in {"answered", "not_started"}, call' = [call EXCEPT ![c] = to]
      PROVE  GateInv'
  <2>1. call' \in [AllCalls -> CallStates] BY <1>1, <1>4 DEF CallStates
  <2>2. \A d \in AllCalls : call[d] # call'[d] => call[d] \notin InGate /\ call'[d] \notin InGate
    BY <1>1, <1>4 DEF InGate
  <2>3. Fitting(gate, call') BY <2>1, <2>2, SameGate
  <2>4. Within(call', node) BY <2>2 DEF Within
  <2> QED BY <1>1, <1>4, <2>3, <2>4
<1>5. ASSUME gate.free > 0, call' = [call EXCEPT ![c] = "running"], gate' = [gate EXCEPT !.free = @ - 1]
      PROVE  GateInv'
  <2>1. call' \in [AllCalls -> CallStates] BY <1>1, <1>5 DEF CallStates
  <2>2. /\ CallsIn(call', "running") = CallsIn(call, "running") \cup {c}
        /\ CallsIn(call', "handed") = CallsIn(call, "handed")
        /\ CallsIn(call', "queued") = CallsIn(call, "queued")
    BY <1>1, <1>3, <1>5 DEF CallsIn
  <2>3. Cardinality(CallsIn(call', "running")) = Cardinality(CallsIn(call, "running")) + 1
    <3>1. IsFiniteSet(CallsIn(call, "running")) BY CallsAreFinite DEF CallsIn
    <3> QED BY <1>3, <2>2, <3>1, FS_AddElement
  <2>4. /\ gate'.free = gate.free - 1 /\ gate'.queue = gate.queue /\ gate'.holders = gate.holders
        /\ gate' = [free |-> gate'.free, queue |-> gate'.queue, holders |-> gate'.holders]
    BY <1>2, <1>5
  <2>5. /\ Cardinality(CallsIn(call, "running")) \in Nat /\ Cardinality(CallsIn(call, "handed")) \in Nat
        /\ Width \in Nat
    BY CallsAreFinite, ToolRoundAssumption DEF CallsIn
  <2>6. gate'.free + Cardinality(CallsIn(call', "running")) + Cardinality(CallsIn(call', "handed")) = Width
    <3>1. gate.free + Cardinality(CallsIn(call, "running")) + Cardinality(CallsIn(call, "handed")) = Width
      BY DEF Fitting
    <3> QED BY <1>2, <2>2, <2>3, <2>4, <2>5, <3>1
  <2>7. gate' \in Gates BY <1>1, <1>2, <1>5, <2>4 DEF Gates
  <2>8. Fitting(gate', call') BY <1>5, <2>1, <2>2, <2>4, <2>6, <2>7 DEF Fitting
  <2>9. Within(call', node) BY <1>1, <1>5 DEF Within
  <2> QED BY <1>1, <2>4, <2>8, <2>9
<1>6. ASSUME gate.free = 0, call' = [call EXCEPT ![c] = "queued"],
             gate' = [gate EXCEPT !.queue = Append(@, c)]
      PROVE  GateInv'
  <2>1. call' \in [AllCalls -> CallStates] BY <1>1, <1>6 DEF CallStates
  <2>2. /\ CallsIn(call', "running") = CallsIn(call, "running")
        /\ CallsIn(call', "handed") = CallsIn(call, "handed")
        /\ CallsIn(call', "queued") = CallsIn(call, "queued") \cup {c}
    BY <1>1, <1>3, <1>6 DEF CallsIn
  <2>3. /\ gate'.free = gate.free /\ gate'.queue = Append(gate.queue, c)
        /\ gate'.holders = gate.holders
        /\ gate' = [free |-> gate'.free, queue |-> gate'.queue, holders |-> gate'.holders]
    BY <1>2, <1>6
  <2>4. gate' \in Gates BY <1>1, <1>2, <2>3 DEF Gates
  <2> DEFINE q == gate.queue  r == gate'.queue
  <2>5. /\ Len(q) \in Nat /\ DOMAIN q = 1..Len(q) /\ DOMAIN r = 1..(Len(q) + 1)
        /\ r[Len(q) + 1] = c /\ \A i \in 1..Len(q) : r[i] = q[i]
    BY <1>2, <2>3
  <2>6. ToSet(q) = CallsIn(call, "queued") /\ Apart(q) BY DEF Fitting
  <2> HIDE DEF q, r
  <2>7. \A i \in 1..(Len(q) + 1) : i = Len(q) + 1 \/ i \in 1..Len(q) BY <2>5
  <2>8. ToSet(r) = ToSet(q) \cup {c}
    <3>1. \A i \in DOMAIN q : i \in DOMAIN r /\ r[i] = q[i] BY <2>5
    <3>2. Len(q) + 1 \in DOMAIN r BY <2>5
    <3>3. \A i \in DOMAIN r : r[i] \in ToSet(q) \cup {c} BY <2>5, <2>7 DEF ToSet
    <3>4. ToSet(q) \cup {c} \subseteq ToSet(r) BY <2>5, <3>1, <3>2 DEF ToSet
    <3> QED BY <3>3, <3>4 DEF ToSet
  <2>9. Apart(r)
    <3>1. \A i \in 1..Len(q) : q[i] # c BY <1>3, <2>5, <2>6 DEF ToSet
    <3> QED BY <2>5, <2>6, <2>7, <3>1 DEF Apart
  <2>10. Fitting(gate', call')
    <3>1. ~(gate.free > 0) BY <1>6
    <3> QED BY <3>1, <2>1, <2>2, <2>3, <2>4, <2>6, <2>8, <2>9 DEF Fitting, r
  <2>11. Within(call', node) BY <1>1, <1>6 DEF Within
  <2> QED BY <1>1, <2>3, <2>10, <2>11
<1> QED BY <1>4, <1>5, <1>6 DEF CallStart, Enters

\* A waiter takes the place it was handed.
LEMMA TakePlaceKeepsGate ==
    ASSUME GateInv, NEW c \in AllCalls, TakePlace(c)
    PROVE  GateInv'
<1> USE DEF GateInv
<1>1. /\ node' = node /\ node[Owner[c]] = "calls" /\ call[c] = "handed"
      /\ gate \in Gates /\ call \in [AllCalls -> CallStates]
  BY DEF TakePlace, Active, Fitting
<1>2. CASE Released({c}, "not_started") /\ gate' = GateWithout({c})
  <2>1. /\ Fitting(gate', call') /\ gate'.holders = gate.holders
        /\ \A d \in AllCalls : call'[d] \in InGate => call[d] \in InGate
    BY <1>2, ReleaseFits
  <2> QED BY <1>1, <2>1 DEF Within
<1>3. CASE call' = [call EXCEPT ![c] = "running"] /\ UNCHANGED gate
  <2>1. call' \in [AllCalls -> CallStates] BY <1>1, <1>3 DEF CallStates
  <2>2. /\ CallsIn(call', "running") = CallsIn(call, "running") \cup {c}
        /\ CallsIn(call', "handed") = CallsIn(call, "handed") \ {c}
        /\ CallsIn(call', "queued") = CallsIn(call, "queued")
        /\ c \notin CallsIn(call, "running") /\ c \in CallsIn(call, "handed")
    BY <1>1, <1>3 DEF CallsIn
  <2>3. /\ Cardinality(CallsIn(call', "running")) = Cardinality(CallsIn(call, "running")) + 1
        /\ Cardinality(CallsIn(call', "handed")) = Cardinality(CallsIn(call, "handed")) - 1
    <3>1. IsFiniteSet(CallsIn(call, "running")) /\ IsFiniteSet(CallsIn(call, "handed"))
      BY CallsAreFinite DEF CallsIn
    <3> QED BY <2>2, <3>1, FS_AddElement, FS_RemoveElement
  <2>4. /\ Cardinality(CallsIn(call, "running")) \in Nat /\ Cardinality(CallsIn(call, "handed")) \in Nat
        /\ gate.free \in Nat
    BY <1>1, CallsAreFinite DEF CallsIn, Gates
  <2>5. gate.free + Cardinality(CallsIn(call', "running")) + Cardinality(CallsIn(call', "handed")) = Width
    <3>1. gate.free + Cardinality(CallsIn(call, "running")) + Cardinality(CallsIn(call, "handed")) = Width
      BY DEF Fitting
    <3> QED BY <2>3, <2>4, <3>1
  <2>6. Fitting(gate', call') BY <1>1, <1>3, <2>1, <2>2, <2>5 DEF Fitting
  <2>7. Within(call', node) BY <1>1, <1>3 DEF Within
  <2> QED BY <1>1, <1>3, <2>6, <2>7
<1> QED BY <1>2, <1>3 DEF TakePlace

\* A node is dropped, with its calls and its lease.
LEMMA DroppedKeepsGate ==
    ASSUME GateInv, NodeTypes, NEW n \in AllNodes, NEW to \in {"panicked", "cancelled"}, Dropped(n, to)
    PROVE  GateInv'
<1> USE DEF GateInv
<1> DEFINE g == GateWithout(Pending(n))
<1>1. /\ node' = [node EXCEPT ![n] = to] /\ gate' = Unleased(g, n)
      /\ Released(Pending(n), "dropped")
  BY DEF Dropped
<1>2. Pending(n) \in SUBSET AllCalls BY DEF Pending, CallsOf
<1>3. /\ Fitting(g, call') /\ g.holders = gate.holders
      /\ \A c \in AllCalls : call'[c] \in InGate => call[c] \in InGate /\ c \notin Pending(n)
  BY <1>1, <1>2, ReleaseFits
<1>4. \A c \in AllCalls : call[c] \in InGate => (c \in Pending(n) <=> Owner[c] = n)
  BY DEF Pending, CallsOf, InGate, Answered
<1>5. \A c \in AllCalls : Owner[c] \in AllNodes BY ToolRoundAssumption DEF AllCalls, AllNodes
<1>6. \A c \in AllCalls : call'[c] \in InGate => Owner[c] \in g.holders /\ Owner[c] # n
  BY <1>3, <1>4, <1>5 DEF Within, Holding
<1> HIDE DEF g
<1>7. Fitting(gate', call') /\ gate'.holders = gate.holders \ {n} BY <1>1, <1>3, <1>6, UnleaseFits
<1>8. Holding(node') = Holding(node) \ {n} BY <1>1 DEF Holding, NodeTypes
<1>9. Within(call', node')
  <2>1. \A c \in AllCalls : call'[c] \in InGate => node'[Owner[c]] = node[Owner[c]]
    BY <1>1, <1>5, <1>6 DEF NodeTypes
  <2> QED BY <2>1, <1>3 DEF Within
<1> QED BY <1>7, <1>8, <1>9

LEMMA GateNext == NodeTypes /\ GateInv /\ [ToolNext]_toolvars => GateInv'
<1> SUFFICES ASSUME NodeTypes, GateInv, [ToolNext]_toolvars PROVE GateInv' OBVIOUS
<1>1. NodeTypes' BY NodesNext
<1>2. ASSUME NEW n \in AllNodes, Enter(n) PROVE GateInv'
  <2> USE DEF GateInv
  <2>1. /\ node[n] = "new" /\ node' = [node EXCEPT ![n] = "calls"] /\ call' = call
        /\ gate' = [gate EXCEPT !.holders = @ \cup {n}] /\ gate \in Gates
    BY <1>2 DEF Enter, Leased, Fitting
  <2>2. /\ gate' \in Gates /\ gate'.free = gate.free /\ gate'.queue = gate.queue
        /\ gate'.holders = gate.holders \cup {n}
    BY <2>1 DEF Gates
  <2>3. Fitting(gate', call') BY <2>1, <2>2 DEF Fitting
  <2>4. Holding(node') = Holding(node) \cup {n} BY <2>1 DEF Holding, NodeTypes
  <2>5. Within(call', node')
    <3>1. \A c \in AllCalls : Owner[c] \in AllNodes BY ToolRoundAssumption DEF AllCalls, AllNodes
    <3> QED BY <2>1, <3>1 DEF Within, NodeTypes
  <2> QED BY <2>2, <2>3, <2>4, <2>5
<1>3. ASSUME NEW n \in AllNodes, Collect(n) PROVE GateInv'
  <2> USE DEF GateInv
  <2>1. /\ node[n] = "calls" /\ Pending(n) = {} /\ gate' = Unleased(gate, n) /\ call' = call
    BY <1>3 DEF Collect
  <2>2. \E to \in NodeStates \ {"calls"} : node' = [node EXCEPT ![n] = to]
    BY <1>3 DEF Collect, NodeStates
  <2>3. \A c \in AllCalls : Owner[c] \in AllNodes BY ToolRoundAssumption DEF AllCalls, AllNodes
  <2>4. \A c \in AllCalls : call[c] \in InGate => Owner[c] \in gate.holders /\ Owner[c] # n
    BY <2>1, <2>3 DEF Pending, CallsOf, InGate, Answered, Within, Holding
  <2>5. Fitting(gate', call') /\ gate'.holders = gate.holders \ {n} BY <2>1, <2>4, UnleaseFits
  <2>6. Holding(node') = Holding(node) \ {n} BY <2>2 DEF Holding, NodeTypes
  <2>7. Within(call', node')
    <3>1. \A c \in AllCalls : call'[c] \in InGate => node'[Owner[c]] = node[Owner[c]]
      BY <2>1, <2>2, <2>3, <2>4 DEF NodeTypes
    <3> QED BY <2>1, <3>1 DEF Within
  <2> QED BY <2>5, <2>6, <2>7
<1>4. ASSUME NEW n \in AllNodes, StoreEnds(n) \/ Told(n) PROVE GateInv'
  <2>1. \A m \in AllNodes : node[m] # node'[m] => node[m] # "calls" /\ node'[m] # "calls"
    BY <1>4 DEF StoreEnds, Told, NodeTypes
  <2>2. UNCHANGED <<gate, call>> BY <1>4 DEF StoreEnds, Told
  <2> QED BY <1>1, <2>1, <2>2, OtherNodes
<1>5. ASSUME NEW c \in AllCalls, CallStart(c) PROVE GateInv' BY <1>5, StartKeepsGate
<1>6. ASSUME NEW c \in AllCalls, TakePlace(c) PROVE GateInv' BY <1>6, TakePlaceKeepsGate
<1>7. ASSUME NEW c \in AllCalls, CallEnds(c) PROVE GateInv'
  <2> USE DEF GateInv
  <2>1. PICK a \in {"answered", "hook_failed"} : Released({c}, a) BY <1>7 DEF CallEnds
  <2>2. gate' = GateWithout({c}) /\ node' = node BY <1>7 DEF CallEnds
  <2>3. /\ Fitting(gate', call') /\ gate'.holders = gate.holders
        /\ \A d \in AllCalls : call'[d] \in InGate => call[d] \in InGate
    BY <2>1, <2>2, ReleaseFits
  <2> QED BY <2>2, <2>3 DEF Within
<1>8. ASSUME NEW c \in AllCalls, CallPanics(c) PROVE GateInv'
  <2>1. Owner[c] \in AllNodes BY ToolRoundAssumption DEF AllCalls, AllNodes
  <2> QED BY <1>8, <2>1, DroppedKeepsGate DEF CallPanics
<1>9. ASSUME NEW n \in AllNodes, DropNode(n) PROVE GateInv' BY <1>9, DroppedKeepsGate DEF DropNode
<1>10. CASE Cancel \/ UNCHANGED toolvars
  <2>1. UNCHANGED <<gate, call, node>> BY <1>10 DEF Cancel, toolvars
  <2> QED BY <1>1, <2>1, OtherNodes
<1> QED BY <1>2, <1>3, <1>4, <1>5, <1>6, <1>7, <1>8, <1>9, <1>10 DEF ToolNext, Poll

LEMMA GateInit == ToolInit => NodeTypes /\ GateInv
<1> SUFFICES ASSUME ToolInit PROVE NodeTypes /\ GateInv OBVIOUS
<1>1. NodeTypes BY DEF ToolInit, NodeTypes, NodeStates
<1>2. /\ CallsIn(call, "running") = {} /\ CallsIn(call, "handed") = {} /\ CallsIn(call, "queued") = {}
      /\ call \in [AllCalls -> CallStates]
  BY DEF ToolInit, CallsIn, CallStates
<1>3. gate \in Gates /\ gate.free = Width /\ gate.queue = <<>> /\ gate.holders = {}
  BY ToolRoundAssumption DEF ToolInit, NewGate, Gates
<1>4. Cardinality({}) = 0 /\ ToSet(<<>>) = {} /\ Apart(<<>>) BY FS_EmptySet DEF ToSet, Apart
<1>5. Fitting(gate, call)
  <2>1. gate.free + Cardinality(CallsIn(call, "running")) + Cardinality(CallsIn(call, "handed")) = Width
    <3>1. /\ Cardinality(CallsIn(call, "running")) = 0 /\ Cardinality(CallsIn(call, "handed")) = 0
          /\ gate.free = Width /\ Width \in Nat
      BY <1>2, <1>3, <1>4, ToolRoundAssumption
    <3> QED BY <3>1
  <2> QED BY <1>2, <1>3, <1>4, <2>1 DEF Fitting
<1>6. Within(call, node) /\ gate.holders = Holding(node)
  BY <1>3 DEF ToolInit, Within, Holding, InGate
<1> QED BY <1>1, <1>5, <1>6 DEF GateInv

LEMMA GateGives == GateInv => PlacesKept
<1> SUFFICES ASSUME GateInv PROVE PlacesKept OBVIOUS
<1>1. Fitting(gate, call) BY DEF GateInv
<1>2. /\ In("running") = CallsIn(call, "running") /\ In("handed") = CallsIn(call, "handed")
      /\ In("queued") = CallsIn(call, "queued")
  BY DEF In, CallsIn
<1> QED BY <1>1, <1>2 DEF Fitting, PlacesKept, PlacesAddUp, NoneWaitsForAFreePlace

(***************************************************************************)
(* Gate::enter, Place::drop, Lease::drop: over every order in which the calls   *)
(* of a superstep arrive, wait, are handed a place, give it back unused, end,    *)
(* or are dropped with their node, and whenever the gate is forgotten, its free,  *)
(* held and handed places add up to max_concurrency, a place is free only when   *)
(* no call waits, and the calls that wait are those of the queue.              *)
(***************************************************************************)
THEOREM PlacesAreKept == ToolSpec => []PlacesKept
<1>1. ToolInit => NodeTypes /\ GateInv BY GateInit
<1>2. NodeTypes /\ GateInv /\ [ToolNext]_toolvars => (NodeTypes /\ GateInv)' BY NodesNext, GateNext
<1>3. NodeTypes /\ GateInv => PlacesKept BY GateGives
<1> QED BY <1>1, <1>2, <1>3, PTL DEF ToolSpec

-----------------------------------------------------------------------------
(***************************************************************************)
(* The round.  The invariant of ItemBeforeUpdates says more: the holders of the  *)
(* round are the nodes that have a seat, a node deposits once and a failure is   *)
(* that of a node that is gone, a node writes a whole round, and an outcome      *)
(* that a node is told of is that of an item written or of a node that is gone.  *)
(***************************************************************************)
Gone == {"failed", "panicked", "cancelled"}
Lost(ns) == \E n \in AllNodes : ns[n] \in Gone
Seats(ns) == IF durable THEN {n \in AllNodes : ns[n] \in {"calls", "waiting", "writing"}} ELSE {}
Rounds == [deposits : [AllNodes -> {"none", "results", "failed"}],
           outcome : {"none", "written", "not_written", "store_failed"},
           wakers : SUBSET AllNodes, holders : SUBSET AllNodes]

\* What the round, the nodes and the item say of each other, but for the seats.
RoundFits(r, ns, it) ==
    /\ r \in Rounds
    /\ it \in {{}, AllCalls}
    /\ \A n \in AllNodes : ns[n] \in {"new", "calls"} => r.deposits[n] = "none"
    /\ \A n \in AllNodes : r.deposits[n] = "failed" => ns[n] \in Gone
    /\ \A n \in AllNodes : ns[n] = "writing" => durable /\ Whole(r)
    /\ r.outcome \in {"written", "not_written"} /\ it = {} => Lost(ns)
    /\ durable /\ (\E n \in AllNodes : ns[n] = "done") /\ it = {} => Lost(ns)

RoundInv == RoundFits(round, node, item) /\ round.holders = Seats(node)

LEMMA RecordOfRound ==
    ASSUME NEW r \in Rounds
    PROVE  r = [deposits |-> r.deposits, outcome |-> r.outcome, wakers |-> r.wakers,
                holders |-> r.holders]
BY DEF Rounds

\* A seat is given up by a node that has no other, and with the last one the round.
LEMMA ForgottenFits ==
    ASSUME NEW r, NEW ns, NEW it, NEW n \in AllNodes, RoundFits(r, ns, it), r.holders \ {n} = Seats(ns)
    PROVE  RoundFits(Forgotten(r, n), ns, it) /\ Forgotten(r, n).holders = Seats(ns)
<1>1. r \in Rounds BY DEF RoundFits
<1>2. CASE r.holders = {n}
  <2>1. Seats(ns) = {} BY <1>2
  <2>2. Forgotten(r, n) = NewRound BY <1>2 DEF Forgotten
  <2>3. /\ NewRound \in Rounds /\ NewRound.holders = {} /\ NewRound.outcome = "none"
        /\ \A m \in AllNodes : NewRound.deposits[m] = "none"
    BY DEF NewRound, Rounds
  <2>4. \A m \in AllNodes : ns[m] # "writing" BY <2>1 DEF Seats, RoundFits
  <2> HIDE DEF NewRound
  <2> QED BY <2>1, <2>2, <2>3, <2>4 DEF RoundFits
<1>3. CASE r.holders # {n}
  <2>1. Forgotten(r, n) = [r EXCEPT !.holders = @ \ {n}] BY <1>3 DEF Forgotten
  <2> DEFINE q == Forgotten(r, n)
  <2>2. /\ q.deposits = r.deposits /\ q.outcome = r.outcome /\ q.wakers = r.wakers
        /\ q.holders = r.holders \ {n} /\ q \in Rounds
    BY <1>1, <2>1, RecordOfRound DEF Rounds
  <2> HIDE DEF q
  <2>3. RoundFits(q, ns, it) BY <2>2 DEF RoundFits, Whole
  <2> QED BY <2>2, <2>3 DEF q
<1> QED BY <1>2, <1>3

\* Nobody writes while a node runs its calls.
LEMMA NoneWritesYet ==
    ASSUME RoundInv, NEW n \in AllNodes, node[n] = "calls"
    PROVE  \A m \in AllNodes : node[m] # "writing"
BY DEF RoundInv, RoundFits, Whole

\* A node that runs its calls fails, panics or is dropped.
LEMMA FailedFits ==
    ASSUME RoundInv, NodeTypes, NEW n \in AllNodes, node[n] = "calls", NEW to \in Gone,
           node' = [node EXCEPT ![n] = to], durable' = durable, item' = item,
           round' = Unseated(round, n)
    PROVE  RoundInv'
<1> DEFINE d == Deposited(round, n, "failed")  j == Judged(d)
<1>1. /\ RoundFits(round, node, item) /\ round \in Rounds /\ round.holders = Seats(node)
  BY DEF RoundInv, RoundFits
<1>2. Lost(node') /\ \A m \in AllNodes : m # n => node'[m] = node[m] BY DEF Lost, NodeTypes
<1>3. \A m \in AllNodes : node'[m] # "writing" BY NoneWritesYet DEF NodeTypes, Gone
<1>4. CASE ~durable
  <2>1. round' = round BY <1>4 DEF Unseated
  <2>2. RoundFits(round, node', item') BY <1>1, <1>2, <1>3 DEF RoundFits, NodeTypes, Gone
  <2>3. Seats(node') = {} /\ Seats(node) = {} BY <1>4 DEF Seats
  <2> QED BY <1>1, <1>4, <2>1, <2>2, <2>3 DEF RoundInv, RoundFits, Seats
<1>5. CASE durable
  <2>1. round' = Forgotten(j, n) BY <1>5 DEF Unseated
  <2>2. /\ d \in Rounds /\ d.holders = round.holders /\ d.deposits[n] = "failed"
        /\ \A m \in AllNodes : m # n => d.deposits[m] = round.deposits[m]
    BY <1>1, RecordOfRound DEF Deposited, Rounds
  <2> HIDE DEF d
  <2>3. /\ j \in Rounds /\ j.holders = d.holders /\ j.deposits = d.deposits
    BY <2>2, RecordOfRound DEF Judged, Finished, Rounds
  <2> HIDE DEF j
  <2>4. RoundFits(j, node', item')
    BY <1>1, <1>2, <1>3, <2>2, <2>3 DEF RoundFits, NodeTypes, Gone
  <2>5. j.holders \ {n} = Seats(node') BY <1>1, <1>5, <2>2, <2>3 DEF Seats, NodeTypes, Gone
  <2>6. RoundFits(Forgotten(j, n), node', item') /\ Forgotten(j, n).holders = Seats(node')
    BY <2>4, <2>5, ForgottenFits
  <2> QED BY <2>1, <2>6 DEF RoundInv, RoundFits, Seats
<1> QED BY <1>4, <1>5

\* A node that has a seat leaves the round to the others.
LEMMA LeavesFits ==
    ASSUME RoundInv, NodeTypes, NEW n \in AllNodes, NEW to \in Gone \cup {"done"},
           NEW r, NEW it,
           RoundFits(r, [node EXCEPT ![n] = to], it), r.holders = round.holders,
           node' = [node EXCEPT ![n] = to], durable' = durable, item' = it, round' = Forgotten(r, n)
    PROVE  RoundInv'
<1>1. r.holders \ {n} = Seats(node') BY DEF RoundInv, Seats, NodeTypes, Gone
<1>2. RoundFits(Forgotten(r, n), node', it) /\ Forgotten(r, n).holders = Seats(node')
  BY <1>1, ForgottenFits
<1> QED BY <1>2 DEF RoundInv, RoundFits, Seats

\* Every call of a node has its answer.
LEMMA CollectKeepsRound ==
    ASSUME RoundInv, NodeTypes, NEW n \in AllNodes, Collect(n)
    PROVE  RoundInv'
<1> DEFINE r == Deposited(round, n, "results")  j == Judged(r)
           w == [r EXCEPT !.wakers = @ \cup {n}]
<1>1. /\ node[n] = "calls" /\ durable' = durable /\ item' = item
      /\ RoundFits(round, node, item) /\ round \in Rounds /\ round.holders = Seats(node)
  BY DEF Collect, RoundInv, RoundFits
<1>2. \A m \in AllNodes : node[m] # "writing" BY <1>1, NoneWritesYet
<1>3. /\ r \in Rounds /\ r.holders = round.holders /\ r.outcome = round.outcome
      /\ r.deposits[n] = "results"
      /\ \A m \in AllNodes : m # n => r.deposits[m] = round.deposits[m]
  BY <1>1, RecordOfRound DEF Deposited, Rounds
<1>4. CASE HookFailed(n)
  <2>1. node' = [node EXCEPT ![n] = "failed"] /\ round' = Unseated(round, n)
    BY <1>4 DEF Collect, Rounded
  <2> QED BY <1>1, <2>1, FailedFits DEF Gone
<1>5. CASE ~HookFailed(n) /\ ~durable
  <2>1. node' = [node EXCEPT ![n] = "done"] /\ round' = round BY <1>5 DEF Collect
  <2>2. RoundFits(round, node', item)
    <3>1. Lost(node) => Lost(node') BY <1>1, <2>1 DEF Lost, NodeTypes, Gone
    <3> QED BY <1>1, <1>2, <1>5, <2>1, <3>1 DEF RoundFits, NodeTypes, Gone
  <2>3. Seats(node') = {} /\ Seats(node) = {} BY <1>5 DEF Seats
  <2> QED BY <1>1, <1>5, <2>1, <2>2, <2>3 DEF RoundInv, RoundFits, Seats
<1>6. CASE ~HookFailed(n) /\ durable /\ Complete(r) /\ Whole(r)
  <2>1. node' = [node EXCEPT ![n] = "writing"] /\ round' = r BY <1>6 DEF Collect, Rounded
  <2> HIDE DEF r
  <2>2. Lost(node) => Lost(node') BY <1>1, <2>1 DEF Lost, NodeTypes, Gone
  <2>3. \A m \in AllNodes : node'[m] = "done" => node[m] = "done" BY <1>1, <2>1 DEF NodeTypes
  <2>4. /\ \A m \in AllNodes : node'[m] \in {"new", "calls"} => r.deposits[m] = "none"
        /\ \A m \in AllNodes : r.deposits[m] = "failed" => node'[m] \in Gone
        /\ \A m \in AllNodes : node'[m] = "writing" => durable /\ Whole(r)
    BY <1>1, <1>2, <1>3, <1>6, <2>1 DEF RoundFits, NodeTypes, Gone
  <2>5. RoundFits(r, node', item) BY <1>1, <1>3, <2>2, <2>3, <2>4 DEF RoundFits
  <2>6. r.holders = Seats(node') BY <1>1, <1>3, <1>6, <2>1 DEF Seats, NodeTypes
  <2> QED BY <1>1, <2>1, <2>5, <2>6 DEF RoundInv, RoundFits, Seats
<1>7. CASE ~HookFailed(n) /\ durable /\ Complete(r) /\ ~Whole(r)
  <2>1. node' = [node EXCEPT ![n] = "done"] /\ round' = Forgotten(j, n)
    BY <1>7 DEF Collect, Rounded
  <2>2. j = [r EXCEPT !.outcome = "not_written", !.wakers = {}]
    <3> HIDE DEF r
    <3> QED BY <1>7, <1>3, RecordOfRound DEF Judged, Finished
  <2> HIDE DEF r, j
  <2>3. /\ j \in Rounds /\ j.holders = r.holders /\ j.deposits = r.deposits
        /\ j.outcome = "not_written"
    BY <1>3, <2>2, RecordOfRound DEF Rounds
  <2>4. Lost(node')
    <3>1. PICK m \in AllNodes : r.deposits[m] # "results" BY <1>7 DEF Whole
    <3>2. r.deposits[m] # "none" BY <1>7 DEF Complete
    <3>3. r.deposits[m] = "failed" BY <1>3, <3>1, <3>2 DEF Rounds
    <3>4. m # n /\ round.deposits[m] = "failed" BY <1>3, <3>3
    <3>5. node[m] \in Gone BY <1>1, <3>4 DEF RoundFits
    <3> QED BY <2>1, <3>4, <3>5 DEF Lost, NodeTypes
  <2>5. /\ \A m \in AllNodes : node'[m] \in {"new", "calls"} => r.deposits[m] = "none"
        /\ \A m \in AllNodes : r.deposits[m] = "failed" => node'[m] \in Gone
        /\ \A m \in AllNodes : node'[m] # "writing"
    BY <1>1, <1>2, <1>3, <2>1 DEF RoundFits, NodeTypes, Gone
  <2>6. item \in {{}, AllCalls} BY <1>1 DEF RoundFits
  <2>7. RoundFits(j, node', item) BY <2>3, <2>4, <2>5, <2>6 DEF RoundFits
  <2> QED BY <1>1, <1>3, <2>1, <2>3, <2>7, LeavesFits
<1>8. CASE ~HookFailed(n) /\ durable /\ ~Complete(r)
  <2>1. node' = [node EXCEPT ![n] = "waiting"] /\ round' = w BY <1>8 DEF Collect, Rounded
  <2> HIDE DEF r
  <2>2. /\ w \in Rounds /\ w.holders = r.holders /\ w.deposits = r.deposits
        /\ w.outcome = r.outcome
    BY <1>3, RecordOfRound DEF Rounds
  <2> HIDE DEF w
  <2>3. Lost(node) => Lost(node') BY <1>1, <2>1 DEF Lost, NodeTypes, Gone
  <2>4. \A m \in AllNodes : node'[m] = "done" => node[m] = "done" BY <1>1, <2>1 DEF NodeTypes
  <2>5. /\ \A m \in AllNodes : node'[m] \in {"new", "calls"} => w.deposits[m] = "none"
        /\ \A m \in AllNodes : w.deposits[m] = "failed" => node'[m] \in Gone
        /\ \A m \in AllNodes : node'[m] # "writing"
    BY <1>1, <1>2, <1>3, <2>1, <2>2 DEF RoundFits, NodeTypes, Gone
  <2>6. RoundFits(w, node', item) BY <1>1, <1>3, <2>2, <2>3, <2>4, <2>5 DEF RoundFits
  <2>7. w.holders = Seats(node') BY <1>1, <1>3, <1>8, <2>1, <2>2 DEF Seats, NodeTypes
  <2> QED BY <1>1, <2>1, <2>6, <2>7 DEF RoundInv, RoundFits, Seats
<1> QED BY <1>4, <1>5, <1>6, <1>7, <1>8

\* The node that writes holds a whole round: the item is that of every call.
LEMMA WritesWhole ==
    ASSUME RoundInv, NEW n \in AllNodes, node[n] = "writing"
    PROVE  durable /\ Whole(round) /\ Results = AllCalls /\ AllCalls # {}
<1>1. durable /\ Whole(round) BY DEF RoundInv, RoundFits
<1>2. \A c \in AllCalls : Owner[c] \in AllNodes BY ToolRoundAssumption DEF AllCalls, AllNodes
<1>3. Results = AllCalls BY <1>1, <1>2 DEF Results, Whole
<1>4. 1 \in AllCalls BY ToolRoundAssumption DEF AllCalls
<1> QED BY <1>1, <1>3, <1>4

LEMMA StoreKeepsRound ==
    ASSUME RoundInv, NodeTypes, NEW n \in AllNodes, StoreEnds(n)
    PROVE  RoundInv'
<1>1. /\ node[n] = "writing" /\ durable' = durable
      /\ RoundFits(round, node, item) /\ round \in Rounds /\ round.holders = Seats(node)
  BY DEF StoreEnds, RoundInv, RoundFits
<1>2. durable /\ Whole(round) /\ Results = AllCalls /\ AllCalls # {} BY <1>1, WritesWhole
<1>3. ASSUME NEW to \in Gone \cup {"done"}, NEW ending \in {"written", "store_failed"},
             NEW it \in {{}, AllCalls}, it = {} => to \in Gone,
             node' = [node EXCEPT ![n] = to], item' = it,
             \/ round' = Forgotten(Finished(round, ending), n)
             \/ round' = Forgotten(round, n)
      PROVE  RoundInv'
  <2> DEFINE ns == [node EXCEPT ![n] = to]  f == Finished(round, ending)
  <2>1. it = {} => Lost(ns) BY <1>1, <1>3 DEF Lost, NodeTypes
  <2>2. /\ \A m \in AllNodes : ns[m] \in {"new", "calls"} => round.deposits[m] = "none"
        /\ \A m \in AllNodes : round.deposits[m] = "failed" => ns[m] \in Gone
    BY <1>1, <1>2, <1>3 DEF RoundFits, NodeTypes, Gone, Whole
  <2>3. f \in Rounds /\ f.holders = round.holders /\ f.deposits = round.deposits
    BY <1>1, RecordOfRound DEF Finished, Rounds
  <2> HIDE DEF f, ns
  <2>4. RoundFits(f, ns, it) BY <1>2, <1>3, <2>1, <2>2, <2>3 DEF RoundFits, Whole
  <2>5. RoundFits(round, ns, it) BY <1>1, <1>2, <1>3, <2>1, <2>2 DEF RoundFits
  <2>6. CASE round' = Forgotten(f, n) BY <1>1, <1>3, <2>3, <2>4, <2>6, LeavesFits DEF ns
  <2>7. CASE round' = Forgotten(round, n) BY <1>1, <1>3, <2>5, <2>7, LeavesFits DEF ns
  <2> QED BY <1>3, <2>6, <2>7 DEF f
<1>4. CASE /\ node' = [node EXCEPT ![n] = "done"] /\ item' = Results
           /\ Rounded(Forgotten(Finished(round, "written"), n))
  BY <1>2, <1>3, <1>4 DEF Rounded
<1>5. CASE /\ node' = [node EXCEPT ![n] = "failed"] /\ item' \in {{}, Results}
           /\ Rounded(Forgotten(Finished(round, "store_failed"), n))
  BY <1>2, <1>3, <1>5 DEF Rounded, Gone
<1>6. CASE /\ node' = [node EXCEPT ![n] = "panicked"] /\ item' \in {{}, Results}
           /\ Rounded(Unseated(round, n))
  <2>1. round' = Forgotten(round, n) BY <1>1, <1>2, <1>6 DEF Rounded, Unseated
  <2> QED BY <1>2, <1>3, <1>6, <2>1 DEF Gone
<1> QED BY <1>4, <1>5, <1>6 DEF StoreEnds

LEMMA ToldKeepsRound ==
    ASSUME RoundInv, NodeTypes, NEW n \in AllNodes, Told(n)
    PROVE  RoundInv'
<1> DEFINE to == IF round.outcome = "store_failed" THEN "failed" ELSE "done"
           ns == [node EXCEPT ![n] = to]
<1>1. /\ node[n] = "waiting" /\ durable' = durable /\ item' = item
      /\ round.outcome # "none" /\ node' = ns /\ round' = Unseated(round, n)
      /\ RoundFits(round, node, item) /\ round \in Rounds /\ round.holders = Seats(node)
  BY DEF Told, RoundInv, RoundFits
<1>2. to \in Gone \cup {"done"} BY DEF Gone
<1>3. to = "done" => round.outcome \in {"written", "not_written"} BY <1>1 DEF Rounds
<1> HIDE DEF to
<1>4. Lost(node) => Lost(ns) BY <1>1 DEF Lost, NodeTypes, Gone
<1>5. /\ \A m \in AllNodes : ns[m] \in {"new", "calls", "writing"} => ns[m] = node[m]
      /\ \A m \in AllNodes : node[m] \in Gone => ns[m] = node[m]
      /\ \A m \in AllNodes : ns[m] = "done" => node[m] = "done" \/ to = "done"
  BY <1>1, <1>2 DEF NodeTypes, Gone
<1>6. RoundFits(round, ns, item)
  <2> HIDE DEF ns
  <2>1. /\ \A m \in AllNodes : ns[m] \in {"new", "calls"} => round.deposits[m] = "none"
        /\ \A m \in AllNodes : round.deposits[m] = "failed" => ns[m] \in Gone
        /\ \A m \in AllNodes : ns[m] = "writing" => durable /\ Whole(round)
    BY <1>1, <1>5 DEF RoundFits
  <2>2. durable /\ (\E m \in AllNodes : ns[m] = "done") /\ item = {} => Lost(ns)
    BY <1>1, <1>3, <1>4, <1>5 DEF RoundFits
  <2> QED BY <1>1, <1>4, <2>1, <2>2 DEF RoundFits
<1>7. CASE durable
  <2>1. round' = Forgotten(round, n) BY <1>1, <1>7 DEF Unseated
  <2> QED BY <1>1, <1>2, <1>6, <2>1, LeavesFits
<1>8. CASE ~durable
  <2>1. round' = round BY <1>1, <1>8 DEF Unseated
  <2>2. Seats(node) = {} /\ Seats(node') = {} BY <1>8 DEF Seats
  <2> HIDE DEF ns
  <2> QED BY <1>1, <1>6, <1>8, <2>1, <2>2 DEF RoundInv, RoundFits, Seats
<1> QED BY <1>7, <1>8

LEMMA DroppedKeepsRound ==
    ASSUME RoundInv, NodeTypes, NEW n \in AllNodes, NEW to \in Gone, ~Over(n),
           Dropped(n, to), durable' = durable,
           \/ item' = item
           \/ node[n] = "writing" /\ item' \in {item, Results}
    PROVE  RoundInv'
<1>1. /\ node' = [node EXCEPT ![n] = to] /\ round' = Unseated(round, n)
      /\ RoundFits(round, node, item) /\ round \in Rounds /\ round.holders = Seats(node)
  BY DEF Dropped, Rounded, RoundInv, RoundFits
<1>2. CASE node[n] = "calls" BY <1>1, <1>2, FailedFits
<1>3. CASE node[n] # "calls"
  <2> DEFINE ns == [node EXCEPT ![n] = to]
  <2>1. item' \in {{}, AllCalls} BY <1>1, WritesWhole DEF RoundFits
  <2>2. Lost(ns) BY DEF Lost, NodeTypes
  <2>3. /\ \A m \in AllNodes : ns[m] \in {"new", "calls", "writing"} => ns[m] = node[m]
        /\ \A m \in AllNodes : node[m] \in Gone => ns[m] \in Gone
    BY DEF NodeTypes, Gone
  <2> HIDE DEF ns
  <2>4. RoundFits(round, ns, item') BY <1>1, <2>1, <2>2, <2>3 DEF RoundFits
  <2>5. CASE durable
    <3>1. round' = Forgotten(round, n) BY <1>1, <1>3, <2>5 DEF Unseated
    <3> DEFINE it == item'
    <3>2. item' = it OBVIOUS
    <3> HIDE DEF it
    <3> QED BY <1>1, <2>4, <3>1, <3>2, LeavesFits DEF ns
  <2>6. CASE ~durable
    <3>1. round' = round BY <1>1, <2>6 DEF Unseated
    <3>2. Seats(node) = {} /\ Seats(node') = {} BY <2>6 DEF Seats
    <3>3. node' = ns BY <1>1 DEF ns
    <3> QED BY <1>1, <2>4, <2>6, <3>1, <3>2, <3>3 DEF RoundInv, RoundFits, Seats
  <2> QED BY <2>5, <2>6
<1> QED BY <1>2, <1>3

LEMMA RoundNext == NodeTypes /\ RoundInv /\ [ToolNext]_toolvars => RoundInv'
<1> SUFFICES ASSUME NodeTypes, RoundInv, [ToolNext]_toolvars PROVE RoundInv' OBVIOUS
<1>1. ASSUME NEW n \in AllNodes, Enter(n) PROVE RoundInv'
  <2> DEFINE r == SeatTaken(round, n)
  <2>1. /\ node[n] = "new" /\ node' = [node EXCEPT ![n] = "calls"] /\ round' = r
        /\ durable' = durable /\ item' = item
        /\ RoundFits(round, node, item) /\ round \in Rounds /\ round.holders = Seats(node)
    BY <1>1 DEF Enter, RoundInv, RoundFits
  <2>2. /\ r \in Rounds /\ r.deposits = round.deposits /\ r.outcome = round.outcome
        /\ r.holders = IF durable THEN round.holders \cup {n} ELSE round.holders
    BY <2>1, RecordOfRound DEF SeatTaken, Rounds
  <2> HIDE DEF r
  <2>3. Lost(node) => Lost(node') BY <2>1 DEF Lost, NodeTypes, Gone
  <2>4. /\ \A m \in AllNodes : node'[m] \in {"new", "calls"} => r.deposits[m] = "none"
        /\ \A m \in AllNodes : r.deposits[m] = "failed" => node'[m] \in Gone
        /\ \A m \in AllNodes : node'[m] = "writing" => durable /\ Whole(r)
    BY <2>1, <2>2 DEF RoundFits, NodeTypes, Gone, Whole
  <2>5. \A m \in AllNodes : node'[m] = "done" => node[m] = "done" BY <2>1 DEF NodeTypes
  <2>6. RoundFits(r, node', item) BY <2>1, <2>2, <2>3, <2>4, <2>5 DEF RoundFits
  <2>7. r.holders = Seats(node') BY <2>1, <2>2 DEF Seats, NodeTypes
  <2> QED BY <2>1, <2>6, <2>7 DEF RoundInv, RoundFits, Seats
<1>2. ASSUME NEW n \in AllNodes, Collect(n) PROVE RoundInv' BY <1>2, CollectKeepsRound
<1>3. ASSUME NEW n \in AllNodes, StoreEnds(n) PROVE RoundInv' BY <1>3, StoreKeepsRound
<1>4. ASSUME NEW n \in AllNodes, Told(n) PROVE RoundInv' BY <1>4, ToldKeepsRound
<1>5. ASSUME NEW c \in AllCalls, CallStart(c) \/ TakePlace(c) \/ CallEnds(c) PROVE RoundInv'
  <2>1. UNCHANGED <<durable, node, round, item>> BY <1>5 DEF CallStart, TakePlace, CallEnds
  <2> QED BY <2>1 DEF RoundInv, RoundFits, Seats
<1>6. ASSUME NEW c \in AllCalls, CallPanics(c) PROVE RoundInv'
  <2>1. Owner[c] \in AllNodes BY ToolRoundAssumption DEF AllCalls, AllNodes
  <2>2. /\ node[Owner[c]] = "calls" /\ Dropped(Owner[c], "panicked")
        /\ durable' = durable /\ item' = item
    BY <1>6 DEF CallPanics, Active
  <2>3. ~Over(Owner[c]) BY <2>2 DEF Over
  <2> QED BY <2>1, <2>2, <2>3, DroppedKeepsRound DEF Gone
<1>7. ASSUME NEW n \in AllNodes, DropNode(n) PROVE RoundInv'
  <2>1. ~Over(n) /\ Dropped(n, "cancelled") /\ durable' = durable BY <1>7 DEF DropNode
  <2>2. item' = item \/ (node[n] = "writing" /\ item' \in {item, Results}) BY <1>7 DEF DropNode
  <2> QED BY <2>1, <2>2, DroppedKeepsRound DEF Gone
<1>8. CASE Cancel \/ UNCHANGED toolvars
  <2>1. UNCHANGED <<durable, node, round, item>> BY <1>8 DEF Cancel, toolvars
  <2> QED BY <2>1 DEF RoundInv, RoundFits, Seats
<1> QED BY <1>1, <1>2, <1>3, <1>4, <1>5, <1>6, <1>7, <1>8 DEF ToolNext, Poll

(***************************************************************************)
(* RoundWriter, Seat::drop, RoundEnd: the item of the thread holds every result  *)
(* of the round or none, and no node of a durable agent gives back its updates    *)
(* while it holds none, unless another node failed, panicked or was dropped and   *)
(* the superstep is lost, whatever the hooks, the tools, the store and the cancel  *)
(* do.                                                                       *)
(***************************************************************************)
THEOREM ItemComesFirst == ToolSpec => []ItemBeforeUpdates
<1>1. ToolInit => NodeTypes /\ RoundInv
  <2> SUFFICES ASSUME ToolInit PROVE NodeTypes /\ RoundInv OBVIOUS
  <2>1. /\ round \in Rounds /\ round.holders = {} /\ round.outcome = "none"
        /\ \A n \in AllNodes : round.deposits[n] = "none" /\ node[n] = "new"
    BY DEF ToolInit, NewRound, Rounds
  <2>2. RoundFits(round, node, item) BY <2>1 DEF ToolInit, RoundFits
  <2>3. round.holders = Seats(node) BY <2>1 DEF Seats
  <2> QED BY <2>2, <2>3, GateInit DEF RoundInv
<1>2. NodeTypes /\ RoundInv /\ [ToolNext]_toolvars => (NodeTypes /\ RoundInv)' BY NodesNext, RoundNext
<1>3. RoundInv => ItemBeforeUpdates
  <2> SUFFICES ASSUME RoundInv PROVE ItemBeforeUpdates OBVIOUS
  <2>1. RoundFits(round, node, item) BY DEF RoundInv
  <2>2. Lost(node) => \E n \in AllNodes : Over(n) /\ node[n] # "done" BY DEF Lost, Over, Gone
  <2> QED BY <2>1, <2>2 DEF RoundFits, ItemBeforeUpdates
<1> QED BY <1>1, <1>2, <1>3, PTL DEF ToolSpec
===============================================================================
