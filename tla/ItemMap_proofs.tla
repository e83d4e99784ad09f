------------------------------ MODULE ItemMap_proofs ------------------------------
(***************************************************************************)
(* Proofs about a map of br-llm-graph and the recorder of its run: for every   *)
(* list, window, policy and number of attempts, what the map gives is of the    *)
(* items of its list and in their order, and no body is run again for an item   *)
(* that ended; and for every run, what an occurrence gives was made for it, in  *)
(* the superstep that is open.                                                *)
(***************************************************************************)
EXTENDS ItemMap, Recorder, Integers, Lists_proofs

-----------------------------------------------------------------------------
(***************************************************************************)
(* The map.                                                                  *)
(***************************************************************************)
ItemRuns == {"waiting", "pulled", "running", "ended"}

MapTypes ==
    /\ TypeOK
    /\ pc # "idle" => item \in [Items -> ItemRuns] /\ DOMAIN result = Items

\* The stream takes the items in the order of the list.
TakenInOrder ==
    pc # "idle" => \A i, j \in Items : i < j /\ item[j] # "waiting" => item[i] # "waiting"

\* What an item gave is an error of its own, or the updates of what its index holds.
GaveItsOwn ==
    pc # "idle" =>
        \A i \in Items :
            IF item[i] = "ended"
            THEN \/ result[i] = Error(i)
                 \/ result[i] \in Result /\ result[i].item = list[i]
            ELSE result[i] = NoOut

\* The flag of FailFast is raised by an error, under that policy only.
StopIsAnError ==
    pc # "idle" => /\ conf.policy # "FailFast" => ~stop
                   /\ stop => \E i \in Items : item[i] = "ended" /\ IsError(result[i])

\* The window is kept full: nothing waits for nothing.
NoIdleWindow ==
    pc = "map" /\ ~stop /\ InProgress(item) = {} => \A i \in Items : item[i] # "waiting"

\* What ended and was not lost is recorded, or, in a called graph, of this attempt.
EndedIsKnown ==
    IF Recording
    THEN \A i \in DOMAIN ended : i \in DOMAIN entries /\ entries[i].item = ended[i]
    ELSE pc = "map" => \A i \in Items : i \in DOMAIN ended => item[i] = "ended"

MapInv ==
    /\ MapTypes /\ TakenInOrder /\ GaveItsOwn /\ StopIsAnError /\ NoIdleWindow
    /\ EndedIsKnown /\ GivesInOrder

-----------------------------------------------------------------------------
\* A list is a sequence, and the window has room for an item.
LEMMA ListIsSeq ==
    ASSUME list \in Lists
    PROVE  Len(list) \in Nat /\ Items = 1..Len(list)
<1>1. list \in Seq({list[i] : i \in DOMAIN list})
  BY ItemMapAssumption
<1> QED
  BY <1>1 DEF Items

LEMMA WindowHasRoom ==
    ASSUME list \in Lists, conf \in [policy : Policies, width : Widths, called : BOOLEAN]
    PROVE  Width \in Nat \ {0}
<1>1. conf.width \in Nat
  BY ItemMapAssumption
<1>2. Len(list) \in Nat /\ Items = 1..Len(list)
  BY ListIsSeq
<1>3. list # <<>> => Len(list) # 0
  <2>1. list \in Seq({list[i] : i \in DOMAIN list})
    BY ItemMapAssumption
  <2> QED
    BY <2>1
<1> QED
  BY <1>1, <1>2, <1>3 DEF Width

\* What is in a part of the list can be counted.
LEMMA ItemsAreCounted ==
    ASSUME list \in Lists, NEW S \in SUBSET Items
    PROVE  IsFiniteSet(S) /\ Cardinality(S) \in Nat
<1>1. IsFiniteSet(Items)
  BY ListIsSeq, FS_Interval
<1>2. IsFiniteSet(S)
  BY <1>1, FS_Subset
<1> QED
  BY <1>2, FS_CardinalityType

\* Taking items only pulls some of those that wait, from the front.
LEMMA FillPulls ==
    ASSUME list \in Lists, NEW it \in [Items -> ItemRuns], NEW stopped \in BOOLEAN
    PROVE  /\ Fill(it, stopped) \in [Items -> ItemRuns]
           /\ \A i \in Items :
                  IF it[i] = "waiting" THEN Fill(it, stopped)[i] \in {"waiting", "pulled"}
                                       ELSE Fill(it, stopped)[i] = it[i]
           /\ stopped => Fill(it, stopped) = it
BY DEF Fill, ItemRuns

LEMMA FillTakesInOrder ==
    ASSUME list \in Lists, conf \in [policy : Policies, width : Widths, called : BOOLEAN],
           NEW it \in [Items -> ItemRuns], NEW stopped \in BOOLEAN,
           \A i, j \in Items : i < j /\ it[j] # "waiting" => it[i] # "waiting",
           NEW i \in Items, NEW j \in Items, i < j, Fill(it, stopped)[j] # "waiting"
    PROVE  Fill(it, stopped)[i] # "waiting"
<1> DEFINE upto == Min2(Len(list), Cardinality(Taken(it)) + Width - Cardinality(InProgress(it)))
<1>1. Taken(it) \in SUBSET Items /\ InProgress(it) \in SUBSET Items
  BY DEF Taken, InProgress
<1>2. Cardinality(Taken(it)) \in Nat /\ Cardinality(InProgress(it)) \in Nat
  BY <1>1, ItemsAreCounted
<1>3. upto \in Int
  BY <1>2, WindowHasRoom, ListIsSeq DEF Min2
<1>4. \A k \in Items : Fill(it, stopped)[k] =
                          IF it[k] = "waiting" /\ k <= upto /\ ~stopped THEN "pulled" ELSE it[k]
  BY DEF Fill
<1>5. i \in Int /\ j \in Int
  BY ListIsSeq
<1> HIDE DEF upto
<1>6. CASE it[j] # "waiting"
  <2>1. it[i] # "waiting"
    BY <1>6
  <2> QED
    BY <2>1, <1>4
<1>7. CASE it[j] = "waiting"
  <2>1. j <= upto /\ ~stopped
    BY <1>4, <1>7
  <2>2. i <= upto
    BY <2>1, <1>3, <1>5
  <2> QED
    BY <2>1, <2>2, <1>4
<1> QED
  BY <1>6, <1>7

\* Without a stop, an item waits only while another is in progress.
LEMMA FillKeepsBusy ==
    ASSUME list \in Lists, conf \in [policy : Policies, width : Widths, called : BOOLEAN],
           NEW it \in [Items -> ItemRuns],
           \A i, j \in Items : i < j /\ it[j] # "waiting" => it[i] # "waiting",
           InProgress(Fill(it, FALSE)) = {},
           NEW w \in Items, Fill(it, FALSE)[w] = "waiting"
    PROVE  FALSE
<1> DEFINE taken == Cardinality(Taken(it))
           upto == Min2(Len(list), Cardinality(Taken(it)) + Width - Cardinality(InProgress(it)))
<1>1. /\ Len(list) \in Nat /\ Items = 1..Len(list)
      /\ Width \in Nat /\ Width >= 1
  BY ListIsSeq, WindowHasRoom
<1>2. \A k \in Items : Fill(it, FALSE)[k] =
                          IF it[k] = "waiting" /\ k <= upto THEN "pulled" ELSE it[k]
  BY DEF Fill
<1>3. DOMAIN Fill(it, FALSE) = Items
  BY DEF Fill
<1>4. \A k \in Items : it[k] \notin {"pulled", "running"} /\ (it[k] = "waiting" => ~(k <= upto))
  <2> HIDE DEF upto
  <2> QED
    BY <1>2, <1>3 DEF InProgress
<1>5. InProgress(it) = {}
  BY <1>4 DEF InProgress
<1>6. Cardinality(InProgress(it)) = 0
  BY <1>5, FS_EmptySet
<1>7. Taken(it) \in SUBSET Items
  BY DEF Taken
<1>8. IsFiniteSet(Taken(it)) /\ taken \in Nat
  BY <1>7, ItemsAreCounted
<1>9. upto = IF Len(list) < taken + Width THEN Len(list) ELSE taken + Width
  BY <1>1, <1>6, <1>8 DEF Min2
<1>10. it[w] = "waiting" /\ w > upto /\ w \in 1..Len(list)
  <2>1. upto \in Nat
    BY <1>9, <1>1, <1>8
  <2> HIDE DEF upto
  <2>2. it[w] = "waiting" /\ ~(w <= upto)
    BY <1>2, <1>4
  <2> QED
    BY <2>1, <2>2, <1>1
<1> HIDE DEF upto
<1>11. taken + 1 \in Items /\ taken + 1 <= upto
  <2> HIDE DEF taken
  <2> QED
    BY <1>1, <1>8, <1>9, <1>10
<1>12. it[taken + 1] # "waiting"
  BY <1>11, <1>4
<1>13. 1..(taken + 1) \subseteq Taken(it)
  <2> HIDE DEF taken
  <2> SUFFICES ASSUME NEW k \in 1..(taken + 1) PROVE k \in Taken(it)
    OBVIOUS
  <2>1. k \in Items /\ (k < taken + 1 \/ k = taken + 1)
    BY <1>1, <1>8, <1>11
  <2>2. it[k] # "waiting"
    BY <2>1, <1>11, <1>12
  <2> QED
    BY <2>1, <2>2 DEF Taken
<1>14. Cardinality(1..(taken + 1)) <= taken
  BY <1>8, <1>13, FS_Subset
<1>15. Cardinality(1..(taken + 1)) = taken + 1
  <2> HIDE DEF taken
  <2>1. taken + 1 \in Int /\ ~(1 > taken + 1) /\ taken + 1 - 1 + 1 = taken + 1
    BY <1>8
  <2>2. Cardinality(1..(taken + 1)) = IF 1 > taken + 1 THEN 0 ELSE taken + 1 - 1 + 1
    BY <2>1, FS_Interval
  <2> QED
    BY <2>1, <2>2
<1> QED
  BY <1>8, <1>14, <1>15

-----------------------------------------------------------------------------
(***************************************************************************)
(* The steps, by what they do to the items.                                  *)
(***************************************************************************)
ItemEnds(i) ==
    \/ Reuse(i)
    \/ BodyReturns(i)
    \/ BodyReturnsOther(i)
    \/ BodyFails(i)

LEMMA MapStepKinds ==
    Next => \/ Start \/ Resume \/ Returns \/ Cancel
            \/ \E i \in Items : StartBody(i) \/ BodyPanics(i) \/ ItemEnds(i)
BY DEF Next, ItemEnds

\* An item that ends gives its own error, or updates made or recorded for what it holds;
\* an error raises the flag of FailFast, and nothing else does.
LEMMA EndsAs ==
    ASSUME MapInv, NEW i \in Items, ItemEnds(i)
    PROVE  /\ pc = "map" /\ item[i] \in {"pulled", "running"}
           /\ \E r, stopped :
                 /\ Ends(i, r, stopped)
                 /\ \/ r \in Result /\ r.item = list[i] /\ stopped = stop
                    \/ r = Error(i) /\ stopped = (stop \/ conf.policy = "FailFast")
<1> USE DEF MapInv, MapTypes, TypeOK
<1>1. CASE Reuse(i)
  <2>1. entries[i] \in Result /\ entries[i].item = list[i] /\ Ends(i, entries[i], stop)
    BY <1>1 DEF Reuse, Recorded
  <2> QED
    BY <1>1, <2>1 DEF Reuse
<1>2. \A by \in {"body", "capture"} :
         Updates(list[i], by) \in Result /\ Updates(list[i], by).item = list[i]
  BY DEF Updates, Result, Items
<1>3. CASE BodyReturns(i)
  BY <1>2, <1>3 DEF BodyReturns, Records
<1>4. CASE BodyReturnsOther(i)
  BY <1>4 DEF BodyReturnsOther, Fails
<1>5. CASE BodyFails(i)
  BY <1>2, <1>5 DEF BodyFails, Captured, Records, Fails
<1> QED
  BY <1>1, <1>3, <1>4, <1>5 DEF ItemEnds

\* What a step keeps of the items of the attempt.
ItemsKept ==
    /\ item \in [Items -> ItemRuns] /\ DOMAIN result = Items
    /\ TakenInOrder /\ GaveItsOwn /\ StopIsAnError /\ NoIdleWindow

LEMMA EndsKeepsItems ==
    ASSUME MapInv, NEW i \in Items, ItemEnds(i)
    PROVE  /\ ItemsKept'
           /\ \A j \in Items : item[j] = "ended" \/ j = i => item'[j] = "ended"
           /\ \A j \in Items : item'[j] = "running" => item[j] = "running"
<1> USE DEF MapInv, MapTypes, TypeOK
<1>1. PICK r, stopped :
         /\ Ends(i, r, stopped)
         /\ \/ r \in Result /\ r.item = list[i] /\ stopped = stop
            \/ r = Error(i) /\ stopped = (stop \/ conf.policy = "FailFast")
  BY EndsAs
<1>2. pc = "map" /\ item[i] \in {"pulled", "running"}
  BY EndsAs
<1> DEFINE it == [item EXCEPT ![i] = "ended"]
<1>3. /\ it \in [Items -> ItemRuns] /\ stopped \in BOOLEAN /\ it[i] = "ended"
      /\ \A j \in Items : j # i => it[j] = item[j]
  BY <1>1, <1>2 DEF ItemRuns
<1>4. /\ stop' = stopped /\ item' = Fill(it, stopped) /\ result' = [result EXCEPT ![i] = r]
      /\ UNCHANGED <<conf, list, pc, out, attempt>> /\ Items' = Items
  BY <1>1 DEF Ends, Items
<1> HIDE DEF it
<1>5. /\ item' \in [Items -> ItemRuns]
      /\ \A j \in Items : IF it[j] = "waiting" THEN item'[j] \in {"waiting", "pulled"}
                                             ELSE item'[j] = it[j]
      /\ stopped => item' = it
  BY <1>3, <1>4, FillPulls
<1>6. \A j, k \in Items : j < k /\ it[k] # "waiting" => it[j] # "waiting"
  BY <1>2, <1>3 DEF TakenInOrder
<1>7. TakenInOrder'
  <2> SUFFICES ASSUME NEW j \in Items, NEW k \in Items, j < k, item'[k] # "waiting"
               PROVE  item'[j] # "waiting"
    BY <1>4 DEF TakenInOrder
  <2> QED
    BY <1>3, <1>4, <1>6, FillTakesInOrder
<1>8. DOMAIN result' = Items /\ result'[i] = r /\ \A j \in Items : j # i => result'[j] = result[j]
  BY <1>1, <1>2, <1>4
<1>9. GaveItsOwn'
  <2> SUFFICES ASSUME NEW j \in Items
               PROVE  IF item'[j] = "ended"
                      THEN \/ result'[j] = Error(j)
                           \/ result'[j] \in Result /\ result'[j].item = list[j]
                      ELSE result'[j] = NoOut
    BY <1>4 DEF GaveItsOwn, Result, Error, NoOut
  <2>1. CASE j = i
    BY <2>1, <1>1, <1>3, <1>5, <1>8
  <2>2. CASE j # i
    <3>1. it[j] = item[j] /\ result'[j] = result[j]
      BY <2>2, <1>3, <1>8
    <3>2. item'[j] = "ended" <=> item[j] = "ended"
      BY <3>1, <1>5
    <3> QED
      BY <3>1, <3>2, <1>2 DEF GaveItsOwn
  <2> QED
    BY <2>1, <2>2
<1>10. StopIsAnError'
  <2>1. conf.policy # "FailFast" => ~stop'
    BY <1>1, <1>2, <1>4 DEF StopIsAnError, Result, Error
  <2>2. ASSUME stop' PROVE \E j \in Items : item'[j] = "ended" /\ IsError(result'[j])
    <3>1. CASE stop
      <4>1. PICK j \in Items : item[j] = "ended" /\ IsError(result[j])
        BY <3>1, <1>2 DEF StopIsAnError
      <4>2. j # i
        BY <4>1, <1>2
      <4>3. item'[j] = "ended" /\ result'[j] = result[j]
        BY <4>1, <4>2, <1>3, <1>5, <1>8
      <4> QED
        BY <4>1, <4>3
    <3>2. CASE ~stop
      <4>1. r = Error(i)
        BY <3>2, <2>2, <1>1, <1>4
      <4>2. IsError(result'[i]) /\ item'[i] = "ended"
        BY <4>1, <1>3, <1>5, <1>8 DEF IsError, Error
      <4> QED
        BY <4>2
    <3> QED
      BY <3>1, <3>2
  <2> QED
    BY <2>1, <2>2, <1>4 DEF StopIsAnError
<1>11. NoIdleWindow'
  <2> SUFFICES ASSUME ~stop', InProgress(item') = {}, NEW w \in Items, item'[w] = "waiting"
               PROVE  FALSE
    BY <1>4 DEF NoIdleWindow
  <2>1. stopped = FALSE
    BY <1>3, <1>4
  <2>2. item' = Fill(it, FALSE)
    BY <2>1, <1>4
  <2>3. InProgress(Fill(it, FALSE)) = {} /\ Fill(it, FALSE)[w] = "waiting"
    BY <2>2
  <2> QED
    BY <2>3, <1>3, <1>6, FillKeepsBusy
<1>12. \A j \in Items : item[j] = "ended" \/ j = i => item'[j] = "ended"
  BY <1>3, <1>5
<1>13. \A j \in Items : item'[j] = "running" => item[j] = "running"
  BY <1>3, <1>5
<1> QED
  BY <1>4, <1>5, <1>7, <1>8, <1>9, <1>10, <1>11, <1>12, <1>13 DEF ItemsKept

LEMMA StartKeepsItems ==
    ASSUME MapInv, Start
    PROVE  ItemsKept'
<1> USE DEF MapInv, MapTypes, TypeOK
<1> DEFINE it == [j \in Items |-> "waiting"]
<1>1. /\ item' = Fill(it, FALSE) /\ result' = [j \in Items |-> NoOut] /\ stop' = FALSE
      /\ UNCHANGED <<conf, list>> /\ Items' = Items /\ pc' = "map"
  BY DEF Start, Items
<1>2. /\ it \in [Items -> ItemRuns]
      /\ \A j, k \in Items : j < k /\ it[k] # "waiting" => it[j] # "waiting"
      /\ \A j \in Items : it[j] = "waiting"
  BY DEF ItemRuns
<1> HIDE DEF it
<1>3. /\ item' \in [Items -> ItemRuns]
      /\ \A j \in Items : item'[j] \in {"waiting", "pulled"}
  <2>1. FALSE \in BOOLEAN /\ list \in Lists
    OBVIOUS
  <2>2. /\ Fill(it, FALSE) \in [Items -> ItemRuns]
        /\ \A j \in Items : IF it[j] = "waiting" THEN Fill(it, FALSE)[j] \in {"waiting", "pulled"}
                                              ELSE Fill(it, FALSE)[j] = it[j]
    BY <2>1, <1>2, FillPulls
  <2> QED
    BY <2>2, <1>1, <1>2
<1>4. TakenInOrder'
  <2> SUFFICES ASSUME NEW j \in Items, NEW k \in Items, j < k, item'[k] # "waiting"
               PROVE  item'[j] # "waiting"
    BY <1>1 DEF TakenInOrder
  <2> QED
    BY <1>1, <1>2, FillTakesInOrder
<1>5. NoIdleWindow'
  <2> SUFFICES ASSUME InProgress(item') = {}, NEW w \in Items, item'[w] = "waiting"
               PROVE  FALSE
    BY <1>1 DEF NoIdleWindow
  <2> QED
    BY <1>1, <1>2, FillKeepsBusy
<1>6. GaveItsOwn'
  BY <1>1, <1>3 DEF GaveItsOwn
<1>7. StopIsAnError'
  BY <1>1 DEF StopIsAnError
<1>8. DOMAIN result' = Items'
  BY <1>1
<1> QED
  BY <1>1, <1>3, <1>4, <1>5, <1>6, <1>7, <1>8 DEF ItemsKept

LEMMA StartBodyKeepsItems ==
    ASSUME MapInv, NEW i \in Items, StartBody(i)
    PROVE  ItemsKept' /\ \A j \in Items : item[j] = "ended" => item'[j] = "ended"
<1> USE DEF MapInv, MapTypes, TypeOK
<1>1. /\ pc = "map" /\ item[i] = "pulled" /\ item' = [item EXCEPT ![i] = "running"]
      /\ UNCHANGED <<conf, list, result, stop, pc>> /\ Items' = Items
  BY DEF StartBody, Items
<1>2. /\ item \in [Items -> ItemRuns] /\ item' \in [Items -> ItemRuns] /\ item'[i] = "running"
      /\ \A j \in Items : j # i => item'[j] = item[j]
  BY <1>1 DEF ItemRuns
<1>3. TakenInOrder'
  BY <1>1, <1>2 DEF TakenInOrder
<1>4. GaveItsOwn'
  BY <1>1, <1>2 DEF GaveItsOwn
<1>5. StopIsAnError'
  BY <1>1, <1>2 DEF StopIsAnError
<1>6. NoIdleWindow'
  BY <1>1, <1>2 DEF NoIdleWindow, InProgress
<1> QED
  BY <1>1, <1>2, <1>3, <1>4, <1>5, <1>6 DEF ItemsKept

\* A step that leaves the items alone keeps what is known of them.
LEMMA LeftAlone ==
    ASSUME MapInv, pc # "idle", UNCHANGED <<conf, list, item, result, stop>>,
           pc' \in {"over", "done"}
    PROVE  ItemsKept'
<1> USE DEF MapInv, MapTypes, TypeOK
<1>1. item' \in [Items -> ItemRuns] /\ DOMAIN result' = Items /\ Items' = Items
  BY DEF Items
<1>2. TakenInOrder' /\ StopIsAnError' /\ NoIdleWindow'
  BY <1>1 DEF TakenInOrder, StopIsAnError, NoIdleWindow
<1>3. GaveItsOwn'
  BY <1>1 DEF GaveItsOwn
<1> QED
  BY <1>1, <1>2, <1>3 DEF ItemsKept

-----------------------------------------------------------------------------
(***************************************************************************)
(* What a map gives when it returns.                                         *)
(***************************************************************************)
\* The errors of a list have a first one.
LEMMA FirstErrorIsFirst ==
    ASSUME list \in Lists, \E i \in Items : IsError(result[i])
    PROVE  /\ FirstError \in Items /\ IsError(result[FirstError])
           /\ \A j \in Items : IsError(result[j]) => FirstError <= j
<1> DEFINE Errors == {i \in Items : IsError(result[i])}
<1>1. Errors \in SUBSET Nat
  BY ListIsSeq
<1>2. PICK m \in Errors : \A k \in Errors : m <= k
  <2>1. Errors # {}
    OBVIOUS
  <2> HIDE DEF Errors
  <2> QED
    BY <1>1, <2>1, LeastNumber
<1>3. m \in Items /\ IsError(result[m]) /\ \A j \in Items : IsError(result[j]) => m <= j
  BY <1>2
<1> QED
  BY <1>3 DEF FirstError

LEMMA ReturnsInOrder ==
    ASSUME MapInv, Returns
    PROVE  GivesInOrder'
<1> USE DEF MapInv, MapTypes, TypeOK
<1>1. /\ pc = "map" /\ InProgress(item) = {} /\ UNCHANGED <<conf, list, item, result, stop>>
      /\ Items' = Items
  BY DEF Returns, Leaves, Items
<1>2. \A i \in Items : item[i] \in {"waiting", "ended"}
  BY <1>1 DEF InProgress, ItemRuns
<1>3. conf.policy # "FailFast" => \A i \in Items : item[i] = "ended"
  BY <1>1, <1>2 DEF StopIsAnError, NoIdleWindow
<1>4. CASE \E i \in Items : IsError(result[i])
  <2> DEFINE f == FirstError
  <2>1. /\ f \in Items /\ IsError(result[f])
        /\ \A j \in Items : IsError(result[j]) => f <= j
    BY <1>4, FirstErrorIsFirst
  <2>2. pc' = "over" /\ out' = Error(f)
    BY <1>1, <1>4 DEF Returns, Leaves
  <2> HIDE DEF f
  <2>3. item[f] = "ended"
    BY <1>1, <1>2, <2>1 DEF GaveItsOwn, IsError, NoOut
  <2>4. Items = 1..Len(list) /\ Len(list) \in Nat
    BY ListIsSeq
  <2>5. \A j \in 1..f - 1 : item[j] = "ended" /\ ~IsError(result[j])
    <3> SUFFICES ASSUME NEW j \in 1..f - 1 PROVE item[j] = "ended" /\ ~IsError(result[j])
      OBVIOUS
    <3>1. j \in Items /\ j < f /\ ~(f <= j)
      BY <2>1, <2>4
    <3>2. item[j] # "waiting"
      BY <3>1, <2>1, <2>3, <1>1 DEF TakenInOrder
    <3> QED
      BY <3>1, <3>2, <2>1, <1>2
  <2>6. out'.error = f
    BY <2>2 DEF Error
  <2>7. ForwardsItems'
    BY <2>2 DEF ForwardsItems
  <2>8. FailsAsAsked'
    BY <1>1, <1>3, <2>1, <2>5, <2>6 DEF FailsAsAsked
  <2> QED
    BY <2>7, <2>8 DEF GivesInOrder
<1>5. CASE ~\E i \in Items : IsError(result[i])
  <2>1. pc' = "done" /\ out' = [updates |-> result]
    BY <1>1, <1>5 DEF Returns, Leaves
  <2>2. ~stop
    BY <1>1, <1>5 DEF StopIsAnError
  <2>3. \A i \in Items : item[i] = "ended"
    BY <1>1, <1>2, <2>2 DEF NoIdleWindow
  <2>4. \A i \in Items : result[i].item = list[i]
    <3> TAKE i \in Items
    <3>1. result[i] # Error(i)
      BY <1>5 DEF IsError, Error
    <3> QED
      BY <3>1, <2>3, <1>1 DEF GaveItsOwn
  <2>5. out'.updates = result
    BY <2>1
  <2>6. ForwardsItems'
    BY <1>1, <2>4, <2>5 DEF ForwardsItems
  <2>7. FailsAsAsked'
    BY <2>1 DEF FailsAsAsked
  <2> QED
    BY <2>6, <2>7 DEF GivesInOrder
<1> QED
  BY <1>4, <1>5

-----------------------------------------------------------------------------
(***************************************************************************)
(* What is recorded of the items.                                            *)
(***************************************************************************)
\* What an item that ends leaves in the entries of its run.
LEMMA EndsRecords ==
    ASSUME MapInv, NEW i \in Items, ItemEnds(i)
    PROVE  \/ UNCHANGED <<entries, ended>>
           \/ \E r \in Result :
                 /\ r.item = list[i] /\ ended' = With(ended, i, list[i])
                 /\ entries' = IF Recording THEN With(entries, i, r) ELSE entries
<1>1. CASE Reuse(i)
  BY <1>1 DEF Reuse
<1>2. \A by \in {"body", "capture"} :
         Updates(list[i], by) \in Result /\ Updates(list[i], by).item = list[i]
  BY DEF Updates, Result, Items, MapInv, MapTypes, TypeOK
<1>3. CASE BodyReturns(i)
  BY <1>2, <1>3 DEF BodyReturns, Records
<1>4. CASE BodyReturnsOther(i)
  BY <1>4 DEF BodyReturnsOther, Fails
<1>5. CASE BodyFails(i)
  BY <1>2, <1>5 DEF BodyFails, Captured, Records, Fails
<1> QED
  BY <1>1, <1>3, <1>4, <1>5 DEF ItemEnds

EntryTypes == \A i \in DOMAIN entries : entries[i] \in Result

LEMMA EndsKeepsRecords ==
    ASSUME MapInv, NEW i \in Items, ItemEnds(i)
    PROVE  EntryTypes' /\ EndedIsKnown'
<1> USE DEF MapInv, MapTypes, TypeOK
<1>0. UNCHANGED <<conf, list, pc>> /\ pc = "map" /\ Items' = Items
  BY EndsAs DEF Ends, Items
<1>1. /\ Recording' = Recording /\ Result' = Result
      /\ \A j \in Items : item[j] = "ended" \/ j = i => item'[j] = "ended"
  BY <1>0, EndsKeepsItems DEF Recording, Result
<1>2. CASE UNCHANGED <<entries, ended>>
  <2>1. EntryTypes'
    BY <1>1, <1>2 DEF EntryTypes
  <2>2. EndedIsKnown'
    BY <1>0, <1>1, <1>2 DEF EndedIsKnown
  <2> QED
    BY <2>1, <2>2
<1>3. CASE ~UNCHANGED <<entries, ended>>
  <2>1. PICK r \in Result :
           /\ r.item = list[i] /\ ended' = With(ended, i, list[i])
           /\ entries' = IF Recording THEN With(entries, i, r) ELSE entries
    BY <1>3, EndsRecords
  <2>2. /\ DOMAIN ended' = DOMAIN ended \cup {i} /\ ended'[i] = list[i]
        /\ \A j \in DOMAIN ended : j # i => ended'[j] = ended[j]
    BY <2>1 DEF With
  <2>3. CASE Recording
    <3>1. /\ DOMAIN entries' = DOMAIN entries \cup {i} /\ entries'[i] = r
          /\ \A j \in DOMAIN entries : j # i => entries'[j] = entries[j]
      BY <2>1, <2>3 DEF With
    <3>2. EntryTypes'
      BY <1>1, <3>1 DEF EntryTypes
    <3>3. EndedIsKnown'
      BY <1>1, <2>1, <2>2, <2>3, <3>1 DEF EndedIsKnown
    <3> QED
      BY <3>2, <3>3
  <2>4. CASE ~Recording
    <3>1. EntryTypes'
      BY <1>1, <2>1, <2>4 DEF EntryTypes
    <3>2. EndedIsKnown'
      BY <1>0, <1>1, <2>2, <2>4 DEF EndedIsKnown
    <3> QED
      BY <3>1, <3>2
  <2> QED
    BY <2>3, <2>4
<1> QED
  BY <1>2, <1>3

-----------------------------------------------------------------------------
LEMMA MapInitInv == Init => MapInv
<1> SUFFICES ASSUME Init PROVE MapInv
  OBVIOUS
<1> USE DEF Init
<1>1. MapTypes
  <2>1. DOMAIN entries = {} /\ DOMAIN ended = {}
    OBVIOUS
  <2>2. 0 \in 0..Attempts
    BY ItemMapAssumption
  <2> QED
    BY <2>1, <2>2 DEF MapTypes, TypeOK
<1>2. TakenInOrder /\ GaveItsOwn /\ StopIsAnError /\ NoIdleWindow
  BY DEF TakenInOrder, GaveItsOwn, StopIsAnError, NoIdleWindow
<1>3. EndedIsKnown
  BY DEF EndedIsKnown
<1>4. GivesInOrder
  BY DEF GivesInOrder, ForwardsItems, FailsAsAsked
<1> QED
  BY <1>1, <1>2, <1>3, <1>4 DEF MapInv

LEMMA MapNextInv == MapInv /\ [Next]_vars => MapInv'
<1> SUFFICES ASSUME MapInv, [Next]_vars PROVE MapInv'
  OBVIOUS
<1> USE DEF MapInv, MapTypes, TypeOK
<1>0. \A a : Attempts \in Nat /\ (a \in 0..Attempts /\ a < Attempts => a + 1 \in 0..Attempts)
  BY ItemMapAssumption
<1>1. CASE Start
  <2>1. /\ pc' = "map" /\ UNCHANGED <<conf, list, out>> /\ stop' = FALSE
        /\ entries' = Kept /\ ended' = IF conf.called THEN <<>> ELSE ended
        /\ Items' = Items /\ Recording' = Recording /\ Result' = Result
    BY <1>1 DEF Start, Items, Recording, Result
  <2>2. ItemsKept'
    BY <1>1, StartKeepsItems
  <2>3. attempt' \in 0..Attempts
    BY <1>0, <1>1 DEF Start
  <2>4. EntryTypes' /\ EndedIsKnown'
    BY <2>1 DEF Kept, EntryTypes, EndedIsKnown, Recording
  <2>5. GivesInOrder'
    BY <2>1 DEF GivesInOrder, ForwardsItems, FailsAsAsked
  <2>6. MapTypes'
    BY <2>1, <2>2, <2>3, <2>4 DEF ItemsKept, EntryTypes, ItemRuns
  <2> QED
    BY <2>2, <2>4, <2>5, <2>6 DEF ItemsKept
<1>2. CASE Resume
  <2>1. /\ pc' = "idle" /\ stop' = FALSE /\ out' = NoOut /\ list' \in Lists
        /\ UNCHANGED <<conf, attempt>> /\ Recording' = Recording /\ Result' = Result
    BY <1>2 DEF Resume, Recording, Result
  <2>2. PICK kept \in SUBSET DOMAIN entries :
           /\ entries' = [i \in kept |-> entries[i]]
           /\ ended' = [i \in DOMAIN ended \cap kept |-> ended[i]]
    BY <1>2 DEF Resume
  <2>3. EntryTypes'
    BY <2>1, <2>2 DEF EntryTypes
  <2>4. EndedIsKnown'
    BY <2>1, <2>2 DEF EndedIsKnown
  <2>5. TakenInOrder' /\ GaveItsOwn' /\ StopIsAnError' /\ NoIdleWindow'
    BY <2>1 DEF TakenInOrder, GaveItsOwn, StopIsAnError, NoIdleWindow
  <2>6. GivesInOrder'
    BY <2>1 DEF GivesInOrder, ForwardsItems, FailsAsAsked
  <2>7. MapTypes'
    BY <2>1, <2>3 DEF EntryTypes
  <2> QED
    BY <2>4, <2>5, <2>6, <2>7
<1>3. ASSUME UNCHANGED <<conf, list, item, result, stop, entries, attempt, ended>>,
             pc = "map", pc' \in {"over", "done"}, GivesInOrder'
      PROVE  MapInv'
  <2>1. ItemsKept'
    BY <1>3, LeftAlone
  <2>2. MapTypes'
    BY <1>3, <2>1 DEF Items, Result
  <2>3. EndedIsKnown'
    BY <1>3 DEF EndedIsKnown, Recording
  <2> QED
    BY <1>3, <2>1, <2>2, <2>3 DEF ItemsKept
<1>4. CASE Returns
  <2>1. UNCHANGED <<conf, list, item, result, stop, entries, attempt, ended>>
        /\ pc = "map" /\ pc' \in {"over", "done"}
    BY <1>4 DEF Returns, Leaves
  <2> QED
    BY <2>1, <1>3, <1>4, ReturnsInOrder
<1>5. CASE Cancel \/ \E i \in Items : BodyPanics(i)
  <2>1. /\ UNCHANGED <<conf, list, item, result, stop, entries, attempt, ended>>
        /\ pc = "map" /\ pc' = "over" /\ (out' = NoOut \/ \E i \in Items : out' = [panic |-> i])
    BY <1>5 DEF Cancel, BodyPanics, Leaves
  <2>2. ~IsError(out')
    BY <2>1 DEF IsError, NoOut
  <2>3. GivesInOrder'
    BY <2>1, <2>2 DEF GivesInOrder, ForwardsItems, FailsAsAsked
  <2> QED
    BY <2>1, <2>3, <1>3
<1>6. ASSUME NEW i \in Items, StartBody(i) PROVE MapInv'
  <2>1. /\ UNCHANGED <<conf, list, result, stop, entries, pc, out, attempt, ended>> /\ pc = "map"
        /\ Items' = Items /\ Recording' = Recording /\ Result' = Result
    BY <1>6 DEF StartBody, Items, Recording, Result
  <2>2. ItemsKept' /\ \A j \in Items : item[j] = "ended" => item'[j] = "ended"
    BY <1>6, StartBodyKeepsItems
  <2>3. MapTypes'
    BY <2>1, <2>2 DEF ItemsKept, ItemRuns
  <2>4. EndedIsKnown'
    BY <2>1, <2>2 DEF EndedIsKnown
  <2>5. GivesInOrder'
    BY <2>1 DEF GivesInOrder, ForwardsItems, FailsAsAsked
  <2> QED
    BY <2>2, <2>3, <2>4, <2>5 DEF ItemsKept
<1>7. ASSUME NEW i \in Items, ItemEnds(i) PROVE MapInv'
  <2>1. PICK r, stopped : Ends(i, r, stopped) /\ stopped \in BOOLEAN
    BY <1>7, EndsAs
  <2>2. /\ UNCHANGED <<conf, list, pc, out, attempt>> /\ stop' \in BOOLEAN /\ pc = "map"
        /\ Items' = Items /\ Result' = Result
    BY <1>7, <2>1, EndsAs DEF Ends, Items, Result
  <2>3. ItemsKept'
    BY <1>7, EndsKeepsItems
  <2>4. EntryTypes' /\ EndedIsKnown'
    BY <1>7, EndsKeepsRecords
  <2>5. MapTypes'
    BY <2>2, <2>3, <2>4 DEF ItemsKept, EntryTypes, ItemRuns
  <2>6. GivesInOrder'
    BY <2>2 DEF GivesInOrder, ForwardsItems, FailsAsAsked
  <2> QED
    BY <2>3, <2>4, <2>5, <2>6 DEF ItemsKept
<1>8. CASE UNCHANGED vars
  <2>1. /\ UNCHANGED <<conf, list, item, result, stop, entries, pc, out, attempt, ended>>
        /\ Items' = Items /\ Recording' = Recording /\ Result' = Result
    BY <1>8 DEF vars, Items, Recording, Result
  <2>2. MapTypes'
    BY <2>1
  <2>3. TakenInOrder' /\ GaveItsOwn' /\ StopIsAnError' /\ NoIdleWindow'
    BY <2>1 DEF TakenInOrder, GaveItsOwn, StopIsAnError, NoIdleWindow
  <2>4. EndedIsKnown' /\ GivesInOrder'
    BY <2>1 DEF EndedIsKnown, GivesInOrder, ForwardsItems, FailsAsAsked
  <2> QED
    BY <2>2, <2>3, <2>4
<1> QED
  BY <1>1, <1>2, <1>4, <1>5, <1>6, <1>7, <1>8, MapStepKinds

\* Whatever the order its items end in, over attempts that fail, are cancelled or are
\* lost, a map that returns gives the updates made for each item of its list, in the
\* order of the list; one that fails tells the first error of that order, after which
\* nothing that came before it is missing (run_map, settle of src/graph/map.rs).
THEOREM MapGivesInOrder == Spec => []GivesInOrder
<1>1. MapInv => GivesInOrder
  BY DEF MapInv
<1> QED
  BY MapInitInv, MapNextInv, <1>1, PTL DEF Spec

\* What the state of a map always is: its items are typed, and its entries are updates.
THEOREM MapTypeCorrect == Spec => []TypeOK
<1>1. MapInv => TypeOK
  BY DEF MapInv, MapTypes
<1> QED
  BY MapInitInv, MapNextInv, <1>1, PTL DEF Spec

\* No step starts the body of an item that ended and was not lost (recorded_item of
\* src/graph/context.rs).
THEOREM EndedIsNotRunAgain == Spec => NotRunAgain
<1> DEFINE A == \A i \in Items :
                  pc = "map" /\ pc' = "map" /\ item[i] # "running" /\ item'[i] = "running" =>
                    ~(i \in DOMAIN ended /\ ended[i] = list[i])
<1>1. MapInv /\ [Next]_vars => [A]_vars
  <2> SUFFICES ASSUME MapInv, Next, pc = "map", pc' = "map", NEW i \in Items,
                      item[i] # "running", item'[i] = "running",
                      i \in DOMAIN ended, ended[i] = list[i]
               PROVE  FALSE
    OBVIOUS
  <2> USE DEF MapInv
  <2>1. CASE Start \/ Resume \/ Returns \/ Cancel
    BY <2>1 DEF Start, Resume, Returns, Cancel, Leaves
  <2>2. ASSUME NEW j \in Items, BodyPanics(j) PROVE FALSE
    BY <2>2 DEF BodyPanics, Leaves
  <2>3. ASSUME NEW j \in Items, ItemEnds(j) PROVE FALSE
    BY <2>3, EndsKeepsItems
  <2>4. ASSUME NEW j \in Items, StartBody(j) PROVE FALSE
    <3>1. item[j] = "pulled" /\ ~Recorded(j) /\ item' = [item EXCEPT ![j] = "running"]
      BY <2>4 DEF StartBody
    <3>2. item \in [Items -> ItemRuns]
      BY DEF MapTypes
    <3>3. j = i
      BY <3>1, <3>2
    <3>4. i \in DOMAIN entries /\ entries[i].item = list[i] /\ Recording
      BY <3>1, <3>3 DEF EndedIsKnown
    <3> QED
      BY <3>1, <3>3, <3>4 DEF Recorded
  <2> QED
    BY <2>1, <2>2, <2>3, <2>4, MapStepKinds
<1> QED
  BY MapInitInv, MapNextInv, <1>1, PTL DEF Spec, NotRunAgain

-----------------------------------------------------------------------------
(***************************************************************************)
(* The recorder.                                                             *)
(***************************************************************************)
\* An occurrence that began is of an active node, or of an item of a list of the state.
IsOccurrence(key) ==
    \/ \E n \in active : n \in Names /\ key = <<<<n, 0>>>>
    \/ \E i \in DOMAIN world.lists.outer : "m" \in active /\ key = <<<<"m", i>>>>
    \/ \E i \in DOMAIN world.lists.outer, j \in DOMAIN world.lists.inner :
          "m" \in active /\ key = <<<<"m", i>>, <<"m", j>>>>
    \/ "c" \in active /\ key = <<<<"c", 0>>, <<"x", 0>>>>
    \/ \E i \in DOMAIN world.lists.called : "c" \in active /\ key = <<<<"c", 0>>, <<"x", i>>>>
Occurrences == \A key \in DOMAIN body : IsOccurrence(key)

\* What is recorded was made in the superstep that is open, by a node of it; or it is
\* of an item that is on no list, or inside the called graph, where nothing is reused.
Fresh(key, entry) ==
    /\ entry.made.step = world.step /\ (~edited => entry.made = world)
    /\ StartsWith(key, <<>>) /\ key[1][1] \in active
OfThisStep(pending) ==
    \A key \in DOMAIN pending :
        pending[key].witness = Foreign \/ IsBelow(key, Call) \/ Fresh(key, pending[key])

\* The host is told of the superstep that is open.
HostFollows ==
    /\ host = [world |-> host.world, active |-> host.active, pending |-> host.pending]
    /\ host.world = world /\ host.active \in SUBSET Names /\ (~private => host.active = active)
    /\ private => DOMAIN writes = {} /\ DOMAIN host.pending = {}

WorldType == world \in [step : 0..MaxSteps, lists : Worlds]
GaveOwn ==
    \A key \in DOMAIN gave :
        /\ gave[key].witness = Witness(key)
        /\ gave[key].made.step = world.step
        /\ ~edited \/ IsBelow(key, Call) => gave[key].made = world

RecInv ==
    /\ WorldType /\ active \in SUBSET Names /\ Occurrences
    /\ OfThisStep(writes) /\ OfThisStep(host.pending) /\ HostFollows /\ GaveOwn

\* The segments of an occurrence.
LEMMA PathOfOne ==
    ASSUME NEW n, NEW i
    PROVE  /\ Path(<<<<n, i>>>>) = <<n>>
           /\ Last(<<<<n, i>>>>) = <<n, i>>
           /\ Front(<<<<n, i>>>>) = <<>>
BY DEF Path, Last, Front

LEMMA PathOfTwo ==
    ASSUME NEW n, NEW i, NEW m, NEW j
    PROVE  /\ Path(<<<<n, i>>, <<m, j>>>>) = <<n, m>>
           /\ Last(<<<<n, i>>, <<m, j>>>>) = <<m, j>>
<1> DEFINE key == <<<<n, i>>, <<m, j>>>>
<1>1. Len(key) = 2 /\ DOMAIN key = {1, 2} /\ key[1] = <<n, i>> /\ key[2] = <<m, j>>
  OBVIOUS
<1>2. Last(key) = <<m, j>>
  BY <1>1 DEF Last
<1>3. Path(key) = [k \in {1, 2} |-> IF k = 1 THEN n ELSE m]
  BY <1>1 DEF Path
<1>4. <<n, m>> = [k \in {1, 2} |-> IF k = 1 THEN n ELSE m]
  OBVIOUS
<1> QED
  BY <1>2, <1>3, <1>4

LEMMA AppendedToOne ==
    ASSUME NEW a, NEW b
    PROVE  Append(<<a>>, b) = <<a, b>>
<1> DEFINE S == {a, b}
<1>1. <<a>> \in Seq(S) /\ Len(<<a>>) = 1 /\ b \in S
  OBVIOUS
<1>2. <<a, b>> \in Seq(S) /\ Len(<<a, b>>) = 2 /\ <<a, b>>[1] = a /\ <<a, b>>[2] = b
  OBVIOUS
<1>3. Append(<<a>>, b) \in Seq(S) /\ Len(Append(<<a>>, b)) = 2
      /\ Append(<<a>>, b)[1] = a /\ Append(<<a>>, b)[2] = b
  BY <1>1
<1>4. \A i \in 1..2 : Append(<<a>>, b)[i] = <<a, b>>[i]
  <2> TAKE i \in 1..2
  <2>1. i = 1 \/ i = 2
    OBVIOUS
  <2> QED
    BY <2>1, <1>2, <1>3
<1>5. Len(Append(<<a>>, b)) = Len(<<a, b>>) /\ 1..2 = 1..Len(Append(<<a>>, b))
  BY <1>2, <1>3
<1> HIDE DEF S
<1> QED
  BY <1>2, <1>3, <1>4, <1>5, SeqEqual

LEMMA FrontOfTwo ==
    ASSUME NEW a, NEW b
    PROVE  Front(<<a, b>>) = <<a>>
<1> DEFINE S == {a, b}
           key == <<a, b>>
<1>1. key \in Seq(S) /\ Len(key) = 2 /\ key[1] = a
  OBVIOUS
<1>2. <<a>> \in Seq(S) /\ Len(<<a>>) = 1 /\ <<a>>[1] = a
  OBVIOUS
<1> HIDE DEF S, key
<1>3. SubSeq(key, 1, 1) \in Seq(S) /\ Len(SubSeq(key, 1, 1)) = 1 /\ SubSeq(key, 1, 1)[1] = a
  BY <1>1
<1>4. SubSeq(key, 1, 1) = <<a>>
  <2>1. \A i \in 1..Len(SubSeq(key, 1, 1)) : SubSeq(key, 1, 1)[i] = <<a>>[i]
    BY <1>2, <1>3
  <2>2. Len(SubSeq(key, 1, 1)) = Len(<<a>>)
    BY <1>2, <1>3
  <2> QED
    BY <2>1, <2>2, <1>2, <1>3, SeqEqual
<1>5. Front(key) = SubSeq(key, 1, 1)
  BY <1>1 DEF Front
<1> QED
  BY <1>4, <1>5 DEF key

\* The item of a node takes the place of its segment; that of an item is pushed below it.
LEMMA KeysOfItems ==
    /\ \A n, i : OfItem(<<<<n, 0>>>>, i) = <<<<n, i>>>>
    /\ \A n, k, i : k # 0 => OfItem(<<<<n, k>>>>, i) = <<<<n, k>>, <<n, i>>>>
    /\ \A n, m, i : OfItem(<<<<n, 0>>, <<m, 0>>>>, i) = <<<<n, 0>>, <<m, i>>>>
    /\ \A n, m : OfNode(<<<<n, 0>>>>, m) = <<<<n, 0>>, <<m, 0>>>>
    /\ \A n : OfNode(<<>>, n) = <<<<n, 0>>>>
<1>1. \A n, i : OfItem(<<<<n, 0>>>>, i) = <<<<n, i>>>>
  <2> TAKE n, i
  <2>1. Last(<<<<n, 0>>>>) = <<n, 0>> /\ Front(<<<<n, 0>>>>) = <<>>
    BY PathOfOne
  <2>2. <<n, 0>>[1] = n /\ <<n, 0>>[2] = 0
    OBVIOUS
  <2>3. OfItem(<<<<n, 0>>>>, i) = Append(<<>>, <<n, i>>)
    BY <2>1, <2>2 DEF OfItem
  <2> QED
    BY <2>3
<1>2. \A n, k, i : k # 0 => OfItem(<<<<n, k>>>>, i) = <<<<n, k>>, <<n, i>>>>
  <2> TAKE n, k, i
  <2>1. k # 0 => OfItem(<<<<n, k>>>>, i) = Append(<<<<n, k>>>>, <<n, i>>)
    BY PathOfOne DEF OfItem
  <2> QED
    BY <2>1, AppendedToOne
<1>3. \A n, m, i : OfItem(<<<<n, 0>>, <<m, 0>>>>, i) = <<<<n, 0>>, <<m, i>>>>
  <2> TAKE n, m, i
  <2>1. Front(<<<<n, 0>>, <<m, 0>>>>) = <<<<n, 0>>>>
    BY FrontOfTwo
  <2>2. OfItem(<<<<n, 0>>, <<m, 0>>>>, i) = Append(<<<<n, 0>>>>, <<m, i>>)
    BY <2>1, PathOfTwo DEF OfItem
  <2> QED
    BY <2>2, AppendedToOne
<1>4. \A n, m : OfNode(<<<<n, 0>>>>, m) = <<<<n, 0>>, <<m, 0>>>>
  BY AppendedToOne DEF OfNode
<1>5. \A n : OfNode(<<>>, n) = <<<<n, 0>>>>
  BY DEF OfNode
<1> QED
  BY <1>1, <1>2, <1>3, <1>4, <1>5

\* The items of the lists of the state: counted from one, and none of them is Foreign.
LEMMA ListsOfWorld ==
    ASSUME WorldType, NEW l \in {world.lists.outer, world.lists.inner, world.lists.called}
    PROVE  \A i \in DOMAIN l : i # 0 /\ l[i] # Foreign
<1>1. l \in Seq({l[i] : i \in DOMAIN l} \ {Foreign})
  BY RecorderAssumption DEF WorldType
<1> DEFINE S == {l[i] : i \in DOMAIN l} \ {Foreign}
<1>2. l \in Seq(S)
  BY <1>1
<1>3. Foreign \notin S
  OBVIOUS
<1> HIDE DEF S
<1>4. \A i \in DOMAIN l : i # 0 /\ l[i] \in S
  BY <1>2
<1> QED
  BY <1>3, <1>4

\* What runs below an occurrence are occurrences.
LEMMA PartsAreOccurrences ==
    ASSUME WorldType, NEW key, IsOccurrence(key), NEW part \in Parts(key)
    PROVE  IsOccurrence(part)
<1>1. ASSUME NEW n \in active, n \in Names, key = <<<<n, 0>>>> PROVE IsOccurrence(part)
  <2>1. Path(key) = <<n>>
    BY <1>1, PathOfOne
  <2>2. CASE n = "m"
    <3>0. key = Fan /\ key # Call /\ key # OfNode(Call, "x")
      BY <1>1, <2>2, KeysOfItems DEF Fan, Call
    <3>1. Parts(key) = {OfItem(key, i) : i \in DOMAIN world.lists.outer}
      BY <2>1, <2>2, <3>0 DEF Parts
    <3>2. PICK i \in DOMAIN world.lists.outer : part = <<<<"m", i>>>>
      BY <1>1, <2>2, <3>1, KeysOfItems
    <3> QED
      BY <1>1, <2>2, <3>2 DEF IsOccurrence
  <2>3. CASE n = "c"
    <3>0. key = Call /\ key # OfNode(Call, "x") /\ Path(key) # <<"m">>
      BY <1>1, <2>1, <2>3, KeysOfItems DEF Call
    <3>1. Parts(key) = {OfNode(Call, "x")}
      BY <3>0 DEF Parts
    <3>2. part = <<<<"c", 0>>, <<"x", 0>>>>
      BY <3>1, KeysOfItems DEF Call
    <3> QED
      BY <1>1, <2>3, <3>2 DEF IsOccurrence
  <2>4. CASE n = "p"
    <3>1. Path(key) # <<"m">> /\ key # Call
      BY <1>1, <2>1, <2>4 DEF Call
    <3>2. key # OfNode(Call, "x")
      BY <1>1, KeysOfItems, SMTT(30) DEF Call
    <3>3. Parts(key) = {}
      BY <3>1, <3>2 DEF Parts
    <3> QED
      BY <3>3
  <2> QED
    BY <1>1, <2>2, <2>3, <2>4 DEF Names
<1>2. ASSUME NEW i \in DOMAIN world.lists.outer, "m" \in active, key = <<<<"m", i>>>>
      PROVE  IsOccurrence(part)
  <2>1. Path(key) = <<"m">> /\ i # 0
    BY <1>2, PathOfOne, ListsOfWorld
  <2>2. key # Fan /\ key # Call /\ key # OfNode(Call, "x")
    BY <1>2, <2>1, KeysOfItems DEF Fan, Call
  <2>3. Parts(key) = {OfItem(key, j) : j \in DOMAIN world.lists.inner}
    BY <2>1, <2>2 DEF Parts
  <2>4. PICK j \in DOMAIN world.lists.inner : part = <<<<"m", i>>, <<"m", j>>>>
    BY <1>2, <2>1, <2>3, KeysOfItems
  <2> QED
    BY <1>2, <2>4 DEF IsOccurrence
<1>3. ASSUME NEW i, NEW n, NEW m, NEW j, key = <<<<n, i>>, <<m, j>>>>, n = "m" \/ j # 0
      PROVE  FALSE
  <2>1. Path(key) = <<n, m>>
    BY <1>3, PathOfTwo
  <2>2. Path(key) # <<"m">> /\ key # Call
    BY <1>3, <2>1 DEF Call
  <2>3. OfNode(Call, "x") = <<<<"c", 0>>, <<"x", 0>>>>
    BY KeysOfItems DEF Call
  <2>4. key # OfNode(Call, "x")
    BY <1>3, <2>3
  <2>5. Parts(key) = {}
    BY <2>2, <2>4 DEF Parts
  <2> QED
    BY <2>5
<1>4. ASSUME "c" \in active, key = <<<<"c", 0>>, <<"x", 0>>>> PROVE IsOccurrence(part)
  <2>1. Path(key) = <<"c", "x">>
    BY <1>4, PathOfTwo
  <2>2. Path(key) # <<"m">> /\ key # Call
    BY <1>4, <2>1 DEF Call
  <2>3. key = OfNode(Call, "x")
    BY <1>4, KeysOfItems DEF Call
  <2>4. Parts(key) = {OfItem(key, i) : i \in DOMAIN world.lists.called}
    BY <2>2, <2>3 DEF Parts
  <2>5. PICK i \in DOMAIN world.lists.called : part = <<<<"c", 0>>, <<"x", i>>>>
    BY <1>4, <2>4, KeysOfItems
  <2> QED
    BY <1>4, <2>5 DEF IsOccurrence
<1>5. \A i \in DOMAIN world.lists.called : i # 0
  BY ListsOfWorld
<1> QED
  BY <1>1, <1>2, <1>3, <1>4, <1>5 DEF IsOccurrence

\* No occurrence is of an item that is on no list.
LEMMA WitnessIsKnown ==
    ASSUME WorldType, NEW key, IsOccurrence(key)
    PROVE  Witness(key) # Foreign
<1>1. ASSUME NEW n, key = <<<<n, 0>>>> PROVE Witness(key) # Foreign
  <2>1. Last(key)[2] = 0
    BY <1>1, PathOfOne
  <2>2. Witness(key) = NoItem
    BY <2>1 DEF Witness
  <2> QED
    BY <2>2, RecorderAssumption DEF NoItem
<1>2. ASSUME NEW i \in DOMAIN world.lists.outer, key = <<<<"m", i>>>>
      PROVE  Witness(key) # Foreign
  <2>1. Path(key) = <<"m">> /\ Last(key)[2] = i /\ i # 0 /\ world.lists.outer[i] # Foreign
    BY <1>2, PathOfOne, ListsOfWorld
  <2> QED
    BY <2>1 DEF Witness
<1>3. ASSUME NEW n, NEW i, NEW j \in DOMAIN world.lists.inner, key = <<<<"m", i>>, <<"m", j>>>>
      PROVE  Witness(key) # Foreign
  <2>1. Path(key) = <<"m", "m">> /\ Last(key)[2] = j /\ j # 0 /\ world.lists.inner[j] # Foreign
    BY <1>3, PathOfTwo, ListsOfWorld
  <2>2. Path(key) # <<"m">>
    BY <2>1
  <2> QED
    BY <2>1, <2>2 DEF Witness
<1>4. ASSUME NEW j, key = <<<<"c", 0>>, <<"x", j>>>>, j = 0 \/ j \in DOMAIN world.lists.called
      PROVE  Witness(key) # Foreign
  <2>1. Path(key) = <<"c", "x">> /\ Last(key)[2] = j
    BY <1>4, PathOfTwo
  <2>2. Path(key) # <<"m">> /\ Path(key) # <<"m", "m">>
    BY <2>1
  <2>3. j \in DOMAIN world.lists.called => j # 0 /\ world.lists.called[j] # Foreign
    BY ListsOfWorld
  <2>4. CASE j = 0
    BY <2>1, <2>4, RecorderAssumption DEF Witness, NoItem
  <2>5. CASE j \in DOMAIN world.lists.called
    BY <2>1, <2>2, <2>3, <2>5 DEF Witness
  <2> QED
    BY <1>4, <2>4, <2>5
<1> QED
  BY <1>1, <1>2, <1>3, <1>4 DEF IsOccurrence

\* An occurrence is of a node that is active.
LEMMA OccurrenceOfActive ==
    ASSUME NEW key, IsOccurrence(key)
    PROVE  StartsWith(key, <<>>) /\ key[1][1] \in active
<1>1. Len(key) \in {1, 2} /\ key[1][1] \in active
  BY DEF IsOccurrence
<1>2. SubSeq(key, 1, 0) = <<>> /\ SubSeq(<<>>, 1, 0) = <<>>
  BY SubSeqEmpty
<1>3. Len(<<>>) = 0
  OBVIOUS
<1> QED
  BY <1>1, <1>2, <1>3 DEF StartsWith, IsPrefix

\* Part of what is of this superstep is.
LEMMA PartIsOfThisStep ==
    ASSUME NEW pending, OfThisStep(pending), NEW keys
    PROVE  OfThisStep(Only(pending, keys))
BY DEF OfThisStep, Only

LEMMA InsertIsOfThisStep ==
    ASSUME NEW pending, OfThisStep(pending), NEW key, NEW entry, Fresh(key, entry)
    PROVE  OfThisStep(Insert(pending, key, entry))
BY DEF OfThisStep, Insert

LEMMA EntryIsFresh ==
    ASSUME NEW key, IsOccurrence(key)
    PROVE  Fresh(key, Entry(key))
BY OccurrenceOfActive DEF Fresh, Entry

\* What is reused was made by this occurrence, in this superstep.
LEMMA ReuseIsOwn ==
    ASSUME RecInv, NEW key \in DOMAIN body, MayReuse(key)
    PROVE  /\ writes[key].witness = Witness(key)
           /\ writes[key].made.step = world.step
           /\ ~edited \/ IsBelow(key, Call) => writes[key].made = world
<1>1. /\ key \in DOMAIN writes /\ writes[key].witness = Witness(key) /\ ~IsBelow(key, Call)
  BY DEF MayReuse, IsRecorded, Matching
<1>2. Witness(key) # Foreign
  BY WitnessIsKnown DEF RecInv, Occurrences
<1>3. Fresh(key, writes[key])
  BY <1>1, <1>2 DEF RecInv, OfThisStep
<1> QED
  BY <1>1, <1>3 DEF Fresh

LEMMA RecInitInv == RecInit => RecInv
<1> SUFFICES ASSUME RecInit PROVE RecInv
  OBVIOUS
<1>1. /\ world \in [step : {0}, lists : Worlds] /\ active \in SUBSET Names /\ body = <<>>
      /\ gave = <<>> /\ host = [world |-> world, active |-> active, pending |-> writes]
  BY DEF RecInit, Empty
<1>2. PICK given \in Given : writes = Seed(given)
  BY DEF RecInit
<1>3. OfThisStep(writes) /\ (private => DOMAIN writes = {})
  <2>1. OfThisStep(Empty) /\ DOMAIN Empty = {}
    BY DEF OfThisStep, Empty
  <2>2. \A key \in DOMAIN given : given[key].witness = Foreign
    BY <2>1 DEF Given, Insert
  <2>3. OfThisStep(given)
    BY <2>2 DEF OfThisStep
  <2> QED
    BY <1>2, <2>1, <2>3 DEF Seed
<1>4. HostFollows /\ OfThisStep(host.pending)
  <2>1. host.world = world /\ host.active = active /\ host.pending = writes
    BY <1>1
  <2> QED
    BY <1>1, <2>1, <1>3 DEF HostFollows
<1>5. WorldType
  <2>1. 0 \in 0..MaxSteps
    BY RecorderAssumption
  <2> QED
    BY <1>1, <2>1 DEF WorldType
<1>6. Occurrences /\ GaveOwn
  BY <1>1 DEF Occurrences, GaveOwn
<1> QED
  BY <1>1, <1>3, <1>4, <1>5, <1>6 DEF RecInv

\* A step in a superstep leaves alone what its occurrences are told by.
LEMMA InSuperstep ==
    ASSUME RecInv, UNCHANGED <<private, world, active, edited>>
    PROVE  /\ WorldType' /\ (active \in SUBSET Names)'
           /\ \A key : IsOccurrence(key)' <=> IsOccurrence(key)
           /\ \A key : Witness(key)' = Witness(key)
           /\ \A pending : OfThisStep(pending)' <=> OfThisStep(pending)
           /\ UNCHANGED writes => OfThisStep(writes)'
           /\ UNCHANGED host => OfThisStep(host.pending)'
           /\ UNCHANGED <<writes, host>> => HostFollows'
           /\ UNCHANGED gave => GaveOwn'
           /\ UNCHANGED body => Occurrences'
<1>1. WorldType' /\ (active \in SUBSET Names)'
  BY DEF RecInv, WorldType
<1>2. \A key : IsOccurrence(key)' <=> IsOccurrence(key)
  BY DEF IsOccurrence
<1>3. \A key : Witness(key)' = Witness(key)
  BY DEF Witness
<1>4. \A pending : OfThisStep(pending)' <=> OfThisStep(pending)
  BY DEF OfThisStep, Fresh
<1>5. UNCHANGED writes => OfThisStep(writes)'
  BY DEF RecInv, OfThisStep, Fresh
<1>6. UNCHANGED host => OfThisStep(host.pending)'
  BY DEF RecInv, OfThisStep, Fresh
<1>7. UNCHANGED <<writes, host>> => HostFollows'
  BY DEF RecInv, HostFollows
<1>8. UNCHANGED gave => GaveOwn'
  BY <1>3 DEF RecInv, GaveOwn
<1>9. UNCHANGED body => Occurrences'
  BY <1>2 DEF RecInv, Occurrences
<1> QED
  BY <1>1, <1>2, <1>3, <1>4, <1>5, <1>6, <1>7, <1>8, <1>9

LEMMA ReusesKeepsInv ==
    ASSUME RecInv, NEW key \in DOMAIN body, Reuses(key)
    PROVE  RecInv'
<1>1. /\ UNCHANGED <<private, world, active, phase, tries, edited, writes, host>>
      /\ body' = [body EXCEPT ![key] = "ended"] /\ gave' = Insert(gave, key, writes[key])
  BY DEF Reuses, EndsWith, fixed
<1>2. Occurrences'
  BY <1>1, InSuperstep DEF RecInv, Occurrences
<1>3. /\ writes[key].witness = Witness(key) /\ writes[key].made.step = world.step
      /\ ~edited \/ IsBelow(key, Call) => writes[key].made = world
  BY ReuseIsOwn DEF Reuses
<1>4. GaveOwn'
  BY <1>1, <1>3, InSuperstep DEF RecInv, GaveOwn, Insert
<1> QED
  BY <1>1, <1>2, <1>4, InSuperstep DEF RecInv

LEMMA RunsKeepsInv ==
    ASSUME RecInv, NEW key \in DOMAIN body, Runs(key)
    PROVE  RecInv'
<1>1. /\ UNCHANGED <<private, world, active, phase, tries, edited, gave, host>>
      /\ writes' = IF key = Call THEN DropBelow(writes, key) ELSE writes
      /\ DOMAIN body' = DOMAIN body \cup {key} \cup Parts(key)
  BY DEF Runs, Begins, fixed
<1>2. \A part \in Parts(key) : IsOccurrence(part)
  BY PartsAreOccurrences DEF RecInv, Occurrences
<1>3. Occurrences'
  BY <1>1, <1>2, InSuperstep DEF RecInv, Occurrences
<1>4. OfThisStep(writes')
  BY <1>1, PartIsOfThisStep DEF RecInv, DropBelow
<1>5. OfThisStep(writes)'
  BY <1>1, <1>4 DEF OfThisStep, Fresh
<1>6. HostFollows'
  BY <1>1 DEF RecInv, HostFollows, DropBelow, Only
<1> QED
  BY <1>1, <1>3, <1>5, <1>6, InSuperstep DEF RecInv

LEMMA FinishesKeepsInv ==
    ASSUME RecInv, NEW key \in DOMAIN body, Finishes(key)
    PROVE  RecInv'
<1>1. /\ UNCHANGED <<private, world, active, phase, tries, edited>>
      /\ body' = [body EXCEPT ![key] = "ended"] /\ gave' = Insert(gave, key, Entry(key))
      /\ writes' = IF IsRecorded(key) THEN Insert(writes, key, Entry(key)) ELSE writes
      /\ host' = IF IsRecorded(key) /\ Told(key)
                 THEN [host EXCEPT !.pending = Insert(@, key, Entry(key))] ELSE host
  BY DEF Finishes, EndsWith, fixed
<1>2. Occurrences'
  BY <1>1, InSuperstep DEF RecInv, Occurrences
<1>3. IsOccurrence(key) /\ Fresh(key, Entry(key))
  BY EntryIsFresh DEF RecInv, Occurrences
<1>4. GaveOwn'
  BY <1>1, InSuperstep DEF RecInv, GaveOwn, Insert, Entry
<1>5. OfThisStep(writes') /\ (private => DOMAIN writes' = {})
  <2>1. OfThisStep(Insert(writes, key, Entry(key)))
    BY <1>3, InsertIsOfThisStep DEF RecInv
  <2> QED
    BY <1>1, <2>1 DEF RecInv, HostFollows, IsRecorded
<1>6. /\ host' = [world |-> host.world, active |-> host.active, pending |-> host'.pending]
      /\ host'.pending \in {host.pending, Insert(host.pending, key, Entry(key))}
      /\ private => host'.pending = host.pending
  <2>1. host = [world |-> host.world, active |-> host.active, pending |-> host.pending]
    BY DEF RecInv, HostFollows
  <2>2. CASE IsRecorded(key) /\ Told(key)
    <3>1. host' = [host EXCEPT !.pending = Insert(host.pending, key, Entry(key))]
      BY <1>1, <2>2
    <3>2. host' = [world |-> host.world, active |-> host.active,
                   pending |-> Insert(host.pending, key, Entry(key))]
      BY <2>1, <3>1
    <3> QED
      BY <3>2, <2>2 DEF IsRecorded
  <2>3. CASE ~(IsRecorded(key) /\ Told(key))
    BY <1>1, <2>1, <2>3
  <2> QED
    BY <2>2, <2>3
<1>7. OfThisStep(host'.pending)
  <2>1. OfThisStep(Insert(host.pending, key, Entry(key)))
    BY <1>3, InsertIsOfThisStep DEF RecInv
  <2> QED
    BY <1>6, <2>1 DEF RecInv
<1>8. host'.world = host.world /\ host'.active = host.active
  BY <1>6
<1>9. HostFollows'
  BY <1>1, <1>5, <1>6, <1>8 DEF RecInv, HostFollows
<1>10. OfThisStep(writes)' /\ OfThisStep(host.pending)'
  BY <1>1, <1>5, <1>7 DEF OfThisStep, Fresh
<1> QED
  BY <1>1, <1>2, <1>4, <1>9, <1>10, InSuperstep DEF RecInv

\* Steps that only begin a superstep, fail an occurrence or end the run.
LEMMA KeepsWhatIsRecorded ==
    ASSUME RecInv,
           BeginStep \/ FailStep \/ CancelRun \/ (\E key \in DOMAIN body : Breaks(key))
             \/ UNCHANGED recvars
    PROVE  RecInv'
<1>1. CASE BeginStep
  <2>1. /\ UNCHANGED <<private, world, active, writes, host, tries, edited>>
        /\ body' = [k \in OfActive |-> "ready"] /\ gave' = <<>>
    BY <1>1 DEF BeginStep, Empty
  <2>2. \A key \in OfActive : IsOccurrence(key)
    BY KeysOfItems DEF OfActive, IsOccurrence, RecInv
  <2>3. Occurrences'
    BY <2>1, <2>2, InSuperstep DEF Occurrences
  <2>4. GaveOwn'
    BY <2>1 DEF GaveOwn
  <2> QED
    BY <2>1, <2>3, <2>4, InSuperstep DEF RecInv
<1>2. CASE FailStep
  <2>1. /\ UNCHANGED <<private, world, active, body, gave, host, tries, edited>>
        /\ \E keys : writes' = Only(writes, keys)
    BY <1>2 DEF FailStep, Forget
  <2>2. OfThisStep(writes')
    BY <2>1, PartIsOfThisStep DEF RecInv
  <2>3. OfThisStep(writes)'
    BY <2>1, <2>2 DEF OfThisStep, Fresh
  <2>4. HostFollows'
    BY <2>1 DEF RecInv, HostFollows, Only
  <2> QED
    BY <2>1, <2>3, <2>4, InSuperstep DEF RecInv
<1>3. ASSUME NEW key \in DOMAIN body, Breaks(key) PROVE RecInv'
  <2>1. /\ UNCHANGED <<private, world, active, phase, tries, edited, writes, gave, host>>
        /\ body' = [body EXCEPT ![key] = "failed"]
    BY <1>3 DEF Breaks, fixed
  <2>2. Occurrences'
    BY <2>1, InSuperstep DEF RecInv, Occurrences
  <2> QED
    BY <2>1, <2>2, InSuperstep DEF RecInv
<1>4. CASE CancelRun \/ UNCHANGED recvars
  <2>1. UNCHANGED <<private, world, active, writes, body, gave, host, tries, edited>>
    BY <1>4 DEF CancelRun, recvars
  <2> QED
    BY <2>1, InSuperstep DEF RecInv
<1> QED
  BY <1>1, <1>2, <1>3, <1>4

\* An applied superstep drops all that was made in it.
LEMMA ApplyStepKeepsInv ==
    ASSUME RecInv, ApplyStep
    PROVE  RecInv'
<1>1. /\ world.step < MaxSteps /\ \E lists \in Worlds : world' = [step |-> world.step + 1, lists |-> lists]
      /\ writes' = DropNodes(writes, <<>>, active) /\ active' \in SUBSET Names
      /\ host' = [world |-> world', active |-> Cursor(active'), pending |-> <<>>]
      /\ body' = <<>> /\ gave' = <<>> /\ private' = private
  BY DEF ApplyStep, Empty
<1>2. WorldType'
  <2>1. world.step \in 0..MaxSteps /\ MaxSteps \in Nat
    BY RecorderAssumption DEF RecInv, WorldType
  <2>2. world.step + 1 \in 0..MaxSteps
    BY <2>1, <1>1
  <2> QED
    BY <1>1, <2>2 DEF WorldType
<1>3. \A key \in DOMAIN writes' :
         /\ key \in DOMAIN writes /\ writes'[key] = writes[key]
         /\ StartsWith(key, <<>>) => key[1][1] \notin active
  BY <1>1 DEF DropNodes, Only
<1>4. \A key \in DOMAIN writes' : writes'[key].witness = Foreign \/ IsBelow(key, Call)
  <2> TAKE key \in DOMAIN writes'
  <2>1. ~Fresh(key, writes[key])
    BY <1>3 DEF Fresh
  <2>2. writes[key].witness = Foreign \/ IsBelow(key, Call)
    BY <2>1, <1>3 DEF RecInv, OfThisStep
  <2> QED
    BY <2>2, <1>3
<1>5. OfThisStep(writes)'
  BY <1>4 DEF OfThisStep
<1>6. /\ host'.world = world' /\ host'.active = Cursor(active') /\ host'.pending = <<>>
      /\ host' = [world |-> host'.world, active |-> host'.active, pending |-> host'.pending]
  BY <1>1
<1>7. OfThisStep(host.pending)'
  BY <1>6 DEF OfThisStep
<1>8. private => DOMAIN writes' = {}
  <2>1. DOMAIN writes' \subseteq DOMAIN writes
    BY <1>3
  <2> QED
    BY <2>1 DEF RecInv, HostFollows
<1>9. HostFollows'
  <2>1. Cursor(active') \in SUBSET Names /\ (~private => Cursor(active') = active')
    BY <1>1 DEF Cursor, EntryNode, Names
  <2> QED
    BY <1>1, <1>6, <1>8, <2>1 DEF HostFollows
<1>10. Occurrences' /\ GaveOwn'
  BY <1>1 DEF Occurrences, GaveOwn
<1> QED
  BY <1>1, <1>2, <1>5, <1>7, <1>9, <1>10 DEF RecInv

\* A run that is resumed or lost goes on from the superstep it was in, with part of what
\* was recorded of it, and maybe on other lists.
LEMMA RestartKeepsInv ==
    ASSUME RecInv, NEW pending, NEW lists \in Worlds, NEW nodes,
           OfThisStep(pending), private => DOMAIN pending = {},
           ~private => nodes = active, nodes \in SUBSET Names,
           Restarts([world EXCEPT !.lists = lists], nodes, pending),
           edited' <=> edited \/ lists # world.lists
    PROVE  RecInv'
<1>1. /\ world' = [world EXCEPT !.lists = lists] /\ active' = Cursor(nodes)
      /\ writes' = Seed(pending) /\ body' = <<>> /\ gave' = <<>>
      /\ host' = [world |-> world', active |-> active', pending |-> writes']
      /\ private' = private
  BY DEF Restarts, Empty
<1>2. world \in [step : 0..MaxSteps, lists : Worlds]
  BY DEF RecInv, WorldType
<1>3. world' = [step |-> world.step, lists |-> lists] /\ world'.step = world.step
  BY <1>1, <1>2
<1>4. WorldType' /\ active' \in SUBSET Names
  BY <1>1, <1>2, <1>3 DEF WorldType, Cursor, EntryNode, Names
<1>5. ~edited' => world' = world /\ ~edited
  BY <1>2, <1>3
<1>6. private => DOMAIN writes' = {}
  BY <1>1 DEF Seed, Empty
<1>7. OfThisStep(writes)'
  <2>1. CASE private
    BY <2>1, <1>6 DEF OfThisStep
  <2>2. CASE ~private
    <3>1. writes' = pending /\ active' = active
      BY <2>2, <1>1 DEF Seed, Cursor
    <3> QED
      BY <3>1, <1>3, <1>5 DEF OfThisStep, Fresh
  <2> QED
    BY <2>1, <2>2
<1>8. /\ host'.world = world' /\ host'.active = active' /\ host'.pending = writes'
      /\ host' = [world |-> host'.world, active |-> host'.active, pending |-> host'.pending]
  BY <1>1
<1>9. OfThisStep(host.pending)' /\ HostFollows'
  <2>1. OfThisStep(host.pending)'
    BY <1>7, <1>8
  <2>2. HostFollows'
    BY <1>1, <1>4, <1>6, <1>8 DEF HostFollows
  <2> QED
    BY <2>1, <2>2
<1>10. Occurrences' /\ GaveOwn'
  BY <1>1 DEF Occurrences, GaveOwn
<1> QED
  BY <1>4, <1>7, <1>9, <1>10 DEF RecInv

LEMMA RecNextInv == RecInv /\ [RecNext]_recvars => RecInv'
<1> SUFFICES ASSUME RecInv, [RecNext]_recvars PROVE RecInv'
  OBVIOUS
<1>1. CASE ResumeRun
  <2>1. PICK lists \in Worlds :
           /\ Restarts([world EXCEPT !.lists = lists], active, writes)
           /\ edited' <=> edited \/ lists # world.lists
    BY <1>1 DEF ResumeRun
  <2> QED
    BY <2>1, RestartKeepsInv DEF RecInv, HostFollows
<1>2. CASE LoseRun
  <2>1. PICK kept : Restarts(host.world, host.active, Only(host.pending, kept))
    BY <1>2 DEF LoseRun
  <2>2. edited' <=> edited \/ world.lists # world.lists
    BY <1>2 DEF LoseRun
  <2>3. world = [world EXCEPT !.lists = world.lists] /\ world.lists \in Worlds
    BY DEF RecInv, WorldType
  <2>4. OfThisStep(Only(host.pending, kept))
    BY PartIsOfThisStep DEF RecInv
  <2>5. /\ host.world = world /\ (~private => host.active = active)
        /\ private => DOMAIN Only(host.pending, kept) = {}
        /\ host.active \in SUBSET Names
    BY DEF RecInv, HostFollows, Only
  <2>6. Restarts([world EXCEPT !.lists = world.lists], host.active, Only(host.pending, kept))
    BY <2>1, <2>3, <2>5
  <2> QED
    BY <2>2, <2>3, <2>4, <2>5, <2>6, RestartKeepsInv
<1>3. CASE BeginStep \/ FailStep \/ CancelRun \/ (\E key \in DOMAIN body : Breaks(key))
             \/ UNCHANGED recvars
  BY <1>3, KeepsWhatIsRecorded
<1>4. CASE ApplyStep
  BY <1>4, ApplyStepKeepsInv
<1>5. ASSUME NEW key \in DOMAIN body, Reuses(key) \/ Runs(key) \/ Finishes(key) PROVE RecInv'
  BY <1>5, ReusesKeepsInv, RunsKeepsInv, FinishesKeepsInv
<1> QED
  BY <1>1, <1>2, <1>3, <1>4, <1>5 DEF RecNext

\* Whatever failed, was cancelled, refused, resumed, edited or lost in between, what an
\* occurrence gives was made for the very item it is of, in the superstep that is open,
\* and, inside a called graph, on the very lists of the state (src/run/pending.rs).
THEOREM ReusedIsItsOwn == RecSpec => []ReusedIsOwn
<1>1. RecInv => ReusedIsOwn
  BY DEF RecInv, GaveOwn, ReusedIsOwn
<1> QED
  BY RecInitInv, RecNextInv, <1>1, PTL DEF RecSpec

===================================================================================
