------------------------------- MODULE Lists_proofs -------------------------------
(***************************************************************************)
(* What the operators on lists give, for every list: a filter keeps what it is   *)
(* asked to, in its order; a sort is a permutation.  The proofs of the components *)
(* cite these facts.                                                          *)
(***************************************************************************)
EXTENDS Lists, SequencesExt, FiniteSetTheorems, SequenceTheorems, WellFoundedInduction, TLAPS

(***************************************************************************)
(* The least of some numbers.  Inclusion is well founded on finite sets, and    *)
(* 1..k is included in 1..m exactly when k <= m.                              *)
(***************************************************************************)
LEMMA LeastNumber ==
    ASSUME NEW S \in SUBSET Nat, S # {}
    PROVE  \E m \in S : \A k \in S : m <= k
<1> DEFINE Inside == StrictSubsetOrdering(Nat)
           Finite == FiniteSubsetsOf(Nat)
           Upto == {1..n : n \in S}
<1>1. IsWellFoundedOn(Inside, Finite) BY FS_StrictSubsetOrderingWellFounded
<1>2. Upto \subseteq Finite
  <2>1. \A n \in Nat : IsFiniteSet(1..n) BY FS_Interval
  <2>2. \A n \in Nat : 1..n \subseteq Nat OBVIOUS
  <2> QED BY <2>1, <2>2 DEF FiniteSubsetsOf
<1>3. Upto # {} OBVIOUS
<1>4. \E x \in Upto : \A y \in Upto : ~(<<y, x>> \in Inside)
  <2> HIDE DEF Inside, Finite, Upto
  <2> QED BY <1>1, <1>2, <1>3, WFMin
<1>5. PICK m \in S : \A y \in Upto : ~(<<y, 1..m>> \in Inside) BY <1>4
<1>6. \A k \in S : m <= k
  <2> TAKE k \in S
  <2> SUFFICES ASSUME k < m PROVE FALSE OBVIOUS
  <2>1. k \in Nat /\ m \in Nat OBVIOUS
  <2>2. 1..k \subseteq 1..m /\ m \in 1..m /\ m \notin 1..k BY <2>1
  <2>3. 1..k # 1..m BY <2>2
  <2>4. 1..k \in SUBSET Nat /\ 1..m \in SUBSET Nat OBVIOUS
  <2>5. <<1..k, 1..m>> \in Inside BY <2>2, <2>3, <2>4 DEF StrictSubsetOrdering
  <2> QED BY <2>5, <1>5
<1> QED BY <1>6

-----------------------------------------------------------------------------
(***************************************************************************)
(* What Among gives: some items have a filter for each of their prefixes, by    *)
(* induction on the length, whose least counterexample LeastNumber names.       *)
(***************************************************************************)
\* Each of them once.
Apart(items) == \A i, j \in DOMAIN items : items[i] = items[j] => i = j

Filters(f, items, keep, n) ==
    f = [i \in 0..n |->
           IF i = 0 THEN <<>>
           ELSE IF items[i] \in keep THEN Append(f[i - 1], items[i]) ELSE f[i - 1]]

LEMMA FilterIsThere ==
    ASSUME NEW items, NEW keep, NEW n \in Nat
    PROVE  \E f : Filters(f, items, keep, n)
<1> DEFINE Lacking == {m \in Nat : ~\E f : Filters(f, items, keep, m)}
<1> SUFFICES ASSUME Lacking # {} PROVE FALSE OBVIOUS
<1>1. PICK m \in Lacking : \A k \in Lacking : m <= k
  <2> HIDE DEF Lacking
  <2>1. Lacking \in SUBSET Nat BY DEF Lacking
  <2> QED BY <2>1, LeastNumber
<1>2. m \in Nat /\ ~\E f : Filters(f, items, keep, m) OBVIOUS
<1>3. m # 0
  <2> SUFFICES ASSUME m = 0 PROVE FALSE OBVIOUS
  <2>1. Filters([i \in 0..0 |-> <<>>], items, keep, 0) BY DEF Filters
  <2> QED BY <2>1, <1>2
<1>4. m - 1 \in Nat /\ m - 1 \notin Lacking BY <1>1, <1>2, <1>3
<1>5. PICK g : Filters(g, items, keep, m - 1) BY <1>4
<1> DEFINE h == IF items[m] \in keep THEN Append(g[m - 1], items[m]) ELSE g[m - 1]
           f == [i \in 0..m |-> IF i = m THEN h ELSE g[i]]
<1>6. Filters(f, items, keep, m)
  <2>1. \A i \in 0..m : i # m => i \in 0..(m - 1) BY <1>2
  <2>2. \A i \in 0..(m - 1) : f[i] = g[i] BY <1>2
  <2>3. f[m] = IF items[m] \in keep THEN Append(f[m - 1], items[m]) ELSE f[m - 1]
    BY <1>2, <1>3, <2>2
  <2>4. \A i \in 0..(m - 1) :
          g[i] = IF i = 0 THEN <<>>
                 ELSE IF items[i] \in keep THEN Append(g[i - 1], items[i]) ELSE g[i - 1]
    BY <1>5 DEF Filters
  <2>5. \A i \in 0..(m - 1) : i # 0 => i - 1 \in 0..(m - 1) BY <1>2
  <2>6. \A i \in 0..m :
          f[i] = IF i = 0 THEN <<>>
                 ELSE IF items[i] \in keep THEN Append(f[i - 1], items[i]) ELSE f[i - 1]
    <3> HIDE DEF f
    <3> QED BY <1>2, <1>3, <2>1, <2>2, <2>3, <2>4, <2>5
  <2>7. f = [i \in 0..m |-> f[i]] OBVIOUS
  <2> HIDE DEF f
  <2> QED BY <2>6, <2>7 DEF Filters
<1> QED BY <1>2, <1>6

\* What is kept: what the items have of it, each once if it is among them once.

LEMMA AmongKeeps ==
    ASSUME NEW S, NEW items \in Seq(S), NEW keep, Apart(items)
    PROVE  /\ Among(items, keep) \in Seq(S)
           /\ ToSet(Among(items, keep)) = ToSet(items) \cap keep
           /\ Apart(Among(items, keep))
<1> DEFINE kept == CHOOSE f : Filters(f, items, keep, Len(items))
<1>1. Len(items) \in Nat /\ DOMAIN items = 1..Len(items) OBVIOUS
<1>2. Filters(kept, items, keep, Len(items)) BY <1>1, FilterIsThere
<1>3. Among(items, keep) = kept[Len(items)] BY Zenon DEF Among, Filters
<1> HIDE DEF kept
<1>4. /\ kept[0] = <<>>
      /\ \A i \in 1..Len(items) :
           kept[i] = IF items[i] \in keep THEN Append(kept[i - 1], items[i]) ELSE kept[i - 1]
  <2>1. \A i \in 0..Len(items) :
          kept[i] = IF i = 0 THEN <<>>
                    ELSE IF items[i] \in keep THEN Append(kept[i - 1], items[i])
                    ELSE kept[i - 1]
    BY <1>2 DEF Filters
  <2> QED BY <2>1, <1>1
<1> DEFINE Typed(n) == kept[n] \in Seq(S)
           From(n) == \A k \in 1..Len(kept[n]) :
                         \E j \in 1..n : kept[n][k] = items[j] /\ items[j] \in keep
           Into(n) == \A j \in 1..n : items[j] \in keep =>
                         \E k \in 1..Len(kept[n]) : kept[n][k] = items[j]
           Good(n) == Typed(n) /\ From(n) /\ Into(n) /\ Apart(kept[n])
           Bad == {n \in 0..Len(items) : ~Good(n)}
<1>5. Good(0) BY <1>4 DEF Apart
<1>6. ASSUME NEW n \in 1..Len(items), Good(n - 1) PROVE Good(n)
  <2>1. items[n] \in S BY <1>1
  <2>2. n - 1 \in 0..Len(items) /\ \A j \in 1..n : j = n \/ j \in 1..(n - 1) BY <1>1
  <2>3. 1..(n - 1) \subseteq 1..n /\ n \in 1..n BY <1>1
  <2>4. CASE items[n] \notin keep
    <3>1. kept[n] = kept[n - 1] BY <2>4, <1>4
    <3>2. Typed(n) /\ Apart(kept[n]) BY <3>1, <1>6
    <3>3. From(n) BY <3>1, <1>6, <2>3
    <3>4. Into(n) BY <3>1, <1>6, <2>2, <2>4
    <3> QED BY <3>2, <3>3, <3>4
  <2>5. CASE items[n] \in keep
    <3> DEFINE s == kept[n - 1]
    <3>1. kept[n] = Append(s, items[n]) BY <2>5, <1>4
    <3>2. s \in Seq(S) BY <1>6
    <3> HIDE DEF s
    <3>3. /\ kept[n] \in Seq(S) /\ Len(kept[n]) = Len(s) + 1 /\ Len(s) \in Nat
          /\ kept[n][Len(s) + 1] = items[n]
          /\ \A k \in 1..Len(s) : kept[n][k] = s[k]
      BY <2>1, <3>1, <3>2
    <3>4. /\ \A k \in 1..Len(kept[n]) : k = Len(s) + 1 \/ k \in 1..Len(s)
          /\ 1..Len(s) \subseteq 1..Len(kept[n]) /\ Len(s) + 1 \in 1..Len(kept[n])
          /\ DOMAIN kept[n] = 1..Len(kept[n])
      BY <3>3
    <3>5. /\ \A k \in 1..Len(s) : \E j \in 1..(n - 1) : s[k] = items[j] /\ items[j] \in keep
          /\ \A j \in 1..(n - 1) : items[j] \in keep => \E k \in 1..Len(s) : s[k] = items[j]
          /\ Apart(s) /\ DOMAIN s = 1..Len(s)
      BY <1>6, <3>2 DEF s
    <3>6. From(n)
      <4> SUFFICES ASSUME NEW k \in 1..Len(kept[n])
                   PROVE  \E j \in 1..n : kept[n][k] = items[j] /\ items[j] \in keep
        OBVIOUS
      <4>1. CASE k = Len(s) + 1 BY <4>1, <3>3, <2>3, <2>5
      <4>2. CASE k \in 1..Len(s)
        <5>1. PICK j \in 1..(n - 1) : s[k] = items[j] /\ items[j] \in keep BY <4>2, <3>5
        <5>2. kept[n][k] = items[j] /\ j \in 1..n BY <4>2, <5>1, <3>3, <2>3
        <5> QED BY <5>1, <5>2
      <4> QED BY <4>1, <4>2, <3>4
    <3>7. Into(n)
      <4> SUFFICES ASSUME NEW j \in 1..n, items[j] \in keep
                   PROVE  \E k \in 1..Len(kept[n]) : kept[n][k] = items[j]
        OBVIOUS
      <4>1. CASE j = n BY <4>1, <3>3, <3>4
      <4>2. CASE j \in 1..(n - 1) BY <4>2, <3>3, <3>4, <3>5
      <4> QED BY <4>1, <4>2, <2>2
    <3>8. \A k \in 1..Len(s) : s[k] # items[n]
      <4> SUFFICES ASSUME NEW k \in 1..Len(s), s[k] = items[n] PROVE FALSE OBVIOUS
      <4>1. PICK j \in 1..(n - 1) : s[k] = items[j] BY <3>5
      <4>2. j \in DOMAIN items /\ n \in DOMAIN items /\ j # n BY <1>1
      <4> QED BY <4>1, <4>2 DEF Apart
    <3>9. Apart(kept[n]) BY <3>3, <3>4, <3>5, <3>8 DEF Apart
    <3> QED BY <3>3, <3>6, <3>7, <3>9
  <2> QED BY <2>4, <2>5
<1>7. Bad = {}
  <2> SUFFICES ASSUME Bad # {} PROVE FALSE OBVIOUS
  <2>1. PICK m \in Bad : \A k \in Bad : m <= k
    <3>1. Bad \in SUBSET Nat OBVIOUS
    <3> HIDE DEF Bad
    <3> QED BY <3>1, LeastNumber
  <2>2. m \in 0..Len(items) /\ ~Good(m) BY <2>1
  <2>3. m # 0 BY <2>2, <1>5
  <2>4. m - 1 \in 0..Len(items) /\ m - 1 \notin Bad /\ m \in 1..Len(items)
    <3> HIDE DEF Good
    <3> QED BY <2>1, <2>2, <2>3, <1>1
  <2> HIDE DEF Good
  <2> QED BY <2>2, <2>4, <1>6
<1>8. Good(Len(items))
  <2> HIDE DEF Good
  <2> QED BY <1>1, <1>7
<1>9. ToSet(kept[Len(items)]) = ToSet(items) \cap keep
  <2>1. DOMAIN kept[Len(items)] = 1..Len(kept[Len(items)]) BY <1>8
  <2>2. From(Len(items)) /\ Into(Len(items)) BY <1>8
  <2>3. ASSUME NEW c \in ToSet(kept[Len(items)]) PROVE c \in ToSet(items) \cap keep
    BY <2>1, <2>2, <1>1 DEF ToSet
  <2>4. ASSUME NEW c \in ToSet(items) \cap keep PROVE c \in ToSet(kept[Len(items)])
    <3>1. PICK j \in 1..Len(items) : c = items[j] /\ items[j] \in keep BY <1>1 DEF ToSet
    <3>2. PICK k \in 1..Len(kept[Len(items)]) : kept[Len(items)][k] = items[j] BY <3>1, <2>2
    <3> QED BY <2>1, <3>1, <3>2 DEF ToSet
  <2> QED BY <2>3, <2>4
<1> QED BY <1>3, <1>8, <1>9

\* One more item is kept, or not, after what is kept of those before it.
LEMMA AmongAppend ==
    ASSUME NEW S, NEW items \in Seq(S), NEW keep, NEW x \in S
    PROVE  Among(Append(items, x), keep) =
              IF x \in keep THEN Append(Among(items, keep), x) ELSE Among(items, keep)
<1> DEFINE more == Append(items, x)  n == Len(items)
           f == CHOOSE h : Filters(h, items, keep, n)
           m == n + 1
           g == CHOOSE h : Filters(h, more, keep, m)
<1>1. /\ n \in Nat /\ m \in Nat /\ m = n + 1 /\ Len(more) = m /\ more[m] = x
      /\ \A i \in 1..n : more[i] = items[i]
  OBVIOUS
<1> HIDE DEF more
<1>2. Filters(f, items, keep, n)
  <2> HIDE DEF n
  <2> QED BY <1>1, FilterIsThere
<1>3. Filters(g, more, keep, m)
  <2> HIDE DEF m
  <2> QED BY <1>1, FilterIsThere
<1>4. Among(items, keep) = f[n] BY Zenon DEF Among, Filters
<1>5. Among(more, keep) = g[m]
  <2>1. Among(more, keep) = (CHOOSE h : Filters(h, more, keep, Len(more)))[Len(more)]
    BY Zenon DEF Among, Filters
  <2> QED BY <1>1, <2>1
<1> HIDE DEF f, g, n, m
<1>6. g[n] = f[n]
  <2> DEFINE Bad == {i \in 0..n : g[i] # f[i]}
  <2>1. Bad = {}
    <3> SUFFICES ASSUME Bad # {} PROVE FALSE OBVIOUS
    <3>1. PICK b \in Bad : \A i \in Bad : b <= i
      <4>1. Bad \in SUBSET Nat OBVIOUS
      <4> HIDE DEF Bad
      <4> QED BY <4>1, LeastNumber
    <3>2. b \in 0..n /\ b \in 0..m /\ g[b] # f[b] BY <1>1, <3>1
    <3>3. /\ f[b] = IF b = 0 THEN <<>>
                    ELSE IF items[b] \in keep THEN Append(f[b - 1], items[b]) ELSE f[b - 1]
          /\ g[b] = IF b = 0 THEN <<>>
                    ELSE IF more[b] \in keep THEN Append(g[b - 1], more[b]) ELSE g[b - 1]
      BY <1>2, <1>3, <3>2 DEF Filters
    <3>4. b # 0 BY <3>2, <3>3
    <3>5. b - 1 \in 0..n /\ b \in 1..n BY <1>1, <3>2, <3>4
    <3>6. b - 1 \notin Bad
      <4> HIDE DEF Bad
      <4> QED BY <1>1, <3>1, <3>2, <3>5
    <3>7. g[b - 1] = f[b - 1] /\ more[b] = items[b] BY <1>1, <3>5, <3>6
    <3> QED BY <3>2, <3>3, <3>4, <3>7
  <2>2. n \in 0..n BY <1>1
  <2> QED BY <2>1, <2>2
<1>7. g[m] = IF more[m] \in keep THEN Append(g[n], more[m]) ELSE g[n]
  <2>1. m \in 0..m /\ m # 0 /\ m - 1 = n BY <1>1
  <2>2. g[m] = IF m = 0 THEN <<>>
               ELSE IF more[m] \in keep THEN Append(g[m - 1], more[m]) ELSE g[m - 1]
    BY <1>3, <2>1 DEF Filters
  <2> QED BY <2>1, <2>2
<1> QED BY <1>1, <1>4, <1>5, <1>6, <1>7 DEF more

LEMMA AmongNone ==
    ASSUME NEW keep
    PROVE  Among(<<>>, keep) = <<>>
<1> DEFINE f == CHOOSE h : Filters(h, <<>>, keep, 0)
<1>1. Filters(f, <<>>, keep, 0) BY FilterIsThere
<1>2. Among(<<>>, keep) = f[0]
  <2>1. Len(<<>>) = 0 OBVIOUS
  <2>2. Among(<<>>, keep) = (CHOOSE h : Filters(h, <<>>, keep, Len(<<>>)))[Len(<<>>)]
    BY Zenon DEF Among, Filters
  <2> QED BY <2>1, <2>2
<1> HIDE DEF f
<1>3. f[0] = <<>> BY <1>1 DEF Filters
<1> QED BY <1>2, <1>3

LEMMA AmongIsSeq ==
    ASSUME NEW S, NEW items \in Seq(S), NEW keep
    PROVE  Among(items, keep) \in Seq(S)
<1> DEFINE n == Len(items)  f == CHOOSE h : Filters(h, items, keep, n)
           Bad == {i \in 0..n : f[i] \notin Seq(S)}
<1>1. n \in Nat /\ \A i \in 1..n : items[i] \in S OBVIOUS
<1>2. Filters(f, items, keep, n)
  <2> HIDE DEF n
  <2> QED BY <1>1, FilterIsThere
<1>3. Among(items, keep) = f[n] BY Zenon DEF Among, Filters
<1> HIDE DEF f, n
<1>4. Bad = {}
  <2> SUFFICES ASSUME Bad # {} PROVE FALSE OBVIOUS
  <2>1. PICK b \in Bad : \A i \in Bad : b <= i
    <3>1. Bad \in SUBSET Nat OBVIOUS
    <3> HIDE DEF Bad
    <3> QED BY <3>1, LeastNumber
  <2>2. b \in 0..n /\ f[b] \notin Seq(S) BY <2>1
  <2>3. f[b] = IF b = 0 THEN <<>>
               ELSE IF items[b] \in keep THEN Append(f[b - 1], items[b]) ELSE f[b - 1]
    BY <2>2, <1>2 DEF Filters
  <2>4. b # 0 BY <2>2, <2>3
  <2>5. b - 1 \in 0..n /\ b \in 1..n BY <1>1, <2>2, <2>4
  <2>6. b - 1 \notin Bad
    <3> HIDE DEF Bad
    <3> QED BY <1>1, <2>1, <2>2, <2>5
  <2>7. f[b - 1] \in Seq(S) /\ items[b] \in S BY <1>1, <2>5, <2>6
  <2> QED BY <2>2, <2>3, <2>4, <2>7
<1>5. n \in 0..n BY <1>1
<1> QED BY <1>3, <1>4, <1>5

-----------------------------------------------------------------------------
(***************************************************************************)
(* Lists of numbers in their order: what is kept of one is one, two make one     *)
(* when the second goes on where the first ends, and two with the same numbers  *)
(* up to some are the same up to there.                                         *)
(***************************************************************************)
Rises(list) == \A i, j \in DOMAIN list : i < j => list[i] < list[j]

LEMMA RisesApart ==
    ASSUME NEW list \in Seq(Nat), Rises(list)
    PROVE  Apart(list)
<1> SUFFICES ASSUME NEW i \in DOMAIN list, NEW j \in DOMAIN list, list[i] = list[j], i # j
             PROVE  FALSE
  BY DEF Apart
<1>1. i \in Nat /\ j \in Nat /\ list[i] \in Nat /\ list[j] \in Nat OBVIOUS
<1>2. i < j \/ j < i BY <1>1
<1> QED BY <1>1, <1>2 DEF Rises

LEMMA AmongRises ==
    ASSUME NEW items \in Seq(Nat), NEW keep, Rises(items)
    PROVE  /\ Among(items, keep) \in Seq(Nat)
           /\ ToSet(Among(items, keep)) = ToSet(items) \cap keep
           /\ Rises(Among(items, keep))
<1>1. Apart(items) BY RisesApart
<1> DEFINE kept == CHOOSE f : Filters(f, items, keep, Len(items))
<1>2. Len(items) \in Nat /\ DOMAIN items = 1..Len(items) OBVIOUS
<1>3. Filters(kept, items, keep, Len(items)) BY <1>2, FilterIsThere
<1>4. Among(items, keep) = kept[Len(items)] BY Zenon DEF Among, Filters
<1> HIDE DEF kept
<1>5. /\ kept[0] = <<>>
      /\ \A i \in 1..Len(items) :
           kept[i] = IF items[i] \in keep THEN Append(kept[i - 1], items[i]) ELSE kept[i - 1]
  <2>1. \A i \in 0..Len(items) :
          kept[i] = IF i = 0 THEN <<>>
                    ELSE IF items[i] \in keep THEN Append(kept[i - 1], items[i])
                    ELSE kept[i - 1]
    BY <1>3 DEF Filters
  <2> QED BY <2>1, <1>2
<1> DEFINE Under(n) == \A k \in 1..Len(kept[n]) : \E j \in 1..n : kept[n][k] = items[j]
           Good(n) == kept[n] \in Seq(Nat) /\ Under(n) /\ Rises(kept[n])
           Bad == {n \in 0..Len(items) : ~Good(n)}
<1>6. Good(0) BY <1>5 DEF Rises
<1>7. ASSUME NEW n \in 1..Len(items), Good(n - 1) PROVE Good(n)
  <2>1. items[n] \in Nat BY <1>2
  <2>2. 1..(n - 1) \subseteq 1..n /\ n \in 1..n BY <1>2
  <2>3. CASE items[n] \notin keep
    <3>1. kept[n] = kept[n - 1] BY <2>3, <1>5
    <3>2. Under(n) BY <3>1, <1>7, <2>2
    <3> QED BY <3>1, <3>2, <1>7
  <2>4. CASE items[n] \in keep
    <3> DEFINE s == kept[n - 1]
    <3>1. kept[n] = Append(s, items[n]) BY <2>4, <1>5
    <3>2. s \in Seq(Nat) BY <1>7
    <3>3. \A k \in 1..Len(s) : \E j \in 1..(n - 1) : s[k] = items[j] BY <1>7
    <3>4. Rises(s) BY <1>7
    <3> HIDE DEF s
    <3>5. /\ kept[n] \in Seq(Nat) /\ Len(kept[n]) = Len(s) + 1 /\ Len(s) \in Nat
          /\ kept[n][Len(s) + 1] = items[n]
          /\ \A k \in 1..Len(s) : kept[n][k] = s[k]
      BY <2>1, <3>1, <3>2
    <3>6. /\ \A k \in 1..Len(kept[n]) : k = Len(s) + 1 \/ k \in 1..Len(s)
          /\ DOMAIN kept[n] = 1..Len(kept[n]) /\ DOMAIN s = 1..Len(s)
      BY <3>5, <3>2
    <3>7. Under(n)
      <4> SUFFICES ASSUME NEW k \in 1..Len(kept[n]) PROVE \E j \in 1..n : kept[n][k] = items[j]
        OBVIOUS
      <4>1. CASE k = Len(s) + 1 BY <4>1, <3>5, <2>2
      <4>2. CASE k \in 1..Len(s) BY <4>2, <3>3, <3>5, <2>2
      <4> QED BY <4>1, <4>2, <3>6
    <3>8. \A k \in 1..Len(s) : s[k] < items[n]
      <4> SUFFICES ASSUME NEW k \in 1..Len(s) PROVE s[k] < items[n] OBVIOUS
      <4>1. PICK j \in 1..(n - 1) : s[k] = items[j] BY <3>3
      <4>2. j \in DOMAIN items /\ n \in DOMAIN items /\ j < n BY <1>2
      <4> QED BY <4>1, <4>2 DEF Rises
    <3>9. Rises(kept[n])
      <4> SUFFICES ASSUME NEW i \in 1..Len(kept[n]), NEW j \in 1..Len(kept[n]), i < j
                   PROVE  kept[n][i] < kept[n][j]
        BY <3>6 DEF Rises
      <4>1. i \in 1..Len(s) BY <3>5
      <4>2. CASE j = Len(s) + 1 BY <4>1, <4>2, <3>5, <3>8
      <4>3. CASE j \in 1..Len(s) BY <4>1, <4>3, <3>4, <3>5, <3>6 DEF Rises
      <4> QED BY <4>2, <4>3, <3>6
    <3> QED BY <3>5, <3>7, <3>9
  <2> QED BY <2>3, <2>4
<1>8. Bad = {}
  <2> SUFFICES ASSUME Bad # {} PROVE FALSE OBVIOUS
  <2>1. PICK m \in Bad : \A k \in Bad : m <= k
    <3>1. Bad \in SUBSET Nat OBVIOUS
    <3> HIDE DEF Bad
    <3> QED BY <3>1, LeastNumber
  <2>2. m \in 0..Len(items) /\ ~Good(m) BY <2>1
  <2>3. m # 0 BY <2>2, <1>6
  <2>4. m - 1 \in 0..Len(items) /\ m - 1 \notin Bad /\ m \in 1..Len(items)
    <3> HIDE DEF Good
    <3> QED BY <2>1, <2>2, <2>3, <1>2
  <2> HIDE DEF Good
  <2> QED BY <2>2, <2>4, <1>7
<1>9. Rises(kept[Len(items)])
  <2>1. Good(Len(items))
    <3> HIDE DEF Good
    <3> QED BY <1>2, <1>8
  <2> QED BY <2>1
<1> QED BY <1>1, <1>4, <1>9, AmongKeeps

LEMMA JoinRises ==
    ASSUME NEW s \in Seq(Nat), NEW t \in Seq(Nat), Rises(s), Rises(t),
           \A x \in ToSet(s), y \in ToSet(t) : x < y
    PROVE  /\ s \o t \in Seq(Nat)
           /\ ToSet(s \o t) = ToSet(s) \cup ToSet(t)
           /\ Rises(s \o t)
<1>1. /\ s \o t \in Seq(Nat) /\ Len(s) \in Nat /\ Len(t) \in Nat
      /\ Len(s \o t) = Len(s) + Len(t) /\ DOMAIN (s \o t) = 1..(Len(s) + Len(t))
      /\ DOMAIN s = 1..Len(s) /\ DOMAIN t = 1..Len(t)
  OBVIOUS
<1>2. \A i \in 1..Len(s) : (s \o t)[i] = s[i] OBVIOUS
<1>3. \A i \in 1..Len(t) : (s \o t)[Len(s) + i] = t[i] OBVIOUS
<1>4. \A i \in 1..(Len(s) + Len(t)) : i \in 1..Len(s) \/ i - Len(s) \in 1..Len(t) BY <1>1
<1>5. \A i \in 1..(Len(s) + Len(t)) : i - Len(s) \in 1..Len(t) => (s \o t)[i] = t[i - Len(s)]
  BY <1>1, <1>3
<1> DEFINE u == s \o t
<1>6. /\ \A i \in 1..Len(s) : u[i] = s[i] /\ i \in DOMAIN u
      /\ \A i \in 1..Len(t) : u[Len(s) + i] = t[i] /\ Len(s) + i \in DOMAIN u
      /\ \A i \in DOMAIN u : i \in 1..Len(s) \/ (i - Len(s) \in 1..Len(t) /\ u[i] = t[i - Len(s)])
      /\ DOMAIN u \subseteq Nat
  BY <1>1, <1>2, <1>3, <1>4, <1>5
<1> HIDE DEF u
<1>7. ToSet(u) = ToSet(s) \cup ToSet(t)
  <2>1. ToSet(s) \subseteq ToSet(u) BY <1>1, <1>6 DEF ToSet
  <2>2. ToSet(t) \subseteq ToSet(u) BY <1>1, <1>6 DEF ToSet
  <2>3. ToSet(u) \subseteq ToSet(s) \cup ToSet(t) BY <1>1, <1>6 DEF ToSet
  <2> QED BY <2>1, <2>2, <2>3
<1>8. Rises(u)
  <2> SUFFICES ASSUME NEW i \in DOMAIN u, NEW j \in DOMAIN u, i < j PROVE u[i] < u[j]
    BY DEF Rises
  <2>1. CASE j \in 1..Len(s)
    <3>1. i \in 1..Len(s) BY <2>1, <1>1, <1>6
    <3> QED BY <2>1, <3>1, <1>1, <1>6 DEF Rises
  <2>2. CASE i \in 1..Len(s) /\ j - Len(s) \in 1..Len(t)
    <3>1. u[i] = s[i] /\ s[i] \in ToSet(s) BY <2>2, <1>1, <1>6 DEF ToSet
    <3>2. j \notin 1..Len(s) BY <2>2, <1>1, <1>6
    <3>3. u[j] = t[j - Len(s)] /\ t[j - Len(s)] \in ToSet(t) BY <2>2, <3>2, <1>1, <1>6 DEF ToSet
    <3> QED BY <3>1, <3>3
  <2>3. CASE i \notin 1..Len(s) /\ j \notin 1..Len(s)
    <3>1. /\ i - Len(s) \in 1..Len(t) /\ u[i] = t[i - Len(s)]
          /\ j - Len(s) \in 1..Len(t) /\ u[j] = t[j - Len(s)]
      BY <2>3, <1>6
    <3>2. i - Len(s) < j - Len(s) BY <1>1, <1>6
    <3> QED BY <3>1, <3>2, <1>1 DEF Rises
  <2> QED BY <2>1, <2>2, <2>3, <1>6
<1> QED BY <1>1, <1>7, <1>8 DEF u

LEMMA SameBeginning ==
    ASSUME NEW s \in Seq(Nat), NEW t \in Seq(Nat), Rises(s), Rises(t),
           ToSet(s) \subseteq ToSet(t),
           \A x \in ToSet(s), y \in ToSet(t) : y < x => y \in ToSet(s)
    PROVE  IsPrefix(s, t)
<1>1. /\ DOMAIN s = 1..Len(s) /\ DOMAIN t = 1..Len(t) /\ Len(s) \in Nat /\ Len(t) \in Nat
      /\ \A i \in 1..Len(s) : s[i] \in Nat /\ \A i1 \in 1..Len(t) : t[i1] \in Nat
  OBVIOUS
<1>2. /\ \A i \in 1..Len(s) : \E m \in 1..Len(t) : s[i] = t[m]
      /\ \A i \in 1..Len(s), m \in 1..Len(t) :
            t[m] < s[i] => \E k \in 1..Len(s) : s[k] = t[m]
  BY <1>1 DEF ToSet
<1> DEFINE Bad == {k \in 1..Len(s) : ~(k <= Len(t) /\ s[k] = t[k])}
<1>3. Bad = {}
  <2> SUFFICES ASSUME Bad # {} PROVE FALSE OBVIOUS
  <2>1. PICK k \in Bad : \A j \in Bad : k <= j
    <3>1. Bad \in SUBSET Nat BY <1>1
    <3> HIDE DEF Bad
    <3> QED BY <3>1, LeastNumber
  <2>2. k \in 1..Len(s) /\ ~(k <= Len(t) /\ s[k] = t[k]) BY <2>1
  <2>3. \A j \in 1..Len(s) : j < k => j \in 1..Len(t) /\ s[j] = t[j]
    <3> TAKE j \in 1..Len(s)
    <3> HAVE j < k
    <3>1. j \notin Bad
      <4> HIDE DEF Bad
      <4> QED BY <2>1, <2>2, <1>1
    <3> QED BY <3>1, <1>1
  <2>4. PICK m \in 1..Len(t) : s[k] = t[m] BY <1>2, <2>2
  <2> HIDE DEF Bad
  <2>5. ~(m < k)
    <3> SUFFICES ASSUME m < k PROVE FALSE OBVIOUS
    <3>1. m \in 1..Len(s) BY <1>1, <2>2
    <3>2. s[m] = t[m] BY <3>1, <2>3
    <3>3. s[m] < s[k] BY <3>1, <2>2, <1>1 DEF Rises
    <3> QED BY <3>2, <3>3, <2>4, <2>2, <1>1
  <2>6. k < m /\ k \in 1..Len(t) BY <2>2, <2>4, <2>5, <1>1
  <2>7. t[k] < s[k] BY <2>4, <2>6, <1>1 DEF Rises
  <2>8. PICK i \in 1..Len(s) : s[i] = t[k] BY <2>2, <2>6, <2>7, <1>2
  <2>9. i < k
    <3>1. i # k BY <2>2, <2>6, <2>8
    <3>2. ~(k < i)
      <4> SUFFICES ASSUME k < i PROVE FALSE OBVIOUS
      <4>1. s[k] < s[i] BY <2>2, <1>1 DEF Rises
      <4> QED BY <4>1, <2>7, <2>8, <2>2, <1>1
    <3> QED BY <3>1, <3>2, <2>2, <1>1
  <2>10. s[i] = t[i] /\ i \in 1..Len(t) BY <2>3, <2>9
  <2>11. t[i] < t[k] BY <2>6, <2>9, <2>10, <1>1 DEF Rises
  <2> QED BY <2>8, <2>10, <2>11, <2>6, <1>1
<1>4. \A k \in 1..Len(s) : k <= Len(t) /\ s[k] = t[k] BY <1>3
<1>5. Len(s) <= Len(t)
  <2>1. CASE Len(s) = 0 BY <2>1, <1>1
  <2>2. CASE Len(s) # 0 BY <2>2, <1>1, <1>4
  <2> QED BY <2>1, <2>2
<1>6. SubSeq(s, 1, Len(s)) = SubSeq(t, 1, Len(s)) BY <1>1, <1>4, <1>5
<1> QED BY <1>5, <1>6 DEF IsPrefix

-----------------------------------------------------------------------------
(***************************************************************************)
(* A sorted list has the items of the list, each at a place of its own: of two    *)
(* places one stands under the other, so that no two have the same rank, and as   *)
(* many ranks as places are all taken.                                         *)
(***************************************************************************)
Permutes(p, D) ==
    /\ p \in [D -> D]
    /\ \A i, j \in D : p[i] = p[j] => i = j
    /\ \A i \in D : \E r \in D : p[r] = i

\* One list is another in some order.
Arranged(t, s) ==
    /\ DOMAIN t = DOMAIN s
    /\ \E p : Permutes(p, DOMAIN s) /\ \A r \in DOMAIN s : t[r] = s[p[r]]

Under(keys, i) == {j \in DOMAIN keys : keys[j] < keys[i] \/ (keys[j] = keys[i] /\ j <= i)}

LEMMA RanksDiffer ==
    ASSUME NEW keys \in Seq(Nat), NEW i \in DOMAIN keys, NEW j \in DOMAIN keys, i # j
    PROVE  Rank(keys, i) # Rank(keys, j)
<1>1. /\ DOMAIN keys \subseteq Nat /\ IsFiniteSet(DOMAIN keys)
      /\ \A k \in DOMAIN keys : keys[k] \in Nat
  <2>1. DOMAIN keys = 1..Len(keys) /\ Len(keys) \in Nat OBVIOUS
  <2>2. IsFiniteSet(1..Len(keys)) BY <2>1, FS_Interval
  <2>3. \A k \in DOMAIN keys : keys[k] \in Nat OBVIOUS
  <2> QED BY <2>1, <2>2, <2>3
<1>2. \A k \in DOMAIN keys : Rank(keys, k) = Cardinality(Under(keys, k)) BY DEF Rank, Under
<1>3. \A k, l \in DOMAIN keys :
         (k # l /\ (keys[k] < keys[l] \/ (keys[k] = keys[l] /\ k <= l)))
            => Cardinality(Under(keys, k)) # Cardinality(Under(keys, l))
  <2> TAKE k, l \in DOMAIN keys
  <2> HAVE k # l /\ (keys[k] < keys[l] \/ (keys[k] = keys[l] /\ k <= l))
  <2>0. k \in Nat /\ l \in Nat /\ keys[k] \in Nat /\ keys[l] \in Nat BY <1>1
  <2>1. Under(keys, k) \subseteq Under(keys, l)
    <3> SUFFICES ASSUME NEW m \in Under(keys, k) PROVE m \in Under(keys, l) OBVIOUS
    <3>1. m \in DOMAIN keys /\ (keys[m] < keys[k] \/ (keys[m] = keys[k] /\ m <= k)) BY DEF Under
    <3>2. m \in Nat /\ keys[m] \in Nat BY <1>1, <3>1
    <3>3. keys[m] < keys[l] \/ (keys[m] = keys[l] /\ m <= l) BY <2>0, <3>1, <3>2
    <3> QED BY <3>1, <3>3 DEF Under
  <2>2. l \in Under(keys, l) /\ l \notin Under(keys, k)
    <3>1. ~(keys[l] < keys[k] \/ (keys[l] = keys[k] /\ l <= k)) /\ l <= l BY <2>0
    <3> QED BY <3>1 DEF Under
  <2>3. IsFiniteSet(Under(keys, l))
    <3>1. Under(keys, l) \in SUBSET DOMAIN keys BY DEF Under
    <3> QED BY <3>1, <1>1, FS_Subset
  <2> QED BY <2>1, <2>2, <2>3, FS_Subset
<1>4. \/ keys[i] < keys[j] \/ (keys[i] = keys[j] /\ i <= j)
      \/ keys[j] < keys[i] \/ (keys[j] = keys[i] /\ j <= i)
  BY <1>1
<1> QED BY <1>2, <1>3, <1>4

LEMMA RankIsAPlace ==
    ASSUME NEW keys \in Seq(Nat), NEW i \in DOMAIN keys
    PROVE  Rank(keys, i) \in DOMAIN keys
<1>1. DOMAIN keys = 1..Len(keys) /\ Len(keys) \in Nat OBVIOUS
<1>2. IsFiniteSet(DOMAIN keys) /\ Cardinality(DOMAIN keys) = Len(keys)
  <2>1. /\ IsFiniteSet(1..Len(keys))
        /\ Cardinality(1..Len(keys)) = IF 1 > Len(keys) THEN 0 ELSE Len(keys) - 1 + 1
    BY <1>1, FS_Interval
  <2> QED BY <1>1, <2>1
<1>3. Under(keys, i) \in SUBSET DOMAIN keys /\ i \in Under(keys, i)
  <2>1. i \in Nat /\ keys[i] \in Nat BY <1>1
  <2> QED BY <2>1 DEF Under
<1>4. IsFiniteSet(Under(keys, i)) /\ Cardinality(Under(keys, i)) <= Len(keys)
  BY <1>2, <1>3, FS_Subset
<1>5. Cardinality(Under(keys, i)) \in Nat /\ Cardinality(Under(keys, i)) # 0
  BY <1>3, <1>4, FS_CardinalityType, FS_EmptySet
<1>6. Rank(keys, i) = Cardinality(Under(keys, i)) BY DEF Rank, Under
<1> QED BY <1>1, <1>4, <1>5, <1>6

LEMMA SortedPermutes ==
    ASSUME NEW S, NEW items \in Seq(S), NEW keys \in Seq(Nat), Len(keys) = Len(items)
    PROVE  Sorted(items, keys) \in Seq(S) /\ Arranged(Sorted(items, keys), items)
<1> DEFINE D == DOMAIN items
           rank == [i \in D |-> Rank(keys, i)]
           p == [r \in D |-> CHOOSE i \in D : Rank(keys, i) = r]
<1>1. D = 1..Len(items) /\ Len(items) \in Nat /\ DOMAIN keys = D OBVIOUS
<1>2. \A i \in D : rank[i] = Rank(keys, i) /\ rank[i] \in D BY <1>1, RankIsAPlace
<1>3. \A i, j \in D : rank[i] = rank[j] => i = j BY <1>1, <1>2, RanksDiffer
<1>4. rank \in [D -> D] BY <1>2
<1>5. \A r \in D : \E i \in D : rank[i] = r
  <2>1. IsFiniteSet(D) BY <1>1, FS_Interval
  <2> HIDE DEF D, rank
  <2>2. rank \in Injection(D, D) BY <1>3, <1>4 DEF Injection, IsInjective
  <2>3. rank \in Surjection(D, D) BY <2>1, <2>2, FS_Injection
  <2> QED BY <2>3 DEF Surjection
<1>6. \A r \in D : p[r] \in D /\ rank[p[r]] = r
  <2> TAKE r \in D
  <2>1. \E i \in D : Rank(keys, i) = r BY <1>2, <1>5
  <2> QED BY <2>1, <1>2
<1>7. Permutes(p, D)
  <2>1. p \in [D -> D] BY <1>6
  <2> HIDE DEF p, rank, D
  <2>2. \A i \in D : p[rank[i]] = i BY <1>2, <1>3, <1>6
  <2> QED BY <2>1, <2>2, <1>2, <1>6 DEF Permutes
<1>8. /\ Sorted(items, keys) = [r \in D |-> items[p[r]]]
      /\ \A r \in D : items[p[r]] \in S
  <2>1. \A r \in D : items[p[r]] \in S
    <3>1. \A i \in D : items[i] \in S OBVIOUS
    <3> HIDE DEF p, D, rank
    <3> QED BY <1>6, <3>1
  <2>2. Sorted(items, keys) = [r \in D |-> items[p[r]]] BY DEF Sorted
  <2> QED BY <2>1, <2>2
<1>9. Sorted(items, keys) \in Seq(S)
  <2> HIDE DEF p
  <2> QED BY <1>1, <1>8
<1> HIDE DEF p
<1> QED BY <1>7, <1>8, <1>9 DEF Arranged

(***************************************************************************)
(* One more at the end of a list and what follows it is one more at the end of   *)
(* what follows.                                                              *)
(***************************************************************************)
LEMMA AppendOfConcat ==
    ASSUME NEW S, NEW s \in Seq(S), NEW e \in Seq(S), NEW c \in S
    PROVE  Append(s \o e, c) = s \o Append(e, c)
<1> DEFINE a == Append(s \o e, c)  b == s \o Append(e, c)
<1>1. s \o e \in Seq(S) /\ Append(e, c) \in Seq(S) OBVIOUS
<1>2. a \in Seq(S) /\ b \in Seq(S) BY <1>1
<1>3. /\ Len(s) \in Nat /\ Len(e) \in Nat /\ Len(s \o e) = Len(s) + Len(e)
      /\ Len(Append(e, c)) = Len(e) + 1
  OBVIOUS
<1>4. Len(a) = Len(s) + Len(e) + 1 /\ Len(b) = Len(s) + Len(e) + 1 BY <1>1, <1>3
<1>5. \A i \in 1..(Len(s) + Len(e) + 1) : a[i] = b[i]
  <2> TAKE i \in 1..(Len(s) + Len(e) + 1)
  <2>1. CASE i <= Len(s)
    <3>1. a[i] = (s \o e)[i] /\ (s \o e)[i] = s[i] BY <1>1, <1>3, <2>1
    <3>2. b[i] = s[i] BY <1>1, <1>3, <2>1
    <3> QED BY <3>1, <3>2
  <2>2. CASE i > Len(s) /\ i <= Len(s) + Len(e)
    <3>1. a[i] = (s \o e)[i] /\ (s \o e)[i] = e[i - Len(s)] BY <1>1, <1>3, <2>2
    <3>2. b[i] = Append(e, c)[i - Len(s)] BY <1>1, <1>3, <2>2
    <3>3. Append(e, c)[i - Len(s)] = e[i - Len(s)] BY <1>3, <2>2
    <3> QED BY <3>1, <3>2, <3>3
  <2>3. CASE i = Len(s) + Len(e) + 1
    <3>1. a[i] = c BY <1>1, <1>3, <2>3
    <3>2. b[i] = Append(e, c)[i - Len(s)] BY <1>1, <1>3, <2>3
    <3>3. Append(e, c)[i - Len(s)] = c BY <1>3, <2>3
    <3> QED BY <3>1, <3>2, <3>3
  <2> QED BY <1>3, <2>1, <2>2, <2>3
<1> HIDE DEF a, b
<1>6. a = b BY <1>2, <1>4, <1>5
<1> QED BY <1>6 DEF a, b

=====================================================================================
