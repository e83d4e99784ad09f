--------------------------------- MODULE Lists ---------------------------------
(***************************************************************************)
(* The filter of a list, as a recursive function: the items of an inbox that *)
(* a queue, a conversation or a page keeps; and the stable sort of a list.   *)
(***************************************************************************)
EXTENDS Naturals, Sequences, FiniteSets

\* Those of some items that are in S, in their order.
Among(items, S) ==
    LET found[n \in 0..Len(items)] ==
          IF n = 0 THEN <<>>
          ELSE IF items[n] \in S THEN Append(found[n - 1], items[n]) ELSE found[n - 1]
    IN found[Len(items)]

\* Some items in the order of their keys, those of one key in the order they stood.
Rank(keys, i) ==
    Cardinality({j \in DOMAIN keys : keys[j] < keys[i] \/ (keys[j] = keys[i] /\ j <= i)})
Sorted(items, keys) ==
    [r \in DOMAIN items |-> items[CHOOSE i \in DOMAIN items : Rank(keys, i) = r]]
=============================================================================
