---------------------------- MODULE MCCancelTree ----------------------------
(***************************************************************************)
(* Small trees for CancelTree: three tokens triggered from two calls, with   *)
(* a future; or a root and four children made and dropped, with no trigger   *)
(* and no future, so that the list grows past where it is pruned.            *)
(***************************************************************************)
EXTENDS CancelTree, TLC
CONSTANTS r, m, l, k, n
Tree == {r, m, l, k, n}
Small == {r, m, l}

\* Tokens are but names: they are made in one order.
Order == <<r, m, l, k, n>>
InOrder == made = {Order[i] : i \in 1..Cardinality(made)}

Quiet == /\ flag = {} /\ \A t \in Threads : target[t] = Nil
         /\ \A p \in Futures : stage[p] = "unused"
         /\ \A c \in made \ {Root} : parent[c] \in {Root, Nil}
MCNext == TreeNext /\ InOrder' /\ (made \subseteq Small \/ Quiet)'
MCSpec == TreeInit /\ [][MCNext]_treeVars /\ TreeFairness
=============================================================================
