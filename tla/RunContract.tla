----------------------------- MODULE RunContract -----------------------------
(***************************************************************************)
(* What start and resume promise of a run, whatever its instances, its sink *)
(* and its host do: every update is committed once, every node an edge      *)
(* named is owed a look at that update until a result of the node pays it,  *)
(* and the outcome tells what is still owed.                               *)
(***************************************************************************)
CONSTANT Nodes

VARIABLES
    committed,  \* the updates the run's state is made of
    owed,       \* the updates each node is still to answer
    returned,   \* the kind of the outcome, "None" before
    resumable   \* the nodes the outcome's checkpoint names

contractVars == <<committed, owed, returned, resumable>>

Owing == {n \in Nodes : owed[n] # {}}

InitContract ==
    /\ \E N \in SUBSET Nodes : owed = [n \in Nodes |-> IF n \in N THEN committed ELSE {}]
    /\ returned = "None" /\ resumable = {}

\* One result: a new update, what its node is paid, and the nodes it names.
Commit ==
    /\ returned = "None"
    /\ \E u \in committed' \ committed, n \in Nodes, T \in SUBSET Nodes :
       \E paid \in SUBSET owed[n] :
         /\ committed' = committed \cup {u}
         /\ owed' = [m \in Nodes |-> (IF m = n THEN owed[m] \ paid ELSE owed[m])
                                     \cup (IF m \in T THEN {u} ELSE {})]
    /\ UNCHANGED <<returned, resumable>>

Return ==
    /\ returned = "None"
    /\ \/ returned' = "RunEnded" /\ Owing = {} /\ resumable' = {}
       \/ /\ returned' \in {"RunFailed", "RunCancelled"}
          /\ resumable' \in SUBSET Nodes
          /\ Owing \subseteq resumable'
    /\ UNCHANGED <<committed, owed>>

NextContract == Commit \/ Return
SpecContract == InitContract /\ [][NextContract]_contractVars
=============================================================================
