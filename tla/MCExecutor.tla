----------------------------- MODULE MCExecutor -----------------------------
(* Small graphs for Executor. *)
EXTENDS Executor, TLC
CONSTANTS a, b

\* Two nodes that name each other, themselves, and the end.
PairNodes == {a, b}
PairEdges == (a :> {a, b, End}) @@ (b :> {a, End})
PairStarts == (SUBSET PairNodes) \ {{}}
=============================================================================
