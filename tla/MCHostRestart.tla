--------------------------- MODULE MCHostRestart ---------------------------
(* A pair of nodes run, lost and resumed. *)
EXTENDS HostRestart, TLC
CONSTANTS a, b
PairNodes == {a, b}
PairEdges == (a :> {a, b, End}) @@ (b :> {a, End})
PairStarts == (SUBSET PairNodes) \ {{}}
=============================================================================
