----------------------------- MODULE MCSession -----------------------------
(* A fork that runs again, a branch of it that may end twice over, and its *)
(* other branch, a join, which waits while any other node is left to run.   *)
EXTENDS Session, TLC
CONSTANTS a, b, j, x, y
ForkNodes == {a, b, j}
ForkTargets == (a :> {a, b, j}) @@ (b :> {x, y}) @@ (j :> {x})
=============================================================================
