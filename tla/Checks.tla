----------------------------------- MODULE Checks -----------------------------------
(***************************************************************************)
(* How the builders of both graph crates refuse: their rules are checked in     *)
(* order and the first that is broken is the error (the `?` of a Result).       *)
(***************************************************************************)
EXTENDS Naturals, Sequences

Ok == [error |-> "none"]
Refusal(broken, what, name) == IF broken THEN [error |-> what, name |-> name] ELSE Ok

\* The first refusal of a sequence of checks.
FirstOf(checks) ==
    LET refused == {i \in DOMAIN checks : checks[i] # Ok}
    IN IF refused = {} THEN Ok ELSE checks[CHOOSE i \in refused : \A j \in refused : i <= j]
=============================================================================
