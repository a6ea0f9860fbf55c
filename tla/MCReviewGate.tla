----------------------------- MODULE MCReviewGate -----------------------------
(* Instances of ReviewGate for TLC. *)
EXTENDS ReviewGate, TLC

CONSTANTS f1, f2, lensA, lensB

PairMatches == {<<f1, f2>>, <<f2, f1>>}

Of(values) == [f \in Findings |-> values[f]]

(* f1 speaks first and is rated lowest. *)
Asserts   == Of(f1 :> 1 @@ f2 :> 2)
Positions == Of(f1 :> 1 @@ f2 :> 2)
Places    == Of(f1 :> "a" @@ f2 :> "a")
Sources   == Of(f1 :> lensA @@ f2 :> lensB)
=============================================================================
