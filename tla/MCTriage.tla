------------------------------- MODULE MCTriage -------------------------------
(* Instances of TriageLabels for TLC. *)
EXTENDS TriageLabels

CONSTANTS alice, bob

EachItsOwn == [f \in Findings |-> f]
OneRepo == [f \in Findings |-> 1]
=============================================================================
