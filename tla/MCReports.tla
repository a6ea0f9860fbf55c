------------------------------ MODULE MCReports ------------------------------
(* Instances of Reports for TLC. *)
EXTENDS Reports, TLC

CONSTANTS f1, f2, p1, p2

PairMatches == {<<f1, f2>>, <<f2, f1>>}
Positions   == [f \in Findings |-> IF f = f1 THEN 1 ELSE 2]

Line(kind, audited) == [kind |-> kind, audit |-> audited]

SomeLines == {Line("quantify", FALSE), Line("finalize", TRUE), Line("memo", TRUE)}

Terminals == Permutations(Procs)
=============================================================================
