----------------------------- MODULE MCTriageRuns -----------------------------
(* An instance of TriageRuns for TLC, and samples for its pure parts. *)
EXTENDS TriageRuns, TLC

CONSTANTS r1, r2, r3, t1, t2

(* A sink, its edited form, and another rule that hits the same line. *)
Old  == [rule |-> "sqli", title |-> "SQL injection", place |-> "app.py", snippet |-> "old"]
New  == [Old EXCEPT !.snippet = "new"]
Side == [rule |-> "taint", title |-> "Tainted data", place |-> "app.py", snippet |-> "old"]

Files == {{Old}, {New, Side}, {Old, New}}

Earlier == <<[repo |-> r2, alert |-> Old]>>

OneFamily == r1 :> "fam" @@ r2 :> "fam" @@ r3 :> "other"

Names == r1 :> 1 @@ r2 :> 2 @@ "sqli" :> 1 @@ "taint" :> 2 @@ "sast" :> 1
         @@ "old" :> 1 @@ "new" :> 2

Prints == Fingerprint(Old) :> 1 @@ Fingerprint(New) :> 2 @@ Fingerprint(Side) :> 3

Ranks == "app.py" :> 0 @@ "test.py" :> 3 @@ "vendor.py" :> 5

Symmetry == Permutations({t1, t2})

-----------------------------------------------------------------------------
(* Any set of labels of three repositories, two of them related. *)
Samples == SUBSET [repo : {r1, r2, r3}, actionable : BOOLEAN, human : BOOLEAN]

-----------------------------------------------------------------------------
Candidate(n, repo, rule, file, line, sink, hash) ==
    [finding |-> n, repo |-> repo, producer |-> "sast", rule |-> rule, file |-> file,
     line |-> line, sink |-> sink, hash |-> hash]

(* Repeats in a family, an exact duplicate, a copy in the later engagement, a
   second family of a rule, a second rule in a test, and vendored code. *)
Pool == {
    Candidate(1, r1, "sqli", "app.py", 1, "old", 1),
    Candidate(2, r1, "sqli", "app.py", 2, "old", 2),
    Candidate(3, r1, "sqli", "app.py", 2, "old", 2),
    Candidate(4, r1, "sqli", "app.py", 3, "old", 4),
    Candidate(5, r1, "sqli", "app.py", 4, "new", 5),
    Candidate(6, r1, "taint", "test.py", 1, "old", 6),
    Candidate(7, r2, "sqli", "app.py", 1, "old", 7),
    Candidate(8, r2, "taint", "vendor.py", 1, "new", 8),
    Candidate(9, r2, "taint", "app.py", 1, "new", 3)}

(* Every set of candidates drawn from these, for every size of packet. *)
Asked ==
    {[raw |-> raw, labelled |-> [rule \in Rules |-> 0], pairs |-> {<<r1, r2>>},
      limit |-> limit, perFamily |-> 2, perRepo |-> cap] :
        raw \in SUBSET Pool, limit \in 1 .. 4, cap \in 1 .. 3}
=============================================================================
