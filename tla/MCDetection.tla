----------------------------- MODULE MCDetection -----------------------------
(* Instances of Detection for TLC. *)
EXTENDS Detection, TLC

CONSTANTS p1, p2, r1, r2, owasp, supply

TwoLenses == <<r1, r2>>

Lenses == r1 :> owasp @@ r2 :> supply

At(snippet, file, line) == [snippet |-> snippet, file |-> file, line |-> line]

(* "guard" occurs twice in one file, and in a copy of the file whose name ends
   in the same way; "key" once. *)
Places == {At("guard", "a.py", 1), At("guard", "a.py", 5),
           At("guard", "lib/a.py", 1), At("key", "b.py", 2)}

Suffixes == {<<f, f>> : f \in {"a.py", "lib/a.py", "b.py", "c.py"}}
            \cup {<<"a.py", "lib/a.py">>, <<"lib/a.py", "a.py">>}

Heights == [s \in {"guard", "key"} |-> 1]

Cite(o, title, sure) ==
    [snippet |-> o.snippet, file |-> o.file, line |-> o.line, title |-> title, sure |-> sure]

(* Attributed to the wrong file, under either of two titles; exact, and unsure.
   The copy of the file makes a citation of it ambiguous. *)
Reports == {Cite(At("key", "c.py", 9), "leak", TRUE), Cite(At("key", "c.py", 9), "secret", TRUE),
            Cite(At("guard", "a.py", 5), "leak", FALSE)}
=============================================================================
