-------------------------------- MODULE MCClaims --------------------------------
(* Model values and files for checking StructuralClaims. *)
EXTENDS StructuralClaims, TLC

CONSTANTS a, b, p, q

Line(kind, target, loads, count) ==
    [kind |-> kind, target |-> target, loads |-> loads, count |-> count]

Assignments == {
    Line("assign", a, {Request}, 1),
    Line("assign", a, {b}, 1),
    Line("assign", b, {a}, 1),
    Line("augment", a, {b}, 1)}

Sinks == {
    Line("sink", a, {a}, 1),
    Line("sink", a, {a, b}, 1),
    Line("sink", a, {Request}, 1)}

Rarities == {
    Line("sink", a, {b}, 2),
    Line("assign", Request, {a}, 1),
    Line("def", a, {a}, 1),
    Line("guard", a, {}, 1)}

Blank == Line("other", a, {}, 1)

Alike == Permutations(Procs)

Final(body) == body[Length].kind = "sink"

(* Bodies that end in a sink, with something rare in at most one line. *)
Bodies ==
    {body \in [Lines -> Assignments \cup Sinks \cup Rarities] :
        /\ Final(body)
        /\ Cardinality({l \in Lines : body[l] \in Rarities}) <= 1}

Python ==
    {[language |-> "python", params |-> params, context |-> {}, body |-> body] :
        params \in {{}, {b}}, body \in Bodies}
    \cup {[language |-> "python", params |-> {Request}, context |-> context, body |-> body] :
        context \in {{"called"}, {"registered", "guarded"}, {"guarded in argument"}},
        body \in {c \in Bodies : c[1] \in {Line("def", a, {a}, 1), Line("assign", a, {b}, 1)}}}

Others ==
    {[language |-> language, params |-> {}, context |-> {}, body |-> body] :
        language \in {"javascript", "java", "ruby"},
        body \in {c \in [Lines -> Assignments \cup Sinks] : Final(c)}}

AllFiles == Python \cup Others

NextLines == {Blank}
=============================================================================
