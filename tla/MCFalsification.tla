--------------------------- MODULE MCFalsification ---------------------------
(* Instances of Falsification, with the evidence of its rounds, for TLC. *)
EXTENDS Challenges, TLC

CONSTANTS f1, f2, f3, f4

(* f1 and f3 are matched only through f2, which lies between them. *)
ChainMatches == {<<f1, f2>>, <<f2, f1>>, <<f2, f3>>, <<f3, f2>>}

(* The bridge of the chain heads the budget order; f1 is a tool finding. *)
ChainPriority == f2 :> 0 @@ f1 :> 1 @@ f3 :> 2 @@ f4 :> 3

(* A module, a library that calls it, a guard, a language that is read as text, a
   file that does not parse, and a built one. *)
Order == "app.py" :> 1 @@ "dist/app.py" :> 2 @@ "guard.js" :> 3 @@ "lib.py" :> 4
         @@ "main.go" :> 5 @@ "old.py" :> 6

Symbols == "again" :> 1 @@ "check" :> 2 @@ "each" :> 3 @@ "handler" :> 4 @@ "inner" :> 5
         @@ "main" :> 6 @@ "run" :> 7 @@ [p \in DOMAIN Order |-> 7 + Order[p]]

Lengths == "app.py" :> 6 @@ "dist/app.py" :> 11 @@ "guard.js" :> 8 @@ "lib.py" :> 6
           @@ "main.go" :> 7 @@ "old.py" :> 6

Endings == {<<"dist/app.py", "app.py">>, <<"src/app.py", "app.py">>, <<"y", "app.py">>}

Line(called, words, guards) == [calls |-> called, words |-> words, guards |-> guards]
Blank == Line({}, {}, {})
Def(symbol, first, last, place) ==
    [symbol |-> symbol, first |-> first, last |-> last, place |-> place]

Module ==
    [language |-> "python", parses |-> TRUE,
     definitions |-> {Def("handler", 2, 4, 1), Def("inner", 3, 3, 3), Def("main", 6, 6, 2)},
     lines |-> <<Line({}, {"MODE"}, {}), Blank, Line({"run"}, {"MODE"}, {}),
                 Line({"check"}, {}, {}), Blank, Line({"handler"}, {}, {})>>]

Guard ==
    [language |-> "javascript", parses |-> TRUE, definitions |-> {Def("check", 1, 2, 1), Def("each", 1, 2, 2)},
     lines |-> <<Blank, Line({"test"}, {}, {"known", "odd"}), Line({}, {"HOST"}, {})>>]

Library ==
    [language |-> "python", parses |-> TRUE,
     definitions |-> {Def("run", 1, 2, 1), Def("again", 3, 4, 2)},
     lines |-> <<Blank, Line({"exec"}, {"HOST"}, {}), Blank,
                 Line({"run", "handler"}, {"MODE"}, {})>>]

Plain(language, line) ==
    [language |-> language, parses |-> FALSE, definitions |-> {}, lines |-> <<line, Blank, line>>]

Sources ==
    "app.py" :> Module @@ "guard.js" :> Guard @@ "lib.py" :> Library
    @@ "main.go" :> Plain("other", Line({"run", "check"}, {}, {"known"}))
    @@ "old.py" :> Plain("python", Line({"run"}, {"MODE"}, {}))
    @@ "dist/app.py" :> Module

Cite(file, first, last, line) ==
    [file |-> file, first |-> first, last |-> last, calls |-> line.calls,
     words |-> line.words, guards |-> line.guards]

Citations ==
    f1 :> Cite("app.py", 3, 3, Module.lines[3])
    @@ f2 :> Cite("src/app.py", 4, 4, Module.lines[4])
    @@ f3 :> Cite("guard.js", 2, 2, Line({"test"}, {}, {}))
    @@ f4 :> Cite("old.py", 1, 1, Line({"run"}, {"MODE", "HOST"}, {}))

Slices == f1 :> <<3>> @@ f2 :> <<>> @@ f3 :> <<>> @@ f4 :> <<>>

Map == <<1, 3, 0, 2>>

Words == "HOST" :> 1 @@ "MODE" :> 2

Matched == {<<"plain", "known">>}

Ask == [tool : {"callers"}, symbol : {"run", "handler"}]
       \cup [tool : {"references"}, word : {"MODE", "HOST"}]
       \cup [tool : {"indexed_source_excerpt"}, file : {"app.py", "y"}, first : {2}, last : {3, 9}]
       \cup [tool : {"structural_slice", "architecture_evidence", "shell"}]
=============================================================================
