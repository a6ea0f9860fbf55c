------------------------------ MODULE MCScanners ------------------------------
(* Instances of Scanners for TLC. *)
EXTENDS Scanners

(* Two packages, with a test in each, and a script. *)
Files == {"a/T.java", "a/TTest.java", "b/app.py", "b/test_app.py", "app.js"}

Tests == {"a/TTest.java", "b/test_app.py"}

Languages == [f \in Files |->
    CASE f \in {"a/T.java", "a/TTest.java"} -> "java"
      [] f \in {"b/app.py", "b/test_app.py"} -> "python"
      [] OTHER -> "javascript"]

Directories == [f \in Files |->
    CASE f \in {"a/T.java", "a/TTest.java"} -> 2
      [] f \in {"b/app.py", "b/test_app.py"} -> 3
      [] OTHER -> 1]

Names == [f \in Files |->
    CHOOSE n \in 1 .. 5 : f = <<"a/T.java", "a/TTest.java", "app.js", "b/app.py", "b/test_app.py">>[n]]

Digests == [f \in Files |-> 6 - Names[f]]

Callers == <<"a/TTest.java", "b/test_app.py", "a/T.java">>

Requirements == <<"requirements-dev.txt", "requirements.txt", "sub/requirements.txt">>

AtRoot == {"requirements-dev.txt", "requirements.txt"}

Snapshot(sources, flawed, root, nested, lock) ==
    [sources |-> sources, flawed |-> sources \cap flawed,
     manifests |-> [m \in ToSet(Requirements) |->
                        IF m = "sub/requirements.txt" THEN nested
                        ELSE IF m = "requirements.txt" THEN root[1] ELSE root[2]],
     lock |-> lock]

SourceTrees ==
    {Snapshot(S, F, <<"none", "none">>, "none", "none") :
        S \in {Files, Files \ {"app.js"}, {"a/TTest.java"}, {"app.js", "b/app.py"}, {}},
        F \in {Files, {"a/TTest.java", "b/app.py"}, {}}}

Packages2 ==
    {Snapshot({"app.js"}, {}, root, nested, lock) :
        root \in {<<"vulnerable", c>> : c \in {"comments", "private", "private ranges"}}
                 \cup {<<c, "none">> : c \in Contents},
        nested \in {"none", "vulnerable"},
        lock \in {"none", "vulnerable"}}

Trees == SourceTrees \cup Packages2

Working == [b \in Binaries |-> "works"]

Installation(t) == [tool |-> t, ruleset |-> TRUE, enabled |-> TRUE]

Installed ==
    {Installation(Working),
     [Installation(Working) EXCEPT !.ruleset = FALSE],
     [Installation(Working) EXCEPT !.enabled = FALSE],
     [Installation([Working EXCEPT !["semgrep"] = "unwritable"]) EXCEPT !.enabled = FALSE]}
    \cup {Installation([Working EXCEPT ![d[1]] = d[2]]) :
            d \in UNION {{b} \X Defects(b) : b \in Binaries}}
=============================================================================
