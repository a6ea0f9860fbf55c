----------------------------- MODULE MCIngestion -----------------------------
(* Instances of Ingestion for TLC. *)
EXTENDS Ingestion

CONSTANTS p1, p2

(* The first script creates two tables, the second makes one of them anew (0006),
   and the third adds a column to it (0021). *)
Other    == <<1, 1>>
Finding  == <<1, 2>>
Anew     == <<2, 1>>
Drop     == <<2, 2>>
Rename   == <<2, 3>>
Column   == <<3, 1>>

Sizes == [v \in {1, 2, 3} |-> IF v = 3 THEN 1 ELSE v + 1]

Refused(s, done) ==
    CASE s \in {Other, Anew} -> s \in done
      [] s = Drop            -> {Finding, Rename} \cap done = {}
      [] s = Column          -> {Finding, Rename} \cap done = {} \/ s \in done
      [] s = Finding         -> {Finding, Rename} \cap done # {}
      [] s = Rename          -> {Finding, Rename} \cap done # {} \/ Anew \notin done

Undone == [s \in Statements |-> CASE s = Drop   -> {Finding, Rename, Column}
                                  [] s = Rename -> {Anew}
                                  [] OTHER      -> {}]

(* Commands run in /a and in /b: `svc' is a working tree in the one, which has an
   absolute path too, and a plain directory in the other; the third source, of the same
   base name, is remote. *)
Spelled ==
    LET In(d) == [s \in {"svc", "/a/svc", "http://svc"} |->
                     IF s = "svc" THEN d ELSE s]
    IN  [v \in {"a", "b"} |-> In(IF v = "a" THEN "/a/svc" ELSE "/b/svc")]
Kinds == [o \in {"/a/svc", "/b/svc", "http://svc"} |->
             CASE o = "/a/svc" -> "worktree" [] o = "/b/svc" -> "plain" [] OTHER -> "remote"]
BaseName == [s \in {"svc", "/a/svc", "http://svc"} |-> "svc"]
WithHash == [n \in {"svc"} |-> [o \in {"/a/svc", "/b/svc", "http://svc"} |->
                CASE o = "/a/svc" -> "svc-1" [] o = "/b/svc" -> "svc-2" [] OTHER -> "svc-3"]]

(* One plain directory, which is there in /a only. *)
Alone == [v \in {"a", "b"} |-> [s \in {"svc"} |-> IF v = "a" THEN "/a/svc" ELSE "svc"]]
AloneKind == [o \in {"/a/svc", "svc"} |-> IF o = "svc" THEN "nothing" ELSE "plain"]
AloneHash == [n \in {"svc"} |->
                 [o \in {"/a/svc", "svc"} |-> IF o = "svc" THEN "svc-0" ELSE "svc-1"]]
=============================================================================
