------------------------------- MODULE Evidence -------------------------------
(***************************************************************************)
(* What a challenge is shown: the evidence that falsify/challenger.py      *)
(* gathers in each round, the check of a regex witness against it          *)
(* (falsify/counterexample.py), and the bounded read-only tools of         *)
(* falsify/read_only_tools.py, which look into the same index.             *)
(*                                                                         *)
(* Evidence is a sequence of lines; its bound, of characters in the code,  *)
(* is one of lines.                                                        *)
(***************************************************************************)
EXTENDS Retrieval

CONSTANTS
    Subjects,      \* findings that are challenged
    Citation,      \* where a finding is, and the calls, words and guards it cites
    Evading,       \* findings that claim a control is evaded
    SliceOf,       \* lines of the cited file that the structural slice shows
    WordOrder,     \* place of a configuration word among all
    Recovered,     \* numbers of boundaries, entry points, stores and integrations
    LocalLines, ModuleLines,  \* lines around a citation, at first and at last
    MaxEvidence,   \* lines of evidence in a prompt
    Guards,        \* regex guards of the snapshot
    Uncheckable,   \* those in a dialect the checker refuses
    Caught,        \* <<input, guard>>: the guard matches the input
    Requests,      \* what the tools may be asked for
    ToolCalls, ToolResults, ToolLines, ToolBytes  \* bounds of the tools

ASSUME EvidenceAssumption ==
    /\ {LocalLines, ModuleLines, MaxEvidence} \subseteq Nat
    /\ \A f \in Subjects : /\ {Citation[f].first, Citation[f].last} \subseteq Nat
                           /\ IsFiniteSet(Citation[f].words) /\ SliceOf[f] \in Seq(Nat)
    /\ \A r \in Requests : r.tool = "indexed_source_excerpt" => {r.first, r.last} \subseteq Int
    /\ {ToolCalls, ToolResults, ToolLines, ToolBytes} \subseteq Nat
    /\ Recovered \in [1 .. 4 -> Nat]
    /\ Evading \subseteq Subjects /\ Uncheckable \subseteq Guards

Concat(seqs) ==
    LET upTo[n \in 0 .. Len(seqs)] == IF n = 0 THEN <<>> ELSE upTo[n - 1] \o seqs[n]
    IN  upTo[Len(seqs)]

-----------------------------------------------------------------------------
(* The evidence of a round *)

Shown(label, p, line) == [label |-> label, file |-> p, line |-> line]

(* A block: its heading, as line 0, and the lines. *)
Block(label, i) ==
    <<Shown(label, i.file, 0)>> \o
    [n \in 1 .. Most(0, i.last - i.first + 1) |-> Shown(label, i.file, i.first + n - 1)]

Place(i) == <<i.file, i.first, i.last, i.place>>

(* _format_context: a stretch is shown once. *)
Section(label, infos) ==
    Concat([n \in DOMAIN infos |->
              IF \E m \in 1 .. n - 1 : Place(infos[m]) = Place(infos[n]) THEN <<>>
              ELSE Block(label, infos[n])])

Around(f, lines) == Excerpt(Citation[f].file, Citation[f].first, Citation[f].last, lines)

Surrounding(f) == First(Enclosing(Citation[f].file, Citation[f].first, Citation[f].last), 2)

(* The first round: the enclosing functions, or else the lines around, and the slice. *)
Local(f, enclosing) ==
    (IF enclosing # <<>> THEN Section("enclosing", enclosing)
     ELSE Section("local", Around(f, LocalLines)))
    \o [n \in DOMAIN SliceOf[f] |-> Shown("slice", Citation[f].file, SliceOf[f][n])]

(* The second: callers, callees, and functions that call the same names. *)
Related(f, enclosing, round) ==
    LET linked(i) == Callers(i.symbol) \o Callees(i.symbol)
        functions == Concat([n \in DOMAIN enclosing |-> linked(enclosing[n])])
    IN  IF round < 2 THEN <<>>
        ELSE Section("related", functions \o Similar(Citation[f].calls, 2 + round))

WordsIn(i) == UNION {Source[i.file].lines[l].words : l \in i.first .. i.last}

(* The words that configure or register something, in the citation or around it. *)
Seeds(f, enclosing) ==
    LET words == Citation[f].words \cup
            UNION {WordsIn(enclosing[n]) : n \in DOMAIN enclosing}
    IN  First(Ordered(words, {p \in words \X words : WordOrder[p[1]] < WordOrder[p[2]]}), 6)

(* _architecture_context: at most thirty, and a line that says so for none. *)
EntryPoints ==
    [n \in 1 .. 1 + Most(1, Least(30, Recovered[2])) |-> Shown("entry", "map", n - 1)]

(* The third: the module around the citation, the entry points of the map, and
   where the words are used. *)
Whole(f, enclosing, round) ==
    LET seeds == Seeds(f, enclosing)
    IN  IF round < 3 THEN <<>>
        ELSE Section("module", Around(f, ModuleLines)) \o EntryPoints
             \o Section("reference",
                    Concat([n \in DOMAIN seeds |-> References(seeds[n], 4, 6)]))

ContextReordered(f, round) ==  \* mutant: the callers come after the module
    LET enclosing == Surrounding(f)
    IN  First(Local(f, enclosing) \o Whole(f, enclosing, round)
                \o Related(f, enclosing, round), MaxEvidence)

(* _falsification_context *)
Context(f, round) ==
    LET enclosing == Surrounding(f)
    IN  First(Local(f, enclosing) \o Related(f, enclosing, round)
                \o Whole(f, enclosing, round), MaxEvidence)

-----------------------------------------------------------------------------
(* A claim that a regex guard is evaded needs an input that evades it. *)

GuardsShown(f, evidence) ==
    LET shown == {evidence[n] : n \in DOMAIN evidence}
    IN  Citation[f].guards \cup UNION {Source[u.file].lines[u.line].guards :
            u \in {v \in shown : v.file \in Files /\ v.line > 0}}

(* _requires_regex_bypass_witness *)
NeedsWitness(f, evidence) == f \in Evading /\ GuardsShown(f, evidence) # {}

(* verify_javascript_regex_guard_witness *)
Checked(witness) ==
    CASE witness[2] \in Uncheckable -> "incomplete"
      [] witness[2] \notin Uncheckable /\ witness \in Caught -> "refuted"
      [] OTHER -> "verified"

(* _verify_counterexample: none is a verdict without a witness. *)
Verification(f, evidence, witness) ==
    CASE witness = <<>> -> IF NeedsWitness(f, evidence) THEN "incomplete" ELSE "not needed"
      [] witness # <<>> /\ witness[2] \notin GuardsShown(f, evidence) -> "incomplete"
      [] OTHER -> Checked(witness)

(* counterexample_upholds of challenge_finding *)
Upholds(f, evidence, verdict, witness) ==
    verdict = "confirmed" => Verification(f, evidence, witness) \in {"not needed", "verified"}

-----------------------------------------------------------------------------
(* The tools *)

Refusal == [ok |-> FALSE, items |-> <<>>, cut |-> FALSE]

Size(items) == Len(Section("tool", items))

(* _bounded_records *)
Selected(items) == [ok |-> TRUE, items |-> First(items, ToolResults),
                   cut |-> Len(items) > ToolResults]

(* _indexed_source_excerpt: of a file by its own name, and of lines it has. *)
ExcerptFor(r) ==
    IF r.file \in Walked /\ 1 <= r.first /\ r.first <= r.last /\ r.last <= Height(r.file)
    THEN [ok |-> TRUE, items |-> Excerpt(r.file, r.first, r.last, ToolLines), cut |-> FALSE]
    ELSE Refusal

(* _callers: an excerpt around each of them. *)
CallersFor(r) ==
    LET found == Callers(r.symbol)
    IN  Selected(Concat([n \in DOMAIN found |->
                  Excerpt(found[n].file, found[n].first, found[n].last, ToolLines)]))

ReferencesToTheLimit(r) ==  \* mutant: one more is not looked for
    Selected(References(r.word, ToolResults, ToolLines))

(* _references: one more is looked for than may be shown. *)
ReferencesFor(r) == Selected(References(r.word, ToolResults + 1, ToolLines))

(* _structural_slice, of the finding that the session is about. *)
SliceFor(f) ==
    LET p == Citation[f].file
    IN  [ok |-> TRUE, cut |-> FALSE,
         items |-> [n \in DOMAIN SliceOf[f] |-> Stretch(p, "slice", SliceOf[f][n] - 1, SliceOf[f][n])]]

(* _architecture_evidence: of each kind as many as may be shown. *)
MapFor ==
    [ok |-> TRUE, cut |-> \E k \in 1 .. 4 : Recovered[k] > ToolResults,
     items |-> Concat([k \in 1 .. 4 |-> [n \in 1 .. Least(Recovered[k], ToolResults) |->
                                            Stretch("map", k, n - 1, n)]])]

(* The tool that is asked for, if it is on the list, and if its answer fits. *)
AnswerOf(f, r) ==
    LET answer == CASE r.tool = "indexed_source_excerpt" -> ExcerptFor(r)
                    [] r.tool = "structural_slice" -> SliceFor(f)
                    [] r.tool = "callers" -> CallersFor(r)
                    [] r.tool = "references" -> ReferencesFor(r)
                    [] r.tool = "architecture_evidence" -> MapFor
                    [] OTHER -> Refusal
    IN  IF Size(answer.items) > ToolBytes THEN Refusal ELSE answer

Answers(f) == [r \in Requests |-> AnswerOf(f, r)]

(* Any change of the index, the map or the finding that the session is bound to. *)
Drift == [tool |-> "none", drift |-> TRUE]

(* A session before its first request. *)
Opened == [attempts |-> 0, drifted |-> FALSE, answers |-> <<>>]

RequestUncounted(answers, session, r) ==  \* mutant: a refused request is no attempt
    CASE r = Drift -> [session EXCEPT !.drifted = TRUE]
      [] r # Drift /\ (session.drifted \/ session.attempts >= ToolCalls) -> session
      [] OTHER -> IF answers[r].ok
                  THEN [session EXCEPT !.attempts = @ + 1, !.answers = Append(@, answers[r])]
                  ELSE session

(* AgentReadOnlyTools.request: an attempt counts when the index, the map and
   the finding are still the ones that were bound, whatever is asked for. *)
Request(answers, session, r) ==
    CASE r = Drift -> [session EXCEPT !.drifted = TRUE]
      [] r # Drift /\ (session.drifted \/ session.attempts >= ToolCalls) -> session
      [] OTHER -> [session EXCEPT !.attempts = @ + 1,
                      !.answers = IF answers[r].ok THEN Append(@, answers[r]) ELSE @]

Session(answers, events) ==
    LET after[n \in 0 .. Len(events)] ==
          IF n = 0 THEN Opened ELSE Request(answers, after[n - 1], events[n])
    IN  after[Len(events)]
=============================================================================
