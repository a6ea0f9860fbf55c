------------------------------ MODULE Challenges ------------------------------
(***************************************************************************)
(* The rounds of Falsification with the evidence that each is given.       *)
(***************************************************************************)
EXTENDS Falsification, Evidence

CONSTANTS
    Inputs  \* what a witness may feed to a guard

ASSUME SubjectsAssumption == Subjects = Findings

(* The rounds whose evidence is of a kind of its own. *)
Tiers == 1 .. 3

Prompts(f) == [n \in Tiers |-> Context(f, n)]

Extends(s, t) == Len(s) <= Len(t) /\ s = SubSeq(t, 1, Len(s))

(* "a genuinely broader strategy each round": nothing that was shown is taken
   away by the next round, and the third shows more unless the prompt is full. *)
Broadens(prompts) ==
    \A n \in Tiers \ {3} :
        /\ Extends(prompts[n], prompts[n + 1])
        /\ n = 2 /\ Len(prompts[2]) < MaxEvidence => Len(prompts[2]) < Len(prompts[3])

(* A confirmation that a round upholds by a witness is upheld by it in the next,
   and a claim that has to be backed by a witness in one has to be in the next. *)
WitnessStands(f, prompts) ==
    \A n \in Tiers \ {3} :
        /\ NeedsWitness(f, prompts[n]) => NeedsWitness(f, prompts[n + 1])
        /\ \A w \in Inputs \X Guards :
              Upholds(f, prompts[n], "confirmed", w) =>
                  Upholds(f, prompts[n + 1], "confirmed", w)

Holds(item, p, l) == item.file = p /\ item.first <= l /\ l <= item.last

Some(items, p, l) == \E n \in DOMAIN items : Holds(items[n], p, l)

(* What a tool answers is what was asked for, all of it unless it says so. *)
AllThere(r, a) ==
    CASE r.tool = "indexed_source_excerpt" -> \A l \in r.first .. r.last : Some(a.items, r.file, l)
      [] r.tool = "callers" ->
            a.cut \/ \A i \in Index : r.symbol \in i.calls => Some(a.items, i.file, i.first)
      [] r.tool = "references" ->
            a.cut \/ \A p \in Walked : \A l \in 1 .. Height(p) :
                        r.word \in Source[p].lines[l].words => Some(a.items, p, l)
      [] OTHER -> TRUE

AnswersWhole(answers) == \A r \in Requests : answers[r].ok => AllThere(r, answers[r])

Events == Requests \cup {Drift}

(* A session answers no more requests than it may attempt, whatever it refuses
   on the way, and none once what it was bound to has changed. *)
SessionBounded(answers) ==
    \A events \in [1 .. ToolCalls + 1 -> Events] :
        \A session \in {Session(answers, events)} :
            /\ Len(session.answers) <= session.attempts
            /\ session.attempts =
                  Least(ToolCalls, Cardinality({n \in DOMAIN events :
                                      \A m \in 1 .. n : events[m] # Drift}))

Sound ==
    {f \in Findings :
        /\ \A prompts \in {Prompts(f)} : Broadens(prompts) /\ WitnessStands(f, prompts)
        /\ \A answers \in {Answers(f)} : AnswersWhole(answers) /\ SessionBounded(answers)}

(* Whatever finding is challenged, its rounds see more and more, a witness that
   was accepted stays so, and the tools answer in full or say that they do not. *)
EvidenceIsSound == pc = "verdict" => cur \in Sound
=============================================================================
