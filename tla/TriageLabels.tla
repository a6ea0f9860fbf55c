----------------------------- MODULE TriageLabels -----------------------------
(***************************************************************************)
(* The ground truth that triage is trained on: triage/labels.py, the       *)
(* triage_assessment, triage_label and triage_features tables of           *)
(* store/db.py, and the activation floor of triage/collection.py.          *)
(*                                                                         *)
(* Labels come from three sides.  A derivation pass, which every triage    *)
(* run begins with, turns falsify verdicts and review decisions into       *)
(* labels.  Analysts assess findings one at a time: the assessment is      *)
(* appended, the positions of the others are read, the label is written or *)
(* taken away, each in a transaction of its own.  A frozen batch of        *)
(* reviews is imported in one transaction.                                 *)
(***************************************************************************)
EXTENDS Integers, Sequences, FiniteSets, FiniteSetsExt, Functions

CONSTANTS
    Findings,        \* ids, in the order of list_findings
    Key,             \* engagement and fingerprint of a finding
    Repo,            \* repository of a finding
    Analysts,
    Dispositions,    \* subset of TriageDisposition
    Verdicts,        \* what falsification may rule
    Decisions,       \* what a reviewer may decide
    MaxAssessments,  \* bound: rows of triage_assessment
    MaxAbandoned     \* bound: commands that die

ASSUME TriageAssumption ==
    /\ Findings \subseteq Nat /\ IsFiniteSet(Findings)
    /\ Verdicts \subseteq {"confirmed", "killed"}
    /\ Decisions \subseteq {"confirm", "dismiss"}
    /\ MaxAssessments \in Nat /\ MaxAbandoned \in Nat

VARIABLES
    verdict,      \* falsification_status of a finding
    review,       \* the latest review decision on a finding
    featured,     \* findings with a triage_features row
    labels,       \* triage_label, by key
    assessments,  \* triage_assessment
    desk,         \* the analysts' commands
    pass,         \* the derivation pass
    torn,         \* history: keys that two commands were at, or one died at
    abandoned

vars == <<verdict, review, featured, labels, assessments, desk, pass, torn, abandoned>>

Keys == {Key[f] : f \in Findings}
None == [actionable |-> FALSE, source |-> "none"]
Away == [pc |-> "away", row |-> 0]
NoPass == [pc |-> "none", verdicts |-> <<>>, reviews |-> <<>>]

Outcome(disposition) ==
    CASE disposition = "confirmed_actionable" -> "true_positive"
      [] disposition = "insufficient_evidence" -> "uncertain"
      [] OTHER -> "false_positive"

Decided(item) == Outcome(item.disposition) # "uncertain"

Init ==
    /\ verdict = [f \in Findings |-> "unresolved"]
    /\ review = [f \in Findings |-> "none"]
    /\ featured = {}
    /\ labels = [k \in Keys |-> None]
    /\ assessments = <<>>
    /\ desk = [a \in Analysts |-> Away]
    /\ pass = NoPass
    /\ torn = {}
    /\ abandoned = 0

-----------------------------------------------------------------------------
(* What the other stages conclude. *)

Falsify(f) ==
    /\ verdict[f] = "unresolved"
    /\ \E ruling \in Verdicts : verdict' = [verdict EXCEPT ![f] = ruling]
    /\ UNCHANGED <<review, featured, labels, assessments, desk, pass, torn, abandoned>>

Review(f) ==
    /\ review[f] = "none"
    /\ \E ruling \in Decisions : review' = [review EXCEPT ![f] = ruling]
    /\ UNCHANGED <<verdict, featured, labels, assessments, desk, pass, torn, abandoned>>

(* triage_repo persists the finding and its features. *)
Score(f) ==
    /\ f \notin featured
    /\ featured' = featured \cup {f}
    /\ UNCHANGED <<verdict, review, labels, assessments, desk, pass, torn, abandoned>>

-----------------------------------------------------------------------------
(* The derivation pass *)

DerivedAsReview(v, r) ==  \* mutant: a verdict is taken for a human's
    CASE r # "none" \/ v \in {"confirmed", "killed"} ->
            [actionable |-> r = "confirm" \/ v = "confirmed", source |-> "derived_review"]
      [] OTHER -> None

(* _derive_disposition: a human's ruling, else the verdict, else no label. *)
Derived(v, r) ==
    CASE r # "none" -> [actionable |-> r = "confirm", source |-> "derived_review"]
      [] r = "none" /\ v \in {"confirmed", "killed"} ->
            [actionable |-> v = "confirmed", source |-> "derived_falsify"]
      [] OTHER -> None

(* derive_labels reads the features and the findings ... *)
BeginPass ==
    /\ pass.pc = "none"
    /\ featured # {}
    /\ pass' = [pc |-> "derive", verdicts |-> [f \in featured |-> verdict[f]],
                reviews |-> <<>>]
    /\ UNCHANGED <<verdict, review, featured, labels, assessments, desk, torn, abandoned>>

(* ... and the decisions on a repository when its first finding is due. *)
ReviewsRead(f) ==
    IF Repo[f] \in DOMAIN pass.reviews THEN pass.reviews
    ELSE [r \in DOMAIN pass.reviews \cup {Repo[f]} |->
            IF r = Repo[f] THEN [g \in {h \in Findings : Repo[h] = r} |-> review[g]]
            ELSE pass.reviews[r]]

UnguardedLabel(k, label) == label  \* mutant: without protect_manual

LabelOnce(k, label) ==  \* mutant: a row that is there is left alone
    IF labels[k] = None THEN label ELSE labels[k]

(* upsert_triage_label with protect_manual. *)
GuardedLabel(k, label) ==
    IF labels[k].source = "manual" THEN labels[k] ELSE label

(* The first finding of those that are left: no label, or one upsert. *)
DeriveNext ==
    /\ pass.pc = "derive"
    /\ \E f \in DOMAIN pass.verdicts :
        LET reviews == ReviewsRead(f)
            label == Derived(pass.verdicts[f], reviews[Repo[f]][f])
            rest == DOMAIN pass.verdicts \ {f} IN
        /\ \A g \in rest : f < g
        /\ labels' = IF label = None THEN labels
                     ELSE [labels EXCEPT ![Key[f]] = GuardedLabel(Key[f], label)]
        /\ pass' = IF rest = {} THEN NoPass
                   ELSE [pc |-> "derive", verdicts |-> [g \in rest |-> pass.verdicts[g]],
                         reviews |-> reviews]
    /\ UNCHANGED <<verdict, review, featured, assessments, desk, torn, abandoned>>

-----------------------------------------------------------------------------
(* Analysts *)

Row(a) == assessments[desk[a].row]

AtDesk(k) == {b \in Analysts : desk[b].pc # "away" /\ Key[Row(b).finding] = k}

(* assess_finding appends the assessment; an abstention ends it, and a material
   one has to be weighed. *)
Assess(a, f) ==
    /\ desk[a].pc = "away"
    /\ Len(assessments) < MaxAssessments
    /\ \E d \in Dispositions, material \in BOOLEAN :
        LET item == [finding |-> f, analyst |-> a, disposition |-> d,
                     material |-> material, eligible |-> f \in featured] IN
        /\ assessments' = Append(assessments, item)
        /\ desk' = [desk EXCEPT ![a] =
                      CASE ~Decided(item) -> Away
                        [] Decided(item) /\ material ->
                              [pc |-> "weigh", row |-> Len(assessments) + 1]
                        [] Decided(item) /\ ~material /\ f \in featured ->
                              [pc |-> "label", row |-> Len(assessments) + 1]
                        [] OTHER -> Away]
    /\ torn' = torn \cup {k \in {Key[f]} : AtDesk(k) # {}}
    /\ UNCHANGED <<verdict, review, featured, labels, pass, abandoned>>

(* The last material position of each analyst who took one on the finding. *)
LatestMaterial(f) ==
    {i \in DOMAIN assessments :
        /\ assessments[i].finding = f /\ assessments[i].material
        /\ \A j \in i + 1 .. Len(assessments) :
            ~(/\ assessments[j].finding = f /\ assessments[j].material
              /\ assessments[j].analyst = assessments[i].analyst)}

ConfirmedByAnyone(item) ==  \* mutant: one's own position counts
    \E i \in LatestMaterial(item.finding) : assessments[i].disposition = item.disposition

(* independently_confirmed *)
IndependentlyConfirmed(item) ==
    \E i \in LatestMaterial(item.finding) :
        /\ assessments[i].analyst # item.analyst
        /\ assessments[i].disposition = item.disposition

(* A material position is read against those of the others.  Without features
   there is no label to write or to take away. *)
Weigh(a) ==
    /\ desk[a].pc = "weigh"
    /\ desk' = [desk EXCEPT ![a] =
                  IF ~Row(a).eligible THEN Away
                  ELSE [pc |-> IF IndependentlyConfirmed(Row(a)) THEN "label" ELSE "withhold",
                        row |-> desk[a].row]]
    /\ UNCHANGED <<verdict, review, featured, labels, assessments, pass, torn, abandoned>>

(* delete_triage_label_projection, whatever the label came from. *)
Withhold(a) ==
    /\ desk[a].pc = "withhold"
    /\ labels' = [labels EXCEPT ![Key[Row(a).finding]] = None]
    /\ desk' = [desk EXCEPT ![a] = Away]
    /\ UNCHANGED <<verdict, review, featured, assessments, pass, torn, abandoned>>

(* label_finding *)
Label(a) ==
    LET k == Key[Row(a).finding]
        label == [actionable |-> Outcome(Row(a).disposition) = "true_positive",
                  source |-> "manual"] IN
    /\ desk[a].pc = "label"
    /\ labels' = [labels EXCEPT ![k] = label]
    /\ desk' = [desk EXCEPT ![a] = Away]
    /\ UNCHANGED <<verdict, review, featured, assessments, pass, torn, abandoned>>

(* import_triage_review_batch: all of it, or nothing when a finding of the
   batch has an assessment, no features, or a label. *)
Import(a, batch) ==
    /\ batch # {}
    /\ Len(assessments) + Cardinality(batch) <= MaxAssessments
    /\ batch \subseteq featured
    /\ \A i \in DOMAIN assessments : assessments[i].finding \notin batch
    /\ \E disposition \in [batch -> Dispositions],
          order \in Bijection(1 .. Cardinality(batch), batch) :
        LET labelled == {f \in batch : Outcome(disposition[f]) # "uncertain"} IN
        /\ \A f \in labelled : labels[Key[f]] = None
        /\ \A f, g \in labelled : f # g => Key[f] # Key[g]
        /\ assessments' = assessments \o
              [i \in DOMAIN order |-> [finding |-> order[i], analyst |-> a,
                                       disposition |-> disposition[order[i]],
                                       material |-> FALSE, eligible |-> TRUE]]
        /\ labels' = [k \in Keys |->
              IF \E f \in labelled : Key[f] = k
              THEN [actionable |-> \E f \in labelled : /\ Key[f] = k
                                        /\ Outcome(disposition[f]) = "true_positive",
                    source |-> "manual"]
              ELSE labels[k]]
    /\ torn' = torn \cup {k \in {Key[f] : f \in batch} : AtDesk(k) # {}}
    /\ UNCHANGED <<verdict, review, featured, desk, pass, abandoned>>

(* A command dies between two of its transactions. *)
Abandon ==
    /\ abandoned < MaxAbandoned
    /\ abandoned' = abandoned + 1
    /\ \/ /\ pass.pc = "derive"
          /\ pass' = NoPass
          /\ UNCHANGED <<desk, torn>>
       \/ \E a \in Analysts :
          /\ desk[a].pc # "away"
          /\ desk' = [desk EXCEPT ![a] = Away]
          /\ torn' = torn \cup {Key[Row(a).finding]}
          /\ UNCHANGED pass
    /\ UNCHANGED <<verdict, review, featured, labels, assessments>>

Derive == BeginPass \/ DeriveNext

Continue(a) == Weigh(a) \/ Withhold(a) \/ Label(a)

(* triage-label *)
Analyst(a) == (\E f \in Findings : Assess(a, f)) \/ Continue(a)

Next ==
    \/ \E f \in Findings : Falsify(f) \/ Review(f) \/ Score(f)
    \/ Derive
    \/ \E a \in Analysts : Analyst(a)
    \/ \E a \in Analysts, batch \in SUBSET Findings : Import(a, batch)
    \/ Abandon

Spec == Init /\ [][Next]_vars

(* Triage is run again and again, and a started command runs. *)
FairSpec == Spec /\ WF_vars(Derive) /\ \A a \in Analysts : WF_vars(Continue(a))

-----------------------------------------------------------------------------
(* collection_status: labels that advance the activation floor. *)
HumanLabels == {k \in Keys : labels[k].source \in {"manual", "derived_review"}}

TypeOK ==
    /\ verdict \in [Findings -> Verdicts \cup {"unresolved"}]
    /\ review \in [Findings -> Decisions \cup {"none"}]
    /\ featured \subseteq Findings
    /\ labels \in [Keys -> [actionable : BOOLEAN,
                            source : {"none", "manual", "derived_review", "derived_falsify"}]]
    /\ assessments \in Seq([finding : Findings, analyst : Analysts,
                            disposition : Dispositions, material : BOOLEAN,
                            eligible : BOOLEAN])
    /\ desk \in [Analysts -> [pc : {"away", "weigh", "withhold", "label"},
                              row : 0 .. Len(assessments)]]
    /\ pass.pc \in {"none", "derive"}
    /\ DOMAIN pass.verdicts \subseteq featured
    /\ torn \subseteq Keys
    /\ abandoned \in 0 .. MaxAbandoned

On(k) == {i \in DOMAIN assessments : Key[assessments[i].finding] = k}

DecidedOn(k) == {i \in On(k) : assessments[i].eligible /\ Decided(assessments[i])}

Settled(k) == k \notin torn /\ AtDesk(k) = {}

(* A finding carries a manual label when, and only when, its last decided
   assessment is to be trained on, and the label says what that one says:
   neither derivation, nor an abstention, nor an earlier analyst's write gets
   in the way, unless two commands were at the finding together or one died. *)
ManualIsLastDecision ==
    \A k \in Keys : Settled(k) =>
        IF DecidedOn(k) = {} THEN labels[k].source # "manual"
        ELSE LET last == assessments[Max(DecidedOn(k))] IN
             /\ ~last.material => labels[k].source = "manual"
             /\ labels[k].source = "manual" =>
                    (labels[k].actionable <=> Outcome(last.disposition) = "true_positive")

(* "A binary material assessment is withheld from classifier training until a
   second, distinct analyst records the same detailed disposition." *)
MaterialTakesTwo ==
    \A k \in Keys : labels[k].source = "manual" /\ Settled(k) =>
        LET last == assessments[Max(DecidedOn(k))] IN
        last.material =>
            \E i \in On(k) : /\ assessments[i].material
                             /\ assessments[i].analyst # last.analyst
                             /\ assessments[i].disposition = last.disposition

(* "Automation-derived falsification labels do not advance that gate": each
   label that counts towards the activation floor is a human's. *)
CountedIsHuman ==
    \A k \in HumanLabels :
        \/ DecidedOn(k) # {}
        \/ \E f \in Findings : Key[f] = k /\ review[f] # "none"

(* Labels catch up with what the stages concluded: a pass that read the verdict
   before the reviewer ruled, or that died, is made good by the next. *)
LabelsCatchUp ==
    <>[]\A f \in featured :
        LET label == Derived(verdict[f], review[f]) IN
        label # None => labels[Key[f]] = label \/ labels[Key[f]].source = "manual"

-----------------------------------------------------------------------------
(* The inductive invariant. *)

(* Another analyst took the same material position on the finding of a row. *)
Seconded(i) ==
    \E j \in On(Key[assessments[i].finding]) :
        /\ assessments[j].material
        /\ assessments[j].analyst # assessments[i].analyst
        /\ assessments[j].disposition = assessments[i].disposition

(* What an analyst's command has found out of its row. *)
Seated(a) ==
    desk[a].pc # "away" =>
        /\ desk[a].row \in DOMAIN assessments
        /\ Decided(Row(a))
        /\ desk[a].pc \in {"weigh", "withhold"} => Row(a).material
        /\ desk[a].pc \in {"withhold", "label"} => Row(a).eligible
        /\ desk[a].pc = "label" /\ Row(a).material => Seconded(desk[a].row)

(* A pass remembers decisions that were taken. *)
PassHonest ==
    \A r \in DOMAIN pass.reviews : \A f \in Findings :
        Repo[f] = r /\ pass.reviews[r][f] # "none" => review[f] # "none"

(* The label is what the last decided assessment makes it. *)
Ruled(k) ==
    IF DecidedOn(k) = {} THEN labels[k].source # "manual"
    ELSE LET last == Max(DecidedOn(k)) IN
         /\ ~assessments[last].material => labels[k].source = "manual"
         /\ labels[k].source = "manual" =>
                /\ labels[k].actionable <=> Outcome(assessments[last].disposition) = "true_positive"
                /\ assessments[last].material => Seconded(last)

(* One command at most is at a finding, with the last assessment of it, and
   when none will write its label, it is as it should be. *)
Undisturbed(k) ==
    k \notin torn =>
        /\ \A a, b \in AtDesk(k) : a = b
        /\ \A a \in AtDesk(k) : \A i \in On(k) : i <= desk[a].row
        /\ (\E a \in AtDesk(k) : Row(a).eligible) \/ Ruled(k)

LabelsInv ==
    /\ TypeOK
    /\ PassHonest
    /\ \A a \in Analysts : Seated(a)
    /\ \A k \in Keys : Undisturbed(k)
    /\ CountedIsHuman
=============================================================================
