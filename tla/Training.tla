------------------------------- MODULE Training -------------------------------
(***************************************************************************)
(* What the triage classifier is trained on and measured against:          *)
(* triage/families.py, triage/training.py, triage/priors.py and the split  *)
(* in triage/classifier.py.  Labels are rows of triage_label; the          *)
(* statistical model itself is numerical code and is not modelled.         *)
(***************************************************************************)
EXTENDS Integers, FiniteSets, FiniteSetsExt

CONSTANTS
    Repos,
    Family,       \* evaluation_family_overrides, an engagement by default
    MinFamilies,  \* MIN_GROUPED_ENGAGEMENTS
    MinHoldout,   \* [triage].min_real_labels_for_holdout_eval
    Cutoff        \* [triage].synthetic_cutoff_labels

HumanSources == {"manual", "derived_review"}

Priority(source) ==
    CASE source = "manual" -> 0
      [] source = "derived_review" -> 1
      [] source = "derived_falsify" -> 2

Identity(label) == <<Family[label.repo], label.rule, label.print>>

(* family_distinct_labels raises when two labels of one identity differ. *)
Contradictory(labels) ==
    \E l, m \in labels : Identity(l) = Identity(m) /\ l.actionable # m.actionable

EveryLabel(labels) == labels  \* mutant: related repositories count twice

(* family_distinct_labels: of each identity, the label of the best source. *)
FamilyDistinct(labels) ==
    {CHOOSE l \in {k \in labels : Identity(k) = i} :
        \A m \in {k \in labels : Identity(k) = i} : Priority(l.source) <= Priority(m.source)
        : i \in {Identity(k) : k \in labels}}

(* compute_rule_prior, without the sourced global prior it is added to. *)
RulePrior(labels, rule) ==
    LET counted == FamilyDistinct({l \in labels : l.rule = rule}) IN
    [actionable |-> Cardinality({l \in counted : l.actionable}),
     total |-> Cardinality(counted)]

(* load_real_examples, for the labels that a feature row was joined to. *)
Examples(joined) ==
    {[repo |-> l.repo, rule |-> l.rule, print |-> l.print,
      actionable |-> l.actionable, human |-> l.source \in HumanSources]
        : l \in FamilyDistinct(joined)}

(* synthetic_share: all, part or none of the training mass. *)
SyntheticShare(n) ==
    CASE n >= Cutoff -> "none"
      [] n < Cutoff /\ n > 0 -> "shrinking"
      [] OTHER -> "all"

-----------------------------------------------------------------------------
(* _holdout_split *)

Both(rows) == {r.actionable : r \in rows} = BOOLEAN

Quarter(n) == (n + 3) \div 4

(* Labels of one family are never separated: whole families are held out. *)
Grouped(eligible) ==
    LET families == {Family[r.repo] : r \in eligible}
        held == {{r \in eligible : Family[r.repo] \in chosen}
                    : chosen \in kSubset(Quarter(Cardinality(families)), families)} IN
    {test \in held : Both(test) /\ Both(eligible \ test)}

(* A stratified quarter: each class gives its share, rounded up or down.  With
   a single member of a class the library refuses, and triage raises. *)
Stratified(eligible) ==
    LET n == Cardinality(eligible)
        k == Quarter(n)
        Share(rows, a) == Cardinality({r \in rows : r.actionable = a}) IN
    IF \E a \in BOOLEAN : Share(eligible, a) < 2 THEN {}
    ELSE {test \in kSubset(k, eligible) : \A a \in BOOLEAN :
            LET exact == k * Share(eligible, a) IN
            Share(test, a) * n \in exact - n + 1 .. exact + n - 1}

(* What may come of a corpus: twenty grouped splits are drawn, and if none of
   them has both classes on both sides, or the families are too few, rows are.
   An empty set stands for the exception. *)
Splits(rows) ==
    LET eligible == {r \in rows : r.human}
        families == {Family[r.repo] : r \in eligible}
        drawn == Grouped(eligible) IN
    IF MinHoldout = 0 \/ Cardinality(eligible) < MinHoldout \/ ~Both(eligible)
    THEN {[basis |-> "synthetic", strategy |-> "synthetic_row_random", test |-> {}]}
    ELSE {[basis |-> "real", strategy |-> "engagement_grouped", test |-> t] :
            t \in IF Cardinality(families) >= MinFamilies THEN drawn ELSE {}}
         \cup {[basis |-> "real", strategy |-> "real_row_random", test |-> t] :
            t \in Stratified(eligible)}

-----------------------------------------------------------------------------
(* A score that is reported as grouped was measured on families of which no
   human label trained the model, and one reported as real on human labels
   only: automation never marks its own work.  (Derived labels of a held-out
   family stay in the training set: only eligible rows are grouped.) *)
SplitIsHonest(rows, split) ==
    /\ split.basis = "real" => split.test # {} /\ \A r \in split.test : r.human
    /\ split.strategy = "engagement_grouped" =>
        /\ Both(split.test) /\ Both({r \in rows : r.human} \ split.test)
        /\ \A r \in split.test, q \in rows \ split.test :
            q.human => Family[q.repo] # Family[r.repo]
=============================================================================
