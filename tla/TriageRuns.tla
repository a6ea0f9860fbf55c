------------------------------ MODULE TriageRuns ------------------------------
(***************************************************************************)
(* triage_repo of triage/classifier.py: the alerts of a SARIF file become  *)
(* findings, feature rows, scores and results, while labels that were made *)
(* on earlier runs train the classifier of the next; and the review packet *)
(* of triage/acquisition.py, which analysts label from.                    *)
(*                                                                         *)
(* A finding is known by its file, line and title, a label by the          *)
(* engagement and the fingerprint of an alert: its rule, place and         *)
(* snippet.  The feature row of a finding, which is overwritten by every   *)
(* run, is all that ties the two together.                                 *)
(*                                                                         *)
(* The derivation of labels is one step here; TriageLabels has its         *)
(* interleavings with analysts.                                            *)
(***************************************************************************)
EXTENDS Training, Acquisition

CONSTANTS
    Terminals,    \* processes that run triage
    Known,        \* alerts, by repository, that were triaged and judged real before
    SarifFiles,   \* sets of alerts [rule, title, place, snippet] a file may hold
    Hash,         \* the order of fingerprints by their digests
    PairsGiven,   \* declared pre/post pairs
    Corpora,      \* samples of training rows, of any provenance
    Limit, PerFamily, PerRepo, RuleCap,  \* options of the acquisition plan
    MaxRuns,      \* bound: runs of triage that are started
    MaxOthers     \* bound: verdicts, assessments and acquisition plans together

ASSUME TriageRunsAssumption ==
    /\ {MaxRuns, MaxOthers} \subseteq Nat
    /\ PairsGiven \subseteq Repos \X Repos
    /\ \A rows \in Corpora : IsFiniteSet(rows)

(* A file without results is refused.  The known alerts are findings that runs
   which did not overlap have left, and so of different places. *)
ASSUME AlertsAssumption ==
    /\ {} \notin SarifFiles
    /\ Known \in Seq([repo : Repos, alert : UNION SarifFiles])
    /\ \A i, j \in DOMAIN Known : i # j =>
        \/ Known[i].repo # Known[j].repo
        \/ Known[i].alert.place # Known[j].alert.place
        \/ Known[i].alert.title # Known[j].alert.title

VARIABLES
    (* the store *)
    findings,  \* rows of triage's findings: repository, place, and the first snippet
    outcomes,  \* falsification_status by finding
    features,  \* triage_features by finding
    labelRows, \* triage_label, one per repository and fingerprint
    assessed,  \* findings with a triage_assessment
    priors,    \* rule_prior
    runs,      \* triage_model_run
    scores,    \* triage_score, append-only
    results,   \* triage_result by finding
    (* the commands, and the files they leave *)
    shell,
    plan,      \* the frozen plan: fingerprints by finding
    packet,    \* the rendered packet
    (* history and bounds *)
    rewritten, \* findings whose features were written since the packet
    together,  \* repositories that two runs were at together
    complete,  \* the last run of a repository if it ended, alone
    started, others

store == <<findings, outcomes, features, labelRows, assessed, priors, runs, scores, results>>
papers == <<plan, packet>>
runsVars == <<store, shell, papers, rewritten, together, complete, started, others>>

(* What load_sarif may find in a file. *)
Alerts == UNION SarifFiles

Rules == {a.rule : a \in Alerts}

Put(f, k, v) == [x \in DOMAIN f \cup {k} |-> IF x = k THEN v ELSE f[x]]

(* SarifFinding.fingerprint *)
Fingerprint(a) == <<a.rule, a.place, a.snippet>>

(* The key of _existing_findings_index. *)
Place(a) == <<a.place, a.title>>

Idle == [pc |-> "idle"]

NoRun == [run |-> 0, alerts |-> {}]

FindingOf(r, a) == [repo |-> r, place |-> Place(a), sink |-> a.snippet]

RowOf(r, a) == [repo |-> r, rule |-> a.rule, print |-> Fingerprint(a)]

RunOf(r, corpus, split) ==
    [repo |-> r, real |-> Cardinality(corpus),
     evaluation |-> Cardinality({x \in corpus : x.human}),
     share |-> SyntheticShare(Cardinality(corpus)), strategy |-> split.strategy]

(* Each known alert is the finding of a run of its own. *)
RunsInit ==
    /\ findings = [i \in DOMAIN Known |-> FindingOf(Known[i].repo, Known[i].alert)]
    /\ outcomes = [i \in DOMAIN Known |-> "unresolved"]
    /\ features = [i \in DOMAIN Known |-> RowOf(Known[i].repo, Known[i].alert)]
    /\ labelRows = [k \in {<<Known[i].repo, Fingerprint(Known[i].alert)>> : i \in DOMAIN Known} |->
                    [rule |-> k[2][1], actionable |-> TRUE, source |-> "manual"]]
    /\ assessed = DOMAIN Known
    /\ priors = [rule \in {Known[i].alert.rule : i \in DOMAIN Known} |->
                    [actionable |-> 0, total |-> 0]]
    /\ runs = [i \in DOMAIN Known |->
                 RunOf(Known[i].repo, {}, [strategy |-> "synthetic_row_random"])]
    /\ scores = {[finding |-> i, run |-> i, alert |-> Known[i].alert] : i \in DOMAIN Known}
    /\ results = [i \in DOMAIN Known |-> [run |-> i, alert |-> Known[i].alert]]
    /\ shell = [t \in Terminals |-> Idle]
    /\ plan = <<>> /\ packet = <<>>
    /\ rewritten = {} /\ together = {}
    /\ complete = [r \in Repos |-> NoRun]
    /\ started = 0 /\ others = 0

Labels == {[repo |-> k[1], rule |-> labelRows[k].rule, print |-> k[2],
            actionable |-> labelRows[k].actionable, source |-> labelRows[k].source]
              : k \in DOMAIN labelRows}

(* The join on engagement and fingerprint. *)
Joined(label) ==
    {f \in DOMAIN features : features[f].repo = label.repo /\ features[f].print = label.print}

-----------------------------------------------------------------------------
(* triage_repo *)

At(r) == {t \in Terminals : shell[t].pc # "idle" /\ shell[t].repo = r}

(* The SARIF file is loaded; one without results ends the command. *)
Begin(t, r, sarif) ==
    /\ shell[t].pc = "idle"
    /\ started < MaxRuns
    /\ started' = started + 1
    /\ shell' = [shell EXCEPT ![t] =
                  [pc |-> "derive", repo |-> r, alerts |-> sarif, rules |-> {a.rule : a \in sarif}]]
    /\ together' = together \cup {q \in {r} : At(r) # {}}
    /\ complete' = [complete EXCEPT ![r] = NoRun]
    /\ UNCHANGED <<store, papers, rewritten, others>>

(* derive_labels: every finding with features and a verdict, in order, a
   manual label excepted. *)
Relabelled ==
    LET ruled == {f \in DOMAIN features : outcomes[f] # "unresolved"}
        KeyOf(f) == <<features[f].repo, features[f].print>> IN
    [k \in DOMAIN labelRows \cup {KeyOf(f) : f \in ruled} |->
        IF k \in DOMAIN labelRows /\ labelRows[k].source = "manual" THEN labelRows[k]
        ELSE IF \E f \in ruled : KeyOf(f) = k
             THEN LET last == Max({f \in ruled : KeyOf(f) = k}) IN
                  [rule |-> features[last].rule, actionable |-> outcomes[last] = "confirmed",
                   source |-> "derived_falsify"]
             ELSE labelRows[k]]

DeriveLabels(t) ==
    /\ shell[t].pc = "derive"
    /\ labelRows' = Relabelled
    /\ shell' = [shell EXCEPT ![t].pc = "priors"]
    /\ UNCHANGED <<findings, outcomes, features, assessed, priors, runs, scores, results,
                   papers, rewritten, together, complete, started, others>>

LabelsOf(rule) == {l \in Labels : l.rule = rule}

(* refresh_rule_priors, rule by rule. *)
RefreshPrior(t, rule) ==
    /\ shell[t].pc = "priors"
    /\ rule \in shell[t].rules
    /\ ~Contradictory(LabelsOf(rule))
    /\ priors' = Put(priors, rule, RulePrior(Labels, rule))
    /\ shell' = [shell EXCEPT ![t].rules = @ \ {rule}]
    /\ UNCHANGED <<findings, outcomes, features, labelRows, assessed, runs, scores, results,
                   papers, rewritten, together, complete, started, others>>

Corpus == {l \in Labels : Joined(l) # {}}

(* What historical_fp_rate and then assemble_training_data find. *)
Disputed(t) == Contradictory(Corpus) \/ \E a \in shell[t].alerts : Contradictory(LabelsOf(a.rule))

(* assemble_training_data, and the fit. *)
Fit(t) ==
    /\ shell[t].pc = "priors" /\ shell[t].rules = {}
    /\ ~Disputed(t)
    /\ \E split \in Splits(Examples(Corpus)) :
        shell' = [shell EXCEPT ![t] =
                   [pc |-> "fitted", repo |-> @.repo, alerts |-> @.alerts,
                    corpus |-> Examples(Corpus), split |-> split]]
    /\ UNCHANGED <<store, papers, rewritten, together, complete, started, others>>

(* Contradictory labels of related repositories fail closed; so does a corpus
   that cannot be split; and where the synthetic teacher is retired, the
   library may find the corpus too thin to fit. *)
Refuse(t) ==
    /\ \/ /\ shell[t].pc = "priors"
          /\ \E rule \in shell[t].rules : Contradictory(LabelsOf(rule))
       \/ /\ shell[t].pc = "priors" /\ shell[t].rules = {}
          /\ \/ Disputed(t)
             \/ Splits(Examples(Corpus)) = {}
             \/ SyntheticShare(Cardinality(Examples(Corpus))) = "none"
    /\ shell' = [shell EXCEPT ![t] = Idle]
    /\ UNCHANGED <<store, papers, rewritten, together, complete, started, others>>

(* insert_triage_model_run *)
RecordRun(t) ==
    /\ shell[t].pc = "fitted"
    /\ runs' = Append(runs, RunOf(shell[t].repo, shell[t].corpus, shell[t].split))
    /\ shell' = [shell EXCEPT ![t] = [pc |-> "index", repo |-> @.repo, alerts |-> @.alerts,
                                    all |-> @.alerts, run |-> Len(runs) + 1]]
    /\ UNCHANGED <<findings, outcomes, features, labelRows, assessed, priors, scores, results,
                   papers, rewritten, together, complete, started, others>>

(* _existing_findings_index, read once. *)
Existing(r) ==
    LET own == {f \in DOMAIN findings : findings[f].repo = r} IN
    [p \in {findings[f].place : f \in own} |-> Max({f \in own : findings[f].place = p})]

ReadIndex(t) ==
    /\ shell[t].pc = "index"
    /\ shell' = [shell EXCEPT ![t] =
                  [pc |-> "next", repo |-> @.repo, run |-> @.run, alerts |-> @.alerts,
                   all |-> @.all, alert |-> CHOOSE a \in @.all : TRUE, index |-> Existing(@.repo)]]
    /\ UNCHANGED <<store, papers, rewritten, together, complete, started, others>>

(* _persist_finding, for the alerts in the order of their scores. *)
PersistFinding(t, a) ==
    /\ shell[t].pc = "next"
    /\ a \in shell[t].alerts
    /\ LET known == Place(a) \in DOMAIN shell[t].index
           f == IF known THEN shell[t].index[Place(a)] ELSE Len(findings) + 1 IN
       /\ IF known THEN UNCHANGED <<findings, outcomes>>
          ELSE /\ findings' = Append(findings, FindingOf(shell[t].repo, a))
               /\ outcomes' = Append(outcomes, "unresolved")
       /\ shell' = [shell EXCEPT ![t].pc = "features", ![t].alert = a,
                               ![t].alerts = @ \ {a}, ![t].index = Put(@, Place(a), f)]
    /\ UNCHANGED <<features, labelRows, assessed, priors, runs, scores, results, papers,
                   rewritten, together, complete, started, others>>

Current(t) == shell[t].index[Place(shell[t].alert)]

FeatureRow(t) == RowOf(shell[t].repo, shell[t].alert)

FeaturesOnce(t) ==  \* mutant: a row that is there is kept
    IF Current(t) \in DOMAIN features THEN features
    ELSE Put(features, Current(t), FeatureRow(t))

(* upsert_triage_features *)
FeaturesWritten(t) == Put(features, Current(t), FeatureRow(t))

WriteFeatures(t) ==
    /\ shell[t].pc = "features"
    /\ features' = FeaturesWritten(t)
    /\ rewritten' = rewritten \cup {Current(t)}
    /\ shell' = [shell EXCEPT ![t].pc = "result"]
    /\ UNCHANGED <<findings, outcomes, labelRows, assessed, priors, runs, scores, results,
                   papers, together, complete, started, others>>

(* upsert_triage_result: a score is appended and the result replaced. *)
WriteResult(t) ==
    /\ shell[t].pc = "result"
    /\ scores' = scores \cup {[finding |-> Current(t), run |-> shell[t].run,
                               alert |-> shell[t].alert]}
    /\ results' = Put(results, Current(t), [run |-> shell[t].run, alert |-> shell[t].alert])
    /\ shell' = [shell EXCEPT ![t].pc = "next"]
    /\ UNCHANGED <<findings, outcomes, features, labelRows, assessed, priors, runs,
                   papers, rewritten, together, complete, started, others>>

End(t) ==
    /\ shell[t].pc = "next" /\ shell[t].alerts = {}
    /\ shell' = [shell EXCEPT ![t] = Idle]
    /\ complete' = [complete EXCEPT ![shell[t].repo] =
                      IF At(shell[t].repo) = {t}
                      THEN [run |-> shell[t].run, alerts |-> shell[t].all]
                      ELSE NoRun]
    /\ UNCHANGED <<store, papers, rewritten, together, started, others>>

(* The command dies. *)
Die(t) ==
    /\ shell[t].pc # "idle"
    /\ shell' = [shell EXCEPT ![t] = Idle]
    /\ UNCHANGED <<store, papers, rewritten, together, complete, started, others>>

-----------------------------------------------------------------------------
(* What others do with the findings *)

Rule(f) ==
    /\ others < MaxOthers
    /\ outcomes[f] = "unresolved"
    /\ \E ruling \in {"confirmed", "killed"} : outcomes' = [outcomes EXCEPT ![f] = ruling]
    /\ others' = others + 1
    /\ UNCHANGED <<findings, features, labelRows, assessed, priors, runs, scores, results,
                   shell, papers, rewritten, together, complete, started>>

(* assess_finding with a decided disposition that is not material: the label
   goes to the fingerprint that the feature row has now. *)
Judge(f) ==
    /\ others < MaxOthers
    /\ f \in DOMAIN features
    /\ assessed' = assessed \cup {f}
    /\ \E actionable \in BOOLEAN :
        labelRows' = Put(labelRows, <<features[f].repo, features[f].print>>,
                      [rule |-> features[f].rule, actionable |-> actionable,
                       source |-> "manual"])
    /\ others' = others + 1
    /\ UNCHANGED <<findings, outcomes, features, priors, runs, scores, results,
                   shell, papers, rewritten, together, complete, started>>

(* The findings a human has not judged, of rules that are short of labels. *)
JudgedLabels == {l \in Labels : l.source \in HumanSources}

LabelledPerRule ==
    [rule \in Rules |-> Cardinality({l \in JudgedLabels : l.rule = rule})]

Candidates ==
    {[finding |-> f, repo |-> features[f].repo, producer |-> "sast", rule |-> features[f].rule,
      file |-> features[f].print[2], line |-> 1, sink |-> findings[f].sink,
      hash |-> Hash[features[f].print]]
        : f \in {g \in DOMAIN features :
                    /\ g \notin assessed
                    /\ \A l \in JudgedLabels : g \notin Joined(l)
                    /\ LabelledPerRule[features[g].rule] <= RuleCap}}

(* triage-plan freezes a plan to a file. *)
Draw ==
    /\ others < MaxOthers
    /\ LET drawn == Plan(Candidates, LabelledPerRule, PairsGiven, FALSE,
                         Limit, PerFamily, PerRepo).entries IN
       plan' = [f \in {c.finding : c \in Range(drawn)} |-> features[f].print]
    /\ others' = others + 1
    /\ UNCHANGED <<store, shell, packet, rewritten, together, complete, started>>

(* A frozen candidate must not differ from stored evidence. *)
Unmoved(frozen) ==
    \A f \in DOMAIN frozen : f \in DOMAIN features /\ features[f].print = frozen[f]

(* render_review_packet *)
Render ==
    /\ Unmoved(plan)
    /\ packet' = plan
    /\ rewritten' = {}
    /\ UNCHANGED <<store, shell, plan, together, complete, started, others>>

-----------------------------------------------------------------------------
Triage(t) ==
    \/ DeriveLabels(t)
    \/ \E rule \in Rules : RefreshPrior(t, rule)
    \/ Fit(t) \/ Refuse(t) \/ RecordRun(t) \/ ReadIndex(t)
    \/ \E a \in Alerts : PersistFinding(t, a)
    \/ WriteFeatures(t) \/ WriteResult(t) \/ End(t)

RunsNext ==
    \/ \E t \in Terminals :
        \/ \E r \in Repos, sarif \in SarifFiles : Begin(t, r, sarif)
        \/ Triage(t)
        \/ Die(t)
    \/ \E f \in DOMAIN findings : Rule(f) \/ Judge(f)
    \/ Draw
    \/ Render

RunsSpec == RunsInit /\ [][RunsNext]_runsVars

-----------------------------------------------------------------------------
(* The rows of finding, triage_features, triage_model_run and triage_result. *)
FindingType == {FindingOf(r, a) : r \in Repos, a \in Alerts}

FeatureType == {RowOf(r, a) : r \in Repos, a \in Alerts}

RunType ==
    [repo : Repos, real : Nat, evaluation : Nat,
     share : {"none", "shrinking", "all"},
     strategy : {"synthetic_row_random", "real_row_random", "engagement_grouped"}]

ResultType == [run : DOMAIN runs, alert : Alerts]

LabelRowType ==
    [rule : Rules, actionable : BOOLEAN, source : {"manual", "derived_falsify"}]

Places == {Place(a) : a \in Alerts}

Working == {"next", "features", "result"}

(* What a terminal has in memory, by the step it is at; runIds and ids are those
   of the rows there are. *)
DeriveSeat ==
    [pc : {"derive", "priors"}, repo : Repos, alerts : SarifFiles, rules : SUBSET Rules]

FittedSeat(d) ==
    /\ d.pc = "fitted" /\ d.repo \in Repos /\ d.alerts \in SarifFiles
    /\ IsFiniteSet(d.corpus)
    /\ d.split.strategy \in {"synthetic_row_random", "real_row_random", "engagement_grouped"}

IndexSeat(runIds) ==
    [pc : {"index"}, repo : Repos, alerts : SarifFiles, all : SarifFiles, run : runIds]

Indexes(ids) == UNION {[P -> ids] : P \in SUBSET Places}

WorkSeat(runIds, ids) ==
    [pc : Working, repo : Repos, run : runIds, alerts : SUBSET Alerts, all : SarifFiles,
     alert : Alerts, index : Indexes(ids)]

SeatTyped(d, runIds, ids) ==
    \/ d = Idle \/ d \in DeriveSeat \/ FittedSeat(d)
    \/ d \in IndexSeat(runIds) \/ d \in WorkSeat(runIds, ids)

RunsTypeOK ==
    /\ findings \in Seq(FindingType)
    /\ outcomes \in Seq({"unresolved", "confirmed", "killed"}) /\ Len(outcomes) = Len(findings)
    /\ DOMAIN results \subseteq DOMAIN features
    /\ DOMAIN features \subseteq DOMAIN findings
    /\ \A f \in DOMAIN features : features[f] \in FeatureType
    /\ runs \in Seq(RunType)
    /\ \A f \in DOMAIN results : results[f] \in ResultType
    /\ assessed \subseteq DOMAIN features
    /\ DOMAIN labelRows \subseteq Repos \X {Fingerprint(a) : a \in Alerts}
    /\ IsFiniteSet(DOMAIN labelRows)
    /\ \A k \in DOMAIN labelRows : labelRows[k] \in LabelRowType
    /\ scores \subseteq [finding : DOMAIN features, run : DOMAIN runs, alert : Alerts]
    /\ DOMAIN shell = Terminals
    /\ \A t \in Terminals : SeatTyped(shell[t], DOMAIN runs, DOMAIN findings)
    /\ DOMAIN complete = Repos
    /\ DOMAIN packet \subseteq DOMAIN features

SamePlace(a, b) == a.place = b.place /\ a.title = b.title

(* Two alerts of a file with one line and title become one finding. *)
Merged(alerts, a) == \E b \in alerts \ {a} : SamePlace(a, b)

(* After a run that was alone with its repository, each alert of the file has
   one finding, whose feature row carries its fingerprint, so that a label on
   it is found again, and whose result is that of the run: whatever was scored,
   labelled, edited or cut short before. *)
ScoredAsScanned ==
    \A r \in Repos \ together : \A a \in complete[r].alerts :
        ~Merged(complete[r].alerts, a) =>
            \E f \in DOMAIN features :
                /\ features[f] = RowOf(r, a)
                /\ results[f] = [run |-> complete[r].run, alert |-> a]
                /\ \A g \in DOMAIN findings \ {f} : features[f].repo = findings[g].repo =>
                        findings[g].place # findings[f].place

(* "Collapse the same labelled finding repeated under related repo identities":
   one that is known by several repositories, or by two findings that
   overlapping runs made of it, trains the classifier once ... *)
TrainsOnce ==
    \A t \in Terminals : shell[t].pc = "fitted" =>
        \A x, y \in shell[t].corpus : x # y => Identity(x) # Identity(y)

(* ... and meets one score of each run when the classifier is calibrated, but
   for alerts that were made one finding and runs that overlapped. *)
MeetsOneScore ==
    \A l \in Labels, i \in DOMAIN runs :
        LET met == {s \in scores : s.run = i /\ s.finding \in Joined(l)} IN
        \/ Cardinality(met) <= 1
        \/ runs[i].repo \in together
        \/ \E s \in met : Merged({q.alert : q \in met}, s.alert)

EvidenceCountsOnce == TrainsOnce /\ MeetsOneScore

(* The score that a classifier is reported with is honest, for every corpus and
   every split that may be drawn from it. *)
SplitsAreHonest ==
    \A rows \in Corpora : \A split \in Splits(rows) : SplitIsHonest(rows, split)

(* What trains and what measures the classifier is counted once, and apart. *)
TrainingIsHonest == SplitsAreHonest /\ EvidenceCountsOnce

(* What a rendered packet shows an analyst is what a label would be about, as
   long as no triage wrote the finding since. *)
PacketIsOfEvidence ==
    \A f \in DOMAIN packet \ rewritten : features[f].print = packet[f]

(* What analysts are asked is fair, and shown as it is. *)
PacketsAreSound == PlansAreFair /\ PacketIsOfEvidence

-----------------------------------------------------------------------------
(* Why they hold.  What is in the store about a finding is about an alert of its
   place, in its repository ... *)
AboutPlace ==
    /\ \A f \in DOMAIN features : \E a \in Alerts :
        features[f] = RowOf(findings[f].repo, a) /\ findings[f].place = Place(a)
    /\ \A s \in scores : /\ runs[s.run].repo = findings[s.finding].repo
                         /\ findings[s.finding].place = Place(s.alert)

(* ... and the index that a run read leads to findings that are still there. *)
IndexLeads(d) ==
    /\ runs[d.run].repo = d.repo
    /\ d.alerts \subseteq d.all
    /\ d.pc # "next" => d.alert \in d.all \ d.alerts /\ Place(d.alert) \in DOMAIN d.index
    /\ \A p \in DOMAIN d.index :
        /\ findings[d.index[p]].repo = d.repo /\ findings[d.index[p]].place = p
    /\ d.pc = "result" => d.index[Place(d.alert)] \in DOMAIN features

IndexesLead ==
    \A t \in Terminals :
        /\ shell[t].pc = "index" =>
            runs[shell[t].run].repo = shell[t].repo /\ shell[t].alerts = shell[t].all
        /\ shell[t].pc \in Working => IndexLeads(shell[t])

(* While no two runs are at a repository together, its findings are of different
   places, the index of the one at work knows them all, and what that run has
   done is in the store; as is what the last complete one has. *)
Scored(r, run, a) ==
    \E f \in DOMAIN results :
        /\ findings[f].repo = r /\ findings[f].place = Place(a)
        /\ features[f] = RowOf(r, a) /\ results[f] = [run |-> run, alert |-> a]

Done(d) == (d.all \ d.alerts) \ (IF d.pc = "next" THEN {} ELSE {d.alert})

KnowsAll(d) ==
    /\ \A f \in DOMAIN findings : findings[f].repo = d.repo => findings[f].place \in DOMAIN d.index
    /\ d.pc = "result" => features[d.index[Place(d.alert)]] = RowOf(d.repo, d.alert)
    /\ \A a \in Done(d) : Merged(d.all, a) \/ Scored(d.repo, d.run, a)

DifferentPlaces(r) ==
    \A f, g \in DOMAIN findings :
        /\ findings[f].repo = r /\ findings[g].repo = r
        /\ findings[f].place = findings[g].place
        => f = g

AloneAt(r) ==
    /\ \A t, u \in At(r) : t = u
    /\ At(r) # {} => complete[r] = NoRun
    /\ DifferentPlaces(r)
    /\ \A t \in At(r) : shell[t].pc \in Working => KnowsAll(shell[t])
    /\ \A a \in complete[r].alerts :
        Merged(complete[r].alerts, a) \/ Scored(r, complete[r].run, a)

RunsInv == AboutPlace /\ IndexesLead /\ \A r \in Repos \ together : AloneAt(r)

(* The titles of a scanner's rules do not change hands from one file to another. *)
OneNamePerRule ==
    \A a, b \in Alerts : a.rule = b.rule => a.title = b.title
=============================================================================
