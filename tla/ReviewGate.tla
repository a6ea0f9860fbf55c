------------------------------ MODULE ReviewGate ------------------------------
(***************************************************************************)
(* The human review checkpoint and what it lets through: review/,          *)
(* the gated queries of store/db.py, and `finalize' of cli.py.             *)
(*                                                                         *)
(* A finding that the pipeline could not resolve, that triage is uncertain *)
(* about, or that was drawn as a sample is held by a request, one row per  *)
(* finding that later checkpoints refresh.  Reviewers append decisions to  *)
(* it at any time, and the last one is in force.  `finalize' runs the      *)
(* checkpoint again, stops while a request is undecided, and quantifies    *)
(* one finding per issue of those that are let through.                    *)
(*                                                                         *)
(* Falsification, seen as a whole, and normalization may run again in      *)
(* between.  At most one pipeline command runs at a time, reviewers beside *)
(* it.                                                                     *)
(***************************************************************************)
EXTENDS Normalization, Sequences

CONSTANTS
    Uncertain,     \* findings below the triage confidence threshold
    Suppressed,    \* findings that triage suppressed
    SampleSize,    \* [review].low_rank_sample_size
    MaxCorrected,  \* bound: decisions that correct an earlier one
    MaxAborts      \* bound: commands that raise or die

ASSUME ReviewAssumption ==
    /\ Uncertain \subseteq Findings
    /\ Suppressed \subseteq Findings
    /\ {SampleSize, MaxCorrected, MaxAborts} \subseteq Nat

VARIABLES
    trace,      \* the verdict of a finding's falsification_iteration rows
    request,    \* the stage of a finding's review_request, or "none"
    decisions,  \* the dispositions of its review_decision rows, in id order
    raising,    \* requests the running checkpoint still has to upsert
    aborts

gateVars == <<trace, request, decisions, raising, aborts>>
normVars == <<status, severity, debate, heads, draft>>
vars     == <<normVars, pc, gateVars>>

StageNames   == {"falsify", "normalize", "triage", "triage-sample"}
Dispositions == {"confirm", "dismiss"}

Nothing == [f \in Findings |-> "none"]

-----------------------------------------------------------------------------
(* The queries *)

Deferred == {f \in Findings : status[f] = "deferred"}

(* pending_falsification_findings *)
Queue == {f \in Findings : status[f] \in NoVerdict /\ trace[f] = "none"}

Effective(f) == decisions[f][Len(decisions[f])]  \* latest_review_decision

(* Mutant of Open: a dismissed request is not settled. *)
OpenUnlessReleased ==
    {f \in Findings : /\ request[f] # "none"
                      /\ decisions[f] = <<>> \/ Effective(f) = "dismiss"}

(* open_review_requests *)
Open == {f \in Findings : request[f] # "none" /\ decisions[f] = <<>>}

ReleasedOnce(f) ==  \* mutant: any decision that ever released the finding
    \E i \in 1 .. Len(decisions[f]) : decisions[f][i] = "confirm"

Released(f) == decisions[f] # <<>> /\ Effective(f) = "confirm"

(* list_analyzable_findings *)
Analyzable ==
    {f \in Findings : /\ status[f] \notin {"killed", "deferred"}
                      /\ request[f] = "none" \/ Released(f)}

(* list_countable_findings: one of each issue among the analyzable ones. *)
Countable == Heads(Analyzable)

(* _unresolved_request: the stage is inferred from the trace there is. *)
UnresolvedStage(f) ==
    IF trace[f] = "none" /\ debate[Region[f]] = "unresolved"
    THEN "normalize" ELSE "falsify"

(* Why the checkpoint holds a finding, samples aside. *)
Held(f) ==
    CASE status[f] = "unresolved" -> UnresolvedStage(f)
      [] status[f] # "unresolved" /\ f \in Uncertain -> "triage"
      [] OTHER -> "none"

(* The suppressed findings that may be drawn for quality control. *)
Samplable ==
    {f \in Suppressed : /\ status[f] = "confirmed"
                        /\ Held(f) = "none"
                        /\ request[f] = "none"}

(* The samples a checkpoint may draw: the order is a hash of the run, and a
   run that has drawn one before draws none. *)
IsSample(S) ==
    \/ S = {}
    \/ S \subseteq Samplable /\ Cardinality(S) = SampleSize
    \/ S = Samplable /\ Cardinality(S) < SampleSize

-----------------------------------------------------------------------------
Init ==
    /\ NormalizeInit
    /\ trace = Nothing
    /\ request = Nothing
    /\ decisions = [f \in Findings |-> <<>>]
    /\ raising = Nothing
    /\ aborts = 0

(* The falsify stage gives the group of f a status; an execution that fails or
   dies is the subject of Falsification. *)
Mark(f, outcome) ==
    /\ pc = "idle"
    /\ f \in Heads(Queue)
    /\ status' = [g \in Findings |->
                    IF g \in MatchGroup(Queue, f) THEN outcome ELSE status[g]]
    /\ UNCHANGED <<severity, debate, pc, heads, draft, request, decisions, raising,
                   aborts>>

(* challenge: only the representative gets iteration rows. *)
Settle(f, outcome) == Mark(f, outcome) /\ trace' = [trace EXCEPT ![f] = outcome]

Defer(f) == Mark(f, "deferred") /\ UNCHANGED trace

(* raise_review_requests, what it reads.  `finalize' draws no sample and looks
   for deferred findings first; `run' goes by what its falsify stage left. *)
StartCheckpoint(mode) ==
    /\ pc = "idle"
    /\ mode = "finalize" => Deferred = {}
    /\ \E sample \in SUBSET Suppressed :
        /\ IF mode = "raise" THEN IsSample(sample) ELSE sample = {}
        /\ raising' = [f \in Findings |->
                        IF f \in sample THEN "triage-sample" ELSE Held(f)]
    /\ pc' = mode
    /\ UNCHANGED <<normVars, trace, request, decisions, aborts>>

(* upsert_review_request: decisions stay attached to the request. *)
Upsert(f) ==
    /\ pc \in {"raise", "finalize"}
    /\ raising[f] # "none"
    /\ request' = [request EXCEPT ![f] = raising[f]]
    /\ raising' = [raising EXCEPT ![f] = "none"]
    /\ UNCHANGED <<normVars, pc, trace, decisions, aborts>>

EndRaise ==
    /\ pc = "raise"
    /\ raising = Nothing
    /\ pc' = "idle"
    /\ UNCHANGED <<normVars, gateVars>>

(* finalize: an open request blocks it. *)
CheckOpen ==
    /\ pc = "finalize"
    /\ raising = Nothing
    /\ pc' = IF Open = {} THEN "quantify" ELSE "idle"
    /\ UNCHANGED <<normVars, gateVars>>

(* build_scenarios and the reports read Countable. *)
Quantify ==
    /\ pc = "quantify"
    /\ pc' = "idle"
    /\ UNCHANGED <<normVars, gateVars>>

Corrections == UNION {{f} \X (2 .. Len(decisions[f])) : f \in Findings}

(* record_decision: on an open request, or again on a decided one. *)
Decide(f, disposition) ==
    /\ request[f] # "none"
    /\ decisions[f] = <<>> \/ Cardinality(Corrections) < MaxCorrected
    /\ decisions' = [decisions EXCEPT ![f] = Append(@, disposition)]
    /\ UNCHANGED <<normVars, pc, trace, request, raising, aborts>>

(* The running command raises or dies. *)
Abort ==
    /\ pc # "idle"
    /\ aborts < MaxAborts
    /\ aborts' = aborts + 1
    /\ pc' = "idle"
    /\ heads' = {}
    /\ draft' = {}
    /\ raising' = Nothing
    /\ UNCHANGED <<status, severity, debate, trace, request, decisions>>

Falsify == \E f \in Findings, outcome \in Statuses \ {"deferred"} : Settle(f, outcome)

Step ==
    \/ NormalizeStep /\ UNCHANGED gateVars
    \/ \E f \in Findings : Upsert(f)
    \/ EndRaise
    \/ CheckOpen
    \/ Quantify

Next ==
    \/ Falsify
    \/ \E f \in Findings : Defer(f)
    \/ StartNormalize /\ UNCHANGED gateVars
    \/ StartCheckpoint("raise")
    \/ StartCheckpoint("finalize")
    \/ Step
    \/ \E f \in Findings, disposition \in Dispositions : Decide(f, disposition)
    \/ Abort

Spec == Init /\ [][Next]_vars

(* A started command runs, and the operator does what the blocked finalize
   prints: works off deferred findings, decides open requests, tries again. *)
FairSpec ==
    /\ Spec
    /\ WF_vars(Step)
    /\ SF_vars(Deferred # {} /\ Falsify)
    /\ SF_vars(StartCheckpoint("finalize"))
    /\ \A f \in Findings :
        WF_vars(f \in Open /\ \E disposition \in Dispositions : Decide(f, disposition))

-----------------------------------------------------------------------------
TypeOK ==
    /\ status \in [Findings -> Statuses]
    /\ severity \in [Findings -> Severities]
    /\ debate \in [Regions -> DebateOutcomes]
    /\ pc \in {"idle", "normalize", "raise", "finalize", "quantify"}
    /\ heads \subseteq Findings
    /\ draft \subseteq [finding : Findings, status : Statuses, severity : Severities]
    /\ trace \in [Findings -> {"none"} \cup (Statuses \ {"deferred"})]
    /\ request \in [Findings -> {"none"} \cup StageNames]
    /\ decisions \in [Findings -> Seq(Dispositions)]
    /\ raising \in [Findings -> {"none"} \cup StageNames]
    /\ aborts \in Nat

(* A severity of f that some source asserted of its issue (the cap of
   adjudicate), and above f's own only with a licence (_license). *)
JustifiedAt(f, rank) ==
    /\ \E g \in MatchGroup(Findings, f) : rank <= Asserted[g]
    /\ rank > Asserted[f] =>
          \/ Independent(MatchGroup(Findings, f))
          \/ \E g \in MatchGroup(Findings, f) : trace[g] = "confirmed"

(* However often normalization runs, and however its groups change as findings
   are killed in between, no finding ends up more severe than what some source
   asserted of its issue, and none above its own severity without licence:
   independent producers reported the issue, or falsification confirmed it. *)
SeverityJustified == \A f \in Findings : JustifiedAt(f, severity[f])

(* What finalize quantifies, whatever reviewers decide between its check and
   its reading: an unresolved finding, or one that triage is uncertain about,
   is among it only if the reviewer's last word released it. *)
QuantifiedWasReleased ==
    pc = "quantify" =>
        \A f \in Countable : status[f] = "unresolved" \/ f \in Uncertain =>
            decisions[f] # <<>> /\ Effective(f) = "confirm"

(* The gate opens: an operator who does what the blocked finalize prints gets
   to the quantification, again and again. *)
FinalizeEnds == []<>(pc = "quantify")

-----------------------------------------------------------------------------
(* The inductive invariants. *)

(* Behind SeverityJustified: a confirmed finding, and the resolution about to be
   persisted, still have what they rest on, and what speaks for a group in
   normalization is alive. *)
ConfirmedOf(f) == \E g \in MatchGroup(Findings, f) : trace[g] = "confirmed"

SeverityInv ==
    /\ SeverityJustified
    /\ \A f \in Findings : status[f] = "confirmed" => ConfirmedOf(f)
    /\ \A r \in draft : JustifiedAt(r.finding, r.severity)
    /\ \A r \in draft : r.status = "confirmed" => ConfirmedOf(r.finding)
    /\ \A r \in draft : r.status # "killed"
    /\ pc = "normalize" => heads \subseteq Live

(* Behind QuantifiedWasReleased: while finalize holds the store, what the
   checkpoint holds has its request, or is still to get it. *)
GateInv ==
    /\ pc \in {"finalize", "quantify"} =>
          \A f \in Findings : status[f] = "unresolved" \/ f \in Uncertain =>
              request[f] # "none" \/ raising[f] # "none"
    /\ pc = "quantify" => raising = Nothing
=============================================================================
