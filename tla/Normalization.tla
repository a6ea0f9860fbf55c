---------------------------- MODULE Normalization ----------------------------
(***************************************************************************)
(* The normalize stage: normalize/adjudicate.py.                           *)
(*                                                                         *)
(* The findings that were not killed are grouped by issue.  Where the      *)
(* members of a group disagree on severity, the group needs a licence to   *)
(* be debated: evidence from two producers, or a confirmed member.  What   *)
(* the debate agrees on, capped, becomes the severity of the member that   *)
(* speaks for the group; without licence or agreement that member becomes  *)
(* unresolved.  The other members keep their rows as they are.             *)
(*                                                                         *)
(* One pipeline command runs at a time, so the rows read at the start are  *)
(* still the rows when a group is written.  The debate and the finding are *)
(* written in two transactions.                                            *)
(***************************************************************************)
EXTENDS Matching, Integers

CONSTANTS
    Asserted,   \* severity that the source of a finding gave it
    Position,   \* place of a finding by confidence, then id: least speaks first
    Region,     \* the file and lines of a finding
    Source,     \* the tool or lens a finding comes from
    Lenses,     \* the sources that are lenses of the one language model
    Severities  \* the ranks of Severity

ASSUME SourceAssumption ==
    /\ Severities \subseteq Nat
    /\ Asserted \in [Findings -> Severities]
    /\ Position \in [Findings -> Nat]
    /\ \A f, g \in Findings : Position[f] = Position[g] => f = g
    /\ DOMAIN Region = Findings
    /\ DOMAIN Source = Findings

VARIABLES
    status,    \* finding.falsification_status
    severity,  \* finding.severity, as its rank
    debate,    \* outcome of the last adjudication_debate about a region
    pc,        \* what the running command is at
    heads,     \* groups to adjudicate, by the members that speak for them
    draft      \* the resolution about to be persisted: a set of one, or none

NoVerdict == {"unresolved", "deferred"}
Statuses  == NoVerdict \cup {"confirmed", "killed"}

Regions == {Region[f] : f \in Findings}

Live == {f \in Findings : status[f] # "killed"}

(* MatchGroup.representative *)
Speaker(S) == CHOOSE f \in S : \A g \in S : Position[f] <= Position[g]

Heads(S) == {f \in S : f = Speaker(MatchGroup(S, f))}

(* has_independent_corroboration: two tools, or a tool and a lens. *)
Independent(S) ==
    LET sources == {Source[f] : f \in S}
        tools   == sources \ Lenses
    IN  \/ Cardinality(tools) >= 2
        \/ tools # {} /\ sources \cap Lenses # {}

LicensedByCount(S) ==  \* mutant: two lenses of one model corroborate each other
    \/ Cardinality({Source[f] : f \in S}) >= 2
    \/ \E f \in S : status[f] = "confirmed"

(* _license *)
Licensed(S) == Independent(S) \/ \E f \in S : status[f] = "confirmed"

(* cap_severity: at most the strongest severity a member carries. *)
Capped(proposed, S) ==
    IF \A f \in S : severity[f] < proposed
    THEN CHOOSE s \in {severity[f] : f \in S} : \A f \in S : severity[f] <= s
    ELSE proposed

-----------------------------------------------------------------------------
(* AdjudicationDebate.outcome, "none" when the region has no row *)
DebateOutcomes == {"none", "consensus", "unresolved"}

NormalizeInit ==
    /\ status = [f \in Findings |-> "unresolved"]
    /\ severity = Asserted
    /\ debate = [r \in Regions |-> "none"]
    /\ pc = "idle"
    /\ heads = {}
    /\ draft = {}

(* adjudicate_repo: list_findings, then find_matches on the live ones. *)
StartNormalize ==
    /\ pc = "idle"
    /\ pc' = "normalize"
    /\ heads' = Heads(Live)
    /\ UNCHANGED <<status, severity, debate, draft>>

Resolve(f, newStatus, newSeverity) ==
    draft' = {[finding |-> f, status |-> newStatus, severity |-> newSeverity]}

(* _merge of a group whose members agree writes back what it read. *)
Agreed(f) == Resolve(f, status[f], severity[f]) /\ UNCHANGED debate

(* insert_adjudication_debate: a region has one row, which is refreshed. *)
RecordDebate(f, outcome) == debate' = [debate EXCEPT ![Region[f]] = outcome]

(* A debate that ends in a consensus the model is confident of. *)
Consensus(f, group) ==
    /\ Licensed(group)
    /\ \E proposed \in Severities : Resolve(f, status[f], Capped(proposed, group))
    /\ RecordDebate(f, "consensus")

(* _merge_unresolved: without a licence always, with one if the debate fails. *)
NoConsensus(f) ==
    /\ Resolve(f, "unresolved", severity[f])
    /\ RecordDebate(f, "unresolved")

(* adjudicate, for the group that f speaks for. *)
Adjudicate(f) ==
    LET group    == MatchGroup(Live, f)
        conflict == \E a, b \in group : severity[a] # severity[b]
    IN  /\ pc = "normalize"
        /\ draft = {}
        /\ f \in heads
        /\ \/ ~conflict /\ Agreed(f)
           \/ conflict /\ Consensus(f, group)
           \/ conflict /\ NoConsensus(f)
        /\ heads' = heads \ {f}
        /\ UNCHANGED <<status, severity, pc>>

(* apply_adjudication *)
Persist ==
    /\ pc = "normalize"
    /\ \E r \in draft :
        /\ status' = [status EXCEPT ![r.finding] = r.status]
        /\ severity' = [severity EXCEPT ![r.finding] = r.severity]
    /\ draft' = {}
    /\ UNCHANGED <<debate, pc, heads>>

EndNormalize ==
    /\ pc = "normalize"
    /\ heads = {}
    /\ draft = {}
    /\ pc' = "idle"
    /\ UNCHANGED <<status, severity, debate, heads, draft>>

NormalizeStep ==
    \/ \E f \in Findings : Adjudicate(f)
    \/ Persist
    \/ EndNormalize
=============================================================================
