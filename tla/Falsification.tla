---------------------------- MODULE Falsification ----------------------------
(***************************************************************************)
(* The falsify stage: falsify/challenger.py and the rows it writes.        *)
(*                                                                         *)
(* One invocation of challenge() reads the queue of findings that wait for *)
(* a verdict, groups the ones that describe the same issue, picks one      *)
(* representative per group, selects as many groups as the budget safely   *)
(* pays for, runs the bounded verdict/critique loop on each selected       *)
(* representative, copies the outcome to the other members of its group,   *)
(* and marks every finding of the groups left over as deferred.            *)
(*                                                                         *)
(* Each database write is its own transaction, and the process may die     *)
(* between any two of them; only `status' and `trace' (and the call count  *)
(* of the pipeline) are on disk, every other variable is lost.             *)
(***************************************************************************)
EXTENDS Matching, Integers, Sequences

CONSTANTS
    NoFinding,          \* placeholder: no finding is being challenged
    Triaged,            \* findings with a triage_result row
    Priority,           \* position of a finding in its stream's sort order
    MaxIterations,      \* max(1, [falsify].max_iterations)
    MaxRetries,         \* [llm].max_retries
    MaxFindingsPerRun,  \* [falsify].max_findings_per_run, 0 for no cap
    MinUntriaged,       \* [falsify].min_untriaged_per_run
    MaxCalls,           \* [llm].max_calls_per_pipeline_run, 0 for no ceiling
    SpentBefore,        \* bound: calls a pipeline run may have spent before the stage
    MaxFailures,        \* bound: provider failures and interrupted calls
    MaxCrashes          \* bound: process deaths

ASSUME NoFindingAssumption == NoFinding \notin Findings

ASSUME OrderAssumption ==
    /\ Triaged \subseteq Findings
    /\ Priority \in [Findings -> Nat]
    /\ \A f, g \in Findings : Priority[f] = Priority[g] => f = g

ASSUME BudgetAssumption ==
    /\ MaxIterations \in Nat \ {0}
    /\ MaxRetries \in Nat
    /\ MaxFindingsPerRun \in Nat
    /\ MinUntriaged \in Nat
    /\ MaxCalls \in Nat
    /\ SpentBefore \subseteq 0 .. MaxCalls /\ 0 \in SpentBefore
    /\ MaxFailures \in Nat
    /\ MaxCrashes \in Nat

VARIABLES
    (* the finding and falsification_iteration tables *)
    status,    \* finding.falsification_status
    trace,     \* the iteration rows: a terminal verdict when committed, or "open"
    (* the model_usage table, summed for the active pipeline run *)
    calls,
    (* the running challenge() *)
    pc,        \* where it stands
    todo,      \* representatives selected and not yet taken up
    group,     \* members of each queued representative's match group
    aside,     \* findings beyond the cutoff, still to be marked deferred
    cur,       \* the representative being challenged
    draft,     \* the verdict of the current round
    members,   \* members still to receive the representative's outcome
    (* history and bounds *)
    ruling,    \* the last outcome of a challenge written to each finding
    failures,
    crashes

vars == <<status, trace, calls, pc, todo, group, aside, cur, draft, members,
          ruling, failures, crashes>>

Terminal == {"confirmed", "killed"}
Outcomes == Terminal \cup {"unresolved"}
Statuses == Outcomes \cup {"deferred"}
Rows     == Terminal \cup {"open"}

MinOf(a, b) == IF a <= b THEN a ELSE b

-----------------------------------------------------------------------------
(* The queue *)

(* Mutants of IsPending: the status is not asked, and the deferred are forgotten. *)
IsPendingUnlogged(f) == trace[f] = <<>>
IsPendingFresh(f)    == status[f] = "unresolved" /\ trace[f] = <<>>

(* pending_falsification_findings: unresolved or deferred, and no iteration. *)
IsPending(f) == status[f] \in {"unresolved", "deferred"} /\ trace[f] = <<>>

Pending == {f \in Findings : IsPending(f)}

(* _budget_order: triaged findings first, each stream by its own key. *)
Before(f, g) ==
    \/ f \in Triaged /\ g \notin Triaged
    \/ (f \in Triaged <=> g \in Triaged) /\ Priority[f] < Priority[g]

(* _grouped_queue: the first finding of each group in budget order. *)
Representatives(S) ==
    {f \in S : \A g \in MatchGroup(S, f) \ {f} : Before(f, g)}

-----------------------------------------------------------------------------
(* The budget *)

(* One logical call makes up to MaxRetries + 1 provider calls; a round makes a
   verdict call and a critique call.  This is the envelope reserved per group. *)
Attempts == MaxRetries + 1

RoundCallsUnretried == 2  \* mutant: schedules against the optimistic case

RoundCalls == 2 * Attempts

ReservedCalls == MaxIterations * RoundCalls

Bounded == MaxFindingsPerRun # 0 \/ MaxCalls # 0

(* The smaller of the stage's cap and the groups the remaining calls pay for. *)
SafeBudget(used) ==
    LET capacity == (MaxCalls - used) \div ReservedCalls
    IN  IF MaxCalls = 0 THEN MaxFindingsPerRun
        ELSE IF MaxFindingsPerRun = 0 THEN capacity
        ELSE MinOf(MaxFindingsPerRun, capacity)

(* P is the first k of S in budget order. *)
IsPrefix(P, S, k) ==
    /\ P \subseteq S
    /\ Cardinality(P) = MinOf(k, Cardinality(S))
    /\ \A f \in P, g \in S \ P : Before(f, g)

(* _budget_partition: a budget of two or more keeps slots for untriaged
   findings; slots that the triaged stream cannot fill go to them too. *)
IsSelection(chosen, reps, budget) ==
    LET triaged   == reps \cap Triaged
        untriaged == reps \ Triaged
        reserve   == MinOf(MinOf(MinUntriaged, Cardinality(untriaged)), budget - 1)
    IN  IF budget < 2 \/ MinUntriaged = 0 \/ triaged = {} \/ untriaged = {}
        THEN IsPrefix(chosen, reps, budget)
        ELSE /\ chosen \subseteq reps
             /\ IsPrefix(chosen \cap Triaged, triaged, budget - reserve)
             /\ IsPrefix(chosen \ Triaged, untriaged,
                         budget - Cardinality(chosen \cap Triaged))

(* The provider calls of one logical call fit under the ceiling. *)
CanSpend(k) == MaxCalls = 0 \/ calls + k <= MaxCalls

Spend(k) == IF MaxCalls = 0 THEN 0 ELSE calls + k

-----------------------------------------------------------------------------
Init ==
    /\ status = [f \in Findings |-> "unresolved"]
    /\ trace = [f \in Findings |-> <<>>]
    /\ calls = 0
    /\ pc = "idle"
    /\ todo = {}
    /\ group = [f \in Findings |-> {}]
    /\ aside = {}
    /\ cur = NoFinding
    /\ draft = "open"
    /\ members = {}
    /\ ruling = [f \in Findings |-> "none"]
    /\ failures = 0
    /\ crashes = 0

(* The process ends, by returning, by raising or by dying: its memory is gone,
   and with it the pipeline run whose calls were counted. *)
Exit ==
    /\ pc' = "idle"
    /\ calls' = 0
    /\ todo' = {}
    /\ group' = [f \in Findings |-> {}]
    /\ aside' = {}
    /\ cur' = NoFinding
    /\ draft' = "open"
    /\ members' = {}

RemainderHeads(left) == left  \* mutant: puts only the representatives aside

(* The members of the groups beyond the cutoff. *)
Remainder(left) == UNION {MatchGroup(Pending, f) : f \in left}

(* challenge(), up to its loop: read the queue and split it by the budget.
   `used' is what the pipeline run has already spent: nothing in a run that
   `resume' starts, anything after the earlier stages or attempts of a `run'. *)
Start(used) ==
    /\ pc = "idle"
    /\ used <= MaxCalls
    /\ Pending # {}
    /\ \E chosen \in SUBSET Representatives(Pending) :
        /\ IF Bounded
           THEN IsSelection(chosen, Representatives(Pending), SafeBudget(used))
           ELSE chosen = Representatives(Pending)
        /\ todo' = chosen
        /\ aside' = Remainder(Representatives(Pending) \ chosen)
    /\ group' = [f \in Findings |->
                    IF f \in Representatives(Pending)
                    THEN MatchGroup(Pending, f) ELSE {}]
    /\ calls' = used
    /\ pc' = "next"
    /\ UNCHANGED <<status, trace, cur, draft, members, ruling, failures, crashes>>

(* challenge() on an empty queue reads, selects nothing and writes nothing. *)
EmptyQueue ==
    /\ pc = "idle"
    /\ Pending = {}
    /\ UNCHANGED vars

(* The head of the selected list: the selection keeps the budget order. *)
TakeUp(f) ==
    /\ pc = "next"
    /\ f \in todo
    /\ \A g \in todo \ {f} : Before(f, g)
    /\ todo' = todo \ {f}
    /\ cur' = f
    /\ pc' = "verdict"
    /\ UNCHANGED <<status, trace, calls, group, aside, draft, members, ruling,
                   failures, crashes>>

(* THINK / ACT: "open" stands for an unresolved or low-confidence verdict. *)
Verdict(v) ==
    /\ pc = "verdict"
    /\ \E k \in 1 .. Attempts : CanSpend(k) /\ calls' = Spend(k)
    /\ draft' = v
    /\ pc' = "critique"
    /\ UNCHANGED <<status, trace, todo, group, aside, cur, members, ruling,
                   failures, crashes>>

(* REFLECT: the critique, and the regex counterexample check, uphold or veto. *)
Critique(upheld) ==
    /\ pc = "critique"
    /\ \E k \in 1 .. Attempts : CanSpend(k) /\ calls' = Spend(k)
    /\ draft' = IF upheld THEN draft ELSE "open"
    /\ pc' = "log"
    /\ UNCHANGED <<status, trace, todo, group, aside, cur, members, ruling,
                   failures, crashes>>

(* _log_iteration, then return on a committed round or when rounds run out. *)
LogIteration ==
    /\ pc = "log"
    /\ trace' = [trace EXCEPT ![cur] = Append(@, draft)]
    /\ pc' = IF draft \in Terminal \/ Len(trace[cur]) + 1 >= MaxIterations
             THEN "settle" ELSE "verdict"
    /\ draft' = "open"
    /\ UNCHANGED <<status, calls, todo, group, aside, cur, members, ruling,
                   failures, crashes>>

(* Mutants of Outcome: the last verdict even if not committed, and a loop that
   degrades to a kill. *)
OutcomeUncommitted(rows) == rows[Len(rows)]
OutcomeOrKilled(rows) ==
    IF rows # <<>> /\ rows[Len(rows)] \in Terminal THEN rows[Len(rows)] ELSE "killed"

(* What challenge_finding returns: the committed verdict, or unresolved. *)
Outcome(rows) ==
    IF rows # <<>> /\ rows[Len(rows)] \in Terminal
    THEN rows[Len(rows)] ELSE "unresolved"

Write(f, outcome) ==
    /\ status' = [status EXCEPT ![f] = outcome]
    /\ ruling' = [ruling EXCEPT ![f] = outcome]

(* update_falsification for the representative. *)
Settle ==
    /\ pc = "settle"
    /\ Write(cur, Outcome(trace[cur]))
    /\ members' = group[cur] \ {cur}
    /\ pc' = "spread"
    /\ UNCHANGED <<trace, calls, todo, group, aside, cur, draft, failures, crashes>>

(* update_falsification for one other member of the group. *)
Spread(m) ==
    /\ pc = "spread"
    /\ m \in members
    /\ Write(m, Outcome(trace[cur]))
    /\ members' = members \ {m}
    /\ UNCHANGED <<trace, calls, pc, todo, group, aside, cur, draft, failures, crashes>>

NextGroup ==
    /\ pc = "spread"
    /\ members = {}
    /\ cur' = NoFinding
    /\ pc' = "next"
    /\ UNCHANGED <<status, trace, calls, todo, group, aside, draft, members,
                   ruling, failures, crashes>>

(* After the loop, the findings past the cutoff are marked one by one. *)
Defer(f) ==
    /\ pc = "next"
    /\ todo = {}
    /\ f \in aside
    /\ status' = [status EXCEPT ![f] = "deferred"]
    /\ aside' = aside \ {f}
    /\ UNCHANGED <<trace, calls, pc, todo, group, cur, draft, members, ruling,
                   failures, crashes>>

Return ==
    /\ pc = "next"
    /\ todo = {}
    /\ aside = {}
    /\ Exit
    /\ UNCHANGED <<status, trace, ruling, failures, crashes>>

(* A logical call fails for good after k attempts, a ceiling refuses it, or
   the operator interrupts the round: the exception leaves challenge_finding ... *)
Fail ==
    /\ pc \in {"verdict", "critique", "log", "settle"}
    /\ failures < MaxFailures
    /\ failures' = failures + 1
    /\ \E k \in 0 .. Attempts :
        /\ k # 0 => pc \in {"verdict", "critique"}
        /\ CanSpend(k)
        /\ calls' = Spend(k)
    /\ pc' = "handler"
    /\ UNCHANGED <<status, trace, todo, group, aside, cur, draft, members,
                   ruling, crashes>>

(* Mutant of Handle: re-raises without touching the finding. *)
HandleReraise ==
    /\ pc = "handler"
    /\ Exit
    /\ UNCHANGED <<status, trace, ruling, failures, crashes>>

(* ... and its handler makes the partial examination explicit and re-raises. *)
Handle ==
    /\ pc = "handler"
    /\ IF trace[cur] # <<>>
       THEN Write(cur, "unresolved")
       ELSE UNCHANGED <<status, ruling>>
    /\ Exit
    /\ UNCHANGED <<trace, failures, crashes>>

(* The process is killed, or interrupted outside the try block. *)
Crash ==
    /\ pc # "idle"
    /\ crashes < MaxCrashes
    /\ crashes' = crashes + 1
    /\ Exit
    /\ UNCHANGED <<status, trace, ruling, failures>>

Step ==
    \/ \E f \in Findings : TakeUp(f) \/ Spread(f) \/ Defer(f)
    \/ \E v \in Rows : Verdict(v)
    \/ \E upheld \in BOOLEAN : Critique(upheld)
    \/ LogIteration
    \/ Settle
    \/ NextGroup
    \/ Return
    \/ Handle

Next ==
    \/ \E used \in SpentBefore : Start(used)
    \/ EmptyQueue
    \/ Step
    \/ Fail
    \/ Crash

Spec == Init /\ [][Next]_vars

(* A started process runs, and the operator keeps resuming: `resume' starts a
   pipeline run of its own, so its call budget is fresh. *)
FairSpec == Spec /\ WF_vars(Step) /\ SF_vars(Start(0))

-----------------------------------------------------------------------------
TypeOK ==
    /\ status \in [Findings -> Statuses]
    /\ trace \in [Findings -> Seq(Rows)]
    /\ calls \in Nat
    /\ pc \in {"idle", "next", "verdict", "critique", "log", "settle", "spread",
               "handler"}
    /\ todo \subseteq Findings
    /\ group \in [Findings -> SUBSET Findings]
    /\ aside \subseteq Findings
    /\ cur \in IF pc \in {"idle", "next"} THEN {NoFinding} ELSE Findings
    /\ draft \in Rows
    /\ members \subseteq Findings
    /\ ruling \in [Findings -> Outcomes \cup {"none"}]
    /\ failures \in Nat
    /\ crashes \in Nat

(* A verdict on a finding is always backed by a committed round.  A finding
   that was challenged carries the verdict of its own last round; one that was
   not carries the verdict of a finding of its match group.  The rows are
   written before the verdict and in other transactions, and the group was
   computed from a queue that has changed since. *)
VerdictBacked ==
    \A f \in Findings : status[f] \in Terminal =>
        IF trace[f] # <<>>
        THEN trace[f][Len(trace[f])] = status[f]
        ELSE \E g \in MatchGroup(Findings, f) :
                /\ trace[g] # <<>>
                /\ trace[g][Len(trace[g])] = status[f]

(* A finding whose loop has rows is out of every later queue, so between two
   runs no deferred finding may have rows: nothing would ever take it up
   again, and the backlog would never clear.  This is what the handler of
   challenge() is there for. *)
DeferredIsUnexamined ==
    pc = "idle" /\ crashes = 0 => \A f \in Findings : status[f] = "deferred" => trace[f] = <<>>

(* The budget counts matched groups and reserves the worst case for each, so
   a run that starts a logical call can always pay for all its attempts: the
   ceiling never stops a challenge halfway. *)
EnvelopeSuffices ==
    MaxCalls # 0 /\ pc \in {"verdict", "critique"} => calls + Attempts <= MaxCalls

(* A run that gets to its end has dropped nothing: every finding still in the
   queue is marked deferred or was given its group's outcome. *)
NothingDropped ==
    pc = "next" /\ todo = {} /\ aside = {} =>
        \A f \in Pending : status[f] = "deferred" \/ ruling[f] # "none"

(* A confirmed or killed finding keeps its verdict, through retries, crashes
   and later runs of the stage. *)
VerdictsStand ==
    [][\A f \in Findings : status[f] \in Terminal => status'[f] = status[f]]_vars

(* Rows are only added, to a finding that waits for a verdict, and none
   follows a committed one. *)
TraceGrowsUntilCommitted ==
    [][\A f \in Findings : trace'[f] # trace[f] =>
        /\ status[f] \notin Terminal
        /\ \A i \in DOMAIN trace[f] : trace[f][i] = "open" /\ trace'[f][i] = "open"]_vars

(* The stage keeps the promise of VerdictLedger: through its queue, its budget,
   its failures and its deaths, findings and trace change as that module says
   and in no other way. *)
Ledger == INSTANCE VerdictLedger WITH status <- status, trace <- trace
KeepsPromise == Ledger!Spec

(* Resumed often enough, the stage works off its queue: in the end nothing is
   deferred and nothing waits, unless a process died. *)
BacklogClears ==
    <>[](crashes = 0 => \A f \in Findings : status[f] # "deferred" /\ ~IsPending(f))

-----------------------------------------------------------------------------
(* The inductive invariant behind VerdictBacked and the action properties. *)

(* The selected groups are disjoint from each other and from what was put
   aside, and everything that waits for this run is still in the queue. *)
BatchInv ==
    /\ \A f \in todo : f \in group[f] /\ group[f] \subseteq MatchGroup(Findings, f)
    /\ \A f \in todo : \A m \in group[f] : IsPending(m) /\ m \notin aside
    /\ \A f, g \in todo : f # g => group[f] \cap group[g] = {}
    /\ \A f \in aside : IsPending(f)
    /\ pc # "spread" => members = {}

(* So is the group being challenged; its representative has only open rows
   until the round that commits, and its members none. *)
ChallengeInv ==
    pc \notin {"idle", "next"} =>
        /\ cur \in group[cur]
        /\ group[cur] \subseteq MatchGroup(Findings, cur)
        /\ group[cur] \cap aside = {}
        /\ \A f \in todo : group[f] \cap group[cur] = {}
        /\ members \subseteq group[cur] \ {cur}
        /\ pc # "spread" =>
            /\ status[cur] \notin Terminal
            /\ \A m \in group[cur] \ {cur} : IsPending(m)
        /\ pc = "spread" => \A m \in members : IsPending(m)
        /\ pc \in {"settle", "spread"} => trace[cur] # <<>>
        /\ pc \in {"verdict", "critique", "log"} =>
            \A i \in 1 .. Len(trace[cur]) : trace[cur][i] = "open"

IInv == TypeOK /\ BatchInv /\ ChallengeInv /\ VerdictBacked

(* And behind NothingDropped: what the run read from the queue and has neither
   set aside nor given an outcome is still in its hands. *)
InHand(f) ==
    \/ f \in aside
    \/ \E g \in todo : f \in group[g]
    \/ pc \notin {"next", "spread"} /\ f \in group[cur]
    \/ f \in members

QueueInv ==
    pc \notin {"idle", "handler"} =>
        \A f \in Pending : status[f] = "deferred" \/ ruling[f] # "none" \/ InHand(f)

(* And, with no process death, behind DeferredIsUnexamined: only the finding
   under challenge may be deferred and have rows. *)
HandlerInv ==
    crashes = 0 => \A f \in Findings : status[f] = "deferred" /\ trace[f] # <<>> =>
        f = cur /\ pc \in {"verdict", "critique", "log", "settle", "handler"}

(* And behind EnvelopeSuffices: what the challenge at hand may still spend, and
   the reserve of every group not yet taken up, fit under the ceiling. *)
CallsLeft ==
    LET rounds == (MaxIterations - Len(trace[cur])) * RoundCalls
    IN  CASE pc = "verdict"  -> rounds
          [] pc = "critique" -> rounds - Attempts
          [] pc = "log"      -> rounds - RoundCalls
          [] OTHER           -> 0

EnvelopeInv ==
    /\ pc \in {"verdict", "critique", "log"} => Len(trace[cur]) < MaxIterations
    /\ MaxCalls # 0 /\ pc \notin {"idle", "handler"} =>
        calls + CallsLeft + Cardinality(todo) * ReservedCalls <= MaxCalls
=============================================================================
