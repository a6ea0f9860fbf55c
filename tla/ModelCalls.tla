------------------------------ MODULE ModelCalls ------------------------------
(***************************************************************************)
(* One logical call of the language model: LLMClient.call of llm/client.py *)
(* over a backend of llm/backends.py.                                      *)
(*                                                                         *)
(* A call makes up to MaxRetries + 1 provider calls.  Before each of them  *)
(* the client compares what the pipeline run has recorded so far with its  *)
(* two ceilings; after each it records a usage row in a transaction of its *)
(* own.  Processes that work for the same pipeline run share its rows, and *)
(* each of them may die, or be interrupted, between an answer and its row. *)
(*                                                                         *)
(* The module is the client alone: a stage that calls it says when a call  *)
(* begins and takes up its result.                                         *)
(***************************************************************************)
EXTENDS Integers, FiniteSets

CONSTANTS
    Procs,       \* processes that work for the pipeline run
    MaxRetries,  \* [llm].max_retries
    MaxCalls,    \* [llm].max_calls_per_pipeline_run, 0 for no ceiling
    MaxTokens,   \* [llm].max_tokens_per_pipeline_run, 0 for no ceiling
    Charges      \* tokens that a provider call may take

ASSUME CallsAssumption ==
    /\ IsFiniteSet(Procs)
    /\ {MaxRetries, MaxCalls, MaxTokens} \subseteq Nat
    /\ Charges \subseteq Nat

VARIABLES
    usage,  \* model_usage rows of the pipeline run: how many, and their tokens
    spent,  \* history: provider calls made, recorded or not
    call    \* where each process stands in its logical call

callVars == <<usage, spent, call>>

NoCall == [pc |-> "none", left |-> 0, answer |-> "none", tokens |-> 0]

(* "unusable" stands for what may be tried again: an answer that does not
   validate, or a BackendError that is retryable. *)
Replies == {"valid", "unusable", "fatal"}

CallsInit ==
    /\ usage = [calls |-> 0, tokens |-> 0]
    /\ spent = 0
    /\ call = [p \in Procs |-> NoCall]

WithCall(total, tokens) == [calls |-> total.calls + 1, tokens |-> total.tokens + tokens]

ExhaustedLate ==  \* mutant: one call more than the ceiling
    \/ MaxCalls # 0 /\ usage.calls > MaxCalls
    \/ MaxTokens # 0 /\ usage.tokens >= MaxTokens

(* _check_pipeline_budget *)
Exhausted ==
    \/ MaxCalls # 0 /\ usage.calls >= MaxCalls
    \/ MaxTokens # 0 /\ usage.tokens >= MaxTokens

(* LLMClient.call begins. *)
BeginCall(p) ==
    call' = [call EXCEPT ![p] = [NoCall EXCEPT !.pc = "check", !.left = MaxRetries + 1]]

(* The check before an attempt: go on, or raise LLMBudgetExceeded. *)
CheckBudget(p) ==
    /\ call[p].pc = "check"
    /\ call' = [call EXCEPT ![p].pc = IF Exhausted THEN "raised" ELSE "ask"]
    /\ UNCHANGED <<usage, spent>>

(* Backend.complete, and the tokens it took as the provider reports them:
   nothing when the backend raises before it reads the usage. *)
Ask(p) ==
    /\ call[p].pc = "ask"
    /\ \E reply \in Replies, tokens \in Charges :
        /\ call' = [call EXCEPT ![p].pc = "record", ![p].answer = reply,
                                ![p].tokens = tokens, ![p].left = @ - 1]
    /\ spent' = spent + 1
    /\ UNCHANGED usage

(* _record_usage, and what follows it: the validated value, the error of a
   call that may not be retried, the next attempt, or LLMValidationError. *)
Record(p) ==
    /\ call[p].pc = "record"
    /\ usage' = WithCall(usage, call[p].tokens)
    /\ call' = [call EXCEPT ![p].pc =
                    CASE call[p].answer = "valid" -> "returned"
                      [] call[p].answer = "fatal" -> "raised"
                      [] OTHER -> IF call[p].left = 0 THEN "raised" ELSE "check"]
    /\ UNCHANGED spent

CallStep(p) == CheckBudget(p) \/ Ask(p) \/ Record(p)

-----------------------------------------------------------------------------
CallsTypeOK ==
    /\ usage \in [calls : Nat, tokens : Nat]
    /\ spent \in Nat
    /\ call \in [Procs -> [pc : {"none", "check", "ask", "record", "returned", "raised"},
                           left : 0 .. MaxRetries + 1,
                           answer : Replies \cup {"none"},
                           tokens : Charges \cup {0}]]

(* The ceilings hold up to the calls in flight: the processes of a run check
   before they ask and record after, so each may be one call past the check.
   `lost' is what was asked by processes that died before they recorded it. *)
CeilingsHold(lost) ==
    /\ MaxCalls # 0 =>
        spent - lost <= MaxCalls + Cardinality(Procs) - 1
    /\ MaxTokens # 0 =>
        \A most \in Charges : (\A t \in Charges : t <= most) =>
            usage.tokens < MaxTokens + Cardinality(Procs) * most

(* The inductive invariant behind it: what was asked is recorded, being
   recorded, or lost, and every call past its check is paid for in advance. *)
Recording == {p \in Procs : call[p].pc = "record"}

InFlight == {p \in Procs : call[p].pc \in {"ask", "record"}}

CeilingsKept(lost) ==
    /\ spent = usage.calls + lost + Cardinality(Recording)
    /\ MaxCalls # 0 =>
        usage.calls + Cardinality(InFlight) <= MaxCalls + Cardinality(Procs) - 1
    /\ MaxTokens # 0 =>
        \A most \in Charges : (\A t \in Charges : t <= most) =>
            usage.tokens + Cardinality(InFlight) * most
                < MaxTokens + Cardinality(Procs) * most
=============================================================================
