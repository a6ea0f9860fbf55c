---------------------------- MODULE VerdictLedger ----------------------------
(***************************************************************************)
(* What the falsify stage promises of the findings and their audit trace,  *)
(* whatever its queue, its budget and its failures are.                    *)
(*                                                                         *)
(* A finding that waits for a verdict is examined in at most MaxIterations *)
(* rounds, and a round that commits to a verdict is its last.  A finding   *)
(* is confirmed or killed once, by the committed round of a finding of its *)
(* issue; it is called unresolved only after a round of its issue, and set *)
(* aside only while it has none of its own.                                *)
(***************************************************************************)
EXTENDS Matching, Integers, Sequences

CONSTANT MaxIterations  \* rounds that a finding may be given

VARIABLES
    status,  \* finding.falsification_status
    trace    \* falsification_iteration, per finding

Verdicts == {"confirmed", "killed"}

Waiting(f) == status[f] \notin Verdicts

Committed(f) == trace[f] # <<>> /\ trace[f][Len(trace[f])] \in Verdicts

Init ==
    /\ status = [f \in Findings |-> "unresolved"]
    /\ trace = [f \in Findings |-> <<>>]

(* One more round is logged; "open" stands for one that commits to nothing. *)
Examine(f) ==
    /\ Waiting(f)
    /\ ~Committed(f)
    /\ Len(trace[f]) < MaxIterations
    /\ \E row \in Verdicts \cup {"open"} :
        trace' = [trace EXCEPT ![f] = Append(@, row)]
    /\ UNCHANGED status

(* A verdict is recorded: that of its own trace, or of its issue's. *)
Rule(f) ==
    /\ Waiting(f)
    /\ UNCHANGED trace
    /\ \E g \in Findings :
        /\ Committed(g)
        /\ trace[f] = <<>> \/ f = g
        /\ status' = [status EXCEPT ![f] = trace[g][Len(trace[g])]]
        /\ g \in MatchGroup(Findings, f)

(* The issue was examined without a verdict. *)
LeaveOpen(f) ==
    /\ Waiting(f)
    /\ status' = [status EXCEPT ![f] = "unresolved"]
    /\ UNCHANGED trace
    /\ \E g \in Findings : trace[g] # <<>> /\ g \in MatchGroup(Findings, f)

SetAside(f) ==
    /\ Waiting(f)
    /\ trace[f] = <<>>
    /\ status' = [status EXCEPT ![f] = "deferred"]
    /\ UNCHANGED trace

Next ==
    \E f \in Findings : Examine(f) \/ Rule(f) \/ LeaveOpen(f) \/ SetAside(f)

Spec == Init /\ [][Next]_<<status, trace>>
=============================================================================
