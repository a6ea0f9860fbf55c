------------------------------- MODULE Matching -------------------------------
(***************************************************************************)
(* Which findings describe the same underlying issue: matching.py.         *)
(*                                                                         *)
(* find_matches is used three times on different sets of findings: on the  *)
(* queue of falsification, on what normalization finds alive, and on what  *)
(* the review gate lets through.  The set is a parameter here, because a   *)
(* group depends on it: two findings may be joined by a third one only.    *)
(***************************************************************************)
EXTENDS FiniteSets

CONSTANTS
    Findings,  \* ids of the repository's findings
    Matches    \* pairs of findings that same_issue() matches

ASSUME FindingsAssumption == IsFiniteSet(Findings)

ASSUME MatchesAssumption ==
    /\ Matches \subseteq Findings \X Findings
    /\ \A f, g \in Findings : <<f, g>> \in Matches => <<g, f>> \in Matches

(* C contains every finding of S that matches one of its own. *)
ClosedIn(S, C) == \A a \in C, b \in S : <<a, b>> \in Matches => b \in C

(* find_matches: the transitive closure of same_issue over the set S that is
   passed in, so the group of f is the least set around f closed in S. *)
MatchGroup(S, f) ==
    {g \in S : \A C \in SUBSET S : f \in C /\ ClosedIn(S, C) => g \in C}
=============================================================================
