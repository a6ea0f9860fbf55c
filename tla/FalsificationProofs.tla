------------------------- MODULE FalsificationProofs -------------------------
(***************************************************************************)
(* What TLAPS proves of Falsification, for every set of findings, matching *)
(* relation, priority order and budget, and of the evidence of its rounds, *)
(* for every snapshot and every set of citations.                          *)
(***************************************************************************)
EXTENDS Challenges, FiniteSetTheorems, SequenceTheorems, TLAPS

-----------------------------------------------------------------------------
(* Sorting: a finite set has a first element in a total and transitive order.
   The well-founded order of finite subsets stands in for an induction. *)
LEMMA FirstOf ==
    ASSUME NEW S, IsFiniteSet(S), S # {}, NEW R,
           \A x, y \in S : x # y => <<x, y>> \in R \/ <<y, x>> \in R,
           \A x, y, z \in S : <<x, y>> \in R /\ <<y, z>> \in R => <<x, z>> \in R
    PROVE  \E x \in S : \A y \in S \ {x} : <<x, y>> \in R
<1> DEFINE HasFirst(T) == \E x \in T : \A y \in T \ {x} : <<x, y>> \in R
           Headless == {T \in SUBSET S : T # {} /\ ~HasFirst(T)}
<1>1. SUFFICES ASSUME Headless # {} PROVE FALSE
  OBVIOUS
<1>2. PICK T \in Headless : \A U \in Headless : <<U, T>> \notin StrictSubsetOrdering(S)
  <2>1. Headless \subseteq FiniteSubsetsOf(S)
    BY FS_FiniteSubsetsOfFinite
  <2>2. IsWellFoundedOn(StrictSubsetOrdering(S), FiniteSubsetsOf(S))
    BY FS_StrictSubsetOrderingWellFounded
  <2> HIDE DEF Headless
  <2>3. QED BY <1>1, <2>1, <2>2, WFMin
<1>3. PICK x \in T : TRUE
  OBVIOUS
<1>4. T \ {x} # {}
  OBVIOUS
<1>5. HasFirst(T \ {x})
  <2>1. <<T \ {x}, T>> \in StrictSubsetOrdering(S)
    BY <1>3 DEF StrictSubsetOrdering
  <2>2. T \ {x} \notin Headless
    BY <1>2, <2>1
  <2>3. QED BY <1>4, <2>2
<1>6. PICK y \in T \ {x} : \A z \in (T \ {x}) \ {y} : <<y, z>> \in R
  BY <1>5
<1>7. T \subseteq S
  OBVIOUS
<1>8. <<x, y>> \in R \/ <<y, x>> \in R
  BY <1>6, <1>7
<1>9. CASE <<x, y>> \in R
  <2>1. \A z \in T \ {x} : <<x, z>> \in R
    BY <1>6, <1>7, <1>9
  <2>2. QED BY <1>7, <2>1
<1>10. CASE <<y, x>> \in R
  <2>1. \A z \in T \ {y} : <<y, z>> \in R
    BY <1>6, <1>10
  <2>2. QED BY <1>6, <2>1
<1>11. QED BY <1>8, <1>9, <1>10

(* Match groups.  find_matches is union-find over same_issue; what the proofs
   need of it is that groups are the classes of an equivalence. *)
LEMMA GroupSubset ==
    ASSUME NEW S, NEW f
    PROVE  MatchGroup(S, f) \subseteq S
BY DEF MatchGroup

(* A group holds its seed and is closed under matching. *)
LEMMA GroupClosed ==
    ASSUME NEW S, NEW f \in S
    PROVE  f \in MatchGroup(S, f) /\ ClosedIn(S, MatchGroup(S, f))
BY DEF MatchGroup, ClosedIn

(* The group is contained in every closed set around its seed. *)
LEMMA GroupLeast ==
    ASSUME NEW S, NEW f, NEW C \in SUBSET S, f \in C, ClosedIn(S, C)
    PROVE  MatchGroup(S, f) \subseteq C
BY DEF MatchGroup

(* same_issue is symmetric, so a member's group leads back to the seed. *)
LEMMA GroupSymmetric ==
    ASSUME NEW S \in SUBSET Findings, NEW f \in S, NEW g \in MatchGroup(S, f)
    PROVE  f \in MatchGroup(S, g)
<1> DEFINE C == MatchGroup(S, f) \ MatchGroup(S, g)
<1>1. g \in S /\ MatchGroup(S, f) \subseteq S
  BY GroupSubset
<1>2. SUFFICES ASSUME f \notin MatchGroup(S, g) PROVE FALSE
  OBVIOUS
<1>3. f \in C
  BY <1>2, GroupClosed
<1>4. ClosedIn(S, C)
  <2>1. SUFFICES ASSUME NEW a \in C, NEW b \in S, <<a, b>> \in Matches
                 PROVE  b \in C
    BY DEF ClosedIn
  <2>2. b \in MatchGroup(S, f)
    BY <2>1, GroupClosed DEF ClosedIn
  <2>3. ASSUME b \in MatchGroup(S, g) PROVE FALSE
    <3>1. a \in S /\ <<b, a>> \in Matches
      BY <1>1, <2>1, MatchesAssumption
    <3>2. a \in MatchGroup(S, g)
      BY <1>1, <2>3, <3>1, GroupClosed DEF ClosedIn
    <3>3. QED BY <3>2
  <2>4. QED BY <2>2, <2>3
<1>5. MatchGroup(S, f) \subseteq C
  <2>1. C \in SUBSET S
    BY <1>1
  <2>2. QED BY <1>3, <1>4, <2>1, GroupLeast
<1>6. g \in MatchGroup(S, g)
  BY <1>1, GroupClosed
<1>7. QED BY <1>5, <1>6

(* A member's group is part of the seed's group. *)
LEMMA GroupTransitive ==
    ASSUME NEW S \in SUBSET Findings, NEW f \in S, NEW g \in MatchGroup(S, f)
    PROVE  MatchGroup(S, g) \subseteq MatchGroup(S, f)
<1>1. MatchGroup(S, f) \in SUBSET S
  BY GroupSubset
<1>2. QED BY <1>1, GroupClosed, GroupLeast

(* Grouping part of the findings never joins what grouping all would not:
   challenge() groups the queue only. *)
LEMMA GroupMonotone ==
    ASSUME NEW S \in SUBSET Findings, NEW f \in S
    PROVE  MatchGroup(S, f) \subseteq MatchGroup(Findings, f)
<1> DEFINE C == MatchGroup(Findings, f) \cap S
<1>1. f \in C
  BY GroupClosed
<1>2. ClosedIn(S, C)
  BY GroupClosed DEF ClosedIn
<1>3. C \in SUBSET S
  OBVIOUS
<1>4. QED BY <1>1, <1>2, <1>3, GroupLeast

-----------------------------------------------------------------------------
(* A row appended to a trace keeps it a sequence of rows, as _log_iteration
   adds one round to the rows of a finding. *)
LEMMA AppendRow ==
    ASSUME NEW rows \in Seq(Rows), NEW r \in Rows
    PROVE  /\ Append(rows, r) \in Seq(Rows)
           /\ Len(Append(rows, r)) = Len(rows) + 1
           /\ Append(rows, r)[Len(rows) + 1] = r
           /\ \A i \in 1 .. Len(rows) : Append(rows, r)[i] = rows[i]
           /\ Append(rows, r) # <<>>
OBVIOUS

(* What challenge_finding returns is one of the three outcomes, and a terminal
   one only as the verdict of the last round. *)
LEMMA OutcomeType ==
    ASSUME NEW rows \in Seq(Rows)
    PROVE  /\ Outcome(rows) \in Outcomes
           /\ Outcome(rows) \in Terminal =>
                rows # <<>> /\ rows[Len(rows)] = Outcome(rows)
BY DEF Outcome, Outcomes, Terminal, Rows

(* The calls of one logical call keep the count a natural number. *)
LEMMA SpendType ==
    ASSUME calls \in Nat, NEW k \in Nat
    PROVE  Spend(k) \in Nat
BY DEF Spend

LEMMA AttemptsType == Attempts \in Nat \ {0}
BY BudgetAssumption DEF Attempts

-----------------------------------------------------------------------------
LEMMA ExitType ==
    ASSUME Exit
    PROVE  /\ pc' = "idle"
           /\ calls' \in Nat
           /\ todo' \subseteq Findings
           /\ group' \in [Findings -> SUBSET Findings]
           /\ aside' \subseteq Findings
           /\ cur' = NoFinding
           /\ draft' \in Rows
           /\ members' \subseteq Findings
BY DEF Exit, Rows

LEMMA InitType == Init => TypeOK
BY DEF Init, TypeOK, Statuses, Outcomes, Rows

LEMMA StartType ==
    ASSUME TypeOK, NEW used \in SpentBefore, Start(used)
    PROVE  TypeOK'
<1>1. todo' \subseteq Findings /\ aside' \subseteq Findings
  <2>1. PICK chosen \in SUBSET Representatives(Pending) :
           /\ todo' = chosen
           /\ aside' = UNION {MatchGroup(Pending, f) :
                                f \in Representatives(Pending) \ chosen}
    BY DEF Start, Remainder
  <2>2. Pending \subseteq Findings /\ Representatives(Pending) \subseteq Findings
    BY DEF Pending, Representatives
  <2>3. \A f : MatchGroup(Pending, f) \subseteq Findings
    BY <2>2, GroupSubset
  <2>4. QED BY <2>1, <2>2, <2>3
<1>2. group' \in [Findings -> SUBSET Findings]
  <2>1. \A f : MatchGroup(Pending, f) \in SUBSET Findings
    BY GroupSubset DEF Pending
  <2>2. QED BY <2>1 DEF Start
<1>3. calls' \in Nat
  BY BudgetAssumption DEF Start
<1>4. QED
  BY <1>1, <1>2, <1>3 DEF Start, TypeOK

(* Every step keeps the type invariant. *)
LEMMA NextType == TypeOK /\ [Next]_vars => TypeOK'
<1> SUFFICES ASSUME TypeOK, [Next]_vars PROVE TypeOK'
  OBVIOUS
<1> USE DEF TypeOK
<1>1. CASE \E used \in SpentBefore : Start(used)
  BY <1>1, StartType
<1>2. CASE EmptyQueue
  BY <1>2 DEF EmptyQueue, vars
<1>3. ASSUME NEW f \in Findings, TakeUp(f) PROVE TypeOK'
  BY <1>3 DEF TakeUp
<1>4. ASSUME NEW v \in Rows, Verdict(v) PROVE TypeOK'
  <2>1. calls' \in Nat
    BY <1>4, SpendType, AttemptsType DEF Verdict
  <2>2. QED BY <1>4, <2>1 DEF Verdict
<1>5. ASSUME NEW upheld \in BOOLEAN, Critique(upheld) PROVE TypeOK'
  <2>1. calls' \in Nat
    BY <1>5, SpendType, AttemptsType DEF Critique
  <2>2. draft' \in Rows
    BY <1>5 DEF Critique, Rows
  <2>3. QED BY <1>5, <2>1, <2>2 DEF Critique
<1>6. CASE LogIteration
  <2>1. trace' \in [Findings -> Seq(Rows)]
    BY <1>6, AppendRow DEF LogIteration
  <2>2. draft' \in Rows
    BY <1>6 DEF LogIteration, Rows
  <2>3. QED BY <1>6, <2>1, <2>2 DEF LogIteration
<1>7. CASE Settle
  <2>1. cur \in Findings
    BY <1>7 DEF Settle
  <2>2. Outcome(trace[cur]) \in Outcomes
    BY <2>1, OutcomeType
  <2>3. QED BY <1>7, <2>1, <2>2 DEF Settle, Write, Statuses
<1>8. ASSUME NEW m \in Findings, Spread(m) PROVE TypeOK'
  BY <1>8 DEF Spread, Write, Statuses, Outcomes, Outcome, Terminal
<1>9. CASE NextGroup
  BY <1>9 DEF NextGroup
<1>10. ASSUME NEW f \in Findings, Defer(f) PROVE TypeOK'
  BY <1>10 DEF Defer, Statuses
<1>11. CASE Return
  BY <1>11, ExitType DEF Return
<1>12. CASE Fail
  <2>1. calls' \in Nat
    BY <1>12, SpendType, AttemptsType DEF Fail
  <2>2. QED BY <1>12, <2>1 DEF Fail
<1>13. CASE Handle
  BY <1>13, ExitType DEF Handle, Write, Statuses, Outcomes
<1>14. CASE Crash
  BY <1>14, ExitType DEF Crash
<1>15. CASE UNCHANGED vars
  BY <1>15 DEF vars
<1>16. QED
  BY <1>1, <1>2, <1>3, <1>4, <1>5, <1>6, <1>7, <1>8, <1>9, <1>10, <1>11, <1>12,
     <1>13, <1>14, <1>15 DEF Next, Step

(* The rows, the queue and the running batch keep their types in every run of
   the falsify stage. *)
THEOREM TypeCorrect == Spec => []TypeOK
<1>1. Init => TypeOK
  BY InitType
<1>2. TypeOK /\ [Next]_vars => TypeOK'
  BY NextType
<1>3. QED
  BY <1>1, <1>2, PTL DEF Spec

-----------------------------------------------------------------------------
(* Two representatives never share a group: no finding is settled twice. *)
LEMMA GroupsDisjoint ==
    ASSUME NEW S \in SUBSET Findings,
           NEW f \in Representatives(S), NEW g \in Representatives(S), f # g
    PROVE  MatchGroup(S, f) \cap MatchGroup(S, g) = {}
<1>1. SUFFICES ASSUME NEW m \in MatchGroup(S, f), m \in MatchGroup(S, g)
               PROVE  FALSE
  OBVIOUS
<1>2. f \in S /\ g \in S /\ f \in Findings /\ g \in Findings
  BY DEF Representatives
<1>3. f \in MatchGroup(S, m) /\ g \in MatchGroup(S, m)
  BY <1>1, <1>2, GroupSymmetric
<1>4. f \in MatchGroup(S, g) /\ g \in MatchGroup(S, f)
  BY <1>1, <1>2, <1>3, GroupTransitive
<1>5. Before(f, g) /\ Before(g, f)
  BY <1>4 DEF Representatives
<1>6. QED
  BY <1>2, <1>5, OrderAssumption DEF Before

-----------------------------------------------------------------------------
(* The inductive invariant, one lemma per action that writes. *)

LEMMA InitInv == Init => IInv
BY InitType DEF Init, IInv, BatchInv, ChallengeInv, VerdictBacked, Terminal

(* Selecting a batch: the groups of the selected representatives and of those
   left over are disjoint, and all of the queue. *)
LEMMA StartInv ==
    ASSUME IInv, NEW used \in SpentBefore, Start(used)
    PROVE  BatchInv' /\ ChallengeInv' /\ VerdictBacked'
<1> DEFINE R == Representatives(Pending)
<1>1. Pending \in SUBSET Findings /\ R \subseteq Pending
  BY DEF Pending, Representatives
<1>2. PICK chosen \in SUBSET R :
        /\ todo' = chosen
        /\ aside' = UNION {MatchGroup(Pending, f) : f \in R \ chosen}
  BY DEF Start, Remainder
<1>3. \A f \in R : group'[f] = MatchGroup(Pending, f)
  BY <1>1 DEF Start
<1>4. UNCHANGED <<status, trace, members>> /\ pc = "idle" /\ pc' = "next"
  BY DEF Start
<1>5. \A f : \A m \in MatchGroup(Pending, f) : IsPending(m)'
  BY <1>4, GroupSubset DEF Pending, IsPending
<1>6. \A f \in R : f \in group'[f] /\ group'[f] \subseteq MatchGroup(Findings, f)
  BY <1>1, <1>3, GroupClosed, GroupMonotone
<1>7. \A f, g \in R : f # g => group'[f] \cap group'[g] = {}
  BY <1>1, <1>3, GroupsDisjoint
<1>8. \A f \in todo' : group'[f] \cap aside' = {}
  BY <1>2, <1>3, <1>7
<1>9. \A f \in aside' : IsPending(f)'
  BY <1>2, <1>5
<1>10. \A f \in todo' : \A m \in group'[f] : IsPending(m)' /\ m \notin aside'
  BY <1>2, <1>3, <1>5, <1>8
<1>11. BatchInv'
  BY <1>2, <1>4, <1>6, <1>7, <1>9, <1>10 DEF BatchInv, IInv
<1>12. ChallengeInv'
  BY <1>4 DEF ChallengeInv
<1>13. VerdictBacked'
  BY <1>4 DEF VerdictBacked, IInv
<1>14. QED BY <1>11, <1>12, <1>13

LEMMA TakeUpInv ==
    ASSUME IInv, NEW f \in Findings, TakeUp(f)
    PROVE  BatchInv' /\ ChallengeInv' /\ VerdictBacked'
<1> USE DEF IInv, TakeUp
<1>1. \A m : IsPending(m)' <=> IsPending(m)
  BY DEF IsPending
<1>2. BatchInv'
  BY <1>1 DEF BatchInv
<1>3. IsPending(f) /\ members' = {} /\ cur' = f /\ pc' = "verdict"
  BY DEF BatchInv
<1>4. ChallengeInv'
  <2>1. f \in group[f] /\ group[f] \subseteq MatchGroup(Findings, f)
    BY DEF BatchInv
  <2>2. group[f] \cap aside = {} /\ \A g \in todo' : group[g] \cap group[f] = {}
    BY DEF BatchInv
  <2>3. status[f] \notin Terminal /\ trace[f] = <<>>
    BY <1>3 DEF IsPending, Terminal
  <2>4. \A m \in group[f] : IsPending(m)'
    BY <1>1 DEF BatchInv
  <2>5. QED BY <1>3, <2>1, <2>2, <2>3, <2>4 DEF ChallengeInv
<1>5. VerdictBacked'
  BY DEF VerdictBacked
<1>6. QED BY <1>2, <1>4, <1>5

(* A call changes nothing the invariant speaks of but where the run stands. *)
LEMMA CallInv ==
    ASSUME IInv,
           \/ \E v \in Rows : Verdict(v)
           \/ \E upheld \in BOOLEAN : Critique(upheld)
           \/ Fail
    PROVE  BatchInv' /\ ChallengeInv' /\ VerdictBacked'
<1>1. /\ UNCHANGED <<status, trace, todo, group, aside, cur, members>>
      /\ pc \in {"verdict", "critique", "log", "settle"}
      /\ \/ pc' = "handler"
         \/ pc' \in {"critique", "log"} /\ pc \in {"verdict", "critique"}
  BY DEF Verdict, Critique, Fail
<1>2. \A m : IsPending(m)' <=> IsPending(m)
  BY <1>1 DEF IsPending
<1>3. BatchInv'
  BY <1>1, <1>2 DEF BatchInv, IInv
<1>4. ChallengeInv'
  BY <1>1, <1>2 DEF ChallengeInv, IInv
<1>5. VerdictBacked'
  BY <1>1 DEF VerdictBacked, IInv
<1>6. QED BY <1>3, <1>4, <1>5

LEMMA LogIterationInv ==
    ASSUME IInv, LogIteration
    PROVE  BatchInv' /\ ChallengeInv' /\ VerdictBacked'
<1> USE DEF IInv, TypeOK
<1>1. /\ cur \in Findings
      /\ cur' = cur
      /\ pc = "log"
      /\ pc' \in {"settle", "verdict"}
      /\ pc' = "verdict" => draft = "open"
      /\ UNCHANGED <<status, todo, group, aside, members>>
  BY DEF LogIteration, Rows, Terminal
<1>2. /\ trace'[cur] = Append(trace[cur], draft)
      /\ \A f \in Findings \ {cur} : trace'[f] = trace[f]
  BY <1>1 DEF LogIteration
<1>3. \A m \in Findings \ {cur} : IsPending(m)' <=> IsPending(m)
  BY <1>1, <1>2 DEF IsPending
<1>4. /\ cur \in group[cur]
      /\ \A f \in todo : cur \notin group[f]
      /\ cur \notin aside
  BY <1>1 DEF ChallengeInv
<1>5. BatchInv'
  BY <1>1, <1>3, <1>4 DEF BatchInv
<1>6. ChallengeInv'
  <2>1. \A m \in group[cur] \ {cur} : IsPending(m)'
    BY <1>1, <1>3 DEF ChallengeInv
  <2>2. trace'[cur] # <<>>
    BY <1>1, <1>2, AppendRow
  <2>3. pc' = "verdict" => \A i \in 1 .. Len(trace'[cur]) : trace'[cur][i] = "open"
    BY <1>1, <1>2, AppendRow DEF ChallengeInv
  <2>4. QED BY <1>1, <2>1, <2>2, <2>3 DEF ChallengeInv, BatchInv
<1>7. VerdictBacked'
  <2>1. SUFFICES ASSUME NEW f \in Findings, status'[f] \in Terminal
                 PROVE  IF trace'[f] # <<>>
                        THEN trace'[f][Len(trace'[f])] = status'[f]
                        ELSE \E g \in MatchGroup(Findings, f) :
                                /\ trace'[g] # <<>>
                                /\ trace'[g][Len(trace'[g])] = status'[f]
    BY DEF VerdictBacked
  <2>2. f # cur
    BY <1>1, <2>1 DEF ChallengeInv
  <2>3. CASE trace[f] # <<>>
    BY <1>1, <1>2, <2>1, <2>2, <2>3 DEF VerdictBacked
  <2>4. CASE trace[f] = <<>>
    <3>1. PICK g \in MatchGroup(Findings, f) :
            trace[g] # <<>> /\ trace[g][Len(trace[g])] = status[f]
      BY <1>1, <2>1, <2>4 DEF VerdictBacked
    <3>2. g \in Findings
      BY GroupSubset
    <3>3. g # cur
      <4>1. ASSUME g = cur PROVE FALSE
        <5>1. Len(trace[cur]) \in 1 .. Len(trace[cur])
          BY <1>1, <3>1, <4>1
        <5>2. trace[cur][Len(trace[cur])] = "open"
          BY <1>1, <5>1 DEF ChallengeInv
        <5>3. QED BY <1>1, <2>1, <3>1, <4>1, <5>2 DEF Terminal
      <4>2. QED BY <4>1
    <3>4. trace'[g] = trace[g] /\ trace'[f] = trace[f]
      BY <1>2, <2>2, <3>2, <3>3
    <3>5. QED BY <1>1, <2>4, <3>1, <3>4
  <2>5. QED BY <2>3, <2>4
<1>8. QED BY <1>5, <1>6, <1>7

LEMMA SettleInv ==
    ASSUME IInv, Settle
    PROVE  BatchInv' /\ ChallengeInv' /\ VerdictBacked'
<1> USE DEF IInv, TypeOK
<1>1. /\ cur \in Findings /\ cur' = cur /\ pc = "settle" /\ pc' = "spread"
      /\ UNCHANGED <<trace, todo, group, aside>>
      /\ members' = group[cur] \ {cur}
      /\ status' = [status EXCEPT ![cur] = Outcome(trace[cur])]
  BY DEF Settle, Write
<1>2. /\ cur \in group[cur]
      /\ \A f \in todo : group[f] \cap group[cur] = {}
      /\ group[cur] \cap aside = {}
      /\ trace[cur] # <<>>
      /\ \A m \in group[cur] \ {cur} : IsPending(m)
  BY <1>1 DEF ChallengeInv
<1>3. \A m \in Findings \ {cur} : IsPending(m)' <=> IsPending(m)
  BY <1>1 DEF IsPending
<1>4. BatchInv'
  BY <1>1, <1>2, <1>3 DEF BatchInv
<1>5. ChallengeInv'
  <2>1. \A m \in members' : IsPending(m)'
    BY <1>1, <1>2, <1>3
  <2>2. QED BY <1>1, <1>2, <2>1 DEF ChallengeInv
<1>6. VerdictBacked'
  <2>1. Outcome(trace[cur]) \in Terminal =>
            trace[cur][Len(trace[cur])] = Outcome(trace[cur])
    BY <1>1, OutcomeType
  <2>2. QED BY <1>1, <1>2, <2>1 DEF VerdictBacked
<1>7. QED BY <1>4, <1>5, <1>6

LEMMA SpreadInv ==
    ASSUME IInv, NEW m \in Findings, Spread(m)
    PROVE  BatchInv' /\ ChallengeInv' /\ VerdictBacked'
<1> USE DEF IInv, TypeOK
<1>1. /\ cur \in Findings /\ cur' = cur /\ pc = "spread" /\ pc' = "spread"
      /\ UNCHANGED <<trace, todo, group, aside>>
      /\ m \in members /\ members' = members \ {m}
      /\ status' = [status EXCEPT ![m] = Outcome(trace[cur])]
  BY DEF Spread, Write
<1>2. /\ m \in group[cur] \ {cur}
      /\ group[cur] \subseteq MatchGroup(Findings, cur)
      /\ \A f \in todo : group[f] \cap group[cur] = {}
      /\ group[cur] \cap aside = {}
      /\ trace[cur] # <<>> /\ trace[m] = <<>>
      /\ \A n \in members : IsPending(n)
  BY <1>1 DEF ChallengeInv, IsPending
<1>3. \A n \in Findings \ {m} : IsPending(n)' <=> IsPending(n)
  BY <1>1 DEF IsPending
<1>4. BatchInv'
  BY <1>1, <1>2, <1>3 DEF BatchInv
<1>5. ChallengeInv'
  <2>1. \A n \in members' : IsPending(n)'
    BY <1>1, <1>2, <1>3
  <2>2. QED BY <1>1, <1>2, <2>1 DEF ChallengeInv
<1>6. VerdictBacked'
  <2>1. cur \in MatchGroup(Findings, m)
    BY <1>1, <1>2, GroupSymmetric
  <2>2. Outcome(trace[cur]) \in Terminal =>
            trace[cur][Len(trace[cur])] = Outcome(trace[cur])
    BY <1>1, OutcomeType
  <2>3. QED BY <1>1, <1>2, <2>1, <2>2 DEF VerdictBacked
<1>7. QED BY <1>4, <1>5, <1>6

LEMMA DeferInv ==
    ASSUME IInv, NEW f \in Findings, Defer(f)
    PROVE  BatchInv' /\ ChallengeInv' /\ VerdictBacked'
<1> USE DEF IInv, TypeOK
<1>1. /\ pc = "next" /\ pc' = "next" /\ todo = {} /\ todo' = {}
      /\ UNCHANGED <<trace, group, cur, members>>
      /\ f \in aside /\ aside' = aside \ {f}
      /\ status' = [status EXCEPT ![f] = "deferred"]
  BY DEF Defer
<1>2. \A m \in Findings \ {f} : IsPending(m)' <=> IsPending(m)
  BY <1>1 DEF IsPending
<1>3. BatchInv'
  BY <1>1, <1>2 DEF BatchInv
<1>4. ChallengeInv'
  BY <1>1 DEF ChallengeInv
<1>5. VerdictBacked'
  BY <1>1 DEF VerdictBacked, Terminal
<1>6. QED BY <1>3, <1>4, <1>5

(* Returning, re-raising and dying forget the batch. *)
LEMMA ExitInv ==
    ASSUME IInv, Return \/ Handle \/ Crash
    PROVE  BatchInv' /\ ChallengeInv' /\ VerdictBacked'
<1> USE DEF IInv, TypeOK
<1>1. /\ pc' = "idle" /\ todo' = {} /\ aside' = {} /\ members' = {}
      /\ trace' = trace
      /\ \/ status' = status
         \/ status' = [status EXCEPT ![cur] = "unresolved"]
  BY DEF Return, Handle, Crash, Exit, Write
<1>2. BatchInv' /\ ChallengeInv'
  BY <1>1 DEF BatchInv, ChallengeInv
<1>3. VerdictBacked'
  BY <1>1 DEF VerdictBacked, Terminal
<1>4. QED BY <1>2, <1>3

LEMMA NextInv == IInv /\ [Next]_vars => IInv'
<1> SUFFICES ASSUME IInv, [Next]_vars PROVE BatchInv' /\ ChallengeInv' /\ VerdictBacked'
  BY NextType DEF IInv
<1>1. CASE \E used \in SpentBefore : Start(used)
  BY <1>1, StartInv
<1>2. CASE UNCHANGED vars \/ EmptyQueue
  BY <1>2 DEF EmptyQueue, vars, IInv, BatchInv, ChallengeInv, VerdictBacked, IsPending
<1>3. ASSUME NEW f \in Findings, TakeUp(f) \/ Spread(f) \/ Defer(f)
      PROVE  BatchInv' /\ ChallengeInv' /\ VerdictBacked'
  BY <1>3, TakeUpInv, SpreadInv, DeferInv
<1>4. CASE (\E v \in Rows : Verdict(v)) \/ (\E upheld \in BOOLEAN : Critique(upheld)) \/ Fail
  BY <1>4, CallInv
<1>5. CASE LogIteration
  BY <1>5, LogIterationInv
<1>6. CASE Settle
  BY <1>6, SettleInv
<1>7. CASE NextGroup
  BY <1>7 DEF NextGroup, IInv, BatchInv, ChallengeInv, VerdictBacked, IsPending
<1>8. CASE Return \/ Handle \/ Crash
  BY <1>8, ExitInv
<1>9. QED
  BY <1>1, <1>2, <1>3, <1>4, <1>5, <1>6, <1>7, <1>8 DEF Next, Step

LEMMA Inductive == Spec => []IInv
BY InitInv, NextInv, PTL DEF Spec

(* Every confirmed or killed finding is backed by a committed round of its own
   or of its match group, whatever fails and wherever the process dies. *)
THEOREM VerdictsAreBacked == Spec => []VerdictBacked
<1>1. IInv => VerdictBacked
  BY DEF IInv
<1>2. QED BY <1>1, Inductive, PTL

(* No step of the stage changes a verdict once it is written. *)
THEOREM VerdictsAreFinal == Spec => VerdictsStand
<1>1. IInv /\ [Next]_vars =>
        [\A f \in Findings : status[f] \in Terminal => status'[f] = status[f]]_vars
  <2> SUFFICES ASSUME IInv, Next, NEW f \in Findings, status[f] \in Terminal
               PROVE  status'[f] = status[f]
    OBVIOUS
  <2> USE DEF IInv, TypeOK
  <2>1. CASE Settle
    BY <2>1 DEF Settle, Write, ChallengeInv
  <2>2. ASSUME NEW m \in Findings, Spread(m) PROVE status'[f] = status[f]
    BY <2>2 DEF Spread, Write, ChallengeInv, IsPending, Terminal
  <2>3. ASSUME NEW m \in Findings, Defer(m) PROVE status'[f] = status[f]
    BY <2>3 DEF Defer, BatchInv, IsPending, Terminal
  <2>4. CASE Handle
    BY <2>4 DEF Handle, Write, ChallengeInv
  <2>5. QED
    BY <2>1, <2>2, <2>3, <2>4
    DEF Next, Step, Start, EmptyQueue, vars, TakeUp, Verdict, Critique,
        LogIteration, NextGroup, Return, Fail, Crash
<1>2. QED BY <1>1, Inductive, PTL DEF Spec, VerdictsStand

(* Rows are appended one at a time, only while every earlier one is open. *)
THEOREM TraceOnlyGrows == Spec => TraceGrowsUntilCommitted
<1> DEFINE Grows ==
        \A f \in Findings : trace'[f] # trace[f] =>
            /\ status[f] \notin Terminal
            /\ \A i \in DOMAIN trace[f] : trace[f][i] = "open" /\ trace'[f][i] = "open"
<1>1. IInv /\ [Next]_vars => [Grows]_vars
  <2> SUFFICES ASSUME IInv, Next, NEW f \in Findings, trace'[f] # trace[f]
               PROVE  /\ status[f] \notin Terminal
                      /\ \A i \in DOMAIN trace[f] :
                            trace[f][i] = "open" /\ trace'[f][i] = "open"
    OBVIOUS
  <2>1. LogIteration
    BY DEF Next, Step, Start, EmptyQueue, vars, TakeUp, Spread, Defer, Verdict,
           Critique, Settle, NextGroup, Return, Handle, Fail, Crash
  <2>2. f = cur /\ trace'[f] = Append(trace[f], draft)
    BY <2>1 DEF LogIteration, IInv, TypeOK
  <2>3. trace[f] \in Seq(Rows) /\ draft \in Rows
    BY DEF IInv, TypeOK
  <2>4. status[f] \notin Terminal /\ \A i \in 1 .. Len(trace[f]) : trace[f][i] = "open"
    BY <2>1, <2>2 DEF LogIteration, IInv, ChallengeInv
  <2>5. DOMAIN trace[f] = 1 .. Len(trace[f])
    BY <2>3
  <2>6. QED BY <2>2, <2>3, <2>4, <2>5, AppendRow
<1>2. QED BY <1>1, Inductive, PTL DEF Spec, TraceGrowsUntilCommitted

-----------------------------------------------------------------------------
(* What the exception handler of challenge() achieves, and what it cannot: a
   process that dies runs no handler. *)
LEMMA HandlerInductive ==
    IInv /\ HandlerInv /\ [Next]_vars => HandlerInv'
<1> SUFFICES ASSUME IInv, HandlerInv, [Next]_vars, crashes' = 0,
                    NEW f \in Findings, status'[f] = "deferred", trace'[f] # <<>>
             PROVE  /\ f = cur'
                    /\ pc' \in {"verdict", "critique", "log", "settle", "handler"}
  BY DEF HandlerInv
<1> USE DEF IInv, TypeOK
<1>0. \A g \in Findings : status[g] = "deferred" /\ trace[g] # <<>> =>
        g = cur /\ pc \in {"verdict", "critique", "log", "settle", "handler"}
  <2>1. crashes = 0 \/ Crash
    BY DEF Next, Step, vars, Start, EmptyQueue, TakeUp, Spread, Defer, Verdict,
           Critique, LogIteration, Settle, NextGroup, Return, Handle, Fail
  <2>2. crashes = 0
    BY <2>1 DEF Crash
  <2>3. QED BY <2>2 DEF HandlerInv
<1>1. CASE LogIteration
  <2>1. CASE f = cur
    BY <1>1, <2>1 DEF LogIteration
  <2>2. CASE f # cur
    BY <1>1, <2>2, <1>0 DEF LogIteration
  <2>3. QED BY <2>1, <2>2
<1>2. CASE Settle
  <2>1. f # cur
    BY <1>2 DEF Settle, Write, Outcome, Terminal
  <2>2. QED BY <1>2, <2>1, <1>0 DEF Settle, Write
<1>3. ASSUME NEW m \in Findings, Spread(m)
      PROVE  FALSE
  <2>1. Outcome(trace[cur]) # "deferred"
    BY DEF Outcome, Terminal
  <2>2. status[f] = "deferred"
    BY <1>3, <2>1 DEF Spread, Write
  <2>3. QED BY <1>3, <2>2, <1>0 DEF Spread
<1>4. ASSUME NEW m \in Findings, Defer(m)
      PROVE  FALSE
  <2>1. trace[m] = <<>> /\ trace' = trace /\ pc = "next"
    BY <1>4 DEF Defer, BatchInv, IsPending
  <2>2. status[f] = "deferred"
    BY <1>4, <2>1 DEF Defer
  <2>3. QED BY <2>1, <2>2, <1>0
<1>5. CASE Handle
  BY <1>5, <1>0 DEF Handle, Write
<1>6. CASE Crash
  BY <1>6 DEF Crash
<1>7. CASE UNCHANGED vars \/ EmptyQueue
  BY <1>7, <1>0 DEF vars, EmptyQueue
<1>8. CASE \/ \E used \in SpentBefore : Start(used)
           \/ \E m \in Findings : TakeUp(m)
           \/ NextGroup
           \/ Return
  BY <1>8, <1>0 DEF Start, TakeUp, NextGroup, Return
<1>9. CASE (\E v \in Rows : Verdict(v)) \/ (\E upheld \in BOOLEAN : Critique(upheld)) \/ Fail
  BY <1>9, <1>0 DEF Verdict, Critique, Fail
<1>10. QED
  BY <1>1, <1>2, <1>3, <1>4, <1>5, <1>6, <1>7, <1>8, <1>9 DEF Next, Step

(* As long as the process lives to run its handlers, no failure strands a
   finding: what is deferred between two runs has no rows. *)
THEOREM NothingStranded ==
    Spec => []DeferredIsUnexamined
<1>1. Init => HandlerInv
  BY DEF Init, HandlerInv
<1>2. IInv /\ HandlerInv /\ [Next]_vars => HandlerInv'
  BY HandlerInductive
<1>3. HandlerInv => DeferredIsUnexamined
  BY DEF HandlerInv, DeferredIsUnexamined
<1>4. QED
  BY <1>1, <1>2, <1>3, Inductive, PTL DEF Spec

-----------------------------------------------------------------------------
(* Nothing falls out of the queue. *)

(* A nonempty set of findings has a first one in budget order. *)
LEMMA FirstInOrder ==
    ASSUME NEW S \in SUBSET Findings, S # {}
    PROVE  \E f \in S : \A g \in S \ {f} : Before(f, g)
<1> DEFINE R == {p \in Findings \X Findings : Before(p[1], p[2])}
<1>1. \A f, g \in Findings : <<f, g>> \in R <=> Before(f, g)
  OBVIOUS
<1>2. \A f, g \in S : f # g => <<f, g>> \in R \/ <<g, f>> \in R
  BY <1>1, OrderAssumption DEF Before
<1>3. \A f, g, h \in S : <<f, g>> \in R /\ <<g, h>> \in R => <<f, h>> \in R
  BY <1>1, OrderAssumption DEF Before
<1>4. IsFiniteSet(S)
  BY FindingsAssumption, FS_Subset
<1> HIDE DEF R
<1>5. PICK f \in S : \A g \in S \ {f} : <<f, g>> \in R
  BY <1>2, <1>3, <1>4, FirstOf
<1>6. QED BY <1>1, <1>5

(* _grouped_queue loses no finding: each is in the group of a representative. *)
LEMMA QueueIsCovered ==
    ASSUME NEW S \in SUBSET Findings, NEW f \in S
    PROVE  \E g \in Representatives(S) : f \in MatchGroup(S, g)
<1>1. MatchGroup(S, f) \in SUBSET Findings /\ f \in MatchGroup(S, f)
  BY GroupSubset, GroupClosed
<1>2. PICK g \in MatchGroup(S, f) : \A h \in MatchGroup(S, f) \ {g} : Before(g, h)
  BY <1>1, FirstInOrder
<1>3. g \in S /\ f \in MatchGroup(S, g) /\ MatchGroup(S, g) \subseteq MatchGroup(S, f)
  BY GroupSubset, GroupSymmetric, GroupTransitive
<1>4. g \in Representatives(S)
  BY <1>2, <1>3 DEF Representatives
<1>5. QED BY <1>3, <1>4

LEMMA QueueStart ==
    ASSUME IInv, NEW used \in SpentBefore, Start(used)
    PROVE  QueueInv'
<1> DEFINE R == Representatives(Pending)
<1>1. Pending \in SUBSET Findings /\ R \subseteq Pending /\ Pending' = Pending
  BY DEF Pending, Representatives, Start, IsPending
<1>2. PICK chosen \in SUBSET R :
        todo' = chosen /\ aside' = UNION {MatchGroup(Pending, f) : f \in R \ chosen}
  BY DEF Start, Remainder
<1>3. \A g \in R : group'[g] = MatchGroup(Pending, g)
  BY <1>1 DEF Start
<1>4. \A f \in Pending : f \in aside' \/ \E g \in todo' : f \in group'[g]
  BY <1>1, <1>2, <1>3, QueueIsCovered
<1>5. QED BY <1>1, <1>4 DEF QueueInv, InHand

(* A step that writes no finding and keeps the batch in hand. *)
LEMMA QueueKept ==
    ASSUME IInv, QueueInv, UNCHANGED <<status, trace, ruling>>,
           pc \notin {"idle", "handler"},
           \A f \in Findings : IsPending(f) /\ InHand(f) => InHand(f)'
    PROVE  QueueInv'
<1>1. Pending' = Pending /\ Pending \subseteq Findings
  BY DEF Pending, IsPending
<1>2. QED BY <1>1 DEF QueueInv, Pending

LEMMA QueueNext == IInv /\ QueueInv /\ [Next]_vars => QueueInv'
<1> SUFFICES ASSUME IInv, QueueInv, [Next]_vars, pc' \notin {"idle", "handler"}
             PROVE  QueueInv'
  BY DEF QueueInv
<1>1. CASE \E used \in SpentBefore : Start(used)
  BY <1>1, QueueStart
<1>2. CASE UNCHANGED vars \/ EmptyQueue
  BY <1>2 DEF EmptyQueue, vars, QueueInv, Pending, IsPending, InHand
<1>3. ASSUME NEW f \in Findings, TakeUp(f) PROVE QueueInv'
  <2>1. \A m \in Findings : InHand(m) => InHand(m)'
    BY <1>3 DEF TakeUp, InHand
  <2>2. QED BY <1>3, <2>1, QueueKept DEF TakeUp
<1>4. CASE (\E v \in Rows : Verdict(v)) \/ (\E upheld \in BOOLEAN : Critique(upheld))
  <2>1. \A m \in Findings : InHand(m) => InHand(m)'
    BY <1>4 DEF Verdict, Critique, InHand
  <2>2. QED BY <1>4, <2>1, QueueKept DEF Verdict, Critique
<1>5. CASE LogIteration
  <2>1. /\ pc = "log" /\ pc' \in {"verdict", "settle"} /\ cur \in Findings
        /\ UNCHANGED <<status, todo, group, aside, cur, members, ruling>>
        /\ trace' = [trace EXCEPT ![cur] = Append(@, draft)]
    BY <1>5 DEF LogIteration, IInv, TypeOK
  <2>2. \A m : InHand(m)' <=> InHand(m)
    BY <2>1 DEF InHand
  <2>3. trace'[cur] # <<>>
    BY <1>5, <2>1, AppendRow DEF IInv, TypeOK
  <2>4. Pending' \subseteq Pending
    BY <2>1, <2>3 DEF Pending, IsPending, IInv, TypeOK
  <2>5. QED BY <2>1, <2>2, <2>4 DEF QueueInv
<1>6. CASE Settle
  <2>1. /\ pc = "settle" /\ pc' = "spread" /\ cur \in Findings
        /\ UNCHANGED <<trace, todo, group, aside, cur>>
        /\ members' = group[cur] \ {cur}
        /\ status' = [status EXCEPT ![cur] = Outcome(trace[cur])]
        /\ ruling' = [ruling EXCEPT ![cur] = Outcome(trace[cur])]
    BY <1>6 DEF Settle, Write, IInv, TypeOK
  <2>2. cur \notin Pending'
    BY <2>1 DEF IInv, ChallengeInv, Pending, IsPending
  <2>3. ASSUME NEW m \in Findings \ {cur}, InHand(m) PROVE InHand(m)'
    BY <2>1, <2>3 DEF InHand, IInv, BatchInv
  <2>4. ASSUME NEW m \in Findings \ {cur}
        PROVE  /\ status'[m] = status[m] /\ ruling'[m] = ruling[m]
               /\ m \in Pending' => m \in Pending
    BY <2>1 DEF Pending, IsPending, IInv, TypeOK
  <2>5. Pending' \subseteq Findings
    BY DEF Pending
  <2>6. QED BY <2>1, <2>2, <2>3, <2>4, <2>5 DEF QueueInv
<1>7. ASSUME NEW m \in Findings, Spread(m) PROVE QueueInv'
  <2>1. /\ pc = "spread" /\ pc' = "spread" /\ cur \in Findings
        /\ UNCHANGED <<trace, todo, group, aside, cur>>
        /\ members' = members \ {m}
        /\ status' = [status EXCEPT ![m] = Outcome(trace[cur])]
        /\ ruling' = [ruling EXCEPT ![m] = Outcome(trace[cur])]
    BY <1>7 DEF Spread, Write, IInv, TypeOK
  <2>2. ruling'[m] # "none"
    BY <2>1 DEF Outcome, Terminal, IInv, TypeOK
  <2>3. ASSUME NEW n \in Findings \ {m}
        PROVE  /\ status'[n] = status[n] /\ ruling'[n] = ruling[n]
               /\ n \in Pending' => n \in Pending
               /\ InHand(n) => InHand(n)'
    BY <2>1 DEF Pending, IsPending, InHand, IInv, TypeOK
  <2>4. Pending' \subseteq Findings
    BY DEF Pending
  <2>5. QED BY <2>1, <2>2, <2>3, <2>4 DEF QueueInv
<1>8. CASE NextGroup
  <2>1. \A m \in Findings : InHand(m) => InHand(m)'
    BY <1>8 DEF NextGroup, InHand
  <2>2. QED BY <1>8, <2>1, QueueKept DEF NextGroup
<1>9. ASSUME NEW f \in Findings, Defer(f) PROVE QueueInv'
  <2>1. /\ pc = "next" /\ pc' = "next"
        /\ UNCHANGED <<trace, todo, group, cur, members, ruling>>
        /\ aside' = aside \ {f}
        /\ status' = [status EXCEPT ![f] = "deferred"]
    BY <1>9 DEF Defer
  <2>2. status'[f] = "deferred"
    BY <2>1 DEF IInv, TypeOK
  <2>3. ASSUME NEW n \in Findings \ {f}
        PROVE  /\ status'[n] = status[n]
               /\ n \in Pending' => n \in Pending
               /\ InHand(n) => InHand(n)'
    BY <2>1 DEF Pending, IsPending, InHand, IInv, TypeOK
  <2>4. Pending' \subseteq Findings
    BY DEF Pending
  <2>5. QED BY <2>1, <2>2, <2>3, <2>4 DEF QueueInv
<1>10. QED
  BY <1>1, <1>2, <1>3, <1>4, <1>5, <1>6, <1>7, <1>8, <1>9
     DEF Next, Step, Return, Handle, Fail, Crash, Exit

(* When challenge() is through its batch, every finding of the queue it read
   has been settled, given its group's outcome, or marked deferred. *)
THEOREM QueueIsDisposed == Spec => []NothingDropped
<1>1. Init => QueueInv
  BY DEF Init, QueueInv
<1>2. IInv /\ QueueInv => NothingDropped
  BY DEF QueueInv, NothingDropped, InHand, IInv, BatchInv
<1>3. QED BY <1>1, <1>2, QueueNext, Inductive, PTL DEF Spec
-----------------------------------------------------------------------------
(* The reserved envelope: a ceiling on provider calls never stops a challenge
   that was started. *)

LEMMA Products ==
    ASSUME NEW a \in Nat, NEW c \in Nat
    PROVE  /\ a * c \in Nat
           /\ (a + 1) * c = a * c + c
           /\ a > 0 => a * c >= c /\ (a - 1) * c = a * c - c
<1>1. a * c \in Nat /\ (a + 1) * c = a * c + c
  OBVIOUS
<1>2. ASSUME a > 0 PROVE a * c >= c /\ (a - 1) * c = a * c - c
  <2>1. a - 1 \in Nat
    BY <1>2
  <2>2. (a - 1) * c \in Nat /\ ((a - 1) + 1) * c = (a - 1) * c + c
    BY <2>1
  <2>3. (a - 1) + 1 = a
    OBVIOUS
  <2>4. QED BY <1>1, <2>2, <2>3
<1>3. QED BY <1>1, <1>2

LEMMA EnvelopeType ==
    /\ RoundCalls \in Nat
    /\ RoundCalls = Attempts + Attempts
    /\ ReservedCalls \in Nat \ {0}
    /\ ReservedCalls = MaxIterations * RoundCalls
<1>1. RoundCalls = Attempts + Attempts /\ RoundCalls \in Nat \ {0}
  BY AttemptsType DEF RoundCalls
<1>2. MaxIterations * RoundCalls >= RoundCalls /\ MaxIterations * RoundCalls \in Nat
  BY <1>1, BudgetAssumption, Products
<1>3. QED BY <1>1, <1>2 DEF ReservedCalls

(* Any set of findings is finite, so groups can be counted. *)
LEMMA Countable ==
    ASSUME NEW S \in SUBSET Findings
    PROVE  IsFiniteSet(S) /\ Cardinality(S) \in Nat
BY FindingsAssumption, FS_Subset, FS_CardinalityType

LEMMA BudgetType ==
    ASSUME NEW used \in 0 .. MaxCalls, MaxCalls # 0
    PROVE  /\ SafeBudget(used) \in Nat
           /\ SafeBudget(used) * ReservedCalls <= MaxCalls - used
<1> DEFINE left == MaxCalls - used
           capacity == left \div ReservedCalls
<1>1. left \in Nat /\ ReservedCalls \in Nat /\ ReservedCalls > 0
  BY BudgetAssumption, EnvelopeType
<1>2. capacity \in Nat /\ capacity * ReservedCalls <= left
  <2> HIDE DEF left
  <2> QED BY <1>1
<1>3. SafeBudget(used) \in Nat /\ SafeBudget(used) <= capacity
  BY <1>2, BudgetAssumption DEF SafeBudget, MinOf
<1>4. ASSUME NEW a \in Nat, NEW b \in Nat, a <= b
      PROVE  a * ReservedCalls <= b * ReservedCalls
  <2>1. (b - a) * ReservedCalls \in Nat
    BY <1>1, <1>4, Products
  <2>2. b * ReservedCalls = a * ReservedCalls + (b - a) * ReservedCalls
    BY <1>1, <1>4
  <2>3. a * ReservedCalls \in Nat /\ b * ReservedCalls \in Nat
    BY <1>1, Products
  <2>4. QED BY <2>1, <2>2, <2>3
<1>5. SafeBudget(used) * ReservedCalls <= capacity * ReservedCalls
  BY <1>2, <1>3, <1>4
<1>6. QED BY <1>1, <1>2, <1>3, <1>5, Products

(* The first k of a set are at most k. *)
LEMMA PrefixSize ==
    ASSUME NEW S \in SUBSET Findings, NEW P, NEW k \in Nat, IsPrefix(P, S, k)
    PROVE  Cardinality(P) \in Nat /\ Cardinality(P) <= k
BY Countable DEF IsPrefix, MinOf

(* Reserving slots for untriaged findings never selects more than the budget. *)
LEMMA SelectionSize ==
    ASSUME NEW R \in SUBSET Findings, NEW P \in SUBSET R, NEW budget \in Nat,
           IsSelection(P, R, budget)
    PROVE  Cardinality(P) <= budget
<1> DEFINE T == R \cap Triaged
           U == R \ Triaged
           reserve == MinOf(MinOf(MinUntriaged, Cardinality(U)), budget - 1)
           PT == P \cap Triaged
           PU == P \ Triaged
<1>1. CASE IsPrefix(P, R, budget)
  BY <1>1, PrefixSize
<1>2. CASE ~IsPrefix(P, R, budget)
  <2>1. /\ budget >= 2
        /\ IsPrefix(PT, T, budget - reserve)
        /\ IsPrefix(PU, U, budget - Cardinality(PT))
    BY <1>2 DEF IsSelection
  <2>2. Cardinality(U) \in Nat /\ Cardinality(T) \in Nat
    BY Countable
  <2>3. reserve \in Nat /\ reserve <= budget
    BY <2>1, <2>2, BudgetAssumption DEF MinOf
  <2>4. Cardinality(PT) \in Nat /\ Cardinality(PT) <= budget
    <3> HIDE DEF reserve
    <3>1. Cardinality(PT) <= budget - reserve /\ Cardinality(PT) \in Nat
      BY <2>1, <2>3, PrefixSize
    <3>2. QED BY <2>3, <3>1
  <2>5. Cardinality(PU) \in Nat /\ Cardinality(PU) <= budget - Cardinality(PT)
    BY <2>1, <2>4, PrefixSize
  <2>6. Cardinality(P) = Cardinality(PT) + Cardinality(PU)
    <3>1. IsFiniteSet(PT) /\ IsFiniteSet(PU)
      BY Countable
    <3>2. PT \cup PU = P /\ PT \cap PU = {}
      OBVIOUS
    <3>3. Cardinality(PT \cup PU)
            = Cardinality(PT) + Cardinality(PU) - Cardinality(PT \cap PU)
      BY <3>1, FS_Union
    <3>4. Cardinality(P) = Cardinality(PT) + Cardinality(PU) - Cardinality({})
      BY <3>2, <3>3
    <3>5. Cardinality({}) = 0
      BY FS_EmptySet
    <3> HIDE DEF PT, PU
    <3>6. QED BY <2>4, <2>5, <3>4, <3>5
  <2>7. QED BY <2>4, <2>5, <2>6
<1>3. QED BY <1>1, <1>2

LEMMA EnvelopeStart ==
    ASSUME IInv, NEW used \in SpentBefore, Start(used)
    PROVE  EnvelopeInv'
<1>1. pc' = "next" /\ calls' = used /\ used \in Nat /\ used <= MaxCalls
  BY BudgetAssumption DEF Start
<1>2. SUFFICES ASSUME MaxCalls # 0
               PROVE  used + Cardinality(todo') * ReservedCalls <= MaxCalls
  <2>1. CallsLeft' = 0
    BY <1>1 DEF CallsLeft
  <2>2. todo' \in SUBSET Findings
    BY NextType DEF Next, IInv, TypeOK
  <2>3. Cardinality(todo') * ReservedCalls \in Nat
    BY <2>2, Countable, EnvelopeType, Products
  <2>4. ASSUME used + Cardinality(todo') * ReservedCalls <= MaxCalls
        PROVE  calls' + CallsLeft' + Cardinality(todo') * ReservedCalls <= MaxCalls
    BY <1>1, <2>1, <2>3, <2>4
  <2>5. QED BY <1>1, <2>4 DEF EnvelopeInv
<1>3. PICK chosen \in SUBSET Representatives(Pending) :
        todo' = chosen /\ IsSelection(chosen, Representatives(Pending), SafeBudget(used))
  BY <1>2 DEF Start, Bounded
<1>4. Representatives(Pending) \in SUBSET Findings
  BY DEF Representatives, Pending
<1>5. SafeBudget(used) \in Nat /\ SafeBudget(used) * ReservedCalls <= MaxCalls - used
  <2>1. used \in 0 .. MaxCalls
    BY BudgetAssumption
  <2>2. QED BY <1>2, <2>1, BudgetType
<1>6. Cardinality(todo') \in Nat /\ Cardinality(todo') <= SafeBudget(used)
  BY <1>3, <1>4, <1>5, SelectionSize, Countable
<1>7. Cardinality(todo') * ReservedCalls <= SafeBudget(used) * ReservedCalls
  <2>1. SafeBudget(used) - Cardinality(todo') \in Nat
    BY <1>5, <1>6
  <2>2. (SafeBudget(used) - Cardinality(todo')) * ReservedCalls \in Nat
    BY <2>1, EnvelopeType, Products
  <2>3. (SafeBudget(used) - Cardinality(todo')) * ReservedCalls
          = SafeBudget(used) * ReservedCalls - Cardinality(todo') * ReservedCalls
    BY <1>5, <1>6, EnvelopeType
  <2>4. /\ SafeBudget(used) * ReservedCalls \in Nat
        /\ Cardinality(todo') * ReservedCalls \in Nat
    BY <1>5, <1>6, EnvelopeType, Products
  <2>5. QED BY <2>2, <2>3, <2>4
<1>8. QED
  <2>1. /\ SafeBudget(used) * ReservedCalls \in Nat
        /\ Cardinality(todo') * ReservedCalls \in Nat
    BY <1>5, <1>6, EnvelopeType, Products
  <2>2. QED BY <1>1, <1>5, <1>7, <2>1, BudgetAssumption

LEMMA EnvelopeTakeUp ==
    ASSUME IInv, EnvelopeInv, NEW f \in Findings, TakeUp(f)
    PROVE  EnvelopeInv'
<1> DEFINE n == Cardinality(todo')
<1>1. /\ pc = "next" /\ pc' = "verdict" /\ cur' = f /\ calls' = calls
      /\ trace' = trace /\ f \in todo /\ todo' = todo \ {f}
  BY DEF TakeUp
<1>2. Len(trace'[cur']) = 0
  BY <1>1 DEF IInv, BatchInv, IsPending
<1>3. n \in Nat /\ Cardinality(todo) = n + 1
  <2>1. IsFiniteSet(todo) /\ Cardinality(todo) \in Nat
    BY Countable DEF IInv, TypeOK
  <2>2. IsFiniteSet(todo') /\ Cardinality(todo') \in Nat
    BY <1>1, Countable DEF IInv, TypeOK
  <2>3. Cardinality(todo') = Cardinality(todo) - 1
    BY <1>1, <2>1, FS_RemoveElement
  <2>4. QED BY <2>1, <2>2, <2>3
<1>4. Cardinality(todo) * ReservedCalls = n * ReservedCalls + ReservedCalls
  BY <1>3, EnvelopeType, Products
<1>5. CallsLeft' = ReservedCalls
  <2>1. CallsLeft' = (MaxIterations - 0) * RoundCalls
    BY <1>1, <1>2 DEF CallsLeft
  <2>2. QED BY <2>1, EnvelopeType, BudgetAssumption
<1>6. MaxCalls # 0 => calls + 0 + Cardinality(todo) * ReservedCalls <= MaxCalls
  BY <1>1 DEF EnvelopeInv, CallsLeft
<1>7. n * ReservedCalls \in Nat
  BY <1>3, EnvelopeType, Products
<1>8. MaxCalls # 0 => calls' + CallsLeft' + n * ReservedCalls <= MaxCalls
  <2> HIDE DEF n
  <2>1. calls \in Nat /\ calls' = calls
    BY <1>1 DEF IInv, TypeOK
  <2>2. QED BY <1>4, <1>5, <1>6, <1>7, <2>1, EnvelopeType, BudgetAssumption
<1>9. QED BY <1>1, <1>2, <1>8, BudgetAssumption DEF EnvelopeInv

(* Charging a call's attempts to what is left of the challenge. *)
LEMMA Charge ==
    ASSUME NEW c \in Int, NEW d \in Int, NEW a \in Int, NEW l \in Int, NEW r \in Int,
           NEW m \in Int, d <= c + a, c + l + r <= m
    PROVE  d + (l - a) + r <= m
OBVIOUS

LEMMA Lower ==
    ASSUME NEW c \in Int, NEW k \in Int, NEW l \in Int, NEW r \in Int, NEW m \in Int,
           k <= l, c + l + r <= m
    PROVE  c + k + r <= m
OBVIOUS

(* The rounds left to the current challenge, as a product the steps need. *)
LEMMA RoundsLeft ==
    ASSUME IInv, EnvelopeInv, pc \in {"verdict", "critique", "log"}
    PROVE  /\ Len(trace[cur]) \in Nat
           /\ Len(trace[cur]) < MaxIterations
           /\ (MaxIterations - Len(trace[cur])) * RoundCalls \in Nat
           /\ (MaxIterations - Len(trace[cur])) * RoundCalls >= RoundCalls
           /\ (MaxIterations - (Len(trace[cur]) + 1)) * RoundCalls
                = (MaxIterations - Len(trace[cur])) * RoundCalls - RoundCalls
           /\ Cardinality(todo) * ReservedCalls \in Nat
<1> DEFINE r == MaxIterations - Len(trace[cur])
<1>1. Len(trace[cur]) \in Nat /\ Len(trace[cur]) < MaxIterations
  BY DEF IInv, TypeOK, EnvelopeInv
<1>2. r \in Nat /\ r > 0 /\ MaxIterations - (Len(trace[cur]) + 1) = r - 1
  BY <1>1, BudgetAssumption
<1>3. r * RoundCalls \in Nat /\ r * RoundCalls >= RoundCalls
        /\ (r - 1) * RoundCalls = r * RoundCalls - RoundCalls
  <2> HIDE DEF r
  <2> QED BY <1>2, EnvelopeType, Products
<1>4. Cardinality(todo) * ReservedCalls \in Nat
  BY Countable, EnvelopeType, Products DEF IInv, TypeOK
<1>5. QED BY <1>1, <1>2, <1>3, <1>4

LEMMA EnvelopeCall ==
    ASSUME IInv, EnvelopeInv,
           \/ \E v \in Rows : Verdict(v)
           \/ \E upheld \in BOOLEAN : Critique(upheld)
    PROVE  EnvelopeInv'
<1> DEFINE left == (MaxIterations - Len(trace[cur])) * RoundCalls
           rest == Cardinality(todo) * ReservedCalls
<1>1. /\ UNCHANGED <<trace, cur, todo>>
      /\ \/ pc = "verdict" /\ pc' = "critique"
         \/ pc = "critique" /\ pc' = "log"
      /\ \E k \in 1 .. Attempts : calls' = Spend(k)
  BY DEF Verdict, Critique
<1>2. Len(trace'[cur']) < MaxIterations
  BY <1>1 DEF EnvelopeInv
<1>3. SUFFICES ASSUME MaxCalls # 0
               PROVE  calls' + CallsLeft' + rest <= MaxCalls
  BY <1>1, <1>2 DEF EnvelopeInv
<1>4. calls' \in Nat /\ calls \in Nat /\ calls' <= calls + Attempts
  BY <1>1, <1>3, AttemptsType DEF Spend, IInv, TypeOK
<1>5. left \in Nat /\ rest \in Nat
  BY <1>1, RoundsLeft
<1>6. CASE pc = "verdict"
  <2>1. CallsLeft = left /\ CallsLeft' = left - Attempts
    BY <1>1, <1>6 DEF CallsLeft
  <2>2. calls + CallsLeft + rest <= MaxCalls
    BY <1>3, <1>6 DEF EnvelopeInv
  <2>3. calls + left + rest <= MaxCalls
    BY <2>1, <2>2
  <2>4. calls' + (left - Attempts) + rest <= MaxCalls
    <3> HIDE DEF left, rest
    <3>1. /\ calls \in Int /\ calls' \in Int /\ Attempts \in Int
          /\ left \in Int /\ rest \in Int /\ MaxCalls \in Int
      BY <1>4, <1>5, AttemptsType, BudgetAssumption
    <3>2. QED BY <1>4, <2>3, <3>1, Charge
  <2>5. QED BY <2>1, <2>4
<1>7. CASE pc = "critique"
  <2>1. CallsLeft = left - Attempts /\ CallsLeft' = left - RoundCalls
    BY <1>1, <1>7 DEF CallsLeft
  <2>2. calls + CallsLeft + rest <= MaxCalls
    BY <1>3, <1>7 DEF EnvelopeInv
  <2>3. calls + (left - Attempts) + rest <= MaxCalls
    BY <2>1, <2>2
  <2>4. calls' + (left - RoundCalls) + rest <= MaxCalls
    <3> HIDE DEF left, rest
    <3>1. /\ calls \in Int /\ calls' \in Int /\ Attempts \in Int
          /\ left - Attempts \in Int /\ rest \in Int /\ MaxCalls \in Int
      BY <1>4, <1>5, AttemptsType, BudgetAssumption
    <3>2. calls' + ((left - Attempts) - Attempts) + rest <= MaxCalls
      BY <1>4, <2>3, <3>1, Charge
    <3>3. (left - Attempts) - Attempts = left - RoundCalls
      BY <1>5, AttemptsType, EnvelopeType
    <3>4. QED BY <3>2, <3>3
  <2>5. QED BY <2>1, <2>4
<1>8. QED BY <1>1, <1>6, <1>7

LEMMA EnvelopeLog ==
    ASSUME IInv, EnvelopeInv, LogIteration
    PROVE  EnvelopeInv'
<1> DEFINE left == (MaxIterations - Len(trace[cur])) * RoundCalls
           rest == Cardinality(todo) * ReservedCalls
<1>1. /\ UNCHANGED <<calls, cur, todo>> /\ cur \in Findings
      /\ pc = "log" /\ pc' \in {"settle", "verdict"}
      /\ pc' = "verdict" => Len(trace[cur]) + 1 < MaxIterations
      /\ trace'[cur] = Append(trace[cur], draft)
  <2>1. Len(trace[cur]) + 1 >= MaxIterations \/ Len(trace[cur]) + 1 < MaxIterations
    BY BudgetAssumption DEF LogIteration, IInv, TypeOK
  <2>2. QED BY <2>1 DEF LogIteration, IInv, TypeOK
<1>2. Len(trace'[cur']) = Len(trace[cur]) + 1
  BY <1>1, AppendRow DEF IInv, TypeOK
<1>3. left \in Nat /\ rest \in Nat /\ left >= RoundCalls
  BY <1>1, RoundsLeft
<1>4. CallsLeft = left - RoundCalls
  BY <1>1 DEF CallsLeft
<1>5. CallsLeft' <= left - RoundCalls /\ CallsLeft' \in Int
  <2>1. CASE pc' = "verdict"
    BY <1>1, <1>2, <1>3, <2>1, RoundsLeft, EnvelopeType DEF CallsLeft
  <2>2. CASE pc' = "settle"
    <3>1. CallsLeft' = 0
      BY <2>2 DEF CallsLeft
    <3> HIDE DEF left
    <3>2. QED BY <1>3, <3>1, EnvelopeType
  <2>3. QED BY <1>1, <2>1, <2>2
<1>6. MaxCalls # 0 => calls' + CallsLeft' + rest <= MaxCalls
  <2>1. MaxCalls # 0 => calls + CallsLeft + rest <= MaxCalls
    BY <1>1 DEF EnvelopeInv
  <2>2. calls \in Nat /\ calls' = calls
    BY <1>1 DEF IInv, TypeOK
  <2>3. MaxCalls # 0 => calls + (left - RoundCalls) + rest <= MaxCalls
    BY <1>4, <2>1
  <2>4. ASSUME MaxCalls # 0 PROVE calls + CallsLeft' + rest <= MaxCalls
    <3> HIDE DEF left, rest
    <3>1. calls + (left - RoundCalls) + rest <= MaxCalls
      BY <2>3, <2>4
    <3>2. /\ calls \in Int /\ CallsLeft' \in Int /\ rest \in Int
          /\ left - RoundCalls \in Int /\ MaxCalls \in Int
      BY <1>3, <1>5, <2>2, EnvelopeType, BudgetAssumption
    <3>3. QED BY <1>5, <3>1, <3>2, Lower
  <2>5. QED BY <2>2, <2>4
<1>7. QED BY <1>1, <1>2, <1>6 DEF EnvelopeInv

(* Once a challenge is over nothing of its own is left to pay for. *)
LEMMA EnvelopeIdle ==
    ASSUME IInv, EnvelopeInv,
           \/ Settle \/ NextGroup \/ Fail \/ Return \/ Handle \/ Crash
           \/ \E f \in Findings : Spread(f) \/ Defer(f)
           \/ EmptyQueue \/ UNCHANGED vars
    PROVE  EnvelopeInv'
<1>1. CASE pc' \in {"idle", "handler"}
  BY <1>1 DEF EnvelopeInv
<1>2. CASE UNCHANGED <<pc, calls, cur, trace, todo>>
  BY <1>2 DEF EnvelopeInv, CallsLeft
<1>3. CASE /\ UNCHANGED <<calls, todo>>
           /\ pc \in {"settle", "spread"} /\ pc' \in {"spread", "next"}
  <2>1. CallsLeft = 0 /\ CallsLeft' = 0
    BY <1>3 DEF CallsLeft
  <2>2. QED BY <1>3, <2>1 DEF EnvelopeInv
<1>4. QED
  BY <1>1, <1>2, <1>3 DEF Settle, NextGroup, Fail, Return, Handle, Crash, Exit,
     Spread, Defer, EmptyQueue, vars

LEMMA EnvelopeNext == IInv /\ EnvelopeInv /\ [Next]_vars => EnvelopeInv'
BY EnvelopeStart, EnvelopeTakeUp, EnvelopeCall, EnvelopeLog, EnvelopeIdle
   DEF Next, Step

(* Whatever was spent before, a logical call that the stage starts can pay for
   all its attempts: no challenge is cut short by the call ceiling. *)
THEOREM CeilingNeverInterrupts == Spec => []EnvelopeSuffices
<1>1. Init => EnvelopeInv
  BY DEF Init, EnvelopeInv
<1>2. IInv /\ EnvelopeInv => EnvelopeSuffices
  <2> SUFFICES ASSUME IInv, EnvelopeInv, MaxCalls # 0, pc \in {"verdict", "critique"}
               PROVE  calls + Attempts <= MaxCalls
    BY DEF EnvelopeSuffices
  <2> DEFINE left == (MaxIterations - Len(trace[cur])) * RoundCalls
             rest == Cardinality(todo) * ReservedCalls
  <2>1. calls + CallsLeft + rest <= MaxCalls
    BY DEF EnvelopeInv
  <2>2. left \in Nat /\ left >= RoundCalls /\ rest \in Nat
    BY RoundsLeft
  <2>3. CallsLeft \in Int /\ Attempts <= CallsLeft
    <3>1. CallsLeft = left \/ CallsLeft = left - Attempts
      BY DEF CallsLeft
    <3>2. left - Attempts >= Attempts /\ left >= Attempts
      BY <2>2, AttemptsType, EnvelopeType
    <3>3. QED BY <2>2, <3>1, <3>2, AttemptsType
  <2>4. calls \in Int
    BY DEF IInv, TypeOK
  <2>5. calls + Attempts + rest <= MaxCalls
    <3> HIDE DEF left, rest
    <3>1. rest \in Int /\ Attempts \in Int /\ MaxCalls \in Int
      BY <2>2, AttemptsType, BudgetAssumption
    <3>2. QED BY <2>1, <2>3, <2>4, <3>1, Lower
  <2>6. QED
    BY <2>2, <2>4, <2>5, AttemptsType, BudgetAssumption
<1>3. QED
  BY <1>1, <1>2, EnvelopeNext, Inductive, PTL DEF Spec
-----------------------------------------------------------------------------
(* The refinement of VerdictLedger. *)

LEMMA SameGroups ==
    ASSUME NEW S, NEW f
    PROVE  Ledger!MatchGroup(S, f) = MatchGroup(S, f)
BY DEF MatchGroup, ClosedIn, Ledger!MatchGroup, Ledger!ClosedIn

LEMMA EnvelopeInductive == Spec => []EnvelopeInv
<1>1. Init => EnvelopeInv
  BY DEF Init, EnvelopeInv
<1>2. QED BY <1>1, EnvelopeNext, Inductive, PTL DEF Spec

(* Logging a round examines the finding at hand once more. *)
LEMMA LogExamines ==
    ASSUME IInv, EnvelopeInv, LogIteration
    PROVE  Ledger!Examine(cur)
<1>1. /\ cur \in Findings /\ pc = "log" /\ draft \in Rows
      /\ trace[cur] \in Seq(Rows) /\ status' = status
      /\ trace' = [trace EXCEPT ![cur] = Append(@, draft)]
  BY DEF LogIteration, IInv, TypeOK
<1>2. status[cur] \notin Terminal
  BY <1>1 DEF IInv, ChallengeInv
<1>3. Len(trace[cur]) < MaxIterations
  BY <1>1 DEF EnvelopeInv
<1>4. trace[cur] # <<>> => trace[cur][Len(trace[cur])] = "open"
  BY <1>1 DEF IInv, ChallengeInv
<1>5. QED
  BY <1>1, <1>2, <1>3, <1>4
     DEF Ledger!Examine, Ledger!Waiting, Ledger!Committed, Ledger!Verdicts, Terminal, Rows

(* An outcome of the challenged trace is a ruling, or leaves the issue open. *)
LEMMA OutcomeRules ==
    ASSUME TypeOK, NEW f \in Findings, NEW g \in MatchGroup(Findings, f),
           trace[g] # <<>>, trace[f] = <<>> \/ f = g, status[f] \notin Terminal,
           status' = [status EXCEPT ![f] = Outcome(trace[g])], trace' = trace
    PROVE  Ledger!Rule(f) \/ Ledger!LeaveOpen(f)
<1>1. g \in Findings /\ trace[g] \in Seq(Rows)
  BY GroupSubset DEF TypeOK
<1>2. g \in Ledger!MatchGroup(Findings, f)
  BY SameGroups
<1>3. CASE trace[g][Len(trace[g])] \in Terminal
  BY <1>1, <1>2, <1>3
     DEF Outcome, Ledger!Rule, Ledger!Waiting, Ledger!Committed, Ledger!Verdicts, Terminal
<1>4. CASE trace[g][Len(trace[g])] \notin Terminal
  BY <1>1, <1>2, <1>4
     DEF Outcome, Ledger!LeaveOpen, Ledger!Waiting, Ledger!Verdicts, Terminal
<1>5. QED BY <1>3, <1>4

LEMMA LedgerStep ==
    IInv /\ EnvelopeInv /\ [Next]_vars => [Ledger!Next]_<<status, trace>>
<1> SUFFICES ASSUME IInv, EnvelopeInv, [Next]_vars, ~ UNCHANGED <<status, trace>>
             PROVE  Ledger!Next
  OBVIOUS
<1> USE DEF IInv
<1>1. CASE LogIteration
  <2>1. cur \in Findings
    BY <1>1 DEF LogIteration, TypeOK
  <2>2. QED BY <1>1, <2>1, LogExamines DEF Ledger!Next
<1>2. CASE Settle
  <2>1. /\ cur \in Findings /\ pc = "settle" /\ trace' = trace
        /\ status' = [status EXCEPT ![cur] = Outcome(trace[cur])]
    BY <1>2 DEF Settle, Write, TypeOK
  <2>2. /\ status[cur] \notin Terminal /\ trace[cur] # <<>>
        /\ cur \in MatchGroup(Findings, cur)
    BY <2>1 DEF ChallengeInv
  <2>3. QED BY <2>1, <2>2, OutcomeRules DEF Ledger!Next
<1>3. ASSUME NEW m \in Findings, Spread(m) PROVE Ledger!Next
  <2>1. /\ cur \in Findings /\ pc = "spread" /\ trace' = trace /\ m \in members
        /\ status' = [status EXCEPT ![m] = Outcome(trace[cur])]
    BY <1>3 DEF Spread, Write, TypeOK
  <2>2. /\ trace[cur] # <<>> /\ m \in MatchGroup(Findings, cur) /\ IsPending(m)
    BY <2>1 DEF ChallengeInv
  <2>3. cur \in MatchGroup(Findings, m)
    BY <2>1, <2>2, GroupSymmetric
  <2>4. trace[m] = <<>> /\ status[m] \notin Terminal
    BY <2>2 DEF IsPending, Terminal
  <2>5. QED BY <2>1, <2>2, <2>3, <2>4, OutcomeRules DEF Ledger!Next
<1>4. ASSUME NEW f \in Findings, Defer(f) PROVE Ledger!Next
  <2>1. IsPending(f) /\ trace' = trace /\ status' = [status EXCEPT ![f] = "deferred"]
    BY <1>4 DEF Defer, BatchInv
  <2>2. Ledger!SetAside(f)
    BY <2>1 DEF IsPending, Ledger!SetAside, Ledger!Waiting, Ledger!Verdicts
  <2>3. QED BY <2>2 DEF Ledger!Next
<1>5. CASE Handle
  <2>1. /\ cur \in Findings /\ pc = "handler" /\ trace' = trace /\ trace[cur] # <<>>
        /\ status' = [status EXCEPT ![cur] = "unresolved"]
    BY <1>5 DEF Handle, Write, TypeOK
  <2>2. status[cur] \notin Terminal /\ cur \in MatchGroup(Findings, cur)
    BY <2>1 DEF ChallengeInv
  <2>3. Ledger!LeaveOpen(cur)
    BY <2>1, <2>2, SameGroups DEF Ledger!LeaveOpen, Ledger!Waiting, Ledger!Verdicts, Terminal
  <2>4. QED BY <2>1, <2>3 DEF Ledger!Next
<1>6. QED
  BY <1>1, <1>2, <1>3, <1>4, <1>5
     DEF Next, Step, Start, EmptyQueue, TakeUp, Verdict, Critique, NextGroup, Return,
         Fail, Crash, vars

(* Falsification implements VerdictLedger, for all findings, relations between
   them, budgets, failures and process deaths. *)
THEOREM ImplementsLedger == Spec => KeepsPromise
<1>1. Init => Ledger!Init
  BY DEF Init, Ledger!Init
<1>2. QED
  BY <1>1, LedgerStep, Inductive, EnvelopeInductive, PTL
     DEF Spec, KeepsPromise, Ledger!Spec

-----------------------------------------------------------------------------
(* What a challenge is shown *)

(* The lesser and the greater of two numbers *)
LEMMA LeastIs ==
    ASSUME NEW m \in Int, NEW n \in Int
    PROVE  /\ Least(m, n) \in Int /\ Least(m, n) <= m /\ Least(m, n) <= n
           /\ Least(m, n) \in {m, n}
           /\ m \in Nat /\ n \in Nat => Least(m, n) \in Nat
BY DEF Least

(* The greater of two numbers *)
LEMMA MostIs ==
    ASSUME NEW m \in Int, NEW n \in Int
    PROVE  /\ Most(m, n) \in Int /\ Most(m, n) >= m /\ Most(m, n) >= n
           /\ Most(m, n) \in {m, n}
BY DEF Most

(* Sequences of whatever *)
IsSeq(s) == \E S : s \in Seq(S)

Begins(s, t) ==
    /\ IsSeq(s) /\ IsSeq(t) /\ Len(s) <= Len(t)
    /\ \A i \in 1 .. Len(s) : s[i] = t[i]

(* A sequence is the function of its places. *)
LEMMA SeqIs ==
    ASSUME NEW s, IsSeq(s)
    PROVE  /\ Len(s) \in Nat /\ DOMAIN s = 1 .. Len(s)
           /\ s \in Seq({s[i] : i \in 1 .. Len(s)})
           /\ s = [i \in 1 .. Len(s) |-> s[i]]
<1>1. PICK S : s \in Seq(S)
  BY DEF IsSeq
<1>2. Len(s) \in Nat /\ DOMAIN s = 1 .. Len(s) /\ s \in [1 .. Len(s) -> S]
  BY <1>1, LenProperties
<1>3. s \in [1 .. Len(s) -> {s[i] : i \in 1 .. Len(s)}]
  BY <1>2
<1>4. s = [i \in 1 .. Len(s) |-> s[i]]
  BY <1>2
<1>5. PICK n \in Nat : n = Len(s)
  BY <1>2
<1>6. s \in Seq({s[i] : i \in 1 .. Len(s)})
  BY <1>3, <1>5, SeqDef
<1>7. QED BY <1>2, <1>4, <1>6

(* A function on 1 .. n is a sequence. *)
LEMMA IsSeqOf ==
    ASSUME NEW n \in Nat, NEW s, DOMAIN s = 1 .. n, s = [i \in 1 .. n |-> s[i]]
    PROVE  IsSeq(s) /\ Len(s) = n
<1>1. s \in [1 .. n -> {s[i] : i \in 1 .. n}]
  OBVIOUS
<1>2. s \in Seq({s[i] : i \in 1 .. n})
  BY <1>1, SeqDef
<1>3. Len(s) = n
  BY <1>2, LenProperties
<1>4. QED BY <1>2, <1>3 DEF IsSeq

(* Joining two sequences gives one that begins with the first, *)
LEMMA JoinIs ==
    ASSUME NEW s, NEW t, IsSeq(s), IsSeq(t)
    PROVE  /\ IsSeq(s \o t) /\ Len(s \o t) = Len(s) + Len(t)
           /\ \A i \in 1 .. Len(s) + Len(t) :
                (s \o t)[i] = IF i <= Len(s) THEN s[i] ELSE t[i - Len(s)]
           /\ Begins(s, s \o t)
<1>1. PICK A, B : s \in Seq(A) /\ t \in Seq(B)
  BY DEF IsSeq
<1>2. s \in Seq(A \cup B) /\ t \in Seq(A \cup B)
  <2>1. \A n \in Nat : [1 .. n -> A] \subseteq [1 .. n -> A \cup B]
    OBVIOUS
  <2>2. \A n \in Nat : [1 .. n -> B] \subseteq [1 .. n -> A \cup B]
    OBVIOUS
  <2>3. Seq(A) \subseteq Seq(A \cup B) /\ Seq(B) \subseteq Seq(A \cup B)
    BY <2>1, <2>2, SeqDef
  <2>4. QED BY <1>1, <2>3
<1>3. PICK S : S = A \cup B
  OBVIOUS
<1>4. s \in Seq(S) /\ t \in Seq(S)
  BY <1>2, <1>3
<1>5. /\ s \o t \in Seq(S) /\ Len(s \o t) = Len(s) + Len(t)
      /\ \A i \in 1 .. Len(s) + Len(t) :
            (s \o t)[i] = IF i <= Len(s) THEN s[i] ELSE t[i - Len(s)]
      /\ Len(s) \in Nat /\ Len(t) \in Nat
  BY ONLY <1>4
<1>6. \A i \in 1 .. Len(s) : i \in 1 .. Len(s) + Len(t) /\ i <= Len(s)
  BY <1>5
<1>7. Begins(s, s \o t)
  <2>1. IsSeq(s \o t) /\ Len(s) <= Len(s \o t)
    BY <1>5 DEF IsSeq
  <2>2. \A i \in 1 .. Len(s) : s[i] = (s \o t)[i]
    BY <1>5, <1>6
  <2>3. QED BY <2>1, <2>2 DEF Begins
<1>8. QED BY <1>5, <1>7 DEF IsSeq

(* The second sequence after the first *)
Joined(r, s, t) ==
    /\ IsSeq(t) /\ Len(t) = Len(r) + Len(s)
    /\ \A j \in 1 .. Len(r) + Len(s) : t[j] = IF j <= Len(r) THEN r[j] ELSE s[j - Len(r)]

(* under whatever name. *)
LEMMA JoinedIs ==
    ASSUME NEW r, IsSeq(r), NEW s, IsSeq(s), NEW t, t = r \o s
    PROVE  Joined(r, s, t) /\ Begins(r, t)
<1>1. Joined(r, s, r \o s) /\ Begins(r, r \o s)
  BY JoinIs DEF Joined
<1>2. QED BY <1>1, Zenon

(* Beginning is reflexive and transitive. *)
LEMMA BeginsOrders ==
    /\ \A s : IsSeq(s) => Begins(s, s)
    /\ \A s, t, u : Begins(s, t) /\ Begins(t, u) => Begins(s, u)
<1>1. \A s : IsSeq(s) => Begins(s, s)
  <2> SUFFICES ASSUME NEW s, IsSeq(s) PROVE Begins(s, s)
    OBVIOUS
  <2>1. Len(s) \in Nat
    BY SeqIs
  <2>2. QED BY <2>1 DEF Begins
<1>2. ASSUME NEW s, NEW t, NEW u, Begins(s, t), Begins(t, u) PROVE Begins(s, u)
  <2>1. Len(s) \in Nat /\ Len(t) \in Nat /\ Len(u) \in Nat
    BY <1>2, SeqIs DEF Begins
  <2>2. \A i \in 1 .. Len(s) : i \in 1 .. Len(t)
    BY <1>2, <2>1 DEF Begins
  <2>3. QED BY <1>2, <2>1, <2>2 DEF Begins
<1>3. QED BY <1>1, <1>2

(* What stays when a sequence goes on in front of nothing or more *)
LEMMA JoinBegins ==
    ASSUME NEW r, IsSeq(r), NEW s, NEW t, Begins(s, t)
    PROVE  Begins(r \o s, r \o t)
<1>1. /\ IsSeq(s) /\ IsSeq(t) /\ Len(s) <= Len(t) /\ \A i \in 1 .. Len(s) : s[i] = t[i]
  BY DEF Begins
<1>2. Len(r) \in Nat /\ Len(s) \in Nat /\ Len(t) \in Nat
  BY <1>1, SeqIs
<1>3. PICK u, v : u = r \o s /\ v = r \o t
  OBVIOUS
<1>4. /\ IsSeq(u) /\ Len(u) = Len(r) + Len(s)
      /\ \A i \in 1 .. Len(r) + Len(s) : u[i] = IF i <= Len(r) THEN r[i] ELSE s[i - Len(r)]
  BY <1>1, <1>3, JoinIs
<1>5. /\ IsSeq(v) /\ Len(v) = Len(r) + Len(t)
      /\ \A i \in 1 .. Len(r) + Len(t) : v[i] = IF i <= Len(r) THEN r[i] ELSE t[i - Len(r)]
  BY <1>1, <1>3, JoinIs
<1>6. Len(u) <= Len(v)
  BY <1>1, <1>2, <1>4, <1>5
<1>7. ASSUME NEW i \in 1 .. Len(u) PROVE u[i] = v[i]
  <2>1. i \in 1 .. Len(r) + Len(s) /\ i \in 1 .. Len(r) + Len(t)
    BY <1>1, <1>2, <1>4
  <2>2. ~(i <= Len(r)) => i - Len(r) \in 1 .. Len(s)
    BY <1>2, <2>1
  <2>3. QED BY <1>1, <1>4, <1>5, <2>1, <2>2
<1>8. QED BY <1>3, <1>4, <1>5, <1>6, <1>7 DEF Begins

(* The first n of a sequence *)
LEMMA FirstIs ==
    ASSUME NEW s, IsSeq(s), NEW n \in Nat
    PROVE  /\ IsSeq(First(s, n)) /\ Len(First(s, n)) = Least(n, Len(s))
           /\ Len(First(s, n)) <= n /\ Len(First(s, n)) <= Len(s)
           /\ \A i \in 1 .. Len(First(s, n)) : First(s, n)[i] = s[i]
           /\ Len(s) <= n => First(s, n) = s
<1>1. PICK S, k : s \in Seq(S) /\ k = Least(n, Len(s))
  BY DEF IsSeq
<1>2. /\ Len(s) \in Nat /\ k \in Nat /\ k <= n /\ k <= Len(s)
      /\ Len(s) <= n => k = Len(s)
  <2>1. Len(s) \in Nat
    BY SeqIs
  <2>2. QED BY <1>1, <2>1 DEF Least
<1>3. PICK t : t = First(s, n)
  OBVIOUS
<1>4. t = SubSeq(s, 1, k)
  BY <1>1, <1>3 DEF First
<1>5. t \in Seq(S) /\ Len(t) = k /\ \A i \in 1 .. k : t[i] = s[i]
  <2>1. \A i \in 1 .. k : s[i] \in S
    BY <1>1, <1>2
  <2>2. t = [i \in 1 .. k |-> s[i]]
    BY ONLY <1>1, <1>2, <1>4
  <2>3. t \in [1 .. k -> S]
    BY <2>1, <2>2
  <2>4. t \in Seq(S)
    BY <1>2, <2>3, SeqDef
  <2>5. Len(t) = k
    BY <1>2, <2>3, <2>4, LenProperties
  <2>6. QED BY <2>2, <2>4, <2>5
<1>6. Len(s) <= n => t = s
  <2> SUFFICES ASSUME Len(s) <= n PROVE t = s
    OBVIOUS
  <2>1. t = [i \in 1 .. Len(t) |-> t[i]] /\ s = [i \in 1 .. Len(s) |-> s[i]]
    BY <1>1, <1>5, SeqIs DEF IsSeq
  <2>2. Len(t) = Len(s) /\ \A i \in 1 .. Len(s) : t[i] = s[i]
    BY <1>2, <1>5
  <2>3. [i \in 1 .. Len(t) |-> t[i]] = [i \in 1 .. Len(s) |-> s[i]]
    BY <2>2
  <2>4. QED BY <2>1, <2>3
<1>7. QED BY <1>1, <1>2, <1>3, <1>5, <1>6 DEF IsSeq

(* What begins a longer sequence begins it when both are cut off. *)
LEMMA FirstBegins ==
    ASSUME NEW s, NEW t, Begins(s, t), NEW m \in Nat, NEW n \in Nat, m <= n
    PROVE  Begins(First(s, m), First(t, n))
<1>1. /\ IsSeq(s) /\ IsSeq(t) /\ Len(s) <= Len(t) /\ \A i \in 1 .. Len(s) : s[i] = t[i]
  BY DEF Begins
<1>2. Len(s) \in Nat /\ Len(t) \in Nat
  BY <1>1, SeqIs
<1>3. PICK u, v : u = First(s, m) /\ v = First(t, n)
  OBVIOUS
<1>4. /\ IsSeq(u) /\ Len(u) = Least(m, Len(s)) /\ \A i \in 1 .. Len(u) : u[i] = s[i]
  BY <1>1, <1>3, FirstIs
<1>5. /\ IsSeq(v) /\ Len(v) = Least(n, Len(t)) /\ \A i \in 1 .. Len(v) : v[i] = t[i]
  BY <1>1, <1>3, FirstIs
<1>6. Len(u) <= Len(v) /\ Len(u) <= Len(s) /\ Len(u) \in Nat /\ Len(v) \in Nat
  BY <1>1, <1>2, <1>4, <1>5 DEF Least
<1>7. \A i \in 1 .. Len(u) : i \in 1 .. Len(s) /\ i \in 1 .. Len(v)
  BY <1>2, <1>6
<1>8. QED BY <1>1, <1>3, <1>4, <1>5, <1>6, <1>7 DEF Begins

(* A set of naturals has a smallest. *)
LEMMA SmallestOf ==
    ASSUME NEW S, S \subseteq Nat, S # {}
    PROVE  \E m \in S : \A v \in S : m <= v
<1> DEFINE R == OpToRel(<, Nat)
<1>1. /\ \A x, y \in Nat : x < y => <<x, y>> \in R
      /\ IsWellFoundedOn(R, Nat)
  BY NatLessThanWellFounded DEF OpToRel
<1> HIDE DEF R
<1>2. PICK m \in S : \A v \in S : <<v, m>> \notin R
  <2>1. IsWellFoundedOn(R, Nat)
    BY <1>1
  <2>2. QED BY <2>1, WFMin
<1>3. ASSUME NEW v \in S PROVE m <= v
  <2>1. ~(v < m)
    BY <1>1, <1>2
  <2>2. QED BY <2>1
<1>4. QED BY <1>3

(* Concat joins one sequence after the other. *)
Joins(h, n, seqs) ==
    h[0] = <<>> /\ \A i \in 1 .. n : h[i] = h[i - 1] \o seqs[i]

(* The recursion of Concat has a value, *)
LEMMA JoinsExist ==
    ASSUME NEW seqs, NEW n \in Nat
    PROVE  \E h : h = [i \in 0 .. n |-> IF i = 0 THEN <<>> ELSE h[i - 1] \o seqs[i]]
<1> DEFINE Goes(k) == \E h : h = [i \in 0 .. k |-> IF i = 0 THEN <<>> ELSE h[i - 1] \o seqs[i]]
           N == {k \in Nat : ~Goes(k)}
<1>1. Goes(0)
  <2>1. PICK h : h = [i \in 0 .. 0 |-> <<>>]
    OBVIOUS
  <2>2. h = [i \in 0 .. 0 |-> IF i = 0 THEN <<>> ELSE h[i - 1] \o seqs[i]]
    BY <2>1
  <2>3. QED BY <2>2
<1>2. ASSUME NEW k \in Nat, Goes(k) PROVE Goes(k + 1)
  <2>1. PICK h : h = [i \in 0 .. k |-> IF i = 0 THEN <<>> ELSE h[i - 1] \o seqs[i]]
    BY <1>2
  <2>2. PICK last : last = h[k] \o seqs[k + 1]
    OBVIOUS
  <2>3. PICK g : g = [i \in 0 .. k + 1 |-> IF i = k + 1 THEN last ELSE h[i]]
    OBVIOUS
  <2>4. ASSUME NEW i \in 0 .. k + 1
        PROVE  g[i] = IF i = 0 THEN <<>> ELSE g[i - 1] \o seqs[i]
    <3>1. CASE i = k + 1
      <4>1. g[i] = last /\ i # 0 /\ i - 1 = k /\ k \in 0 .. k + 1 /\ k # k + 1
        BY <2>3, <3>1
      <4>2. g[i - 1] = h[k]
        BY <2>3, <4>1
      <4>3. QED BY <2>2, <3>1, <4>1, <4>2
    <3>2. CASE i # k + 1
      <4>1. i \in 0 .. k /\ g[i] = h[i]
        BY <2>3, <3>2
      <4>2. h[i] = IF i = 0 THEN <<>> ELSE h[i - 1] \o seqs[i]
        BY <2>1, <4>1
      <4>3. i # 0 => i - 1 \in 0 .. k + 1 /\ i - 1 # k + 1
        BY <4>1
      <4>4. i # 0 => g[i - 1] = h[i - 1]
        BY <2>3, <4>3
      <4>5. QED BY <4>1, <4>2, <4>4
    <3>3. QED BY <3>1, <3>2
  <2>5. g = [i \in 0 .. k + 1 |-> g[i]]
    BY <2>3
  <2>6. g = [i \in 0 .. k + 1 |-> IF i = 0 THEN <<>> ELSE g[i - 1] \o seqs[i]]
    BY <2>4, <2>5
  <2>7. QED BY <2>6
<1> HIDE DEF Goes
<1>3. N = {}
  <2> SUFFICES ASSUME N # {} PROVE FALSE
    OBVIOUS
  <2>1. N \subseteq Nat
    OBVIOUS
  <2>2. PICK m \in N : \A v \in N : m <= v
    <3> HIDE DEF N
    <3>1. QED BY <2>1, SmallestOf
  <2>3. m \in Nat /\ ~Goes(m) /\ m # 0
    BY <1>1
  <2>4. m - 1 \in Nat /\ (m - 1) + 1 = m
    BY <2>3
  <2>5. m - 1 \notin N
    BY <2>2, <2>3, <2>4
  <2>6. Goes(m - 1)
    BY <2>4, <2>5
  <2>7. QED BY <1>2, <2>3, <2>4, <2>6
<1>4. QED BY <1>3 DEF Goes

(* What the recursion of Concat is *)
Chain(h, seqs) ==
    h = [i \in 0 .. Len(seqs) |-> IF i = 0 THEN <<>> ELSE h[i - 1] \o seqs[i]]

(* which Concat takes at the end. *)
LEMMA ConcatIs ==
    ASSUME NEW seqs, Len(seqs) \in Nat
    PROVE  \E h : Joins(h, Len(seqs), seqs) /\ Concat(seqs) = h[Len(seqs)]
<1>1. \E h : Chain(h, seqs)
  <2>1. PICK n \in Nat : n = Len(seqs)
    OBVIOUS
  <2>2. PICK h : h = [i \in 0 .. n |-> IF i = 0 THEN <<>> ELSE h[i - 1] \o seqs[i]]
    BY JoinsExist
  <2>3. QED BY <2>1, <2>2 DEF Chain
<1>2. PICK h : h = CHOOSE g : Chain(g, seqs)
  OBVIOUS
<1>3. Chain(h, seqs)
  BY <1>1, <1>2, Zenon
<1>4. Concat(seqs) = h[Len(seqs)]
  BY <1>2 DEF Concat, Chain
<1>5. h[0] = <<>>
  BY <1>3 DEF Chain
<1>6. \A i \in 1 .. Len(seqs) : h[i] = h[i - 1] \o seqs[i]
  <2> TAKE i \in 1 .. Len(seqs)
  <2>1. i \in 0 .. Len(seqs) /\ i # 0
    OBVIOUS
  <2>2. QED BY <1>3, <2>1 DEF Chain
<1>7. QED BY <1>4, <1>5, <1>6 DEF Joins

(* What is joined is a sequence, which grows, and holds all that was joined. *)
Holder(h, n, seqs) ==
    /\ \A i \in 0 .. n : IsSeq(h[i])
    /\ \A i \in 0 .. n : Begins(h[i], h[n])

(* So it is at each step. *)
LEMMA JoinsGrow ==
    ASSUME NEW seqs, NEW n \in Nat, NEW h, Joins(h, n, seqs), \A i \in 1 .. n : IsSeq(seqs[i])
    PROVE  \A k \in 0 .. n : Holder(h, k, seqs)
<1> DEFINE N == {k \in 0 .. n : ~Holder(h, k, seqs)}
<1>1. Holder(h, 0, seqs)
  <2>1. h[0] = <<>>
    BY DEF Joins
  <2>2. <<>> \in Seq({})
    OBVIOUS
  <2>3. IsSeq(h[0])
    BY <2>1, <2>2 DEF IsSeq
  <2>4. \A i \in 0 .. 0 : i = 0
    OBVIOUS
  <2>5. Begins(h[0], h[0])
    BY <2>3, BeginsOrders
  <2>6. QED BY <2>3, <2>4, <2>5 DEF Holder
<1>2. ASSUME NEW k \in 1 .. n, Holder(h, k - 1, seqs) PROVE Holder(h, k, seqs)
  <2>1. h[k] = h[k - 1] \o seqs[k]
    BY DEF Joins
  <2>2. k - 1 \in 0 .. k - 1 /\ \A i \in 0 .. k : i \in 0 .. k - 1 \/ i = k
    OBVIOUS
  <2>3. IsSeq(h[k - 1]) /\ IsSeq(seqs[k])
    BY <1>2, <2>2 DEF Holder
  <2>4. IsSeq(h[k]) /\ Begins(h[k - 1], h[k])
    BY <2>1, <2>3, JoinIs
  <2>5. Begins(h[k], h[k])
    BY <2>4, BeginsOrders
  <2>6. \A i \in 0 .. k - 1 : Begins(h[i], h[k])
    BY <1>2, <2>4, BeginsOrders DEF Holder
  <2>7. QED BY <1>2, <2>2, <2>4, <2>5, <2>6 DEF Holder
<1>3. N = {}
  <2> SUFFICES ASSUME N # {} PROVE FALSE
    OBVIOUS
  <2>1. N \subseteq Nat
    OBVIOUS
  <2>2. PICK m \in N : \A v \in N : m <= v
    <3> HIDE DEF N
    <3>1. QED BY <2>1, SmallestOf
  <2>3. m \in 0 .. n /\ ~Holder(h, m, seqs) /\ m # 0
    BY <1>1
  <2>4. m \in 1 .. n /\ m - 1 \in 0 .. n /\ ~(m <= m - 1)
    BY <2>3
  <2>5. Holder(h, m - 1, seqs)
    BY <2>2, <2>4
  <2>6. QED BY <1>2, <2>3, <2>4, <2>5
<1>4. QED BY <1>3

Parts(seqs) == Len(seqs) \in Nat /\ \A i \in 1 .. Len(seqs) : IsSeq(seqs[i])

(* What is in a concatenation: all the parts hold, *)
LEMMA ConcatHolds ==
    ASSUME NEW seqs, Parts(seqs)
    PROVE  /\ IsSeq(Concat(seqs))
           /\ \A i \in 1 .. Len(seqs) : \A k \in 1 .. Len(seqs[i]) :
                \E n \in 1 .. Len(Concat(seqs)) : Concat(seqs)[n] = seqs[i][k]
<1>1. PICK h : Joins(h, Len(seqs), seqs) /\ Concat(seqs) = h[Len(seqs)]
  BY ConcatIs DEF Parts
<1>2. PICK n : n = Len(seqs)
  OBVIOUS
<1>3. n \in Nat /\ n \in 0 .. n
  BY <1>2 DEF Parts
<1>4. Holder(h, n, seqs)
  BY <1>1, <1>2, <1>3, JoinsGrow DEF Parts
<1>5. IsSeq(h[n])
  BY <1>3, <1>4 DEF Holder
<1>6. ASSUME NEW i \in 1 .. n, NEW k \in 1 .. Len(seqs[i])
      PROVE  \E m \in 1 .. Len(h[n]) : h[n][m] = seqs[i][k]
  <2>1. i \in 0 .. n /\ i - 1 \in 0 .. n
    BY <1>3
  <2>2. IsSeq(h[i - 1]) /\ IsSeq(h[i]) /\ Begins(h[i], h[n]) /\ IsSeq(seqs[i])
    BY <1>2, <1>4, <2>1 DEF Holder, Parts
  <2>3. h[i] = h[i - 1] \o seqs[i]
    BY <1>1, <1>2 DEF Joins
  <2>4. PICK r, s, t : r = h[i - 1] /\ s = seqs[i] /\ t = h[i]
    OBVIOUS
  <2>5. /\ Len(t) = Len(r) + Len(s)
        /\ \A j \in 1 .. Len(r) + Len(s) : t[j] = IF j <= Len(r) THEN r[j] ELSE s[j - Len(r)]
    <3>1. IsSeq(r) /\ IsSeq(s) /\ t = r \o s
      BY <2>2, <2>3, <2>4
    <3>2. Joined(r, s, t)
      BY <3>1, JoinedIs
    <3>3. QED BY <3>2 DEF Joined
  <2>6. Len(r) \in Nat /\ Len(s) \in Nat
    BY <2>2, <2>4, SeqIs
  <2>7. PICK m : m = Len(r) + k
    OBVIOUS
  <2>8. m \in 1 .. Len(t) /\ t[m] = s[k]
    <3>1. k \in 1 .. Len(s)
      BY <2>4
    <3>2. m \in 1 .. Len(r) + Len(s) /\ ~(m <= Len(r)) /\ m - Len(r) = k
      BY <2>6, <2>7, <3>1
    <3>3. QED BY <2>5, <3>2
  <2>9. m \in 1 .. Len(h[n]) /\ h[n][m] = t[m]
    <3>1. Len(t) <= Len(h[n]) /\ \A j \in 1 .. Len(t) : t[j] = h[n][j]
      BY <2>2, <2>4 DEF Begins
    <3>2. Len(h[n]) \in Nat /\ Len(t) \in Nat
      BY <1>5, <2>2, <2>4, SeqIs
    <3>3. QED BY <2>8, <3>1, <3>2
  <2>10. QED BY <2>4, <2>8, <2>9
<1>7. QED BY <1>1, <1>2, <1>5, <1>6

(* and nothing else. *)
LEMMA ConcatWithin ==
    ASSUME NEW seqs, Parts(seqs), NEW S,
           \A i \in 1 .. Len(seqs) : \A k \in 1 .. Len(seqs[i]) : seqs[i][k] \in S
    PROVE  \A m \in 1 .. Len(Concat(seqs)) : Concat(seqs)[m] \in S
<1>1. PICK h : Joins(h, Len(seqs), seqs) /\ Concat(seqs) = h[Len(seqs)]
  BY ConcatIs DEF Parts
<1>2. PICK n \in Nat : n = Len(seqs)
  BY DEF Parts
<1>3. Holder(h, n, seqs)
  <2>1. n \in 0 .. n
    OBVIOUS
  <2>2. QED BY <1>1, <1>2, <2>1, JoinsGrow DEF Parts
<1> DEFINE Inside(i) == \A m \in 1 .. Len(h[i]) : h[i][m] \in S
           N == {i \in 0 .. n : ~Inside(i)}
<1>4. Inside(0)
  <2>1. h[0] = <<>>
    BY <1>1 DEF Joins
  <2>2. Len(h[0]) = 0
    BY <2>1
  <2>3. 1 .. 0 = {}
    OBVIOUS
  <2>4. QED BY <2>2, <2>3
<1>5. ASSUME NEW i \in 1 .. n, Inside(i - 1) PROVE Inside(i)
  <2>1. i \in 0 .. n /\ i - 1 \in 0 .. n
    OBVIOUS
  <2>2. IsSeq(h[i - 1]) /\ IsSeq(seqs[i])
    BY <1>2, <1>3, <2>1 DEF Holder, Parts
  <2>3. h[i] = h[i - 1] \o seqs[i]
    BY <1>1, <1>2 DEF Joins
  <2>4. PICK r, s, t : r = h[i - 1] /\ s = seqs[i] /\ t = h[i]
    OBVIOUS
  <2>5. /\ Len(t) = Len(r) + Len(s)
        /\ \A j \in 1 .. Len(r) + Len(s) : t[j] = IF j <= Len(r) THEN r[j] ELSE s[j - Len(r)]
    <3>1. IsSeq(r) /\ IsSeq(s) /\ t = r \o s
      BY <2>2, <2>3, <2>4
    <3>2. Joined(r, s, t)
      BY <3>1, JoinedIs
    <3>3. QED BY <3>2 DEF Joined
  <2>6. Len(r) \in Nat /\ Len(s) \in Nat
    BY <2>2, <2>4, SeqIs
  <2>7. \A j \in 1 .. Len(r) : r[j] \in S
    BY <1>5, <2>4
  <2>8. \A j \in 1 .. Len(s) : s[j] \in S
    BY <1>2, <2>4
  <2>9. ASSUME NEW j \in 1 .. Len(t) PROVE t[j] \in S
    <3>1. j \in 1 .. Len(r) + Len(s)
      BY <2>5
    <3>2. ~(j <= Len(r)) => j - Len(r) \in 1 .. Len(s)
      BY <2>6, <3>1
    <3>3. j <= Len(r) => j \in 1 .. Len(r)
      BY <2>6, <3>1
    <3>4. QED BY <2>5, <2>7, <2>8, <3>1, <3>2, <3>3
  <2>10. QED BY <2>4, <2>9
<1> HIDE DEF Inside
<1>6. N = {}
  <2> SUFFICES ASSUME N # {} PROVE FALSE
    OBVIOUS
  <2>1. N \subseteq Nat
    OBVIOUS
  <2>2. PICK m \in N : \A v \in N : m <= v
    <3> HIDE DEF N
    <3>1. QED BY <2>1, SmallestOf
  <2>3. m \in 0 .. n /\ ~Inside(m) /\ m # 0
    BY <1>4
  <2>4. m \in 1 .. n /\ m - 1 \in 0 .. n /\ ~(m <= m - 1)
    BY <2>3
  <2>5. Inside(m - 1)
    BY <2>2, <2>4
  <2>6. QED BY <1>5, <2>3, <2>4, <2>5
<1>7. Inside(n)
  BY <1>6
<1>8. QED BY <1>1, <1>2, <1>7 DEF Inside

(* More parts at the end leave what was joined before. *)
LEMMA ConcatBegins ==
    ASSUME NEW seqs, NEW more, Parts(seqs), Parts(more), Len(seqs) <= Len(more),
           \A i \in 1 .. Len(seqs) : seqs[i] = more[i]
    PROVE  Begins(Concat(seqs), Concat(more))
<1>1. PICK n \in Nat, l \in Nat : n = Len(seqs) /\ l = Len(more)
  BY DEF Parts
<1>2. PICK h : Joins(h, n, seqs) /\ Concat(seqs) = h[n]
  BY <1>1, ConcatIs
<1>3. PICK g : Joins(g, l, more) /\ Concat(more) = g[l]
  BY <1>1, ConcatIs
<1>4. Holder(g, l, more)
  <2>1. l \in 0 .. l
    OBVIOUS
  <2>2. QED BY <1>1, <1>3, <2>1, JoinsGrow DEF Parts
<1> DEFINE N == {i \in 0 .. n : h[i] # g[i]}
<1>5. h[0] = g[0]
  BY <1>2, <1>3 DEF Joins
<1>6. ASSUME NEW i \in 1 .. n, h[i - 1] = g[i - 1] PROVE h[i] = g[i]
  <2>1. i \in 1 .. l /\ seqs[i] = more[i]
    BY <1>1
  <2>2. QED BY <1>2, <1>3, <1>6, <2>1 DEF Joins
<1>7. N = {}
  <2> SUFFICES ASSUME N # {} PROVE FALSE
    OBVIOUS
  <2>1. N \subseteq Nat
    OBVIOUS
  <2>2. PICK m \in N : \A v \in N : m <= v
    <3> HIDE DEF N
    <3>1. QED BY <2>1, SmallestOf
  <2>3. m \in 0 .. n /\ h[m] # g[m] /\ m # 0
    BY <1>5
  <2>4. m \in 1 .. n /\ m - 1 \in 0 .. n /\ ~(m <= m - 1)
    BY <2>3
  <2>5. h[m - 1] = g[m - 1]
    BY <2>2, <2>4
  <2>6. QED BY <1>6, <2>3, <2>4, <2>5
<1>8. h[n] = g[n]
  BY <1>7
<1>9. n \in 0 .. l
  BY <1>1
<1>10. QED BY <1>2, <1>3, <1>4, <1>8, <1>9 DEF Holder

-----------------------------------------------------------------------------
(* What is put in order *)

(* R is a strict order of S, and compares any two of it. *)
StrictOrder(R, S) ==
    /\ \A x \in S : <<x, x>> \notin R
    /\ \A x, y \in S : x # y => <<x, y>> \in R \/ <<y, x>> \in R
    /\ \A x, y, z \in S : <<x, y>> \in R /\ <<y, z>> \in R => <<x, z>> \in R

(* How many of a set come ahead of one of it *)
Ahead(x, S, R) == Cardinality({y \in S : <<y, x>> \in R})

Placed(S, R, n) ==
    /\ n \in Nat
    /\ \A x \in S : Ahead(x, S, R) \in Nat /\ Ahead(x, S, R) + 1 \in 1 .. n
    /\ \A x, y \in S : <<x, y>> \in R => Ahead(x, S, R) < Ahead(y, S, R)
    /\ \A i \in 1 .. n : \E x \in S : Ahead(x, S, R) = i - 1

(* It gives each of a finite set a place of its own. *)
LEMMA AheadIs ==
    ASSUME NEW S, IsFiniteSet(S), NEW R, StrictOrder(R, S)
    PROVE  Placed(S, R, Cardinality(S))
<1> DEFINE n == Cardinality(S)
<1>1. n \in Nat
  BY FS_CardinalityType
<1>2. ASSUME NEW x \in S
      PROVE  /\ Ahead(x, S, R) \in Nat /\ Ahead(x, S, R) < n
             /\ IsFiniteSet({y \in S : <<y, x>> \in R})
  <2> DEFINE T == {y \in S : <<y, x>> \in R}
  <2>1. T \in SUBSET S /\ x \notin T
    BY DEF StrictOrder
  <2>2. Ahead(x, S, R) = Cardinality(T)
    BY DEF Ahead
  <2> HIDE DEF T
  <2>3. IsFiniteSet(T) /\ Cardinality(T) \in Nat /\ Cardinality(T) <= n /\ Cardinality(T) # n
    BY <2>1, FS_Subset, FS_CardinalityType
  <2>4. QED BY <1>1, <2>2, <2>3 DEF T
<1>3. ASSUME NEW x \in S, NEW y \in S, <<x, y>> \in R PROVE Ahead(x, S, R) < Ahead(y, S, R)
  <2> DEFINE T == {z \in S : <<z, x>> \in R}
             U == {z \in S : <<z, y>> \in R}
  <2>1. T \in SUBSET U /\ x \in U /\ x \notin T
    BY <1>3 DEF StrictOrder
  <2>2. Ahead(x, S, R) = Cardinality(T) /\ Ahead(y, S, R) = Cardinality(U)
    BY DEF Ahead
  <2>3. IsFiniteSet(U)
    BY <1>2
  <2> HIDE DEF T, U
  <2>4. /\ Cardinality(T) \in Nat /\ Cardinality(U) \in Nat
        /\ Cardinality(T) <= Cardinality(U) /\ Cardinality(T) # Cardinality(U)
    BY <2>1, <2>3, FS_Subset, FS_CardinalityType
  <2>5. QED BY <2>2, <2>4
<1> DEFINE places == [x \in S |-> Ahead(x, S, R) + 1]
<1>4. \A x \in S : Ahead(x, S, R) \in Nat /\ Ahead(x, S, R) + 1 \in 1 .. n
  <2> TAKE x \in S
  <2>1. Ahead(x, S, R) \in Nat /\ Ahead(x, S, R) < n
    BY <1>2
  <2>2. QED BY <1>1, <2>1
<1>5. places \in Injection(S, 1 .. n)
  <2>1. \A x, y \in S : x # y => places[x] # places[y]
    <3> SUFFICES ASSUME NEW x \in S, NEW y \in S, x # y PROVE places[x] # places[y]
      OBVIOUS
    <3>1. Ahead(x, S, R) < Ahead(y, S, R) \/ Ahead(y, S, R) < Ahead(x, S, R)
      BY <1>3 DEF StrictOrder
    <3>2. Ahead(x, S, R) \in Nat /\ Ahead(y, S, R) \in Nat
      BY <1>4
    <3>3. QED BY <3>1, <3>2
  <2>2. places \in [S -> 1 .. n]
    BY <1>4
  <2> HIDE DEF places
  <2>3. QED BY <2>1, <2>2 DEF Injection, IsInjective
<1>6. IsFiniteSet(1 .. n) /\ Cardinality(1 .. n) = n
  BY <1>1, FS_Interval
<1>7. places \in Surjection(S, 1 .. n)
  <2> HIDE DEF places
  <2>1. QED BY <1>5, <1>6, FS_Injection
<1>8. ASSUME NEW i \in 1 .. n PROVE \E x \in S : Ahead(x, S, R) = i - 1
  <2>1. PICK x \in S : places[x] = i
    <3> HIDE DEF places
    <3>1. QED BY <1>7 DEF Surjection
  <2>2. Ahead(x, S, R) + 1 = i /\ Ahead(x, S, R) \in Nat
    BY <1>4, <2>1
  <2>3. Ahead(x, S, R) = i - 1
    BY <2>2
  <2>4. QED BY <2>3
<1>9. QED BY <1>1, <1>3, <1>4, <1>8 DEF Placed

(* A sequence that has what is in a set, each as often as in it *)
Lists(s, S) ==
    /\ IsSeq(s) /\ Len(s) = Cardinality(S)
    /\ \A i \in 1 .. Len(s) : s[i] \in S
    /\ \A x \in S : \E i \in 1 .. Len(s) : s[i] = x

(* So does the ordered sequence of a finite set. *)
LEMMA OrderedIs ==
    ASSUME NEW S, IsFiniteSet(S), NEW R, StrictOrder(R, S)
    PROVE  Lists(Ordered(S, R), S)
<1>0. PICK n, s : n = Cardinality(S) /\ s = Ordered(S, R)
  OBVIOUS
<1>1. /\ n \in Nat
      /\ \A x \in S : Ahead(x, S, R) \in Nat /\ Ahead(x, S, R) + 1 \in 1 .. n
      /\ \A x, y \in S : <<x, y>> \in R => Ahead(x, S, R) < Ahead(y, S, R)
      /\ \A i \in 1 .. n : \E x \in S : Ahead(x, S, R) = i - 1
  BY <1>0, AheadIs DEF Placed
<1>2. s = [i \in 1 .. n |-> CHOOSE x \in S : Ahead(x, S, R) = i - 1]
  BY <1>0 DEF Ordered, Ahead
<1>3. \A i \in 1 .. n : s[i] \in S /\ Ahead(s[i], S, R) = i - 1
  BY <1>1, <1>2
<1>4. IsSeq(s) /\ Len(s) = n
  <2>1. DOMAIN s = 1 .. n /\ s = [i \in 1 .. n |-> s[i]]
    BY <1>2
  <2>2. QED BY <1>1, <2>1, IsSeqOf
<1>5. ASSUME NEW x \in S PROVE \E i \in 1 .. n : s[i] = x
  <2>1. PICK i : i = Ahead(x, S, R) + 1
    OBVIOUS
  <2>2. i \in 1 .. n /\ Ahead(x, S, R) = i - 1 /\ Ahead(x, S, R) \in Nat
    BY <1>1, <2>1
  <2>3. s[i] \in S /\ Ahead(s[i], S, R) = Ahead(x, S, R)
    BY <1>3, <2>2
  <2>4. <<s[i], x>> \notin R /\ <<x, s[i]>> \notin R
    BY <1>1, <2>2, <2>3
  <2>5. QED BY <2>2, <2>3, <2>4 DEF StrictOrder
<1>6. QED BY <1>0, <1>3, <1>4, <1>5 DEF Lists

-----------------------------------------------------------------------------
(* The index *)

(* What a finite set maps to is finite. *)
LEMMA ImageFinite ==
    ASSUME NEW S, IsFiniteSet(S), NEW g
    PROVE  IsFiniteSet({g[x] : x \in S})
<1> DEFINE T == {g[x] : x \in S}
           f == [x \in S |-> g[x]]
<1>1. f \in Surjection(S, T)
  BY DEF Surjection
<1> HIDE DEF T, f
<1>2. IsFiniteSet(T)
  BY <1>1, FS_Surjection
<1>3. QED BY <1>2 DEF T

(* The calls in a stretch are finitely many. *)
LEMMA CallsFinite ==
    ASSUME NEW p \in Files, NEW a \in Nat \ {0}, NEW b \in Nat
    PROVE  IsFiniteSet(CallsIn(p, a, b))
<1>1. PICK k : k = Least(b, Height(p))
  OBVIOUS
<1>2. Height(p) \in Nat
  BY RetrievalAssumption DEF Height
<1>3. k \in Nat /\ k <= Height(p)
  BY <1>1, <1>2, LeastIs
<1>4. PICK g : g = [l \in a .. k |-> Source[p].lines[l].calls]
  OBVIOUS
<1>5. PICK T : T = {g[l] : l \in a .. k}
  OBVIOUS
<1>6. IsFiniteSet(a .. k)
  BY <1>3, FS_Interval
<1>7. IsFiniteSet(T)
  BY <1>5, <1>6, ImageFinite
<1>8. \A l \in a .. k : IsFiniteSet(g[l])
  <2> TAKE l \in a .. k
  <2>1. l \in 1 .. Len(Source[p].lines)
    BY <1>2, <1>3 DEF Height
  <2>2. IsFiniteSet(Source[p].lines[l].calls)
    BY <2>1, RetrievalAssumption
  <2>3. QED BY <1>4, <2>2
<1>9. IsFiniteSet(UNION T)
  BY <1>5, <1>7, <1>8, FS_UNION
<1>10. CallsIn(p, a, b) = UNION T
  <2>1. T = {Source[p].lines[l].calls : l \in a .. k}
    BY <1>4, <1>5
  <2>2. QED BY <1>1, <2>1 DEF CallsIn
<1>11. QED BY <1>9, <1>10

(* A function has a stretch of its file, and a place of its own in it. *)
Indexed(i) ==
    /\ i.file \in Walked /\ i.file \in Files
    /\ i.first \in Nat /\ i.last \in Nat /\ i.place \in Nat /\ SymbolOrder[i.symbol] \in Nat
    /\ 1 <= i.first /\ i.first <= i.last /\ i.last <= Height(i.file)
    /\ IsFiniteSet(i.calls)

(* The functions of a parsed file *)
LEMMA FunctionsAre ==
    ASSUME NEW p \in Walked
    PROVE  /\ \A i \in Functions(p) : Indexed(i) /\ i.file = p
           /\ \A i, j \in Functions(p) : i.place = j.place => i = j
           /\ IsFiniteSet(Functions(p))
<1>0. p \in Files
  BY DEF Walked
<1>1. ASSUME NEW d \in Source[p].definitions PROVE Indexed(Info(p, d)) /\ Info(p, d).file = p
  <2>1. PICK i : i = Info(p, d)
    OBVIOUS
  <2>2. /\ i.file = p /\ i.first = d.first /\ i.last = d.last /\ i.place = d.place
        /\ i.symbol = d.symbol /\ i.calls = CallsIn(p, d.first, d.last)
    BY <2>1 DEF Info
  <2>3. /\ d.first \in Nat /\ d.last \in Nat /\ d.place \in Nat /\ SymbolOrder[d.symbol] \in Nat
        /\ 1 <= d.first /\ d.first <= d.last /\ d.last <= Height(p)
    BY <1>0, RetrievalAssumption DEF Height
  <2>4. IsFiniteSet(CallsIn(p, d.first, d.last))
    BY <1>0, <2>3, CallsFinite
  <2>5. QED BY <1>0, <2>1, <2>2, <2>3, <2>4 DEF Indexed
<1>2. ASSUME NEW d \in Source[p].definitions, NEW e \in Source[p].definitions,
             Info(p, d).place = Info(p, e).place
      PROVE  Info(p, d) = Info(p, e)
  <2>1. d.place = e.place
    BY <1>2 DEF Info
  <2>2. d = e
    BY <1>0, <2>1, RetrievalAssumption
  <2>3. QED BY <2>2
<1>3. IsFiniteSet(Functions(p))
  <2>1. PICK D : D = Source[p].definitions
    OBVIOUS
  <2>2. IsFiniteSet(D)
    BY <1>0, <2>1, RetrievalAssumption
  <2>3. PICK g : g = [d \in D |-> Info(p, d)]
    OBVIOUS
  <2>4. IsFiniteSet({g[d] : d \in D})
    BY <2>2, ImageFinite
  <2>5. Functions(p) = {g[d] : d \in D}
    BY <2>1, <2>3 DEF Functions
  <2>6. QED BY <2>4, <2>5
<1>4. \A i \in Functions(p) : \E d \in Source[p].definitions : i = Info(p, d)
  BY DEF Functions
<1>5. QED BY <1>1, <1>2, <1>3, <1>4

(* A file as one function *)
LEMMA LexicalIs ==
    ASSUME NEW p \in Walked
    PROVE  /\ \A i \in Lexical(p) : Indexed(i) /\ i.file = p
           /\ \A i, j \in Lexical(p) : i = j
           /\ IsFiniteSet(Lexical(p))
<1>0. p \in Files /\ Height(p) \in Nat
  BY RetrievalAssumption DEF Walked, Height
<1>1. PICK d : d = [symbol |-> p, first |-> 1, last |-> Most(1, Height(p)), place |-> 1]
  OBVIOUS
<1>2. Lexical(p) = {i \in {Info(p, d)} : i.calls # {}}
  BY <1>1 DEF Lexical
<1>3. PICK i : i = Info(p, d)
  OBVIOUS
<1>4. /\ i.file = p /\ i.first = 1 /\ i.last = Most(1, Height(p)) /\ i.place = 1
      /\ i.symbol = p /\ i.calls = CallsIn(p, 1, Most(1, Height(p)))
  BY <1>1, <1>3 DEF Info
<1>5. /\ Most(1, Height(p)) \in Nat /\ 1 <= Most(1, Height(p))
      /\ Height(p) # 0 => Most(1, Height(p)) = Height(p)
  BY <1>0 DEF Most
<1>6. i.calls # {} => Height(p) # 0
  <2> SUFFICES ASSUME Height(p) = 0 PROVE i.calls = {}
    OBVIOUS
  <2>1. Least(Most(1, Height(p)), Height(p)) = 0
    BY <1>5 DEF Least
  <2>2. 1 .. Least(Most(1, Height(p)), Height(p)) = {}
    BY <2>1
  <2>3. CallsIn(p, 1, Most(1, Height(p))) = UNION {Source[p].lines[l].calls : l \in {}}
    BY <2>2 DEF CallsIn
  <2>4. QED BY <1>4, <2>3
<1>7. IsFiniteSet(i.calls)
  <2>1. 1 \in Nat \ {0}
    OBVIOUS
  <2>2. IsFiniteSet(CallsIn(p, 1, Most(1, Height(p))))
    BY <1>0, <1>5, <2>1, CallsFinite
  <2>3. QED BY <1>4, <2>2
<1>8. SymbolOrder[p] \in Nat
  BY <1>0, RetrievalAssumption
<1>9. i.calls # {} => Indexed(i)
  BY <1>0, <1>4, <1>5, <1>6, <1>7, <1>8 DEF Indexed
<1>10. IsFiniteSet(Lexical(p))
  <2>1. IsFiniteSet({i}) /\ Lexical(p) \in SUBSET {i}
    BY <1>2, <1>3, FS_Singleton
  <2>2. QED BY <2>1, FS_Subset
<1>11. QED BY <1>2, <1>3, <1>4, <1>9, <1>10

(* So has the index, which is finite. *)
IndexTyped ==
    /\ IsFiniteSet(Index)
    /\ \A i \in Index : Indexed(i)
    /\ \A i, j \in Index : i.file = j.file /\ i.place = j.place => i = j

(* build() makes such an index. *)
LEMMA IndexIs == IndexTyped
<1>1. ASSUME NEW p \in Walked
      PROVE  /\ IsFiniteSet(IndexOf(p))
             /\ \A i \in IndexOf(p) : Indexed(i) /\ i.file = p
             /\ \A i, j \in IndexOf(p) : i.place = j.place => i = j
  <2>1. IndexOf(p) \in {Functions(p), Lexical(p), {}}
    BY DEF IndexOf, PythonFunctions, ParsedFunctions
  <2>2. CASE IndexOf(p) = Functions(p)
    BY <2>2, FunctionsAre
  <2>3. CASE IndexOf(p) = Lexical(p)
    BY <2>3, LexicalIs
  <2>4. CASE IndexOf(p) = {}
    BY <2>4, FS_EmptySet
  <2>5. QED BY <2>1, <2>2, <2>3, <2>4
<1>2. \A i \in Index : \E p \in Walked : i \in IndexOf(p)
  BY DEF Index
<1>3. IsFiniteSet(Index)
  <2>1. IsFiniteSet(Walked)
    <3>1. Walked \in SUBSET Files /\ IsFiniteSet(Files)
      BY RetrievalAssumption DEF Walked
    <3>2. QED BY <3>1, FS_Subset
  <2>2. PICK g : g = [p \in Walked |-> IndexOf(p)]
    OBVIOUS
  <2>3. PICK T : T = {g[p] : p \in Walked}
    OBVIOUS
  <2>4. IsFiniteSet(T)
    BY <2>1, <2>3, ImageFinite
  <2>5. \A U \in T : IsFiniteSet(U)
    BY <1>1, <2>2, <2>3
  <2>6. IsFiniteSet(UNION T)
    BY <2>4, <2>5, FS_UNION
  <2>7. Index = UNION T
    BY <2>2, <2>3 DEF Index
  <2>8. QED BY <2>6, <2>7
<1>4. QED BY <1>1, <1>2, <1>3 DEF IndexTyped

(* Order by place *)
Standing(S) ==
    /\ IsFiniteSet(S)
    /\ \A i \in S : i.file \in Files /\ i.first \in Int /\ i.place \in Int
    /\ \A i, j \in S : i.file = j.file /\ i.first = j.first /\ i.place = j.place => i = j

(* Precedes compares any two that stand at different places. *)
LEMMA PrecedesOrders ==
    ASSUME NEW S, Standing(S)
    PROVE  /\ \A i \in S : ~Precedes(i, i)
           /\ \A i, j \in S : i # j => Precedes(i, j) \/ Precedes(j, i)
           /\ \A i, j, k \in S : Precedes(i, j) /\ Precedes(j, k) => Precedes(i, k)
<1>1. \A i \in S : PathOrder[i.file] \in Nat /\ i.first \in Int /\ i.place \in Int
  BY RetrievalAssumption DEF Standing
<1>2. \A i, j \in S : PathOrder[i.file] = PathOrder[j.file] => i.file = j.file
  BY RetrievalAssumption DEF Standing
<1>3. \A i \in S : ~Precedes(i, i)
  BY <1>1 DEF Precedes
<1>4. ASSUME NEW i \in S, NEW j \in S, i # j PROVE Precedes(i, j) \/ Precedes(j, i)
  <2>1. i.file # j.file \/ i.first # j.first \/ i.place # j.place
    BY <1>4 DEF Standing
  <2>2. QED BY <1>1, <1>2, <2>1 DEF Precedes
<1>5. ASSUME NEW i \in S, NEW j \in S, NEW k \in S, Precedes(i, j), Precedes(j, k)
      PROVE  Precedes(i, k)
  BY <1>1, <1>5 DEF Precedes
<1>6. QED BY <1>3, <1>4, <1>5

(* They are listed once each. *)
LEMMA ByPlaceIs ==
    ASSUME NEW S, Standing(S)
    PROVE  Lists(ByPlace(S), S)
<1>1. PICK R : R = {p \in S \X S : Precedes(p[1], p[2])}
  OBVIOUS
<1>2. \A i, j \in S : <<i, j>> \in R <=> Precedes(i, j)
  BY <1>1
<1>3. StrictOrder(R, S)
  BY <1>2, PrecedesOrders DEF StrictOrder
<1>4. Lists(Ordered(S, R), S)
  BY <1>3, OrderedIs DEF Standing
<1>5. QED BY <1>1, <1>4 DEF ByPlace

(* The functions of the index have a place each. *)
LEMMA IndexStands ==
    ASSUME NEW S, S \subseteq Index
    PROVE  Standing(S)
<1>1. IsFiniteSet(S)
  BY IndexIs, FS_Subset DEF IndexTyped
<1>2. QED BY <1>1, IndexIs DEF IndexTyped, Indexed, Standing

(* What find_callers, find_callees and find_similar_patterns list *)
LEMMA CallersIs ==
    ASSUME NEW symbol
    PROVE  Lists(Callers(symbol), {i \in Index : symbol \in i.calls})
<1>1. PICK S : S = {i \in Index : symbol \in i.calls}
  OBVIOUS
<1>2. Lists(ByPlace(S), S)
  BY <1>1, IndexStands, ByPlaceIs
<1>3. QED BY <1>1, <1>2 DEF Callers

(* A list of functions of the index *)
LEMMA CalleesIs ==
    ASSUME NEW symbol
    PROVE  \E S \in SUBSET Index : Lists(Callees(symbol), S)
<1>1. PICK called : called = UNION {i.calls : i \in {j \in Index : j.symbol = symbol}}
  OBVIOUS
<1>2. PICK S : S = {i \in Index : /\ i.symbol \in called
                                  /\ \A j \in Index : SameStart(i, j) => i.place <= j.place}
  OBVIOUS
<1>3. S \in SUBSET Index
  BY <1>2
<1>4. Lists(ByPlace(S), S)
  BY <1>3, IndexStands, ByPlaceIs
<1>5. Callees(symbol) = ByPlace(S)
  BY <1>1, <1>2 DEF Callees
<1>6. QED BY <1>3, <1>4, <1>5

(* How many calls are shared is a number. *)
LEMMA SharedIs ==
    ASSUME NEW i \in Index, NEW names
    PROVE  Shared(i, names) \in Nat
<1>1. IsFiniteSet(i.calls) /\ i.calls \cap names \in SUBSET i.calls
  BY IndexIs DEF IndexTyped, Indexed
<1>2. IsFiniteSet(i.calls \cap names)
  BY <1>1, FS_Subset
<1>3. QED BY <1>2, FS_CardinalityType DEF Shared

(* More of them only go on with the list. *)
LEMMA SimilarIs ==
    ASSUME NEW names
    PROVE  \E s, S : /\ S \subseteq Index /\ Lists(s, S)
                     /\ \A n \in Nat : Similar(names, n) = First(s, n)
<1>1. PICK S : S = {i \in Index : Shared(i, names) > 0}
  OBVIOUS
<1>2. PICK R : R = {p \in S \X S : Nearer(p[1], p[2], names)}
  OBVIOUS
<1>3. \A i, j \in S : <<i, j>> \in R <=> Nearer(i, j, names)
  BY <1>2
<1>4. S \subseteq Index /\ Standing(S)
  BY <1>1, IndexStands
<1>5. \A i \in S : Shared(i, names) \in Nat
  BY <1>4, SharedIs
<1>6. StrictOrder(R, S)
  <2>1. /\ \A i \in S : ~Precedes(i, i)
        /\ \A i, j \in S : i # j => Precedes(i, j) \/ Precedes(j, i)
        /\ \A i, j, k \in S : Precedes(i, j) /\ Precedes(j, k) => Precedes(i, k)
    BY <1>4, PrecedesOrders
  <2>2. \A i \in S : ~Nearer(i, i, names)
    BY <1>5, <2>1 DEF Nearer
  <2>3. \A i, j \in S : i # j => Nearer(i, j, names) \/ Nearer(j, i, names)
    BY <1>5, <2>1 DEF Nearer
  <2>4. \A i, j, k \in S : Nearer(i, j, names) /\ Nearer(j, k, names) => Nearer(i, k, names)
    BY <1>5, <2>1 DEF Nearer
  <2>5. QED BY <1>3, <2>2, <2>3, <2>4 DEF StrictOrder
<1>7. Lists(Ordered(S, R), S)
  BY <1>4, <1>6, OrderedIs DEF Standing
<1>8. \A n \in Nat : Similar(names, n) = First(Ordered(S, R), n)
  BY <1>1, <1>2 DEF Similar
<1>9. QED BY <1>4, <1>7, <1>8

(* A name is that of one file, or of none. *)
LEMMA ResolveIs ==
    ASSUME NEW name
    PROVE  /\ Resolve(name) \subseteq Walked
           /\ \A p, q \in Resolve(name) : p = q
           /\ name \in Walked => Resolve(name) = {name}
<1>1. \A p \in Walked : PathLength[p] \in Nat /\ PathOrder[p] \in Nat
  BY RetrievalAssumption DEF Walked
<1>2. \A p, q \in Walked : ~(Shorter(p, q) /\ Shorter(q, p))
  BY <1>1 DEF Shorter
<1>3. QED BY <1>2 DEF Resolve

(* What find_enclosing lists *)
LEMMA EnclosingIs ==
    ASSUME NEW name, NEW first, NEW last
    PROVE  \E S \in SUBSET Index : Lists(Enclosing(name, first, last), S)
<1>1. PICK S : S = {i \in Index : /\ i.file \in Resolve(name)
                                  /\ i.first <= last /\ first <= i.last}
  OBVIOUS
<1>2. PICK R : R = {p \in S \X S : Smaller(p[1], p[2])}
  OBVIOUS
<1>3. \A i, j \in S : <<i, j>> \in R <=> Smaller(i, j)
  BY <1>2
<1>4. S \in SUBSET Index /\ Standing(S)
  BY <1>1, IndexStands
<1>5. \A i \in S : /\ i.first \in Nat /\ i.last \in Nat /\ i.place \in Nat
                   /\ SymbolOrder[i.symbol] \in Nat
  BY <1>4, IndexIs DEF IndexTyped, Indexed
<1>6. \A i, j \in S : i.place = j.place => i = j
  <2> SUFFICES ASSUME NEW i \in S, NEW j \in S, i.place = j.place PROVE i = j
    OBVIOUS
  <2>1. i.file = j.file
    BY <1>1, ResolveIs
  <2>2. QED BY <1>4, <2>1, IndexIs DEF IndexTyped
<1>7. StrictOrder(R, S)
  <2>1. \A i \in S : ~Smaller(i, i)
    BY <1>5 DEF Smaller, Named
  <2>2. ASSUME NEW i \in S, NEW j \in S, i # j PROVE Smaller(i, j) \/ Smaller(j, i)
    <3>1. i.place # j.place
      BY <1>6, <2>2
    <3>2. QED BY <1>5, <3>1 DEF Smaller, Named
  <2>3. ASSUME NEW i \in S, NEW j \in S, NEW k \in S, Smaller(i, j), Smaller(j, k)
        PROVE  Smaller(i, k)
    BY <1>5, <2>3 DEF Smaller, Named
  <2>4. QED BY <1>3, <2>1, <2>2, <2>3 DEF StrictOrder
<1>8. Lists(Ordered(S, R), S)
  BY <1>4, <1>7, OrderedIs DEF Standing
<1>9. Enclosing(name, first, last) = Ordered(S, R)
  BY <1>1, <1>2 DEF Enclosing
<1>10. QED BY <1>4, <1>8, <1>9

-----------------------------------------------------------------------------
(* Excerpts *)

(* The files that are indexed are finitely many, and so are their lines. *)
LEMMA WalkedIs ==
    /\ IsFiniteSet(Walked) /\ Walked \subseteq Files
    /\ \A p \in Walked : Height(p) \in Nat
<1>1. Walked \in SUBSET Files /\ IsFiniteSet(Files)
  BY RetrievalAssumption DEF Walked
<1>2. IsFiniteSet(Walked)
  BY <1>1, FS_Subset
<1>3. QED BY <1>1, <1>2, RetrievalAssumption DEF Height

(* A sequence of stretches of lines *)
Spans(s) == IsSeq(s) /\ \A n \in 1 .. Len(s) : s[n].first \in Int /\ s[n].last \in Int

(* The fields of a stretch *)
LEMMA StretchIs ==
    ASSUME NEW p, NEW symbol, NEW a \in Int, NEW b \in Int
    PROVE  /\ Stretch(p, symbol, a, b).file = p /\ Stretch(p, symbol, a, b).first = a + 1
           /\ Stretch(p, symbol, a, b).last = b /\ Stretch(p, symbol, a, b).place = 0
BY DEF Stretch

(* An excerpt is of the file, and has all of its lines that were asked for. *)
Excerpted(s, name, first, last) ==
    /\ Spans(s)
    /\ name \in Walked =>
        \A l \in 1 .. Height(name) : first <= l /\ l <= last => Some(s, name, l)

(* file_excerpt gives such an excerpt. *)
LEMMA ExcerptIs ==
    ASSUME NEW name, NEW first \in Int, NEW last \in Int, NEW around \in Nat
    PROVE  Excerpted(Excerpt(name, first, last, around), name, first, last)
<1>1. PICK g : g = [p \in Resolve(name) |->
                       Stretch(p, "context", Most(0, first - around - 1),
                               Least(Height(p), last + around))]
  OBVIOUS
<1>2. PICK S : S = {g[p] : p \in Resolve(name)}
  OBVIOUS
<1>3. S = {Stretch(p, "context", Most(0, first - around - 1),
                   Least(Height(p), last + around)) : p \in Resolve(name)}
  BY <1>1, <1>2
<1>4. \A p \in Resolve(name) : p \in Walked /\ p \in Files /\ Height(p) \in Nat
  BY ResolveIs, WalkedIs
<1>5. first - around - 1 \in Int /\ last + around \in Int
  OBVIOUS
<1>6. PICK a \in Int : a = Most(0, first - around - 1) /\ (a = 0 \/ a = first - around - 1)
  BY <1>5, MostIs
<1>7. ASSUME NEW p \in Resolve(name)
      PROVE  /\ g[p].file = p /\ g[p].first = a + 1 /\ g[p].place = 0
             /\ g[p].last \in Int /\ g[p].last \in {Height(p), last + around}
  <2>1. PICK b \in Int : b = Least(Height(p), last + around) /\ b \in {Height(p), last + around}
    BY <1>4, <1>5, LeastIs
  <2>2. g[p] = Stretch(p, "context", a, b)
    BY <1>1, <1>6, <2>1
  <2>3. QED BY <2>1, <2>2, StretchIs
<1>8. Standing(S)
  <2>1. IsFiniteSet(S)
    <3>1. Resolve(name) \in SUBSET Walked
      BY ResolveIs
    <3>2. IsFiniteSet(Resolve(name))
      BY <3>1, WalkedIs, FS_Subset
    <3>3. QED BY <1>2, <3>2, ImageFinite
  <2>2. \A i \in S : \E p \in Resolve(name) : i = g[p]
    BY <1>2
  <2>3. \A i \in S : i.file \in Files /\ i.first \in Int /\ i.place \in Int
    BY <1>4, <1>7, <2>2
  <2>4. \A i, j \in S : i.file = j.file => i = j
    BY <1>7, <2>2
  <2>5. QED BY <2>1, <2>3, <2>4 DEF Standing
<1>9. PICK s : s = Excerpt(name, first, last, around)
  OBVIOUS
<1>10. s = ByPlace(S)
  BY <1>3, <1>9 DEF Excerpt
<1>11. /\ IsSeq(s) /\ \A n \in 1 .. Len(s) : s[n] \in S
       /\ \A x \in S : \E n \in 1 .. Len(s) : s[n] = x
  BY <1>8, <1>10, ByPlaceIs DEF Lists
<1>12. Spans(s)
  BY <1>2, <1>7, <1>11 DEF Spans
<1>13. ASSUME name \in Walked, NEW l \in 1 .. Height(name), first <= l, l <= last
       PROVE  Some(s, name, l)
  <2>1. name \in Resolve(name)
    BY <1>13, ResolveIs
  <2>2. g[name] \in S
    BY <1>2, <2>1
  <2>3. PICK n \in 1 .. Len(s) : s[n] = g[name]
    BY <1>11, <2>2
  <2>4. g[name].file = name /\ g[name].first <= l /\ l <= g[name].last
    <3>1. Height(name) \in Nat
      BY <1>4, <2>1
    <3>2. a + 1 <= l
      BY <1>6, <1>13
    <3>3. l <= Height(name) /\ l <= last + around
      BY <1>13, <3>1
    <3>4. QED BY <1>7, <2>1, <3>2, <3>3
  <2>5. n \in DOMAIN s
    BY <1>11, SeqIs
  <2>6. QED BY <2>3, <2>4, <2>5 DEF Some, Holds
<1>14. QED BY <1>9, <1>12, <1>13 DEF Excerpted

(* The lines that have a word are all referred to, if there are fewer than asked for. *)
Referenced(s, word, limit) ==
    /\ Spans(s) /\ Len(s) <= limit
    /\ Len(s) < limit =>
        \A p \in Walked : \A l \in 1 .. Height(p) :
            word \in Source[p].lines[l].words => Some(s, p, l)

(* find_text_references gives such references. *)
LEMMA ReferencesIs ==
    ASSUME NEW word, NEW limit \in Nat, NEW around \in Nat
    PROVE  Referenced(References(word, limit, around), word, limit)
<1>1. PICK having : having = [p \in Walked |->
                                {m \in 1 .. Height(p) : word \in Source[p].lines[m].words}]
  OBVIOUS
<1>2. PICK line : line = [p \in Walked |-> [l \in having[p] |->
                            [file |-> p, first |-> l, last |-> l, place |-> 0]]]
  OBVIOUS
<1>3. PICK g : g = [p \in Walked |-> {line[p][l] : l \in having[p]}]
  OBVIOUS
<1>4. PICK S : S = UNION {g[p] : p \in Walked}
  OBVIOUS
<1>5. S = UNION {{[file |-> p, first |-> l, last |-> l, place |-> 0] :
                     l \in {m \in 1 .. Height(p) : word \in Source[p].lines[m].words}} :
                    p \in Walked}
  <2>1. \A p \in Walked : having[p] = {m \in 1 .. Height(p) : word \in Source[p].lines[m].words}
    BY <1>1
  <2>2. \A p \in Walked : \A l \in having[p] :
            line[p][l] = [file |-> p, first |-> l, last |-> l, place |-> 0]
    BY <1>2
  <2>3. \A p \in Walked :
            g[p] = {[file |-> p, first |-> l, last |-> l, place |-> 0] : l \in having[p]}
    BY <1>3, <2>2
  <2>4. \A p \in Walked :
            g[p] = {[file |-> p, first |-> l, last |-> l, place |-> 0] :
                       l \in {m \in 1 .. Height(p) : word \in Source[p].lines[m].words}}
    BY <2>1, <2>3
  <2>5. QED BY <1>4, <2>4
<1>6. \A i \in S : \E p \in Walked : \E l \in having[p] : i = line[p][l]
  BY <1>3, <1>4
<1>7. \A p \in Walked : \A l \in having[p] : /\ line[p][l] \in S /\ l \in 1 .. Height(p)
                                            /\ line[p][l].file = p /\ line[p][l].first = l
                                            /\ line[p][l].place = 0 /\ line[p][l].last = l
  BY <1>1, <1>2, <1>3, <1>4
<1>8. Standing(S)
  <2>1. ASSUME NEW p \in Walked PROVE IsFiniteSet(g[p])
    <3>1. IsFiniteSet(1 .. Height(p)) /\ having[p] \in SUBSET (1 .. Height(p))
      BY <1>1, WalkedIs, FS_Interval
    <3>2. IsFiniteSet(having[p])
      BY <3>1, FS_Subset
    <3>3. PICK h : h = line[p]
      OBVIOUS
    <3>4. IsFiniteSet({h[l] : l \in having[p]})
      BY <3>2, ImageFinite
    <3>5. QED BY <1>3, <3>3, <3>4
  <2>2. IsFiniteSet(S)
    <3>1. PICK T : T = {g[p] : p \in Walked}
      OBVIOUS
    <3>2. IsFiniteSet(T) /\ \A U \in T : IsFiniteSet(U)
      BY <2>1, <3>1, WalkedIs, ImageFinite
    <3>3. QED BY <1>4, <3>1, <3>2, FS_UNION
  <2>3. \A i \in S : i.file \in Files /\ i.first \in Int /\ i.place \in Int
    BY <1>6, <1>7, WalkedIs
  <2>4. \A i, j \in S : i.file = j.file /\ i.first = j.first => i = j
    BY <1>6, <1>7
  <2>5. QED BY <2>2, <2>3, <2>4 DEF Standing
<1>9. PICK all : all = ByPlace(S)
  OBVIOUS
<1>10. /\ IsSeq(all) /\ \A n \in 1 .. Len(all) : all[n] \in S
       /\ \A x \in S : \E n \in 1 .. Len(all) : all[n] = x
  BY <1>8, <1>9, ByPlaceIs DEF Lists
<1>11. PICK order : order = First(all, limit)
  OBVIOUS
<1>12. /\ IsSeq(order) /\ Len(order) = Least(limit, Len(all)) /\ Len(order) <= limit
       /\ Len(order) <= Len(all) /\ \A n \in 1 .. Len(order) : order[n] = all[n]
  BY <1>10, <1>11, FirstIs
<1>13. Len(order) \in Nat /\ Len(all) \in Nat /\ DOMAIN order = 1 .. Len(order)
  BY <1>10, <1>12, SeqIs
<1>14. PICK s : s = References(word, limit, around)
  OBVIOUS
<1>15. s = [n \in 1 .. Len(order) |->
             Stretch(order[n].file, "reference", Most(0, order[n].first - 1 - around),
                     Least(Height(order[n].file), order[n].first + around))]
  BY <1>5, <1>9, <1>11, <1>13, <1>14 DEF References
<1>16. IsSeq(s) /\ Len(s) = Len(order)
  <2>1. DOMAIN s = 1 .. Len(order) /\ s = [n \in 1 .. Len(order) |-> s[n]]
    BY <1>15
  <2>2. QED BY <1>13, <2>1, IsSeqOf
<1>17. ASSUME NEW n \in 1 .. Len(order)
       PROVE  /\ s[n].file = order[n].file /\ s[n].first \in Int /\ s[n].last \in Int
              /\ Holds(s[n], order[n].file, order[n].first)
  <2>1. order[n] \in S
    <3>1. n \in 1 .. Len(all) /\ order[n] = all[n]
      BY <1>12, <1>13
    <3>2. QED BY <1>10, <3>1
  <2>0. PICK p \in Walked : \E m \in having[p] : order[n] = line[p][m]
    BY <1>6, <2>1
  <2>2. PICK l \in having[p] : order[n] = line[p][l]
    BY <2>0
  <2>3. order[n].file = p /\ order[n].first = l /\ l \in 1 .. Height(p) /\ Height(p) \in Nat
    BY <1>7, <2>2, WalkedIs
  <2>4. l \in Nat /\ l - 1 - around \in Int /\ l + around \in Int /\ 1 <= l /\ l <= Height(p)
    BY <2>3
  <2>5. PICK a \in Int : a = Most(0, l - 1 - around) /\ (a = 0 \/ a = l - 1 - around)
    <3>1. PICK k \in Int : k = l - 1 - around
      BY <2>4
    <3>2. Most(0, k) = 0 \/ Most(0, k) = k
      BY DEF Most
    <3>3. QED BY <3>1, <3>2
  <2>6. PICK b \in Int : b = Least(Height(p), l + around) /\ (b = Height(p) \/ b = l + around)
    <3>1. PICK j \in Int, k \in Int : j = Height(p) /\ k = l + around
      BY <2>3, <2>4
    <3>2. Least(j, k) = j \/ Least(j, k) = k
      BY DEF Least
    <3>3. QED BY <3>1, <3>2
  <2>7. s[n] = Stretch(p, "reference", a, b)
    BY <1>15, <2>3, <2>5, <2>6
  <2>8. s[n].file = p /\ s[n].first = a + 1 /\ s[n].last = b
    BY <2>7, StretchIs
  <2>9. a + 1 <= l /\ l <= b
    BY <2>4, <2>5, <2>6
  <2>10. QED BY <2>3, <2>8, <2>9 DEF Holds
<1>18. Spans(s)
  BY <1>16, <1>17 DEF Spans
<1>19. ASSUME Len(s) < limit, NEW p \in Walked, NEW l \in 1 .. Height(p),
              word \in Source[p].lines[l].words
       PROVE  Some(s, p, l)
  <2>1. l \in having[p]
    BY <1>1, <1>19
  <2>2. PICK n \in 1 .. Len(all) : all[n] = line[p][l]
    BY <1>7, <1>10, <2>1
  <2>3. Len(order) = Len(all)
    BY <1>12, <1>13, <1>16, <1>19 DEF Least
  <2>4. n \in 1 .. Len(order) /\ order[n].file = p /\ order[n].first = l
    BY <1>7, <1>12, <2>1, <2>2, <2>3
  <2>5. Holds(s[n], p, l)
    BY <1>17, <2>4
  <2>6. n \in DOMAIN s
    BY <1>16, <2>4, SeqIs
  <2>7. QED BY <2>5, <2>6 DEF Some
<1>20. QED BY <1>12, <1>14, <1>16, <1>18, <1>19 DEF Referenced

-----------------------------------------------------------------------------
(* Evidence *)

(* The empty sequence *)
LEMMA EmptyIs ==
    /\ IsSeq(<<>>) /\ Len(<<>>) = 0 /\ Spans(<<>>)
    /\ \A s : IsSeq(s) => s \o <<>> = s
<1>1. <<>> \in Seq({}) /\ Len(<<>>) = 0
  OBVIOUS
<1>2. ASSUME NEW s, IsSeq(s) PROVE s \o <<>> = s
  <2>1. PICK S : s \in Seq(S)
    BY <1>2 DEF IsSeq
  <2>2. QED BY ONLY <2>1
<1>3. QED BY <1>1, <1>2 DEF IsSeq, Spans

(* Whether stretches are listed, joined or cut off, they are stretches. *)
LEMMA SpansOf ==
    /\ \A s, S : Lists(s, S) /\ S \subseteq Index => Spans(s)
    /\ \A s, t : Spans(s) /\ Spans(t) => Spans(s \o t)
    /\ \A s : \A n \in Nat : Spans(s) => Spans(First(s, n))
<1>1. ASSUME NEW s, NEW S, Lists(s, S), S \subseteq Index PROVE Spans(s)
  BY <1>1, IndexIs DEF Lists, Spans, IndexTyped, Indexed
<1>2. ASSUME NEW s, NEW t, Spans(s), Spans(t) PROVE Spans(s \o t)
  <2>1. PICK u : u = s \o t
    OBVIOUS
  <2>2. IsSeq(s) /\ IsSeq(t)
    BY <1>2 DEF Spans
  <2>3. Joined(s, t, u)
    BY <2>1, <2>2, JoinedIs
  <2>4. Len(s) \in Nat /\ Len(t) \in Nat
    BY <2>2, SeqIs
  <2>5. IsSeq(u) /\ Len(u) = Len(s) + Len(t)
    BY <2>3 DEF Joined
  <2>6. ASSUME NEW n \in 1 .. Len(u) PROVE u[n].first \in Int /\ u[n].last \in Int
    <3>1. n \in 1 .. Len(s) + Len(t)
      BY <2>5
    <3>2. n <= Len(s) => n \in 1 .. Len(s)
      BY <2>4, <3>1
    <3>3. ~(n <= Len(s)) => n - Len(s) \in 1 .. Len(t)
      BY <2>4, <3>1
    <3>4. u[n] = IF n <= Len(s) THEN s[n] ELSE t[n - Len(s)]
      BY <2>3, <3>1 DEF Joined
    <3>5. QED BY <1>2, <3>2, <3>3, <3>4 DEF Spans
  <2>7. QED BY <2>1, <2>5, <2>6 DEF Spans
<1>3. ASSUME NEW s, NEW n \in Nat, Spans(s) PROVE Spans(First(s, n))
  <2>1. PICK u : u = First(s, n)
    OBVIOUS
  <2>2. IsSeq(s)
    BY <1>3 DEF Spans
  <2>3. /\ IsSeq(u) /\ Len(u) <= Len(s) /\ \A i \in 1 .. Len(u) : u[i] = s[i]
    BY <2>1, <2>2, FirstIs
  <2>4. Len(u) \in Nat /\ Len(s) \in Nat
    BY <2>2, <2>3, SeqIs
  <2>5. \A i \in 1 .. Len(u) : i \in 1 .. Len(s)
    BY <2>3, <2>4
  <2>6. QED BY <1>3, <2>1, <2>3, <2>5 DEF Spans
<1>4. QED BY <1>1, <1>2, <1>3

(* So are parts of stretches, joined. *)
LEMMA SpansConcat ==
    ASSUME NEW seqs, Len(seqs) \in Nat, \A i \in 1 .. Len(seqs) : Spans(seqs[i])
    PROVE  Spans(Concat(seqs))
<1>1. Parts(seqs)
  BY DEF Parts, Spans
<1>2. PICK S : S = {x \in UNION {{seqs[i][k] : k \in 1 .. Len(seqs[i])} : i \in 1 .. Len(seqs)} :
                        x.first \in Int /\ x.last \in Int}
  OBVIOUS
<1>3. ASSUME NEW i \in 1 .. Len(seqs), NEW k \in 1 .. Len(seqs[i]) PROVE seqs[i][k] \in S
  <2>1. seqs[i][k].first \in Int /\ seqs[i][k].last \in Int
    BY DEF Spans
  <2>2. seqs[i][k] \in {seqs[i][j] : j \in 1 .. Len(seqs[i])}
    OBVIOUS
  <2>3. QED BY <1>2, <2>1, <2>2
<1>4. IsSeq(Concat(seqs)) /\ \A m \in 1 .. Len(Concat(seqs)) : Concat(seqs)[m] \in S
  BY <1>1, <1>3, ConcatHolds, ConcatWithin
<1>5. \A x \in S : x.first \in Int /\ x.last \in Int
  BY <1>2
<1>6. QED BY <1>4, <1>5 DEF Spans

(* A block is a sequence. *)
LEMMA BlockIs ==
    ASSUME NEW label, NEW i, i.first \in Int, i.last \in Int
    PROVE  IsSeq(Block(label, i))
<1>1. PICK n \in Nat : n = Most(0, i.last - i.first + 1)
  BY DEF Most
<1>2. PICK r, s : /\ r = <<Shown(label, i.file, 0)>>
                  /\ s = [k \in 1 .. n |-> Shown(label, i.file, i.first + k - 1)]
  OBVIOUS
<1>3. IsSeq(r)
  <2>1. PICK x : x = Shown(label, i.file, 0)
    OBVIOUS
  <2>2. r \in Seq({x})
    BY <1>2, <2>1
  <2>3. QED BY <2>2 DEF IsSeq
<1>4. IsSeq(s)
  <2>1. DOMAIN s = 1 .. n /\ s = [k \in 1 .. n |-> s[k]]
    BY <1>2
  <2>2. QED BY <2>1, IsSeqOf
<1>5. PICK t : t = r \o s
  OBVIOUS
<1>6. IsSeq(t)
  BY <1>3, <1>4, <1>5, JoinIs
<1>7. QED BY <1>1, <1>2, <1>5, <1>6 DEF Block

(* The blocks of a section *)
Blocks(label, infos) ==
    [n \in DOMAIN infos |->
        IF \E m \in 1 .. n - 1 : Place(infos[m]) = Place(infos[n]) THEN <<>>
        ELSE Block(label, infos[n])]

(* As many as there are stretches, some of them empty *)
LEMMA BlocksAre ==
    ASSUME NEW label, NEW infos, Spans(infos)
    PROVE  Parts(Blocks(label, infos)) /\ Len(Blocks(label, infos)) = Len(infos)
<1>1. IsSeq(infos) /\ Len(infos) \in Nat /\ DOMAIN infos = 1 .. Len(infos)
  BY SeqIs DEF Spans
<1>2. PICK s : s = Blocks(label, infos)
  OBVIOUS
<1>3. s = [n \in 1 .. Len(infos) |->
              IF \E m \in 1 .. n - 1 : Place(infos[m]) = Place(infos[n]) THEN <<>>
              ELSE Block(label, infos[n])]
  BY <1>1, <1>2 DEF Blocks
<1>4. Len(s) = Len(infos)
  <2>1. DOMAIN s = 1 .. Len(infos) /\ s = [n \in 1 .. Len(infos) |-> s[n]]
    BY <1>3
  <2>2. QED BY <1>1, <2>1, IsSeqOf
<1>5. ASSUME NEW n \in 1 .. Len(infos) PROVE IsSeq(s[n])
  <2>1. s[n] = <<>> \/ s[n] = Block(label, infos[n])
    BY <1>3
  <2>2. IsSeq(Block(label, infos[n]))
    BY BlockIs DEF Spans
  <2>3. QED BY <2>1, <2>2, EmptyIs
<1>6. QED BY <1>1, <1>2, <1>4, <1>5 DEF Parts

(* A section is a sequence, and goes on as what is in it does. *)
LEMMA SectionIs ==
    ASSUME NEW label, NEW infos, Spans(infos)
    PROVE  IsSeq(Section(label, infos))
<1>1. Section(label, infos) = Concat(Blocks(label, infos))
  BY DEF Section, Blocks
<1>2. QED BY <1>1, BlocksAre, ConcatHolds

(* A stretch that was shown before is left out in the one section as in the other. *)
LEMMA SectionBegins ==
    ASSUME NEW label, NEW infos, NEW more, Begins(infos, more), Spans(infos), Spans(more)
    PROVE  Begins(Section(label, infos), Section(label, more))
<1>1. Section(label, infos) = Concat(Blocks(label, infos))
  BY DEF Section, Blocks
<1>2. Section(label, more) = Concat(Blocks(label, more))
  BY DEF Section, Blocks
<1>3. PICK s, t : s = Blocks(label, infos) /\ t = Blocks(label, more)
  OBVIOUS
<1>4. Parts(s) /\ Parts(t) /\ Len(s) = Len(infos) /\ Len(t) = Len(more)
  BY <1>3, BlocksAre
<1>5. /\ Len(infos) \in Nat /\ Len(more) \in Nat
      /\ DOMAIN infos = 1 .. Len(infos) /\ DOMAIN more = 1 .. Len(more)
  BY SeqIs DEF Spans
<1>6. Len(s) <= Len(t) /\ \A n \in 1 .. Len(s) : infos[n] = more[n] /\ n \in 1 .. Len(t)
  BY <1>4, <1>5 DEF Begins
<1>7. ASSUME NEW n \in 1 .. Len(s) PROVE s[n] = t[n]
  <2>1. s[n] = IF \E m \in 1 .. n - 1 : Place(infos[m]) = Place(infos[n]) THEN <<>>
               ELSE Block(label, infos[n])
    BY <1>3, <1>4, <1>5 DEF Blocks
  <2>2. t[n] = IF \E m \in 1 .. n - 1 : Place(more[m]) = Place(more[n]) THEN <<>>
               ELSE Block(label, more[n])
    BY <1>3, <1>4, <1>5, <1>6 DEF Blocks
  <2>3. \A m \in 1 .. n - 1 : m \in 1 .. Len(s)
    BY <1>4, <1>5
  <2>4. \A m \in 1 .. n - 1 : infos[m] = more[m]
    BY <1>6, <2>3
  <2>5. infos[n] = more[n]
    BY <1>6
  <2>6. QED BY <2>1, <2>2, <2>4, <2>5
<1>8. Begins(Concat(s), Concat(t))
  BY <1>4, <1>6, <1>7, ConcatBegins
<1>9. QED BY <1>1, <1>2, <1>3, <1>8

-----------------------------------------------------------------------------
(* The rounds *)

(* What is ordered is a sequence, whatever the order. *)
LEMMA OrderedSeq ==
    ASSUME NEW S, IsFiniteSet(S), NEW R
    PROVE  IsSeq(Ordered(S, R))
<1>1. PICK n \in Nat : n = Cardinality(S)
  BY FS_CardinalityType
<1>2. PICK s : s = Ordered(S, R)
  OBVIOUS
<1>3. s = [i \in 1 .. n |-> CHOOSE x \in S : Ahead(x, S, R) = i - 1]
  BY <1>1, <1>2 DEF Ordered, Ahead
<1>4. DOMAIN s = 1 .. n /\ s = [i \in 1 .. n |-> s[i]]
  BY <1>3
<1>5. QED BY <1>2, <1>4, IsSeqOf

(* The two smallest functions around a citation are in the index. *)
LEMMA SurroundingIs ==
    ASSUME NEW f \in Subjects
    PROVE  /\ Spans(Surrounding(f))
           /\ \A n \in 1 .. Len(Surrounding(f)) : Surrounding(f)[n] \in Index
<1>1. PICK s, S : /\ s = Enclosing(Citation[f].file, Citation[f].first, Citation[f].last)
                  /\ S \in SUBSET Index /\ Lists(s, S)
  BY EnclosingIs
<1>2. IsSeq(s) /\ \A n \in 1 .. Len(s) : s[n] \in Index
  BY <1>1 DEF Lists
<1>3. PICK t : t = First(s, 2)
  OBVIOUS
<1>4. IsSeq(t) /\ Len(t) <= Len(s) /\ \A n \in 1 .. Len(t) : t[n] = s[n]
  BY <1>2, <1>3, FirstIs
<1>5. Len(t) \in Nat /\ Len(s) \in Nat
  BY <1>2, <1>4, SeqIs
<1>6. \A n \in 1 .. Len(t) : n \in 1 .. Len(s)
  BY <1>4, <1>5
<1>7. \A n \in 1 .. Len(t) : t[n] \in Index
  BY <1>2, <1>4, <1>6
<1>8. Spans(s)
  BY <1>1, SpansOf
<1>9. Spans(t)
  BY <1>3, <1>8, SpansOf
<1>10. QED BY <1>1, <1>3, <1>7, <1>9 DEF Surrounding

(* The lines around a citation are a stretch. *)
LEMMA AroundIs ==
    ASSUME NEW f \in Subjects, NEW lines \in Nat
    PROVE  Spans(Around(f, lines))
<1>1. Citation[f].first \in Int /\ Citation[f].last \in Int
  BY EvidenceAssumption
<1>2. QED BY <1>1, ExcerptIs DEF Around, Excerpted

(* The evidence of the first round is a sequence. *)
LEMMA LocalIs ==
    ASSUME NEW f \in Subjects
    PROVE  IsSeq(Local(f, Surrounding(f)))
<1>1. PICK e : e = Surrounding(f)
  OBVIOUS
<1>2. PICK s : s = IF e # <<>> THEN Section("enclosing", e)
                   ELSE Section("local", Around(f, LocalLines))
  OBVIOUS
<1>3. IsSeq(s)
  <2>1. Spans(e)
    BY <1>1, SurroundingIs
  <2>2. Spans(Around(f, LocalLines))
    BY AroundIs, EvidenceAssumption
  <2>3. IsSeq(Section("enclosing", e)) /\ IsSeq(Section("local", Around(f, LocalLines)))
    BY <2>1, <2>2, SectionIs
  <2>4. QED BY <1>2, <2>3
<1>4. PICK t : t = [n \in DOMAIN SliceOf[f] |-> Shown("slice", Citation[f].file, SliceOf[f][n])]
  OBVIOUS
<1>5. IsSeq(t)
  <2>1. SliceOf[f] \in Seq(Nat)
    BY EvidenceAssumption
  <2>2. PICK n \in Nat : DOMAIN SliceOf[f] = 1 .. n
    BY <2>1
  <2>3. DOMAIN t = 1 .. n /\ t = [k \in 1 .. n |-> t[k]]
    BY <1>4, <2>2
  <2>4. QED BY <2>3, IsSeqOf
<1>6. IsSeq(s \o t)
  BY <1>3, <1>5, JoinIs
<1>7. Local(f, e) = s \o t
  BY <1>2, <1>4 DEF Local
<1>8. QED BY <1>1, <1>6, <1>7

(* What is linked to a function *)
LEMMA LinkedIs ==
    ASSUME NEW symbol
    PROVE  Spans(Callers(symbol) \o Callees(symbol))
<1>1. Spans(Callers(symbol))
  <2>1. Lists(Callers(symbol), {i \in Index : symbol \in i.calls})
    BY CallersIs
  <2>2. {i \in Index : symbol \in i.calls} \subseteq Index
    OBVIOUS
  <2>3. QED BY <2>1, <2>2, SpansOf
<1>2. Spans(Callees(symbol))
  BY CalleesIs, SpansOf
<1>3. QED BY <1>1, <1>2, SpansOf

(* The callers and callees stay in front when more functions that are alike follow. *)
LEMMA RelatedIs ==
    ASSUME NEW f \in Subjects
    PROVE  LET e == Surrounding(f) IN
           /\ Related(f, e, 1) = <<>>
           /\ Begins(Related(f, e, 2), Related(f, e, 3))
<1> DEFINE e == Surrounding(f)
           linked == [n \in DOMAIN e |-> Callers(e[n].symbol) \o Callees(e[n].symbol)]
<1>1. Related(f, e, 1) = <<>>
  BY DEF Related
<1>2. PICK k : k = Concat(linked)
  OBVIOUS
<1>3. Spans(k)
  <2>1. Spans(e)
    BY SurroundingIs
  <2>2. Len(e) \in Nat /\ DOMAIN e = 1 .. Len(e)
    BY <2>1, SeqIs DEF Spans
  <2>3. DOMAIN linked = 1 .. Len(e) /\ linked = [n \in 1 .. Len(e) |-> linked[n]]
    BY <2>2
  <2>4. \A n \in 1 .. Len(e) : Spans(linked[n])
    BY <2>2, LinkedIs
  <2> HIDE DEF linked, e
  <2>5. Len(linked) = Len(e)
    BY <2>2, <2>3, IsSeqOf
  <2>6. QED BY <1>2, <2>2, <2>4, <2>5, SpansConcat
<1>4. PICK s, S : /\ S \subseteq Index /\ Lists(s, S)
                  /\ \A n \in Nat : Similar(Citation[f].calls, n) = First(s, n)
  BY SimilarIs
<1>5. PICK u, v : u = First(s, 4) /\ v = First(s, 5)
  OBVIOUS
<1>6. Spans(s)
  BY <1>4, SpansOf
<1>7. Spans(u) /\ Spans(v)
  BY <1>5, <1>6, SpansOf
<1>8. Begins(u, v)
  <2>1. Begins(s, s)
    BY <1>6, BeginsOrders DEF Spans
  <2>2. Begins(First(s, 4), First(s, 5))
    BY <2>1, FirstBegins
  <2>3. QED BY <1>5, <2>2
<1>9. Begins(k \o u, k \o v)
  BY <1>3, <1>8, JoinBegins DEF Spans
<1>10. Spans(k \o u) /\ Spans(k \o v)
  BY <1>3, <1>7, SpansOf
<1>11. Begins(Section("related", k \o u), Section("related", k \o v))
  BY <1>9, <1>10, SectionBegins
<1>12. Related(f, e, 2) = Section("related", k \o u)
  BY <1>2, <1>4, <1>5 DEF Related
<1>13. Related(f, e, 3) = Section("related", k \o v)
  BY <1>2, <1>4, <1>5 DEF Related
<1>14. QED BY <1>1, <1>11, <1>12, <1>13

(* The words of a function are finitely many. *)
LEMMA WordsFinite ==
    ASSUME NEW i \in Index
    PROVE  IsFiniteSet(WordsIn(i))
<1>1. Indexed(i)
  BY IndexIs DEF IndexTyped
<1>2. PICK g : g = [l \in i.first .. i.last |-> Source[i.file].lines[l].words]
  OBVIOUS
<1>3. PICK T : T = {g[l] : l \in i.first .. i.last}
  OBVIOUS
<1>4. IsFiniteSet(T)
  <2>1. IsFiniteSet(i.first .. i.last)
    <3>1. PICK a \in Int, b \in Int : a = i.first /\ b = i.last
      BY <1>1 DEF Indexed
    <3>2. IsFiniteSet(a .. b)
      BY FS_Interval
    <3>3. QED BY <3>1, <3>2
  <2>2. QED BY <1>3, <2>1, ImageFinite
<1>5. \A l \in i.first .. i.last : IsFiniteSet(g[l])
  <2> TAKE l \in i.first .. i.last
  <2>1. i.file \in Files /\ Height(i.file) \in Nat
    BY <1>1, WalkedIs DEF Indexed
  <2>2. l \in 1 .. Height(i.file)
    BY <1>1, <2>1 DEF Indexed
  <2>3. l \in 1 .. Len(Source[i.file].lines)
    BY <2>2 DEF Height
  <2>4. IsFiniteSet(Source[i.file].lines[l].words)
    BY <2>1, <2>3, RetrievalAssumption
  <2>5. QED BY <1>2, <2>4
<1>6. IsFiniteSet(UNION T)
  BY <1>3, <1>4, <1>5, FS_UNION
<1>7. T = {Source[i.file].lines[l].words : l \in i.first .. i.last}
  BY <1>2, <1>3
<1>8. QED BY <1>6, <1>7 DEF WordsIn

(* At most six words *)
LEMMA SeedsAre ==
    ASSUME NEW f \in Subjects
    PROVE  IsSeq(Seeds(f, Surrounding(f)))
<1>1. PICK e : e = Surrounding(f)
  OBVIOUS
<1>2. IsSeq(e) /\ \A n \in 1 .. Len(e) : e[n] \in Index
  BY <1>1, SurroundingIs DEF Spans
<1>3. Len(e) \in Nat /\ DOMAIN e = 1 .. Len(e)
  BY <1>2, SeqIs
<1>4. PICK g : g = [n \in DOMAIN e |-> WordsIn(e[n])]
  OBVIOUS
<1>5. PICK T : T = {g[n] : n \in DOMAIN e}
  OBVIOUS
<1>6. IsFiniteSet(T)
  <2>1. IsFiniteSet(DOMAIN e)
    BY <1>3, FS_Interval
  <2>2. QED BY <1>5, <2>1, ImageFinite
<1>7. \A U \in T : IsFiniteSet(U)
  <2>1. \A n \in DOMAIN e : IsFiniteSet(g[n])
    BY <1>2, <1>3, <1>4, WordsFinite
  <2>2. QED BY <1>5, <2>1
<1>8. PICK words : words = Citation[f].words \cup UNION T
  OBVIOUS
<1>9. IsFiniteSet(words)
  <2>1. IsFiniteSet(UNION T)
    BY <1>6, <1>7, FS_UNION
  <2>2. IsFiniteSet(Citation[f].words)
    BY EvidenceAssumption
  <2>3. QED BY <1>8, <2>1, <2>2, FS_Union
<1>10. PICK R, s : /\ R = {p \in words \X words : WordOrder[p[1]] < WordOrder[p[2]]}
                   /\ s = Ordered(words, R)
  OBVIOUS
<1>11. IsSeq(s)
  BY <1>9, <1>10, OrderedSeq
<1>12. IsSeq(First(s, 6))
  BY <1>11, FirstIs
<1>13. words = Citation[f].words \cup UNION {WordsIn(e[n]) : n \in DOMAIN e}
  <2>1. T = {WordsIn(e[n]) : n \in DOMAIN e}
    BY <1>4, <1>5
  <2>2. QED BY <1>8, <2>1
<1>14. Seeds(f, e) = First(s, 6)
  BY <1>10, <1>13 DEF Seeds
<1>15. QED BY <1>1, <1>12, <1>14

(* There is always a line of entry points. *)
LEMMA EntryPointsAre == IsSeq(EntryPoints) /\ Len(EntryPoints) >= 2
<1>1. Recovered[2] \in Nat
  BY EvidenceAssumption
<1>2. PICK m \in Nat : m = Least(30, Recovered[2])
  BY <1>1 DEF Least
<1>3. PICK n \in Nat : n = 1 + Most(1, m) /\ n >= 2
  BY DEF Most
<1>4. PICK s : s = EntryPoints
  OBVIOUS
<1>5. s = [k \in 1 .. n |-> Shown("entry", "map", k - 1)]
  BY <1>2, <1>3, <1>4 DEF EntryPoints
<1>6. DOMAIN s = 1 .. n /\ s = [k \in 1 .. n |-> s[k]]
  BY <1>5
<1>7. IsSeq(s) /\ Len(s) = n
  BY <1>6, IsSeqOf
<1>8. QED BY <1>3, <1>4, <1>7

(* Only the third round looks at the module, and it always has the entry points. *)
LEMMA WholeIs ==
    ASSUME NEW f \in Subjects
    PROVE  LET e == Surrounding(f) IN
           /\ Whole(f, e, 1) = <<>> /\ Whole(f, e, 2) = <<>>
           /\ IsSeq(Whole(f, e, 3)) /\ Len(Whole(f, e, 3)) >= 2
<1>1. PICK e : e = Surrounding(f)
  OBVIOUS
<1>2. Whole(f, e, 1) = <<>> /\ Whole(f, e, 2) = <<>>
  BY DEF Whole
<1>3. PICK seeds, parts : /\ seeds = Seeds(f, e)
                          /\ parts = [n \in DOMAIN seeds |-> References(seeds[n], 4, 6)]
  OBVIOUS
<1>4. Spans(Concat(parts))
  <2>1. IsSeq(seeds)
    BY <1>1, <1>3, SeedsAre
  <2>2. Len(seeds) \in Nat /\ DOMAIN seeds = 1 .. Len(seeds)
    BY <2>1, SeqIs
  <2>3. DOMAIN parts = 1 .. Len(seeds) /\ parts = [n \in 1 .. Len(seeds) |-> parts[n]]
    BY <1>3, <2>2
  <2>4. Len(parts) = Len(seeds)
    BY <2>2, <2>3, IsSeqOf
  <2>5. ASSUME NEW n \in 1 .. Len(parts) PROVE Spans(parts[n])
    <3>1. parts[n] = References(seeds[n], 4, 6)
      BY <1>3, <2>2, <2>4
    <3>2. Referenced(References(seeds[n], 4, 6), seeds[n], 4)
      BY ReferencesIs
    <3>3. QED BY <3>1, <3>2 DEF Referenced
  <2>6. QED BY <2>2, <2>4, <2>5, SpansConcat
<1>5. PICK a, b, c : /\ a = Section("module", Around(f, ModuleLines)) /\ b = EntryPoints
                     /\ c = Section("reference", Concat(parts))
  OBVIOUS
<1>6. IsSeq(a)
  <2>1. Spans(Around(f, ModuleLines))
    BY AroundIs, EvidenceAssumption
  <2>2. QED BY <1>5, <2>1, SectionIs
<1>7. IsSeq(b) /\ Len(b) >= 2
  BY <1>5, EntryPointsAre
<1>8. IsSeq(c)
  BY <1>4, <1>5, SectionIs
<1>9. PICK u, v : u = a \o b /\ v = u \o c
  OBVIOUS
<1>10. IsSeq(u) /\ Len(u) = Len(a) + Len(b)
  BY <1>6, <1>7, <1>9, JoinedIs DEF Joined
<1>11. IsSeq(v) /\ Len(v) = Len(u) + Len(c)
  BY <1>8, <1>9, <1>10, JoinedIs DEF Joined
<1>12. Len(v) >= 2
  <2>1. Len(a) \in Nat /\ Len(b) \in Nat /\ Len(c) \in Nat
    BY <1>6, <1>7, <1>8, SeqIs
  <2>2. QED BY <1>7, <1>10, <1>11, <2>1
<1>13. Whole(f, e, 3) = v
  BY <1>3, <1>5, <1>9 DEF Whole
<1>14. QED BY <1>1, <1>2, <1>11, <1>12, <1>13

(* The evidence of a round begins with that of the round before, and the third has
   more unless the prompt is full. *)
Broader(c) ==
    /\ Begins(c[1], c[2]) /\ Begins(c[2], c[3])
    /\ Len(c[2]) < MaxEvidence => Len(c[2]) < Len(c[3])

(* The related section of the third round begins with that of the second, and
   nothing comes behind the second, so the third goes on where it ends. *)
LEMMA ContextBroadens ==
    ASSUME NEW f \in Subjects
    PROVE  Broader(Prompts(f))
<1>1. PICK e, l : e = Surrounding(f) /\ l = Local(f, e)
  OBVIOUS
<1>2. PICK r, q, w : r = Related(f, e, 2) /\ q = Related(f, e, 3) /\ w = Whole(f, e, 3)
  OBVIOUS
<1>3. IsSeq(l)
  BY <1>1, LocalIs
<1>4. Related(f, e, 1) = <<>> /\ Begins(r, q)
  BY <1>1, <1>2, RelatedIs
<1>5. Whole(f, e, 1) = <<>> /\ Whole(f, e, 2) = <<>> /\ IsSeq(w) /\ Len(w) >= 2
  BY <1>1, <1>2, WholeIs
<1>6. IsSeq(r) /\ IsSeq(q)
  BY <1>4 DEF Begins
<1>7. PICK a, b, c : a = l \o r /\ b = l \o q /\ c = b \o w
  OBVIOUS
<1>8. IsSeq(a) /\ Begins(l, a)
  BY <1>3, <1>6, <1>7, JoinedIs DEF Joined
<1>9. IsSeq(b) /\ Begins(a, b)
  <2>1. Begins(l \o r, l \o q)
    BY <1>3, <1>4, JoinBegins
  <2>2. Begins(a, b)
    BY <1>7, <2>1
  <2>3. QED BY <2>2 DEF Begins
<1>10. IsSeq(c) /\ Begins(b, c) /\ Len(c) = Len(b) + Len(w)
  BY <1>5, <1>7, <1>9, JoinedIs DEF Joined
<1>11. Begins(a, c)
  BY <1>9, <1>10, BeginsOrders
<1>12. MaxEvidence \in Nat
  BY EvidenceAssumption
<1>13. PICK n \in Nat : n = MaxEvidence
  BY <1>12
<1>14. PICK x, y, z : x = First(l, n) /\ y = First(a, n) /\ z = First(c, n)
  OBVIOUS
<1>15. Begins(x, y) /\ Begins(y, z)
  BY <1>8, <1>11, <1>14, FirstBegins
<1>16. Context(f, 1) = x
  <2>1. (l \o <<>>) \o <<>> = l
    BY <1>3, EmptyIs
  <2>2. QED BY <1>1, <1>4, <1>5, <1>13, <1>14, <2>1 DEF Context
<1>17. Context(f, 2) = y
  <2>1. a \o <<>> = a
    BY <1>8, EmptyIs
  <2>2. QED BY <1>1, <1>2, <1>5, <1>7, <1>13, <1>14, <2>1 DEF Context
<1>18. Context(f, 3) = z
  BY <1>1, <1>2, <1>7, <1>13, <1>14 DEF Context
<1>19. Len(y) < n => Len(y) < Len(z)
  <2>1. Len(y) = Least(n, Len(a)) /\ Len(z) = Least(n, Len(c))
    BY <1>8, <1>10, <1>14, FirstIs
  <2>2. Len(a) <= Len(b)
    BY <1>9 DEF Begins
  <2>3. Len(a) \in Nat /\ Len(b) \in Nat /\ Len(c) \in Nat /\ Len(w) \in Nat
    BY <1>5, <1>8, <1>9, <1>10, SeqIs
  <2>4. Len(a) < Len(c)
    BY <1>5, <1>10, <2>2, <2>3
  <2>5. QED BY <2>1, <2>3, <2>4 DEF Least
<1>20. PICK p : p = Prompts(f)
  OBVIOUS
<1>21. p[1] = x /\ p[2] = y /\ p[3] = z
  <2>1. p = [k \in 1 .. 3 |-> Context(f, k)]
    BY <1>20 DEF Prompts, Tiers
  <2>2. QED BY <1>16, <1>17, <1>18, <2>1
<1>22. QED BY <1>13, <1>15, <1>19, <1>20, <1>21 DEF Broader

(* The property has this as a prefix. *)
LEMMA BeginsExtends ==
    ASSUME NEW s, NEW t, Begins(s, t)
    PROVE  Extends(s, t)
<1>1. IsSeq(s) /\ IsSeq(t) /\ Len(s) <= Len(t) /\ \A i \in 1 .. Len(s) : s[i] = t[i]
  BY DEF Begins
<1>2. PICK n \in Nat : n = Len(s)
  BY <1>1, SeqIs
<1>3. PICK S : t \in Seq(S)
  BY <1>1 DEF IsSeq
<1>4. PICK u : u = SubSeq(t, 1, n)
  OBVIOUS
<1>5. u = [i \in 1 .. n |-> t[i]]
  <2>1. n <= Len(t) /\ Len(t) \in Nat
    BY <1>1, <1>2, <1>3
  <2>2. QED BY ONLY <1>2, <1>3, <1>4, <2>1
<1>6. s = [i \in 1 .. n |-> s[i]]
  BY <1>1, <1>2, SeqIs
<1>7. [i \in 1 .. n |-> t[i]] = [i \in 1 .. n |-> s[i]]
  BY <1>1, <1>2
<1>8. QED BY <1>1, <1>2, <1>4, <1>5, <1>6, <1>7 DEF Extends

(* The first part of the property *)
LEMMA RoundsBroaden ==
    ASSUME NEW f \in Subjects
    PROVE  Broadens(Prompts(f))
<1>1. PICK c : c = Prompts(f)
  OBVIOUS
<1>2. Begins(c[1], c[2]) /\ Begins(c[2], c[3]) /\ (Len(c[2]) < MaxEvidence => Len(c[2]) < Len(c[3]))
  BY <1>1, ContextBroadens DEF Broader
<1>3. Extends(c[1], c[2]) /\ Extends(c[2], c[3])
  BY <1>2, BeginsExtends
<1>4. Tiers \ {3} = {1, 2}
  BY DEF Tiers
<1>5. ASSUME NEW n \in {1, 2}
      PROVE  /\ Extends(c[n], c[n + 1])
             /\ n = 2 /\ Len(c[2]) < MaxEvidence => Len(c[2]) < Len(c[3])
  BY <1>2, <1>3
<1>6. QED BY <1>1, <1>4, <1>5 DEF Broadens

(* A guard that was shown stays shown. *)
LEMMA GuardsStay ==
    ASSUME NEW f, NEW s, NEW t, Begins(s, t)
    PROVE  GuardsShown(f, s) \subseteq GuardsShown(f, t)
<1>1. IsSeq(s) /\ IsSeq(t) /\ Len(s) <= Len(t) /\ \A i \in 1 .. Len(s) : s[i] = t[i]
  BY DEF Begins
<1>2. /\ Len(s) \in Nat /\ Len(t) \in Nat
      /\ DOMAIN s = 1 .. Len(s) /\ DOMAIN t = 1 .. Len(t)
  BY <1>1, SeqIs
<1>3. \A i \in DOMAIN s : i \in DOMAIN t /\ s[i] = t[i]
  BY <1>1, <1>2
<1>4. PICK S, T : S = {s[n] : n \in DOMAIN s} /\ T = {t[n] : n \in DOMAIN t}
  OBVIOUS
<1>5. S \subseteq T
  BY <1>3, <1>4
<1>6. PICK U, V : /\ U = {v \in S : v.file \in Files /\ v.line > 0}
                  /\ V = {v \in T : v.file \in Files /\ v.line > 0}
  OBVIOUS
<1>7. U \subseteq V
  BY <1>5, <1>6
<1>8. GuardsShown(f, s) =
        Citation[f].guards \cup UNION {Source[u.file].lines[u.line].guards : u \in U}
  BY <1>4, <1>6 DEF GuardsShown
<1>9. GuardsShown(f, t) =
        Citation[f].guards \cup UNION {Source[u.file].lines[u.line].guards : u \in V}
  BY <1>4, <1>6 DEF GuardsShown
<1>10. QED BY <1>7, <1>8, <1>9

(* So does a witness. *)
LEMMA UpholdsStays ==
    ASSUME NEW f, NEW s, NEW t, Begins(s, t), NEW w \in Inputs \X Guards,
           Upholds(f, s, "confirmed", w)
    PROVE  Upholds(f, t, "confirmed", w)
<1>1. GuardsShown(f, s) \subseteq GuardsShown(f, t)
  BY GuardsStay
<1>2. w # <<>>
  <2>1. PICK x, y : w = <<x, y>>
    OBVIOUS
  <2>2. Len(<<x, y>>) = 2 /\ Len(<<>>) = 0
    OBVIOUS
  <2>3. QED BY <2>1, <2>2
<1>3. Verification(f, s, w) \in {"not needed", "verified"}
  BY DEF Upholds
<1>4. Checked(w) # "not needed"
  BY DEF Checked
<1>5. w[2] \in GuardsShown(f, s) /\ Checked(w) \in {"not needed", "verified"}
  BY <1>2, <1>3 DEF Verification
<1>6. Verification(f, t, w) = Checked(w)
  BY <1>1, <1>2, <1>5 DEF Verification
<1>7. QED BY <1>5, <1>6 DEF Upholds

(* The second *)
LEMMA WitnessesStand ==
    ASSUME NEW f \in Subjects
    PROVE  WitnessStands(f, Prompts(f))
<1>1. PICK c : c = Prompts(f)
  OBVIOUS
<1>2. Begins(c[1], c[2]) /\ Begins(c[2], c[3])
  BY <1>1, ContextBroadens DEF Broader
<1>3. Tiers \ {3} = {1, 2}
  BY DEF Tiers
<1>4. \A n \in {1, 2} : Begins(c[n], c[n + 1])
  BY <1>2
<1>5. ASSUME NEW n \in {1, 2}, NeedsWitness(f, c[n]) PROVE NeedsWitness(f, c[n + 1])
  <2>1. GuardsShown(f, c[n]) \subseteq GuardsShown(f, c[n + 1])
    BY <1>4, GuardsStay
  <2>2. QED BY <1>5, <2>1 DEF NeedsWitness
<1>6. ASSUME NEW n \in {1, 2}, NEW w \in Inputs \X Guards, Upholds(f, c[n], "confirmed", w)
      PROVE  Upholds(f, c[n + 1], "confirmed", w)
  BY <1>4, <1>6, UpholdsStays
<1>7. QED BY <1>1, <1>3, <1>5, <1>6 DEF WitnessStands

-----------------------------------------------------------------------------
(* The tools *)

(* What holds a line in a part holds it in the whole. *)
LEMMA SomeInConcat ==
    ASSUME NEW seqs, Parts(seqs), NEW i \in 1 .. Len(seqs), NEW p, NEW l, Some(seqs[i], p, l)
    PROVE  Some(Concat(seqs), p, l)
<1>1. IsSeq(seqs[i])
  BY DEF Parts
<1>2. PICK k \in DOMAIN seqs[i] : Holds(seqs[i][k], p, l)
  BY DEF Some
<1>3. k \in 1 .. Len(seqs[i])
  BY <1>1, <1>2, SeqIs
<1>4. PICK n \in 1 .. Len(Concat(seqs)) : Concat(seqs)[n] = seqs[i][k]
  BY <1>3, ConcatHolds
<1>5. IsSeq(Concat(seqs))
  BY ConcatHolds
<1>6. n \in DOMAIN Concat(seqs)
  BY <1>5, SeqIs
<1>7. QED BY <1>2, <1>4, <1>6 DEF Some

(* An excerpt that is not refused has all the lines of the request. *)
LEMMA ExcerptAnswers ==
    ASSUME NEW r \in Requests, r.tool = "indexed_source_excerpt", ExcerptFor(r).ok
    PROVE  AllThere(r, ExcerptFor(r))
<1>1. PICK a : a = ExcerptFor(r)
  OBVIOUS
<1>2. r.first \in Int /\ r.last \in Int /\ ToolLines \in Nat
  BY EvidenceAssumption
<1>3. ~Refusal.ok
  BY DEF Refusal
<1>4. r.file \in Walked /\ 1 <= r.first /\ r.first <= r.last /\ r.last <= Height(r.file)
  BY <1>3 DEF ExcerptFor
<1>5. a.items = Excerpt(r.file, r.first, r.last, ToolLines)
  BY <1>1, <1>4 DEF ExcerptFor
<1>6. Excerpted(a.items, r.file, r.first, r.last)
  BY <1>2, <1>5, ExcerptIs
<1>7. ASSUME NEW l \in r.first .. r.last PROVE Some(a.items, r.file, l)
  <2>1. Height(r.file) \in Nat
    BY <1>4, WalkedIs
  <2>2. l \in 1 .. Height(r.file) /\ r.first <= l /\ l <= r.last
    BY <1>2, <1>4, <2>1
  <2>3. QED BY <1>4, <1>6, <2>2 DEF Excerpted
<1>8. QED BY <1>1, <1>7 DEF AllThere

(* What is not cut off is selected as it is. *)
LEMMA SelectedIs ==
    ASSUME NEW items, IsSeq(items)
    PROVE  /\ Selected(items).cut \/ Selected(items).items = items
           /\ Selected(items).cut <=> Len(items) > ToolResults
<1>1. ToolResults \in Nat /\ Len(items) \in Nat
  BY EvidenceAssumption, SeqIs
<1>2. Selected(items).cut <=> Len(items) > ToolResults
  BY DEF Selected
<1>3. Selected(items).items = First(items, ToolResults)
  BY DEF Selected
<1>4. Len(items) <= ToolResults => First(items, ToolResults) = items
  BY <1>1, FirstIs
<1>5. QED BY <1>1, <1>2, <1>3, <1>4

(* All the callers are shown, or the answer says that it is cut off. *)
LEMMA CallersAnswer ==
    ASSUME NEW r \in Requests, r.tool = "callers"
    PROVE  AllThere(r, CallersFor(r))
<1>1. PICK found : found = Callers(r.symbol)
  OBVIOUS
<1>2. PICK parts : parts = [n \in DOMAIN found |->
                              Excerpt(found[n].file, found[n].first, found[n].last, ToolLines)]
  OBVIOUS
<1>3. PICK a, items : a = CallersFor(r) /\ items = Concat(parts)
  OBVIOUS
<1>4. a = Selected(items)
  BY <1>1, <1>2, <1>3 DEF CallersFor
<1>5. /\ IsSeq(found) /\ \A n \in 1 .. Len(found) : found[n] \in Index
      /\ \A i \in Index : r.symbol \in i.calls => \E n \in 1 .. Len(found) : found[n] = i
  BY <1>1, CallersIs DEF Lists
<1>6. Len(found) \in Nat /\ DOMAIN found = 1 .. Len(found)
  BY <1>5, SeqIs
<1>7. ASSUME NEW n \in 1 .. Len(found)
      PROVE  Excerpted(parts[n], found[n].file, found[n].first, found[n].last)
  <2>1. found[n].first \in Int /\ found[n].last \in Int
    BY <1>5, IndexIs DEF IndexTyped, Indexed
  <2>2. ToolLines \in Nat
    BY EvidenceAssumption
  <2>3. parts[n] = Excerpt(found[n].file, found[n].first, found[n].last, ToolLines)
    BY <1>2, <1>6
  <2>4. QED BY <2>1, <2>2, <2>3, ExcerptIs
<1>8. Len(parts) = Len(found)
  <2>1. DOMAIN parts = 1 .. Len(found) /\ parts = [n \in 1 .. Len(found) |-> parts[n]]
    BY <1>2, <1>6
  <2>2. QED BY <1>6, <2>1, IsSeqOf
<1>9. Parts(parts)
  BY <1>6, <1>7, <1>8 DEF Parts, Excerpted, Spans
<1>10. IsSeq(items)
  BY <1>3, <1>9, ConcatHolds
<1>11. a.cut \/ a.items = items
  BY <1>4, <1>10, SelectedIs
<1>12. ASSUME NEW i \in Index, r.symbol \in i.calls PROVE Some(items, i.file, i.first)
  <2>1. PICK n \in 1 .. Len(found) : found[n] = i
    BY <1>5, <1>12
  <2>2. Indexed(i)
    BY IndexIs DEF IndexTyped
  <2>3. i.file \in Walked /\ i.first \in 1 .. Height(i.file) /\ i.first <= i.last
    <3>1. Height(i.file) \in Nat
      BY <2>2, WalkedIs DEF Indexed
    <3>2. QED BY <2>2, <3>1 DEF Indexed
  <2>4. i.first <= i.first
    BY <2>2 DEF Indexed
  <2>5. Some(parts[n], i.file, i.first)
    BY <1>7, <2>1, <2>3, <2>4 DEF Excerpted
  <2>6. n \in 1 .. Len(parts)
    BY <1>8
  <2>7. QED BY <1>3, <1>9, <2>5, <2>6, SomeInConcat
<1>13. QED BY <1>3, <1>11, <1>12 DEF AllThere

(* One reference more than fits is looked for: fewer are all there are. *)
LEMMA ReferencesAnswer ==
    ASSUME NEW r \in Requests, r.tool = "references"
    PROVE  AllThere(r, ReferencesFor(r))
<1>1. PICK n \in Nat : n = ToolResults
  BY EvidenceAssumption
<1>2. PICK items, a : items = References(r.word, n + 1, ToolLines) /\ a = ReferencesFor(r)
  OBVIOUS
<1>3. a = Selected(items)
  BY <1>1, <1>2 DEF ReferencesFor
<1>4. Referenced(items, r.word, n + 1)
  <2>1. n + 1 \in Nat /\ ToolLines \in Nat
    BY EvidenceAssumption
  <2>2. QED BY <1>2, <2>1, ReferencesIs
<1>5. IsSeq(items)
  BY <1>4 DEF Referenced, Spans
<1>6. (a.cut \/ a.items = items) /\ (a.cut <=> Len(items) > n)
  BY <1>1, <1>3, <1>5, SelectedIs
<1>7. Len(items) \in Nat
  BY <1>5, SeqIs
<1>8. ~a.cut => Len(items) < n + 1
  BY <1>6, <1>7
<1>9. QED BY <1>2, <1>4, <1>6, <1>8 DEF AllThere, Referenced

(* A tool that does not refuse answers what it found. *)
LEMMA ToolsAnswer ==
    ASSUME NEW f \in Subjects
    PROVE  AnswersWhole(Answers(f))
<1>1. SUFFICES ASSUME NEW r \in Requests, AnswerOf(f, r).ok PROVE AllThere(r, AnswerOf(f, r))
  <2>1. \A r \in Requests : Answers(f)[r] = AnswerOf(f, r)
    BY DEF Answers
  <2>2. QED BY <1>1, <2>1 DEF AnswersWhole
<1>2. PICK answer : answer = CASE r.tool = "indexed_source_excerpt" -> ExcerptFor(r)
                               [] r.tool = "structural_slice" -> SliceFor(f)
                               [] r.tool = "callers" -> CallersFor(r)
                               [] r.tool = "references" -> ReferencesFor(r)
                               [] r.tool = "architecture_evidence" -> MapFor
                               [] OTHER -> Refusal
  OBVIOUS
<1>3. AnswerOf(f, r) = IF Size(answer.items) > ToolBytes THEN Refusal ELSE answer
  BY <1>2 DEF AnswerOf
<1>4. AnswerOf(f, r) = answer /\ answer.ok
  <2>1. ~Refusal.ok
    BY DEF Refusal
  <2>2. QED BY <1>1, <1>3, <2>1
<1>5. CASE r.tool = "indexed_source_excerpt"
  <2>1. answer = ExcerptFor(r)
    BY <1>2, <1>5
  <2>2. QED BY <1>4, <1>5, <2>1, ExcerptAnswers
<1>6. CASE r.tool = "callers"
  <2>1. answer = CallersFor(r)
    BY <1>2, <1>6
  <2>2. QED BY <1>4, <1>6, <2>1, CallersAnswer
<1>7. CASE r.tool = "references"
  <2>1. answer = ReferencesFor(r)
    BY <1>2, <1>7
  <2>2. QED BY <1>4, <1>7, <2>1, ReferencesAnswer
<1>8. CASE r.tool \notin {"indexed_source_excerpt", "callers", "references"}
  BY <1>8 DEF AllThere
<1>9. QED BY <1>5, <1>6, <1>7, <1>8

-----------------------------------------------------------------------------
(* A session *)

Sessions(answers) ==
    [attempts : Nat, drifted : BOOLEAN, answers : Seq({answers[r] : r \in Requests})]

(* What a request does to a session *)
LEMMA RequestIs ==
    ASSUME NEW answers, NEW s \in Sessions(answers), NEW r \in Events
    PROVE  /\ Request(answers, s, r) \in Sessions(answers)
           /\ Request(answers, s, r).drifted <=> s.drifted \/ r = Drift
           /\ Request(answers, s, r).attempts =
                IF r = Drift \/ s.drifted \/ s.attempts >= ToolCalls THEN s.attempts
                ELSE s.attempts + 1
           /\ \/ Request(answers, s, r).answers = s.answers
              \/ /\ Request(answers, s, r).attempts = s.attempts + 1
                 /\ Len(Request(answers, s, r).answers) = Len(s.answers) + 1
<1>1. PICK S : S = {answers[q] : q \in Requests}
  OBVIOUS
<1>2. /\ s.attempts \in Nat /\ s.drifted \in BOOLEAN /\ s.answers \in Seq(S)
      /\ s = [attempts |-> s.attempts, drifted |-> s.drifted, answers |-> s.answers]
  BY <1>1 DEF Sessions
<1>3. PICK t : t = Request(answers, s, r)
  OBVIOUS
<1>4. CASE r = Drift
  <2>1. t = [s EXCEPT !.drifted = TRUE]
    BY <1>3, <1>4 DEF Request
  <2>2. t = [attempts |-> s.attempts, drifted |-> TRUE, answers |-> s.answers]
    BY <1>2, <2>1
  <2>3. t \in Sessions(answers)
    BY <1>1, <1>2, <2>2 DEF Sessions
  <2>4. QED BY <1>3, <1>4, <2>2, <2>3
<1>5. CASE r # Drift /\ (s.drifted \/ s.attempts >= ToolCalls)
  <2>1. t = s
    BY <1>3, <1>5 DEF Request
  <2>2. QED BY <1>2, <1>3, <1>5, <2>1
<1>6. CASE r # Drift /\ ~(s.drifted \/ s.attempts >= ToolCalls)
  <2>1. PICK more : more = IF answers[r].ok THEN Append(s.answers, answers[r]) ELSE s.answers
    OBVIOUS
  <2>2. t = [s EXCEPT !.attempts = @ + 1, !.answers = more]
    BY <1>3, <1>6, <2>1 DEF Request
  <2>3. t = [attempts |-> s.attempts + 1, drifted |-> s.drifted, answers |-> more]
    BY <1>2, <2>2
  <2>4. r \in Requests
    BY <1>6 DEF Events
  <2>5. PICK x \in S : x = answers[r]
    BY <1>1, <2>4
  <2>6. Append(s.answers, x) \in Seq(S) /\ Len(Append(s.answers, x)) = Len(s.answers) + 1
    BY ONLY <1>2, x \in S
  <2>7. more \in Seq(S) /\ (more = s.answers \/ Len(more) = Len(s.answers) + 1)
    BY <1>2, <2>1, <2>5, <2>6
  <2>8. t \in Sessions(answers)
    BY <1>1, <1>2, <2>3, <2>7 DEF Sessions
  <2>9. QED BY <1>2, <1>3, <1>6, <2>3, <2>7, <2>8
<1>7. QED BY <1>4, <1>5, <1>6

(* Requests one after the other *)
Course(h, answers, events, n) ==
    h[0] = Opened /\ \A i \in 1 .. n : h[i] = Request(answers, h[i - 1], events[i])

(* The recursion of Session has a value, *)
LEMMA CoursesExist ==
    ASSUME NEW answers, NEW events, NEW n \in Nat
    PROVE  \E h : h = [i \in 0 .. n |-> IF i = 0 THEN Opened
                                        ELSE Request(answers, h[i - 1], events[i])]
<1> DEFINE Goes(k) == \E h : h = [i \in 0 .. k |-> IF i = 0 THEN Opened
                                                   ELSE Request(answers, h[i - 1], events[i])]
           N == {k \in Nat : ~Goes(k)}
<1>1. Goes(0)
  <2>1. PICK h : h = [i \in 0 .. 0 |-> Opened]
    OBVIOUS
  <2>2. h = [i \in 0 .. 0 |-> IF i = 0 THEN Opened ELSE Request(answers, h[i - 1], events[i])]
    BY <2>1
  <2>3. QED BY <2>2
<1>2. ASSUME NEW k \in Nat, Goes(k) PROVE Goes(k + 1)
  <2>1. PICK h : h = [i \in 0 .. k |-> IF i = 0 THEN Opened
                                       ELSE Request(answers, h[i - 1], events[i])]
    BY <1>2
  <2>2. PICK last : last = Request(answers, h[k], events[k + 1])
    OBVIOUS
  <2>3. PICK g : g = [i \in 0 .. k + 1 |-> IF i = k + 1 THEN last ELSE h[i]]
    OBVIOUS
  <2>4. ASSUME NEW i \in 0 .. k + 1
        PROVE  g[i] = IF i = 0 THEN Opened ELSE Request(answers, g[i - 1], events[i])
    <3>1. CASE i = k + 1
      <4>1. g[i] = last /\ i # 0 /\ i - 1 = k /\ k \in 0 .. k + 1 /\ k # k + 1
        BY <2>3, <3>1
      <4>2. g[i - 1] = h[k]
        BY <2>3, <4>1
      <4>3. QED BY <2>2, <3>1, <4>1, <4>2
    <3>2. CASE i # k + 1
      <4>1. i \in 0 .. k /\ g[i] = h[i]
        BY <2>3, <3>2
      <4>2. h[i] = IF i = 0 THEN Opened ELSE Request(answers, h[i - 1], events[i])
        BY <2>1, <4>1
      <4>3. i # 0 => i - 1 \in 0 .. k + 1 /\ i - 1 # k + 1
        BY <4>1
      <4>4. i # 0 => g[i - 1] = h[i - 1]
        BY <2>3, <4>3
      <4>5. QED BY <4>1, <4>2, <4>4
    <3>3. QED BY <3>1, <3>2
  <2>5. g = [i \in 0 .. k + 1 |-> g[i]]
    BY <2>3
  <2>6. g = [i \in 0 .. k + 1 |-> IF i = 0 THEN Opened
                                  ELSE Request(answers, g[i - 1], events[i])]
    BY <2>4, <2>5
  <2>7. QED BY <2>6
<1> HIDE DEF Goes
<1>3. N = {}
  <2> SUFFICES ASSUME N # {} PROVE FALSE
    OBVIOUS
  <2>1. N \subseteq Nat
    OBVIOUS
  <2>2. PICK m \in N : \A v \in N : m <= v
    <3> HIDE DEF N
    <3>1. QED BY <2>1, SmallestOf
  <2>3. m \in Nat /\ ~Goes(m) /\ m # 0
    BY <1>1
  <2>4. m - 1 \in Nat /\ (m - 1) + 1 = m
    BY <2>3
  <2>5. m - 1 \notin N
    BY <2>2, <2>3, <2>4
  <2>6. Goes(m - 1)
    BY <2>4, <2>5
  <2>7. QED BY <1>2, <2>3, <2>4, <2>6
<1>4. QED BY <1>3 DEF Goes

Coursed(h, answers, events) ==
    h = [i \in 0 .. Len(events) |-> IF i = 0 THEN Opened
                                    ELSE Request(answers, h[i - 1], events[i])]

(* which Session takes at the end. *)
LEMMA SessionIs ==
    ASSUME NEW answers, NEW events, Len(events) \in Nat
    PROVE  \E h : /\ Course(h, answers, events, Len(events))
                  /\ Session(answers, events) = h[Len(events)]
<1>1. \E h : Coursed(h, answers, events)
  <2>1. PICK n \in Nat : n = Len(events)
    OBVIOUS
  <2>2. PICK h : h = [i \in 0 .. n |-> IF i = 0 THEN Opened
                                       ELSE Request(answers, h[i - 1], events[i])]
    BY CoursesExist
  <2>3. QED BY <2>1, <2>2 DEF Coursed
<1>2. PICK h : h = CHOOSE g : Coursed(g, answers, events)
  OBVIOUS
<1>3. Coursed(h, answers, events)
  BY <1>1, <1>2, Zenon
<1>4. Session(answers, events) = h[Len(events)]
  BY <1>2 DEF Session, Coursed
<1>5. h[0] = Opened
  BY <1>3 DEF Coursed
<1>6. \A i \in 1 .. Len(events) : h[i] = Request(answers, h[i - 1], events[i])
  <2> TAKE i \in 1 .. Len(events)
  <2>1. i \in 0 .. Len(events) /\ i # 0
    OBVIOUS
  <2>2. QED BY <1>3, <2>1 DEF Coursed
<1>7. QED BY <1>4, <1>5, <1>6 DEF Course

(* The events of a session up to the first drift *)
Undrifted(events, n) == {k \in 1 .. n : \A m \in 1 .. k : events[m] # Drift}

(* They are all that came before it, *)
LEMMA UndriftedIs ==
    ASSUME NEW events, NEW n \in Nat
    PROVE  /\ (\A m \in 1 .. n : events[m] # Drift) => Cardinality(Undrifted(events, n)) = n
           /\ (\E m \in 1 .. n + 1 : events[m] = Drift)
                => Undrifted(events, n + 1) = Undrifted(events, n)
           /\ Cardinality(Undrifted(events, n)) \in Nat
<1>1. IsFiniteSet(1 .. n) /\ Cardinality(1 .. n) = n
  BY FS_Interval
<1>2. ASSUME \A m \in 1 .. n : events[m] # Drift PROVE Cardinality(Undrifted(events, n)) = n
  <2>1. \A k \in 1 .. n : \A m \in 1 .. k : m \in 1 .. n
    OBVIOUS
  <2>2. Undrifted(events, n) = 1 .. n
    BY <1>2, <2>1 DEF Undrifted
  <2>3. QED BY <1>1, <2>2
<1>3. ASSUME \E m \in 1 .. n + 1 : events[m] = Drift
      PROVE  Undrifted(events, n + 1) = Undrifted(events, n)
  <2>1. n + 1 \notin Undrifted(events, n + 1)
    BY <1>3 DEF Undrifted
  <2>2. \A k : k \in 1 .. n + 1 /\ k # n + 1 <=> k \in 1 .. n
    OBVIOUS
  <2>3. QED BY <2>1, <2>2 DEF Undrifted
<1>4. Cardinality(Undrifted(events, n)) \in Nat
  <2>1. Undrifted(events, n) \in SUBSET (1 .. n)
    BY DEF Undrifted
  <2>2. IsFiniteSet(Undrifted(events, n))
    BY <1>1, <2>1, FS_Subset
  <2>3. QED BY <2>2, FS_CardinalityType
<1>5. QED BY <1>2, <1>3, <1>4

(* and are the attempts, up to their bound. *)
Counted(s, answers, events, n) ==
    /\ s \in Sessions(answers) /\ Len(s.answers) <= s.attempts
    /\ s.drifted <=> \E m \in 1 .. n : events[m] = Drift
    /\ s.attempts = Least(ToolCalls, Cardinality(Undrifted(events, n)))

(* A session that is opened has none. *)
LEMMA OpenedCounts ==
    ASSUME NEW answers, NEW events
    PROVE  Counted(Opened, answers, events, 0)
<1>1. PICK S : S = {answers[q] : q \in Requests}
  OBVIOUS
<1>2. Opened.attempts = 0 /\ Opened.drifted = FALSE /\ Opened.answers = <<>>
  BY DEF Opened
<1>3. <<>> \in Seq(S) /\ Len(<<>>) = 0
  OBVIOUS
<1>4. Opened \in Sessions(answers)
  BY <1>1, <1>3 DEF Opened, Sessions
<1>5. 1 .. 0 = {}
  OBVIOUS
<1>6. Undrifted(events, 0) = {}
  BY <1>5 DEF Undrifted
<1>7. Least(ToolCalls, Cardinality(Undrifted(events, 0))) = 0
  <2>1. Cardinality(Undrifted(events, 0)) = 0
    BY <1>6, FS_EmptySet
  <2>2. QED BY <2>1, EvidenceAssumption DEF Least
<1>8. QED BY <1>2, <1>3, <1>4, <1>5, <1>7 DEF Counted

(* A request counts if nothing has drifted and attempts are left. *)
LEMMA RequestCounts ==
    ASSUME NEW answers, NEW events, NEW n \in Nat, NEW s, Counted(s, answers, events, n),
           events[n + 1] \in Events
    PROVE  Counted(Request(answers, s, events[n + 1]), answers, events, n + 1)
<1>1. PICK S : S = {answers[q] : q \in Requests}
  OBVIOUS
<1>2. /\ s \in Sessions(answers) /\ Len(s.answers) <= s.attempts
      /\ s.drifted <=> \E m \in 1 .. n : events[m] = Drift
      /\ s.attempts = Least(ToolCalls, Cardinality(Undrifted(events, n)))
  BY DEF Counted
<1>3. PICK r, t : r = events[n + 1] /\ t = Request(answers, s, r)
  OBVIOUS
<1>4. /\ t \in Sessions(answers)
      /\ t.drifted <=> s.drifted \/ r = Drift
      /\ t.attempts = IF r = Drift \/ s.drifted \/ s.attempts >= ToolCalls THEN s.attempts
                      ELSE s.attempts + 1
      /\ \/ t.answers = s.answers
         \/ t.attempts = s.attempts + 1 /\ Len(t.answers) = Len(s.answers) + 1
  BY <1>2, <1>3, RequestIs
<1>5. s.attempts \in Nat /\ t.attempts \in Nat /\ Len(s.answers) \in Nat
  <2>1. s.attempts \in Nat /\ t.attempts \in Nat /\ s.answers \in Seq(S)
    BY <1>1, <1>2, <1>4 DEF Sessions
  <2>2. QED BY <2>1
<1>6. Len(t.answers) <= t.attempts
  BY <1>2, <1>4, <1>5
<1>7. \A m : m \in 1 .. n + 1 <=> m \in 1 .. n \/ m = n + 1
  OBVIOUS
<1>8. t.drifted <=> \E m \in 1 .. n + 1 : events[m] = Drift
  BY <1>2, <1>3, <1>4, <1>7
<1>9. ToolCalls \in Nat
  BY EvidenceAssumption
<1>10. t.attempts = Least(ToolCalls, Cardinality(Undrifted(events, n + 1)))
  <2>1. CASE r = Drift \/ s.drifted
    <3>1. \E m \in 1 .. n + 1 : events[m] = Drift
      BY <1>2, <1>3, <1>7, <2>1
    <3>2. Undrifted(events, n + 1) = Undrifted(events, n)
      BY <3>1, UndriftedIs
    <3>3. t.attempts = s.attempts
      BY <1>4, <2>1
    <3>4. QED BY <1>2, <3>2, <3>3
  <2>2. CASE ~(r = Drift \/ s.drifted)
    <3>1. \A m \in 1 .. n + 1 : events[m] # Drift
      BY <1>2, <1>3, <1>7, <2>2
    <3>2. \A m \in 1 .. n : events[m] # Drift
      BY <1>7, <3>1
    <3>3. PICK k \in Nat : k = n + 1
      OBVIOUS
    <3>4. Cardinality(Undrifted(events, k)) = k
      BY <3>1, <3>3, UndriftedIs
    <3>5. Cardinality(Undrifted(events, n)) = n
      BY <3>2, UndriftedIs
    <3>6. s.attempts = Least(ToolCalls, n)
      BY <1>2, <3>5
    <3>7. t.attempts = IF s.attempts >= ToolCalls THEN s.attempts ELSE s.attempts + 1
      BY <1>4, <2>2
    <3>8. t.attempts = Least(ToolCalls, k)
      BY <1>9, <3>3, <3>6, <3>7 DEF Least
    <3>9. QED BY <3>3, <3>4, <3>8
  <2>3. QED BY <2>1, <2>2
<1>11. QED BY <1>3, <1>4, <1>6, <1>8, <1>10 DEF Counted

(* So after any number of requests. *)
LEMMA CourseCounts ==
    ASSUME NEW answers, NEW n \in Nat, NEW events, \A i \in 1 .. n : events[i] \in Events,
           NEW h, Course(h, answers, events, n)
    PROVE  Counted(h[n], answers, events, n)
<1> DEFINE N == {k \in 0 .. n : ~Counted(h[k], answers, events, k)}
<1>1. Counted(h[0], answers, events, 0)
  BY OpenedCounts DEF Course
<1>2. N = {}
  <2> SUFFICES ASSUME N # {} PROVE FALSE
    OBVIOUS
  <2>1. N \subseteq Nat
    OBVIOUS
  <2>2. PICK m \in N : \A v \in N : m <= v
    <3> HIDE DEF N
    <3>1. QED BY <2>1, SmallestOf
  <2>3. m \in 0 .. n /\ ~Counted(h[m], answers, events, m) /\ m # 0
    BY <1>1
  <2>4. PICK k \in Nat : k = m - 1 /\ m = k + 1 /\ k \in 0 .. n /\ ~(m <= k) /\ m \in 1 .. n
    BY <2>3
  <2>5. Counted(h[k], answers, events, k)
    BY <2>2, <2>4
  <2>6. h[m] = Request(answers, h[k], events[k + 1]) /\ events[k + 1] \in Events
    BY <2>4 DEF Course
  <2>7. Counted(Request(answers, h[k], events[k + 1]), answers, events, k + 1)
    BY <2>5, <2>6, RequestCounts
  <2>8. QED BY <2>3, <2>4, <2>6, <2>7
<1>3. n \in 0 .. n
  OBVIOUS
<1>4. QED BY <1>2, <1>3

(* The last part of the property *)
LEMMA SessionsAreBounded ==
    ASSUME NEW answers
    PROVE  SessionBounded(answers)
<1>1. PICK n \in Nat : n = ToolCalls + 1
  BY EvidenceAssumption
<1>2. SUFFICES ASSUME NEW events \in [1 .. n -> Events]
               PROVE  LET session == Session(answers, events) IN
                      /\ Len(session.answers) <= session.attempts
                      /\ session.attempts =
                            Least(ToolCalls, Cardinality({k \in DOMAIN events :
                                                \A m \in 1 .. k : events[m] # Drift}))
  BY <1>1 DEF SessionBounded
<1>3. Len(events) = n /\ DOMAIN events = 1 .. n
  <2>1. DOMAIN events = 1 .. n /\ events = [i \in 1 .. n |-> events[i]]
    OBVIOUS
  <2>2. QED BY <2>1, IsSeqOf
<1>4. PICK h : Course(h, answers, events, n) /\ Session(answers, events) = h[n]
  BY <1>3, SessionIs
<1>5. \A i \in 1 .. n : events[i] \in Events
  OBVIOUS
<1>6. PICK s : s = Session(answers, events)
  OBVIOUS
<1>7. Counted(s, answers, events, n)
  BY <1>4, <1>5, <1>6, CourseCounts
<1>8. {k \in DOMAIN events : \A m \in 1 .. k : events[m] # Drift} = Undrifted(events, n)
  BY <1>3 DEF Undrifted
<1>9. QED BY <1>6, <1>7, <1>8 DEF Counted

-----------------------------------------------------------------------------

(* Every finding's evidence is sound. *)
LEMMA AllSound == Sound = Findings
<1>1. ASSUME NEW f \in Findings PROVE f \in Sound
  <2>1. f \in Subjects
    BY SubjectsAssumption
  <2>2. Broadens(Prompts(f)) /\ WitnessStands(f, Prompts(f))
    BY <2>1, RoundsBroaden, WitnessesStand
  <2>3. AnswersWhole(Answers(f)) /\ SessionBounded(Answers(f))
    BY <2>1, ToolsAnswer, SessionsAreBounded
  <2>4. QED BY <2>2, <2>3 DEF Sound
<1>2. QED BY <1>1 DEF Sound

(* Whatever finding is under challenge: each round shows what the round before showed,
   in its order, and the third shows more unless the prompt is full; a witness that
   upheld a confirmation upholds it in the next round; the tools answer all of what
   was asked for or say that they cut it off; and a session has as many attempts as
   requests before the first drift, up to its bound. *)
THEOREM EvidenceStaysSound == Spec => []EvidenceIsSound
<1>1. TypeOK => EvidenceIsSound
  BY AllSound DEF TypeOK, EvidenceIsSound
<1>2. QED BY <1>1, TypeCorrect, PTL
=============================================================================
