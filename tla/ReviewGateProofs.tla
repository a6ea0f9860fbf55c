--------------------------- MODULE ReviewGateProofs ---------------------------
(***************************************************************************)
(* What TLAPS proves of ReviewGate and Normalization, for every set of     *)
(* findings, matching relation, severities and sources, and any number of  *)
(* decisions, aborted commands and normalizations.                         *)
(***************************************************************************)
EXTENDS ReviewGate, FiniteSetTheorems, TLAPS

-----------------------------------------------------------------------------
(* max() over finitely many: one of them is at least as much as any.  The
   well-founded order of finite subsets stands in for an induction. *)
LEMMA GreatestOf ==
    ASSUME NEW S, IsFiniteSet(S), S # {}, NEW rank, \A x \in S : rank[x] \in Int
    PROVE  \E x \in S : \A y \in S : rank[y] <= rank[x]
<1> DEFINE HasGreatest(T) == \E x \in T : \A y \in T : rank[y] <= rank[x]
           Headless == {T \in SUBSET S : T # {} /\ ~HasGreatest(T)}
<1>1. SUFFICES ASSUME Headless # {} PROVE FALSE
  OBVIOUS
<1>2. PICK T \in Headless : \A U \in Headless : <<U, T>> \notin StrictSubsetOrdering(S)
  <2>1. Headless \subseteq FiniteSubsetsOf(S)
    BY FS_FiniteSubsetsOfFinite
  <2>2. IsWellFoundedOn(StrictSubsetOrdering(S), FiniteSubsetsOf(S))
    BY FS_StrictSubsetOrderingWellFounded
  <2> HIDE DEF Headless
  <2>3. QED BY <1>1, <2>1, <2>2, WFMin
<1>3. PICK x \in T : TRUE
  OBVIOUS
<1>4. \A y \in T : rank[y] \in Int
  OBVIOUS
<1>5. CASE T = {x}
  <2>1. \A y \in T : rank[y] <= rank[x]
    BY <1>4, <1>5
  <2>2. QED BY <2>1
<1>6. CASE T # {x}
  <2>1. <<T \ {x}, T>> \in StrictSubsetOrdering(S)
    BY <1>3 DEF StrictSubsetOrdering
  <2>2. HasGreatest(T \ {x})
    <3>1. T \ {x} \notin Headless
      BY <1>2, <2>1
    <3>2. QED BY <1>6, <3>1
  <2>3. PICK y \in T \ {x} : \A z \in T \ {x} : rank[z] <= rank[y]
    BY <2>2
  <2>4. HasGreatest(T)
    <3>1. \A z \in T : rank[z] <= rank[y] \/ (rank[x] > rank[y] /\ rank[z] <= rank[x])
      BY <1>4, <2>3
    <3>2. (\A z \in T : rank[z] <= rank[y]) \/ (\A z \in T : rank[z] <= rank[x])
      BY <1>4, <2>3
    <3>3. QED BY <3>2
  <2>5. QED BY <2>4
<1>7. QED BY <1>5, <1>6

(* Match groups.  find_matches is union-find over same_issue; what the proofs
   need of it is that groups are the classes of an equivalence. *)
LEMMA GroupSubset ==
    ASSUME NEW S, NEW f
    PROVE  MatchGroup(S, f) \subseteq S
BY DEF MatchGroup

(* A group holds its seed and is closed under matching. *)
LEMMA GroupClosed ==
    ASSUME NEW S, NEW f \in S
    PROVE  f \in MatchGroup(S, f) /\ ClosedIn(S, MatchGroup(S, f))
BY DEF MatchGroup, ClosedIn

(* The group is contained in every closed set around its seed. *)
LEMMA GroupLeast ==
    ASSUME NEW S, NEW f, NEW C \in SUBSET S, f \in C, ClosedIn(S, C)
    PROVE  MatchGroup(S, f) \subseteq C
BY DEF MatchGroup

(* same_issue is symmetric, so a member's group leads back to the seed. *)
LEMMA GroupSymmetric ==
    ASSUME NEW S \in SUBSET Findings, NEW f \in S, NEW g \in MatchGroup(S, f)
    PROVE  f \in MatchGroup(S, g)
<1> DEFINE C == MatchGroup(S, f) \ MatchGroup(S, g)
<1>1. g \in S /\ MatchGroup(S, f) \subseteq S
  BY GroupSubset
<1>2. SUFFICES ASSUME f \notin MatchGroup(S, g) PROVE FALSE
  OBVIOUS
<1>3. f \in C
  BY <1>2, GroupClosed
<1>4. ClosedIn(S, C)
  <2>1. SUFFICES ASSUME NEW a \in C, NEW b \in S, <<a, b>> \in Matches
                 PROVE  b \in C
    BY DEF ClosedIn
  <2>2. b \in MatchGroup(S, f)
    BY <2>1, GroupClosed DEF ClosedIn
  <2>3. ASSUME b \in MatchGroup(S, g) PROVE FALSE
    <3>1. a \in S /\ <<b, a>> \in Matches
      BY <1>1, <2>1, MatchesAssumption
    <3>2. a \in MatchGroup(S, g)
      BY <1>1, <2>3, <3>1, GroupClosed DEF ClosedIn
    <3>3. QED BY <3>2
  <2>4. QED BY <2>2, <2>3
<1>5. MatchGroup(S, f) \subseteq C
  <2>1. C \in SUBSET S
    BY <1>1
  <2>2. QED BY <1>3, <1>4, <2>1, GroupLeast
<1>6. g \in MatchGroup(S, g)
  BY <1>1, GroupClosed
<1>7. QED BY <1>5, <1>6

(* A member's group is part of the seed's group. *)
LEMMA GroupTransitive ==
    ASSUME NEW S \in SUBSET Findings, NEW f \in S, NEW g \in MatchGroup(S, f)
    PROVE  MatchGroup(S, g) \subseteq MatchGroup(S, f)
<1>1. MatchGroup(S, f) \in SUBSET S
  BY GroupSubset
<1>2. QED BY <1>1, GroupClosed, GroupLeast

(* Grouping part of the findings never joins what grouping all would not:
   challenge() groups the queue only. *)
LEMMA GroupMonotone ==
    ASSUME NEW S \in SUBSET Findings, NEW f \in S
    PROVE  MatchGroup(S, f) \subseteq MatchGroup(Findings, f)
<1> DEFINE C == MatchGroup(Findings, f) \cap S
<1>1. f \in C
  BY GroupClosed
<1>2. ClosedIn(S, C)
  BY GroupClosed DEF ClosedIn
<1>3. C \in SUBSET S
  OBVIOUS
<1>4. QED BY <1>1, <1>2, <1>3, GroupLeast

-----------------------------------------------------------------------------
(* The one that adjudicate debates, and so the cap, is between severities that
   the members carry. *)
LEMMA CapIsCarried ==
    ASSUME NEW S \in SUBSET Findings, S # {}, severity \in [Findings -> Severities],
           NEW proposed \in Severities
    PROVE  /\ Capped(proposed, S) \in Severities
           /\ \E f \in S : Capped(proposed, S) <= severity[f]
<1>1. \A f \in S : severity[f] \in Severities /\ severity[f] \in Int
  BY SourceAssumption
<1>2. proposed \in Int
  BY SourceAssumption
<1>3. CASE \A f \in S : severity[f] < proposed
  <2>1. IsFiniteSet(S)
    BY FindingsAssumption, FS_Subset
  <2>2. PICK f \in S : \A g \in S : severity[g] <= severity[f]
    BY <1>1, <2>1, GreatestOf
  <2>3. Capped(proposed, S) \in {severity[g] : g \in S}
    <3>1. severity[f] \in {severity[g] : g \in S}
      OBVIOUS
    <3>2. QED BY <1>3, <2>2, <3>1 DEF Capped
  <2>4. QED BY <1>1, <2>3
<1>4. CASE ~ \A f \in S : severity[f] < proposed
  <2>1. Capped(proposed, S) = proposed
    BY <1>4 DEF Capped
  <2>2. PICK f \in S : ~(severity[f] < proposed)
    BY <1>4
  <2>3. proposed <= severity[f]
    BY <1>1, <1>2, <2>2
  <2>4. QED BY <2>1, <2>3
<1>5. QED BY <1>3, <1>4

(* Evidence that is independent within a group is so within a larger one. *)
LEMMA IndependenceGrows ==
    ASSUME NEW S \in SUBSET Findings, NEW T \in SUBSET Findings, S \subseteq T,
           Independent(S)
    PROVE  Independent(T)
<1> DEFINE Of(X) == {Source[f] : f \in X}
           Tools(X) == Of(X) \ Lenses
<1>1. Of(S) \subseteq Of(T) /\ Tools(S) \subseteq Tools(T)
  OBVIOUS
<1>2. CASE Tools(S) # {} /\ Of(S) \cap Lenses # {}
  BY <1>1, <1>2 DEF Independent
<1>3. CASE Cardinality(Tools(S)) >= 2
  <2>1. IsFiniteSet(T)
    BY FindingsAssumption, FS_Subset
  <2>2. IsFiniteSet(Of(T))
    <3>1. [f \in T |-> Source[f]] \in Surjection(T, Of(T))
      BY DEF Surjection
    <3>2. QED BY <2>1, <3>1, FS_Surjection
  <2>3. IsFiniteSet(Tools(T))
    <3> HIDE DEF Of
    <3> QED BY <2>2, FS_Difference
  <2>4. IsFiniteSet(Tools(S))
    <3> HIDE DEF Tools
    <3> QED BY <1>1, <2>3, FS_Subset
  <2>5. /\ Cardinality(Tools(S)) <= Cardinality(Tools(T))
        /\ Cardinality(Tools(S)) \in Nat /\ Cardinality(Tools(T)) \in Nat
    <3> HIDE DEF Tools
    <3> QED BY <1>1, <2>3, <2>4, FS_Subset, FS_CardinalityType
  <2>6. Cardinality(Tools(T)) >= 2
    <3> HIDE DEF Tools
    <3> QED BY <1>3, <2>5
  <2>7. QED BY <2>6 DEF Independent
<1>4. QED BY <1>2, <1>3 DEF Independent

LEMMA HeadsSubset ==
    ASSUME NEW S
    PROVE  Heads(S) \subseteq S
BY DEF Heads

-----------------------------------------------------------------------------
LEMMA InitType == Init => TypeOK
BY SourceAssumption
   DEF Init, NormalizeInit, TypeOK, Statuses, NoVerdict, Nothing, Regions, StageNames,
       DebateOutcomes

LEMMA HeldType == ASSUME NEW f PROVE Held(f) \in {"none"} \cup StageNames
BY DEF Held, UnresolvedStage, StageNames

LEMMA NextType == TypeOK /\ [Next]_vars => TypeOK'
<1> SUFFICES ASSUME TypeOK, [Next]_vars PROVE TypeOK'
  OBVIOUS
<1> USE DEF TypeOK, normVars, gateVars
<1>1. ASSUME NEW f \in Findings, NEW outcome \in Statuses \ {"deferred"}, Settle(f, outcome)
      PROVE  TypeOK'
  BY <1>1 DEF Settle, Mark
<1>2. ASSUME NEW f \in Findings, Defer(f)
      PROVE  TypeOK'
  BY <1>2 DEF Defer, Mark, Statuses, NoVerdict
<1>3. CASE StartNormalize /\ UNCHANGED gateVars
  <2>1. Heads(Live) \subseteq Findings
    BY HeadsSubset DEF Live
  <2>2. QED BY <1>3, <2>1 DEF StartNormalize
<1>4. ASSUME NEW mode \in {"raise", "finalize"}, StartCheckpoint(mode)
      PROVE  TypeOK'
  <2>1. raising' \in [Findings -> {"none"} \cup StageNames]
    BY <1>4, HeldType DEF StartCheckpoint, StageNames
  <2>2. QED BY <1>4, <2>1 DEF StartCheckpoint
<1>5. ASSUME NEW f \in Findings, Adjudicate(f), UNCHANGED gateVars
      PROVE  TypeOK'
  <2>1. Region[f] \in Regions
    BY DEF Regions
  <2>2. debate' \in [Regions -> DebateOutcomes]
    BY <1>5, <2>1 DEF Adjudicate, Agreed, Consensus, NoConsensus, RecordDebate,
                      DebateOutcomes
  <2>3. draft' \subseteq [finding : Findings, status : Statuses, severity : Severities]
    <3>1. MatchGroup(Live, f) \in SUBSET Findings
      BY GroupSubset DEF Live
    <3>2. CASE Agreed(f) \/ NoConsensus(f)
      BY <3>2 DEF Agreed, NoConsensus, Resolve, Statuses, NoVerdict
    <3>3. CASE Consensus(f, MatchGroup(Live, f)) /\ MatchGroup(Live, f) # {}
      <4>1. PICK proposed \in Severities :
              Resolve(f, status[f], Capped(proposed, MatchGroup(Live, f)))
        BY <3>3 DEF Consensus
      <4>2. Capped(proposed, MatchGroup(Live, f)) \in Severities
        BY <3>1, <3>3, CapIsCarried
      <4>3. QED BY <4>1, <4>2 DEF Resolve
    <3>4. MatchGroup(Live, f) = {} => Agreed(f)
      BY <1>5 DEF Adjudicate
    <3>5. QED BY <1>5, <3>2, <3>3, <3>4 DEF Adjudicate
  <2>4. QED BY <1>5, <2>2, <2>3 DEF Adjudicate
<1>6. CASE Persist /\ UNCHANGED gateVars
  BY <1>6 DEF Persist
<1>7. CASE EndNormalize /\ UNCHANGED gateVars
  BY <1>7 DEF EndNormalize
<1>8. ASSUME NEW f \in Findings, Upsert(f)
      PROVE  TypeOK'
  BY <1>8 DEF Upsert
<1>9. CASE EndRaise \/ CheckOpen \/ Quantify
  BY <1>9 DEF EndRaise, CheckOpen, Quantify
<1>10. ASSUME NEW f \in Findings, NEW disposition \in Dispositions, Decide(f, disposition)
       PROVE  TypeOK'
  <2>1. Append(decisions[f], disposition) \in Seq(Dispositions)
    OBVIOUS
  <2>2. QED BY <1>10, <2>1 DEF Decide
<1>11. CASE Abort
  BY <1>11 DEF Abort, Nothing
<1>12. CASE UNCHANGED vars
  BY <1>12 DEF vars
<1>13. QED
  BY <1>1, <1>2, <1>3, <1>4, <1>5, <1>6, <1>7, <1>8, <1>9, <1>10, <1>11, <1>12
     DEF Next, Falsify, Step, NormalizeStep

(* The rows, the requests and the running command keep their types. *)
THEOREM GateTyped == Spec => []TypeOK
BY InitType, NextType, PTL DEF Spec

-----------------------------------------------------------------------------
(* What justifies a severity is never taken away. *)

(* A finding with iteration rows is out of every later queue. *)
LEMMA ConfirmedStays ==
    ASSUME TypeOK, [Next]_vars, NEW g \in Findings, trace[g] = "confirmed"
    PROVE  trace'[g] = "confirmed"
<1>1. ASSUME NEW f \in Findings, NEW outcome \in Statuses, Settle(f, outcome)
      PROVE  trace'[g] = "confirmed"
  <2>1. f \in Queue
    BY <1>1, HeadsSubset DEF Settle, Mark
  <2>2. f # g
    BY <2>1 DEF Queue
  <2>3. QED BY <1>1, <2>2 DEF Settle, TypeOK
<1>2. CASE UNCHANGED trace
  BY <1>2
<1>3. QED
  BY <1>1, <1>2
     DEF Next, vars, normVars, gateVars, Falsify, Defer, StartCheckpoint, Step, Upsert,
         EndRaise, CheckOpen, Quantify, Decide, Abort

LEMMA JustifiedStays ==
    ASSUME TypeOK, [Next]_vars, NEW f \in Findings, NEW rank, JustifiedAt(f, rank)
    PROVE  /\ \E g \in MatchGroup(Findings, f) : rank <= Asserted[g]
           /\ rank > Asserted[f] =>
                 \/ Independent(MatchGroup(Findings, f))
                 \/ \E g \in MatchGroup(Findings, f) : trace'[g] = "confirmed"
<1>1. \A g \in MatchGroup(Findings, f) : trace[g] = "confirmed" => trace'[g] = "confirmed"
  BY GroupSubset, ConfirmedStays
<1>2. QED BY <1>1 DEF JustifiedAt

LEMMA ConfirmedOfStays ==
    ASSUME TypeOK, [Next]_vars, NEW f \in Findings, ConfirmedOf(f)
    PROVE  \E g \in MatchGroup(Findings, f) : trace'[g] = "confirmed"
BY GroupSubset, ConfirmedStays DEF ConfirmedOf

(* A step that writes neither a severity nor a verdict, nor drafts one. *)
LEMMA SeverityKept ==
    ASSUME TypeOK, SeverityInv, [Next]_vars,
           UNCHANGED <<status, severity>>, draft' \subseteq draft,
           pc' = "normalize" => pc = "normalize" /\ heads' \subseteq heads
    PROVE  SeverityInv'
<1>1. \A r \in draft : r.finding \in Findings
  BY DEF TypeOK
<1>2. SeverityJustified'
  BY JustifiedStays DEF SeverityInv, SeverityJustified, JustifiedAt
<1>3. \A f \in Findings : status'[f] = "confirmed" => ConfirmedOf(f)'
  BY ConfirmedOfStays DEF SeverityInv, ConfirmedOf
<1>4. \A r \in draft' : JustifiedAt(r.finding, r.severity)'
  BY <1>1, JustifiedStays DEF SeverityInv, JustifiedAt
<1>5. \A r \in draft' : r.status = "confirmed" => ConfirmedOf(r.finding)'
  BY <1>1, ConfirmedOfStays DEF SeverityInv, ConfirmedOf
<1>6. /\ pc' = "normalize" => heads' \subseteq Live'
      /\ \A r \in draft' : r.status # "killed"
  BY DEF SeverityInv, Live
<1>7. QED BY <1>2, <1>3, <1>4, <1>5, <1>6 DEF SeverityInv

(* The verdict of falsification reaches the findings of one queue's group, all
   of them of the representative's issue. *)
LEMMA SeverityMark ==
    ASSUME TypeOK, SeverityInv, NEW f \in Findings,
           \/ \E outcome \in Statuses \ {"deferred"} : Settle(f, outcome)
           \/ Defer(f)
    PROVE  SeverityInv'
<1>1. [Next]_vars
  BY DEF Next, Falsify
<1>2. PICK outcome \in Statuses :
        /\ Mark(f, outcome)
        /\ outcome = "confirmed" => trace' = [trace EXCEPT ![f] = "confirmed"]
  BY DEF Settle, Defer, Statuses, NoVerdict
<1>3. /\ f \in Queue /\ Queue \in SUBSET Findings
      /\ UNCHANGED <<severity, draft>>
      /\ \A g \in Findings :
            status'[g] = IF g \in MatchGroup(Queue, f) THEN outcome ELSE status[g]
  BY <1>2, HeadsSubset DEF Mark, Queue
<1>4. SeverityJustified'
  BY <1>1, <1>3, JustifiedStays DEF SeverityInv, SeverityJustified, JustifiedAt
<1>5. ASSUME NEW g \in Findings, status'[g] = "confirmed"
      PROVE  ConfirmedOf(g)'
  <2>1. CASE g \in MatchGroup(Queue, f)
    <3>1. g \in MatchGroup(Findings, f)
      BY <1>3, <2>1, GroupMonotone
    <3>2. f \in MatchGroup(Findings, g)
      BY <3>1, GroupSymmetric
    <3>3. trace'[f] = "confirmed"
      BY <1>2, <1>3, <1>5, <2>1 DEF TypeOK
    <3>4. QED BY <3>2, <3>3 DEF ConfirmedOf
  <2>2. CASE g \notin MatchGroup(Queue, f)
    <3>1. ConfirmedOf(g)
      BY <1>3, <1>5, <2>2 DEF SeverityInv
    <3>2. QED BY <1>1, <3>1, ConfirmedOfStays DEF ConfirmedOf
  <2>3. QED BY <2>1, <2>2
<1>6. \A r \in draft : r.finding \in Findings
  BY DEF TypeOK
<1>7. \A r \in draft' : JustifiedAt(r.finding, r.severity)'
  BY <1>1, <1>3, <1>6, JustifiedStays DEF SeverityInv, JustifiedAt
<1>8. \A r \in draft' : r.status = "confirmed" => ConfirmedOf(r.finding)'
  BY <1>1, <1>3, <1>6, ConfirmedOfStays DEF SeverityInv, ConfirmedOf
<1>9. pc' = "idle"
  BY <1>2 DEF Mark
<1>10. \A r \in draft' : r.status # "killed"
  BY <1>3 DEF SeverityInv
<1>11. QED BY <1>4, <1>5, <1>7, <1>8, <1>9, <1>10 DEF SeverityInv

(* What a debate settles on under a licence is justified for its speaker. *)
LEMMA ConsensusJustified ==
    ASSUME TypeOK, SeverityInv, NEW f \in Findings, NEW proposed \in Severities,
           f \in MatchGroup(Live, f), Licensed(MatchGroup(Live, f))
    PROVE  JustifiedAt(f, Capped(proposed, MatchGroup(Live, f)))
<1> DEFINE live == MatchGroup(Live, f)
           all == MatchGroup(Findings, f)
           rank == Capped(proposed, live)
<1>1. Live \in SUBSET Findings /\ f \in Live
  BY GroupSubset DEF Live
<1>2. live \in SUBSET Findings /\ all \in SUBSET Findings /\ live \subseteq all
  BY <1>1, GroupSubset, GroupMonotone
<1>3. PICK h \in live : rank <= severity[h]
  BY <1>2, CapIsCarried DEF TypeOK
<1>4. rank \in Int
  <2>1. rank \in Severities
    BY <1>2, <1>3, CapIsCarried DEF TypeOK
  <2> HIDE DEF rank
  <2>2. QED BY <2>1, SourceAssumption
<1>5. \E g \in all : rank <= Asserted[g]
  <2>1. PICK g \in MatchGroup(Findings, h) : severity[h] <= Asserted[g]
    BY <1>2, <1>3 DEF SeverityInv, SeverityJustified, JustifiedAt
  <2>2. g \in all
    BY <1>2, <1>3, <2>1, GroupTransitive
  <2>3. severity[h] \in Int /\ Asserted[g] \in Int
    <3>1. h \in Findings /\ g \in Findings
      BY <1>2, <2>2
    <3>2. severity[h] \in Severities /\ Asserted[g] \in Severities
      BY <3>1, SourceAssumption DEF TypeOK
    <3>3. Severities \subseteq Int
      BY SourceAssumption
    <3>4. QED BY <3>2, <3>3
  <2>4. rank <= Asserted[g]
    <3> HIDE DEF rank
    <3> QED BY <1>3, <1>4, <2>1, <2>3
  <2>5. QED BY <2>2, <2>4
<1>6. Independent(all) \/ \E g \in all : trace[g] = "confirmed"
  <2>1. CASE Independent(live)
    BY <1>2, <2>1, IndependenceGrows
  <2>2. CASE \E g \in live : status[g] = "confirmed"
    <3>1. PICK g \in live : status[g] = "confirmed"
      BY <2>2
    <3>2. PICK k \in MatchGroup(Findings, g) : trace[k] = "confirmed"
      BY <1>2, <3>1 DEF SeverityInv, ConfirmedOf
    <3>3. k \in all
      BY <1>2, <3>1, <3>2, GroupTransitive
    <3>4. QED BY <3>2, <3>3
  <2>3. QED BY <2>1, <2>2 DEF Licensed
<1>7. QED BY <1>5, <1>6 DEF JustifiedAt

LEMMA SeverityAdjudicate ==
    ASSUME TypeOK, SeverityInv, NEW f \in Findings, Adjudicate(f), UNCHANGED gateVars
    PROVE  SeverityInv'
<1> DEFINE group == MatchGroup(Live, f)
<1>1. UNCHANGED <<status, severity, trace>>
  BY DEF Adjudicate, gateVars
<1>2. f \in Live /\ heads' \subseteq Live' /\ SeverityJustified'
  BY <1>1 DEF Adjudicate, Live, SeverityInv, SeverityJustified, JustifiedAt
<1>3. \A g \in Findings : status'[g] = "confirmed" => ConfirmedOf(g)'
  BY <1>1 DEF SeverityInv, ConfirmedOf
<1>4. ASSUME NEW newStatus, NEW rank, Resolve(f, newStatus, rank), JustifiedAt(f, rank),
             newStatus \in {status[f], "unresolved"}
      PROVE  SeverityInv'
  <2>1. \A r \in draft' : r.finding = f /\ r.status = newStatus /\ r.severity = rank
    BY <1>4 DEF Resolve
  <2>2. \A r \in draft' : JustifiedAt(r.finding, r.severity)'
    BY <1>1, <1>4, <2>1 DEF JustifiedAt
  <2>3. \A r \in draft' : r.status = "confirmed" => ConfirmedOf(r.finding)'
    BY <1>1, <1>4, <2>1 DEF SeverityInv, ConfirmedOf
  <2>4. \A r \in draft' : r.status # "killed"
    BY <1>2, <1>4, <2>1 DEF Live
  <2>5. QED BY <1>2, <1>3, <2>2, <2>3, <2>4 DEF SeverityInv
<1>5. CASE Agreed(f) \/ NoConsensus(f)
  BY <1>4, <1>5 DEF Agreed, NoConsensus, SeverityInv, SeverityJustified
<1>6. CASE Consensus(f, group) /\ \E a, b \in group : severity[a] # severity[b]
  <2>1. PICK proposed \in Severities : Resolve(f, status[f], Capped(proposed, group))
    BY <1>6 DEF Consensus
  <2>2. f \in group
    BY <1>2, GroupClosed
  <2>3. JustifiedAt(f, Capped(proposed, group))
    BY <1>6, <2>2, ConsensusJustified DEF Consensus
  <2>4. QED BY <1>4, <2>1, <2>3
<1>7. QED BY <1>5, <1>6 DEF Adjudicate

LEMMA SeverityPersist ==
    ASSUME TypeOK, SeverityInv, Persist, UNCHANGED gateVars
    PROVE  SeverityInv'
<1>1. PICK r \in draft :
        /\ status' = [status EXCEPT ![r.finding] = r.status]
        /\ severity' = [severity EXCEPT ![r.finding] = r.severity]
  BY DEF Persist
<1>2. /\ draft' = {} /\ heads' = heads /\ trace' = trace /\ pc = "normalize"
      /\ r.finding \in Findings
  BY DEF Persist, gateVars, TypeOK
<1>3. SeverityJustified'
  <2> SUFFICES ASSUME NEW f \in Findings PROVE JustifiedAt(f, severity[f])'
    BY DEF SeverityJustified
  <2>1. severity'[f] = IF f = r.finding THEN r.severity ELSE severity[f]
    BY <1>1 DEF TypeOK
  <2>2. QED BY <1>2, <2>1 DEF SeverityInv, SeverityJustified, JustifiedAt
<1>4. \A f \in Findings : status'[f] = IF f = r.finding THEN r.status ELSE status[f]
  BY <1>1 DEF TypeOK
<1>5. \A f \in Findings : status'[f] = "confirmed" => ConfirmedOf(f)'
  BY <1>2, <1>4 DEF SeverityInv, ConfirmedOf
<1>6. heads' \subseteq Live'
  BY <1>2, <1>4 DEF SeverityInv, Live
<1>7. QED BY <1>2, <1>3, <1>5, <1>6 DEF SeverityInv

LEMMA SeverityNext == TypeOK /\ SeverityInv /\ [Next]_vars => SeverityInv'
<1> SUFFICES ASSUME TypeOK, SeverityInv, [Next]_vars PROVE SeverityInv'
  OBVIOUS
<1>1. CASE Falsify \/ \E f \in Findings : Defer(f)
  BY <1>1, SeverityMark DEF Falsify
<1>2. CASE StartNormalize /\ UNCHANGED gateVars
  <2>1. /\ UNCHANGED <<status, severity, draft, trace>>
        /\ heads' \subseteq Live'
    BY <1>2, HeadsSubset DEF StartNormalize, gateVars, Live
  <2>2. QED
    BY <2>1 DEF SeverityInv, SeverityJustified, JustifiedAt, ConfirmedOf
<1>3. ASSUME NEW f \in Findings, Adjudicate(f), UNCHANGED gateVars
      PROVE  SeverityInv'
  BY <1>3, SeverityAdjudicate
<1>4. CASE Persist /\ UNCHANGED gateVars
  BY <1>4, SeverityPersist
<1>5. CASE \/ EndNormalize /\ UNCHANGED gateVars
           \/ StartCheckpoint("raise") \/ StartCheckpoint("finalize")
           \/ \E f \in Findings : Upsert(f)
           \/ EndRaise \/ CheckOpen \/ Quantify \/ Abort
           \/ \E f \in Findings, disposition \in Dispositions : Decide(f, disposition)
           \/ UNCHANGED vars
  <2>1. /\ UNCHANGED <<status, severity>> /\ draft' \subseteq draft
        /\ pc' = "normalize" => pc = "normalize" /\ heads' \subseteq heads
    BY <1>5 DEF EndNormalize, StartCheckpoint, Upsert, EndRaise, CheckOpen, Quantify,
                Abort, Decide, vars, normVars
  <2>2. QED BY <2>1, SeverityKept
<1>6. QED
  BY <1>1, <1>2, <1>3, <1>4, <1>5 DEF Next, Step, NormalizeStep

LEMMA SeverityInductive == Spec => [](TypeOK /\ SeverityInv)
<1>1. Init => TypeOK /\ SeverityInv
  <2> SUFFICES ASSUME Init PROVE SeverityInv
    BY InitType
  <2>1. ASSUME NEW f \in Findings PROVE JustifiedAt(f, severity[f])
    <3>1. f \in MatchGroup(Findings, f) /\ Asserted[f] \in Nat
      BY GroupClosed, SourceAssumption
    <3>2. severity[f] = Asserted[f]
      BY DEF Init, NormalizeInit
    <3>3. Asserted[f] <= Asserted[f] /\ ~(Asserted[f] > Asserted[f])
      BY <3>1
    <3>4. QED BY <3>1, <3>2, <3>3 DEF JustifiedAt
  <2>2. QED BY <2>1 DEF Init, NormalizeInit, SeverityInv, SeverityJustified
<1>2. TypeOK /\ SeverityInv /\ [Next]_vars => (TypeOK /\ SeverityInv)'
  BY NextType, SeverityNext
<1>3. QED BY <1>1, <1>2, PTL DEF Spec

(* Normalization never rates a finding above every source of its issue, nor
   above its own source without a licence, in any number of runs over groups
   that verdicts change in between. *)
THEOREM SeveritiesAreJustified == Spec => []SeverityJustified
<1>1. SeverityInv => SeverityJustified
  BY DEF SeverityInv
<1>2. QED BY <1>1, SeverityInductive, PTL

-----------------------------------------------------------------------------
(* The gate.  Verdicts do not change while finalize runs, decisions may. *)

LEMMA GateCheckpoint ==
    ASSUME TypeOK, NEW mode \in {"raise", "finalize"}, StartCheckpoint(mode)
    PROVE  GateInv'
<1>1. CASE mode = "raise"
  BY <1>1 DEF StartCheckpoint, GateInv
<1>2. CASE mode = "finalize"
  <2>1. /\ raising' = [f \in Findings |-> Held(f)]
        /\ status' = status /\ pc' = "finalize"
    BY <1>2 DEF StartCheckpoint, normVars
  <2>2. \A f \in Findings : status[f] = "unresolved" \/ f \in Uncertain => Held(f) # "none"
    BY DEF Held, UnresolvedStage
  <2>3. QED BY <2>1, <2>2 DEF GateInv
<1>3. QED BY <1>1, <1>2

LEMMA GateNext == TypeOK /\ GateInv /\ [Next]_vars => GateInv'
<1> SUFFICES ASSUME TypeOK, GateInv, [Next]_vars PROVE GateInv'
  OBVIOUS
<1>1. CASE StartCheckpoint("raise") \/ StartCheckpoint("finalize")
  BY <1>1, GateCheckpoint
<1>2. ASSUME NEW f \in Findings, Upsert(f)
      PROVE  GateInv'
  <2>1. /\ \A g \in Findings : request[g] # "none" => request'[g] # "none"
        /\ \A g \in Findings : raising[g] # "none" => raising'[g] # "none" \/ request'[g] # "none"
    BY <1>2 DEF Upsert, TypeOK
  <2>2. UNCHANGED <<status, pc>> /\ pc # "quantify"
    BY <1>2 DEF Upsert, normVars
  <2>3. QED BY <2>1, <2>2 DEF GateInv
<1>3. CASE CheckOpen \/ \E f \in Findings, disposition \in Dispositions : Decide(f, disposition)
  <2>1. UNCHANGED <<status, request, raising>>
    BY <1>3 DEF CheckOpen, Decide, normVars, gateVars
  <2>2. pc' \in {"finalize", "quantify"} =>
            pc \in {"finalize", "quantify"} /\ (pc' = "quantify" => raising = Nothing)
    BY <1>3 DEF CheckOpen, Decide, GateInv
  <2>3. QED BY <2>1, <2>2 DEF GateInv
<1>4. CASE UNCHANGED vars
  BY <1>4 DEF vars, normVars, gateVars, GateInv
<1>5. CASE pc' \notin {"finalize", "quantify"}
  BY <1>5 DEF GateInv
<1>6. QED
  BY <1>1, <1>2, <1>3, <1>4, <1>5
     DEF Next, Step, Falsify, Settle, Defer, Mark, StartNormalize, NormalizeStep,
         Adjudicate, Persist, EndNormalize, EndRaise, Quantify, Abort

(* Nothing that a human must look at is quantified before the human's last
   word released it, even if reviewers correct themselves between the check of
   finalize and what it reads. *)
THEOREM QuantifiedAreReleased == Spec => []QuantifiedWasReleased
<1>1. Init => GateInv
  BY DEF Init, NormalizeInit, GateInv
<1>2. TypeOK /\ GateInv => QuantifiedWasReleased
  <2> SUFFICES ASSUME TypeOK, GateInv, pc = "quantify", NEW f \in Countable,
                      status[f] = "unresolved" \/ f \in Uncertain
               PROVE  decisions[f] # <<>> /\ Effective(f) = "confirm"
    BY DEF QuantifiedWasReleased
  <2>1. f \in Analyzable
    BY HeadsSubset DEF Countable
  <2>2. request[f] # "none"
    BY <2>1 DEF GateInv, Nothing, Analyzable
  <2>3. QED BY <2>1, <2>2 DEF Analyzable, Released
<1>3. QED BY <1>1, <1>2, GateNext, GateTyped, PTL DEF Spec
=============================================================================
