---------------------------- MODULE PipelineProofs ----------------------------
(***************************************************************************)
(* What TLAPS proves of PipelineRuns, for every set of findings, processes *)
(* and commands, and any number of runs, failures and process deaths.      *)
(***************************************************************************)
EXTENDS PipelineRuns, FiniteSetTheorems, TLAPS

(* ORDER BY ... DESC LIMIT 1: a finite set of numbers has a greatest one.  The
   well-founded order of finite subsets stands in for an induction. *)
LEMMA GreatestExists ==
    ASSUME NEW S \in SUBSET Int, IsFiniteSet(S), S # {}
    PROVE  \E x \in S : \A y \in S : y <= x
<1> DEFINE HasGreatest(T) == \E x \in T : \A y \in T : y <= x
           Rest == {T \in SUBSET S : T # {} /\ ~HasGreatest(T)}
<1>1. SUFFICES ASSUME Rest # {} PROVE FALSE
  OBVIOUS
<1>2. PICK T \in Rest : \A U \in Rest : <<U, T>> \notin StrictSubsetOrdering(S)
  <2>1. Rest \subseteq FiniteSubsetsOf(S)
    BY FS_FiniteSubsetsOfFinite
  <2>2. IsWellFoundedOn(StrictSubsetOrdering(S), FiniteSubsetsOf(S))
    BY FS_StrictSubsetOrderingWellFounded
  <2> HIDE DEF Rest
  <2>3. QED BY <1>1, <2>1, <2>2, WFMin
<1>3. PICK x \in T : TRUE
  OBVIOUS
<1>4. T \subseteq Int
  OBVIOUS
<1>5. HasGreatest(T \ {x})
  <2>1. T \ {x} # {}
    BY <1>4
  <2>2. <<T \ {x}, T>> \in StrictSubsetOrdering(S)
    BY <1>3 DEF StrictSubsetOrdering
  <2>3. T \ {x} \notin Rest
    BY <1>2, <2>2
  <2>4. QED BY <2>1, <2>3
<1>6. PICK y \in T \ {x} : \A z \in T \ {x} : z <= y
  BY <1>5
<1>7. HasGreatest(T)
  <2>1. CASE x <= y
    BY <1>4, <1>6, <2>1
  <2>2. CASE y <= x
    <3>1. \A z \in T : z <= x
      BY <1>4, <1>6, <2>2
    <3>2. QED BY <3>1
  <2>3. QED BY <1>3, <1>4, <1>6, <2>1, <2>2
<1>8. QED BY <1>7

LEMMA MaxIn ==
    ASSUME NEW S \in SUBSET Int, IsFiniteSet(S), S # {}
    PROVE  Max(S) \in S
BY GreatestExists DEF Max

LEMMA MinIn ==
    ASSUME NEW S \in SUBSET Int, IsFiniteSet(S), S # {}
    PROVE  Min(S) \in S /\ \A x \in S : Min(S) <= x
<1> DEFINE Negated == {-x : x \in S}
<1>1. IsFiniteSet(Negated)
  <2>1. [x \in S |-> -x] \in Surjection(S, Negated)
    BY DEF Surjection
  <2>2. QED BY <2>1, FS_Surjection
<1>2. Negated \in SUBSET Int /\ Negated # {}
  <2>1. PICK x \in S : TRUE
    OBVIOUS
  <2>2. -x \in Negated
    OBVIOUS
  <2>3. QED BY <2>2
<1> HIDE DEF Negated
<1>3. PICK m \in Negated : \A y \in Negated : y <= m
  BY <1>1, <1>2, GreatestExists
<1>4. PICK x \in S : m = -x
  BY DEF Negated
<1>5. \A y \in S : -y \in Negated
  BY DEF Negated
<1>6. \A y \in S : x <= y
  BY <1>3, <1>4, <1>5
<1>7. QED BY <1>6 DEF Min

LEMMA StagesAre ==
    /\ Stages = {"ingest", "map", "detect", "triage", "falsify", "normalize", "review"}
    /\ Len(StageOrder) = 7
BY DEF Stages, StageOrder

(* The next stage is one of those left, and none left comes before it. *)
LEMMA FirstIsLeft ==
    ASSUME NEW S \in SUBSET Stages, S # {}
    PROVE  /\ First(S) \in S
           /\ "falsify" \in S => First(S) \notin Gated
           /\ "detect" \in S => First(S) \notin Gated \cup {"falsify"}
<1> DEFINE Places == {i \in 1 .. Len(StageOrder) : StageOrder[i] \in S}
<1>1. Places \in SUBSET Int /\ IsFiniteSet(Places)
  <2>1. IsFiniteSet(1 .. Len(StageOrder))
    <3>1. Len(StageOrder) \in Int
      BY StagesAre
    <3> HIDE DEF StageOrder
    <3>2. QED BY <3>1, FS_Interval
  <2>2. QED BY <2>1, FS_Subset
<1>2. Places # {}
  BY StagesAre DEF Stages
<1>3. Min(Places) \in Places /\ \A i \in Places : Min(Places) <= i
  <2> HIDE DEF Places
  <2> QED BY <1>1, <1>2, MinIn
<1>4. First(S) = StageOrder[Min(Places)]
  BY DEF First
<1>5. First(S) \in S
  BY <1>3, <1>4
<1>6. "falsify" \in S => Min(Places) <= 5
  BY <1>3, StagesAre DEF StageOrder
<1>7. "detect" \in S => Min(Places) <= 3
  BY <1>3, StagesAre DEF StageOrder
<1>8. Min(Places) \in 1 .. 7
  BY <1>3, StagesAre
<1>9. QED
  <2> HIDE DEF Places
  <2> QED BY <1>4, <1>5, <1>6, <1>7, <1>8 DEF StageOrder, Gated

-----------------------------------------------------------------------------
(* Types *)

LEMMA QueriesType ==
    ASSUME TypeOK
    PROVE  /\ Len(pipelines) \in Nat
           /\ Ids = 1 .. Len(pipelines)
           /\ FindResumable # 0 =>
                 FindResumable \in Ids /\ pipelines[FindResumable].status # "completed"
           /\ FindResumable = 0 => \A i \in Ids : pipelines[i].status = "completed"
           /\ LatestOfRepo \in Nat
<1>1. Len(pipelines) \in Nat /\ Ids = 1 .. Len(pipelines)
  BY DEF TypeOK, Ids
<1>2. IsFiniteSet(Ids) /\ Ids \subseteq Int /\ 0 \notin Ids
  BY <1>1, FS_Interval
<1>3. ASSUME NEW S \in SUBSET Ids
      PROVE  /\ Latest(S) \in S \/ Latest(S) = 0
             /\ Latest(S) = 0 <=> S = {}
  <2>1. IsFiniteSet(S) /\ S \in SUBSET Int
    BY <1>2, FS_Subset
  <2>2. S # {} => Max(S) \in S
    BY <2>1, MaxIn
  <2>3. QED BY <1>2, <2>2 DEF Latest
<1>4. QED BY <1>1, <1>2, <1>3 DEF FindResumable, LatestOfRepo

LEMMA RowsType ==
    ASSUME TypeOK
    PROVE  /\ pipelines \in [Ids -> RowType]
           /\ proc \in [Procs -> ProcType(Len(pipelines))]
BY DEF TypeOK, Ids

LEMMA BoundsType == MaxPipelines \in Nat /\ MaxFailures \in Nat /\ MaxCrashes \in Nat
BY BoundsAssumption

LEMMA InitType == Init => TypeOK
<1> SUFFICES ASSUME Init PROVE TypeOK
  OBVIOUS
<1>1. pipelines \in Seq(RowType) /\ Len(pipelines) = 0
  BY DEF Init
<1>2. proc \in [Procs -> ProcType(0)]
  BY DEF Init, ProcType, NoProcess
<1>3. /\ shared \subseteq Ids
      /\ failures \in 0 .. MaxFailures
      /\ crashes \in 0 .. MaxCrashes
  BY BoundsType DEF Init
<1>4. /\ ingested \in BOOLEAN
      /\ status \in [Findings -> {"absent", "unresolved", "deferred", "ruled"}]
      /\ logged \subseteq Findings
      /\ judged \subseteq Findings
  BY DEF Init
<1> QED
  BY <1>1, <1>2, <1>3, <1>4 DEF TypeOK

(* A step that rewrites row i and the process p. *)
LEMMA RowStepKeeps ==
    ASSUME TypeOK, NEW p \in Procs, NEW i \in Ids, NEW row \in RowType,
           NEW x \in ProcType(Len(pipelines)), Rewrite(i, row), Becomes(p, x)
    PROVE  /\ pipelines' \in Seq(RowType)
           /\ Len(pipelines') = Len(pipelines)
           /\ Ids' = Ids
           /\ \A j \in Ids : pipelines'[j] = IF j = i THEN row ELSE pipelines[j]
           /\ proc' \in [Procs -> ProcType(Len(pipelines'))]
           /\ \A q \in Procs : proc'[q] = IF q = p THEN x ELSE proc[q]
<1>1. /\ pipelines \in Seq(RowType)
      /\ Ids = 1 .. Len(pipelines)
      /\ pipelines' = [pipelines EXCEPT ![i] = row]
  BY DEF TypeOK, Ids, Rewrite
<1>2. pipelines' \in Seq(RowType) /\ Len(pipelines') = Len(pipelines)
  BY <1>1
<1>3. Ids' = Ids
  BY <1>2 DEF Ids
<1>4. \A j \in Ids : pipelines'[j] = IF j = i THEN row ELSE pipelines[j]
  BY <1>1
<1>5. /\ proc' \in [Procs -> ProcType(Len(pipelines'))]
      /\ \A q \in Procs : proc'[q] = IF q = p THEN x ELSE proc[q]
  BY <1>2 DEF Becomes, TypeOK
<1> QED
  BY <1>2, <1>3, <1>4, <1>5

(* A step that opens a row for the process p. *)
LEMMA OpenKeeps ==
    ASSUME TypeOK, NEW p \in Procs, NEW cmd \in Commands, NEW parent \in Nat,
           NEW todo \in SUBSET Stages, NEW pc \in {"next", "identify"},
           OpenPipeline(p, cmd, parent, todo, pc)
    PROVE  /\ pipelines' \in Seq(RowType)
           /\ Len(pipelines') = Len(pipelines) + 1
           /\ Ids' = Ids \cup {Len(pipelines) + 1}
           /\ \A j \in Ids : pipelines'[j] = pipelines[j]
           /\ pipelines'[Len(pipelines) + 1] = NewRow(parent)
           /\ proc' \in [Procs -> ProcType(Len(pipelines'))]
           /\ \A q \in Procs \ {p} : proc'[q] = proc[q]
           /\ proc'[p] = Started(cmd, Len(pipelines) + 1, todo, pc)
<1> DEFINE x == Started(cmd, Len(pipelines) + 1, todo, pc)
<1>1. NewRow(parent) \in RowType
  BY DEF NewRow, RowType
<1>2. /\ pipelines \in Seq(RowType)
      /\ pipelines' = Append(pipelines, NewRow(parent))
  BY DEF TypeOK, OpenPipeline
<1>3. /\ pipelines' \in Seq(RowType)
      /\ Len(pipelines') = Len(pipelines) + 1
      /\ pipelines'[Len(pipelines) + 1] = NewRow(parent)
      /\ \A j \in 1 .. Len(pipelines) : pipelines'[j] = pipelines[j]
  BY <1>1, <1>2
<1>4. Ids' = Ids \cup {Len(pipelines) + 1} /\ Ids = 1 .. Len(pipelines)
  BY <1>2, <1>3 DEF Ids
<1>5. x \in ProcType(Len(pipelines'))
  <2>1. Len(pipelines) + 1 \in 0 .. Len(pipelines')
    BY <1>2, <1>3
  <2>2. cmd \in {"none", "run", "fresh", "resume"} \cup Metered
    BY CommandsAssumption
  <2> QED BY <2>1, <2>2 DEF ProcType, NoProcess, Started
<1>6. ProcType(Len(pipelines)) \subseteq ProcType(Len(pipelines'))
  <2>1. 0 .. Len(pipelines) \subseteq 0 .. Len(pipelines')
    BY <1>2, <1>3
  <2> QED BY <2>1 DEF ProcType
<1>7. proc \in [Procs -> ProcType(Len(pipelines))] /\ proc' = [proc EXCEPT ![p] = x]
  BY DEF TypeOK, OpenPipeline, Becomes
<1> HIDE DEF x
<1>8. proc' \in [Procs -> ProcType(Len(pipelines'))] /\ proc'[p] = x
  BY <1>5, <1>6, <1>7
<1>9. \A q \in Procs \ {p} : proc'[q] = proc[q]
  BY <1>7
<1> QED
  BY <1>3, <1>4, <1>8, <1>9 DEF x

(* A step that leaves the rows alone. *)
LEMMA MoveKeeps ==
    ASSUME TypeOK, NEW p \in Procs, NEW x \in ProcType(Len(pipelines)),
           UNCHANGED pipelines, Becomes(p, x)
    PROVE  /\ pipelines' \in Seq(RowType)
           /\ Ids' = Ids
           /\ proc' \in [Procs -> ProcType(Len(pipelines'))]
           /\ \A q \in Procs : proc'[q] = IF q = p THEN x ELSE proc[q]
BY DEF TypeOK, Becomes, Ids

StageStatus == {"none", "running", "completed", "failed"}

LEMMA RowTypes ==
    ASSUME NEW row \in RowType, NEW left \in BOOLEAN,
           NEW s, NEW how \in {"completed", "failed"}
    PROVE  /\ [row EXCEPT !.status = "running"] \in RowType
           /\ [row EXCEPT !.status = how] \in RowType
           /\ [row EXCEPT !.known = TRUE] \in RowType
           /\ Begun(row, s) \in RowType
           /\ Ended(row, s, how, left) \in RowType
<1>1. /\ [row.stage EXCEPT ![s] = "running"] \in [Stages -> StageStatus]
      /\ [row.stage EXCEPT ![s] = how] \in [Stages -> StageStatus]
  BY DEF RowType, StageStatus
<1>2. (IF s = "falsify" THEN FALSE ELSE row.backlog) \in BOOLEAN
  BY DEF RowType
<1>3. (IF s = "falsify" THEN left ELSE row.backlog) \in BOOLEAN
  BY DEF RowType
<1>4. /\ [row EXCEPT !.status = "running"] \in RowType
      /\ [row EXCEPT !.status = how] \in RowType
      /\ [row EXCEPT !.known = TRUE] \in RowType
  BY DEF RowType
<1>5. Begun(row, s) \in RowType
  BY <1>1, <1>2 DEF RowType, Begun, StageStatus
<1>6. Ended(row, s, how, left) \in RowType
  BY <1>1, <1>3 DEF RowType, Ended, StageStatus
<1> QED
  BY <1>4, <1>5, <1>6

StoreType ==
    /\ status \in [Findings -> {"absent", "unresolved", "deferred", "ruled"}]
    /\ logged \subseteq Findings
    /\ judged \subseteq Findings

LEMMA ChallengeType ==
    ASSUME StoreType, NEW settled \in SUBSET Pending, NEW examined, NEW ruled, NEW put,
           Challenge(examined, settled, ruled, put)
    PROVE  StoreType'
BY DEF StoreType, Challenge, Pending

LEMMA EffectType ==
    ASSUME StoreType, NEW p \in Procs, NEW s,
           Effect(p, s) \/ PartialEffect(s) \/ CutEffect(s) \/ NoEffect
    PROVE  StoreType'
<1>1. CASE NoEffect
  BY <1>1 DEF StoreType, NoEffect
<1>2. ASSUME NEW S \in SUBSET Findings, Insert(S) PROVE StoreType'
  BY <1>2 DEF StoreType, Insert, Set
<1>3. ASSUME NEW S \in SUBSET Findings, Adjudicate(S) PROVE StoreType'
  BY <1>3 DEF StoreType, Adjudicate, Set
<1>4. CASE Effect(p, s)
  BY <1>1, <1>2, <1>3, <1>4, ChallengeType DEF Effect
<1>5. CASE PartialEffect(s)
  BY <1>1, <1>2, <1>3, <1>5, ChallengeType DEF PartialEffect
<1>6. CASE CutEffect(s)
  <2>1. CASE PartialEffect(s)
    BY <1>5, <2>1
  <2>2. ASSUME NEW f \in Pending, logged' = logged \cup {f}, UNCHANGED <<status, judged>>
        PROVE  StoreType'
    BY <2>2 DEF StoreType, Pending
  <2>3. QED BY <1>6, <2>1, <2>2, ChallengeType DEF CutEffect
<1> QED
  BY <1>1, <1>4, <1>5, <1>6

(* What TypeOK says of the rows and the processes, and of the rest. *)
ProcessesType ==
    /\ pipelines \in Seq(RowType)
    /\ proc \in [Procs -> ProcType(Len(pipelines))]
    /\ \A p \in Procs : Placed(proc[p])

RestType ==
    /\ ingested \in BOOLEAN
    /\ StoreType
    /\ shared \subseteq Ids
    /\ failures \in 0 .. MaxFailures
    /\ crashes \in 0 .. MaxCrashes

LEMMA Typed == TypeOK /\ (\A p \in Procs : Placed(proc[p])) <=> ProcessesType /\ RestType
BY DEF TypeOK, ProcessesType, RestType, StoreType

LEMMA RowOfLive ==
    ASSUME ProcessesType, RestType, NEW p \in Procs, Live(p)
    PROVE  /\ proc[p].row \in Ids
           /\ pipelines[proc[p].row] \in RowType
<1>1. TypeOK /\ Placed(proc[p])
  BY Typed DEF ProcessesType
<1>2. proc[p] \in ProcType(Len(pipelines))
  BY <1>1, RowsType
<1>3. proc[p].row \in 0 .. Len(pipelines) /\ proc[p].row # 0
  BY <1>1, <1>2 DEF Placed, Live, ProcType
<1> QED
  BY <1>1, <1>3, QueriesType, RowsType

-----------------------------------------------------------------------------
(* Every step keeps the types, the other processes and the other rows. *)
OnlyMoves(p) ==
    /\ Ids \subseteq Ids'
    /\ \A q \in Procs \ {p} : proc'[q] = proc[q]
    /\ \A j \in Ids \ {proc[p].row} : pipelines'[j] = pipelines[j]

LEMMA NextType ==
    ASSUME ProcessesType, RestType, NEW p \in Procs,
           Command(p) \/ Step(p) \/ Raise(p) \/ Crash(p)
    PROVE  ProcessesType' /\ OnlyMoves(p)
<1> DEFINE x == proc[p]  i == x.row  row == pipelines[i]
<1>1. TypeOK /\ \A q \in Procs : Placed(proc[q])
  BY Typed
<1>2. x \in ProcType(Len(pipelines)) /\ Placed(x)
  BY <1>1, RowsType
<1>3. Live(p) => i \in Ids /\ row \in RowType /\ i # 0
  BY RowOfLive, <1>2 DEF Live, Placed
<1>4. NoProcess \in ProcType(Len(pipelines)) /\ Placed(NoProcess)
  BY <1>1, QueriesType DEF NoProcess, ProcType, Placed, Working
<1>5. ASSUME NEW y \in ProcType(Len(pipelines)), Placed(y), Becomes(p, y),
             \/ UNCHANGED pipelines
             \/ Live(p) /\ \E r \in RowType : Rewrite(i, r)
      PROVE  ProcessesType' /\ OnlyMoves(p)
  <2>1. /\ pipelines' \in Seq(RowType)
        /\ proc' \in [Procs -> ProcType(Len(pipelines'))]
        /\ \A q \in Procs : proc'[q] = IF q = p THEN y ELSE proc[q]
    BY <1>1, <1>3, <1>5, RowStepKeeps, MoveKeeps
  <2>2. Ids' = Ids /\ \A j \in Ids \ {i} : pipelines'[j] = pipelines[j]
    BY <1>1, <1>3, <1>5, RowStepKeeps, MoveKeeps
  <2> QED BY <1>1, <1>5, <2>1, <2>2 DEF ProcessesType, OnlyMoves
<1>6. ASSUME NEW cmd \in Commands, NEW parent \in Nat, NEW todo \in SUBSET Stages,
             NEW pc \in {"next", "identify"}, OpenPipeline(p, cmd, parent, todo, pc)
      PROVE  ProcessesType' /\ OnlyMoves(p)
  <2>1. /\ pipelines' \in Seq(RowType)
        /\ proc' \in [Procs -> ProcType(Len(pipelines'))]
        /\ \A q \in Procs \ {p} : proc'[q] = proc[q]
        /\ proc'[p].pc = pc /\ proc'[p].row = Len(pipelines) + 1
        /\ proc'[p].stage = "none"
    <3>1. proc'[p] = Started(cmd, Len(pipelines) + 1, todo, pc)
      BY <1>1, <1>6, OpenKeeps
    <3>2. /\ proc'[p].pc = pc /\ proc'[p].row = Len(pipelines) + 1
          /\ proc'[p].stage = "none"
      BY <3>1 DEF Started, NoProcess
    <3>3. /\ pipelines' \in Seq(RowType)
          /\ proc' \in [Procs -> ProcType(Len(pipelines'))]
          /\ \A q \in Procs \ {p} : proc'[q] = proc[q]
      BY <1>1, <1>6, OpenKeeps
    <3> QED BY <3>2, <3>3
  <2>2. Placed(proc'[p])
    BY <1>1, <2>1, QueriesType DEF Placed, Working
  <2>3. Ids \subseteq Ids' /\ \A j \in Ids : pipelines'[j] = pipelines[j]
    BY <1>1, <1>6, OpenKeeps
  <2> QED BY <1>1, <2>1, <2>2, <2>3 DEF ProcessesType, OnlyMoves
<1>7. CASE Command(p)
  <2>1. CASE RunNew(p)
    BY <1>6, <2>1 DEF RunNew, MayStart
  <2>2. CASE RunFind(p)
    <3> DEFINE y == [NoProcess EXCEPT !.pc = "claim", !.cmd = "run",
                                      !.row = FindResumable,
                                      !.known = pipelines[FindResumable].known]
    <3>1. FindResumable \in Ids /\ pipelines[FindResumable] \in RowType
      BY <1>1, <2>2, QueriesType, RowsType DEF RunFind
    <3>2. y \in ProcType(Len(pipelines)) /\ Placed(y)
      <4>1. FindResumable \in 0 .. Len(pipelines) /\ FindResumable # 0
        BY <1>1, <3>1, QueriesType
      <4>2. pipelines[FindResumable].known \in BOOLEAN
        BY <3>1 DEF RowType
      <4>3. y \in ProcType(Len(pipelines))
        BY <4>1, <4>2 DEF NoProcess, ProcType
      <4>4. Placed(y)
        BY <4>1 DEF NoProcess, Placed, Working
      <4> QED BY <4>3, <4>4
    <3>3. Becomes(p, y) /\ UNCHANGED pipelines
      BY <2>2 DEF RunFind, store
    <3> QED BY <1>5, <3>2, <3>3
  <2>3. CASE Resume(p)
    BY <1>1, <1>6, <2>3, QueriesType DEF Resume, MayStart
  <2>4. ASSUME NEW s \in Metered, Standalone(p, s)
        PROVE  ProcessesType' /\ OnlyMoves(p)
    <3>1. {s} \in SUBSET Stages
      BY StagesAre DEF Metered
    <3> QED BY <1>6, <2>4, <3>1 DEF Standalone, MayStart
  <2> QED BY <1>7, <2>1, <2>2, <2>3, <2>4 DEF Command
<1>8. CASE Step(p)
  <2>1. CASE RunClaim(p)
    <3> DEFINE y == [x EXCEPT !.pc = "next", !.known = TRUE,
                              !.todo = Remaining(i, x.known)]
    <3>1. Remaining(i, x.known) \in SUBSET Stages
      BY StagesAre DEF Remaining
    <3>2. y \in ProcType(Len(pipelines)) /\ Placed(y)
      BY <1>2, <2>1, <3>1 DEF ProcType, Placed, Working, RunClaim
    <3> QED BY <1>3, <1>5, <2>1, <3>2, RowTypes DEF RunClaim, Live
  <2>2. CASE Identify(p)
    <3> DEFINE todo == IF x.cmd = "resume" /\ Deferred # {} THEN {"falsify"} ELSE x.todo
               y == [x EXCEPT !.pc = "next", !.todo = todo]
    <3>1. todo \in SUBSET Stages
      BY <1>2, StagesAre DEF ProcType
    <3>2. y \in ProcType(Len(pipelines)) /\ Placed(y)
      <4> HIDE DEF todo
      <4> QED BY <1>2, <2>2, <3>1 DEF ProcType, Placed, Working, Identify
    <3> QED BY <1>3, <1>5, <2>2, <3>2, RowTypes DEF Identify, Live
  <2>3. CASE StartStage(p)
    <3> DEFINE s == First(x.todo)
               y == [x EXCEPT !.pc = "work", !.stage = s, !.todo = @ \ {s}]
    <3>1. s \in Stages
      BY <1>2, <2>3, FirstIsLeft DEF ProcType, StartStage
    <3>2. y \in ProcType(Len(pipelines)) /\ Placed(y)
      <4> HIDE DEF s
      <4> QED BY <1>2, <2>3, <3>1 DEF ProcType, Placed, Working, StartStage
    <3> QED BY <1>3, <1>5, <2>3, <3>2, RowTypes DEF StartStage, Live
  <2>4. CASE Work(p)
    <3> DEFINE left == IF x.stage = "falsify"
                       THEN \E f \in Pending : status'[f] = "deferred" /\ f \notin logged'
                       ELSE x.left
               y == [x EXCEPT !.pc = "finish", !.left = left]
    <3>1. left \in BOOLEAN
      BY <1>2 DEF ProcType
    <3>2. y \in ProcType(Len(pipelines)) /\ Placed(y)
      <4> HIDE DEF left
      <4> QED BY <1>2, <2>4, <3>1 DEF ProcType, Placed, Working, Work
    <3> QED BY <1>5, <2>4, <3>2 DEF Work
  <2>5. CASE FinishStage(p)
    <3> DEFINE y == [x EXCEPT !.pc = IF x.stage = "ingest" THEN "identify" ELSE "next",
                              !.todo = @ \ HeldBack(p), !.stage = "none"]
    <3>1. y \in ProcType(Len(pipelines)) /\ Placed(y)
      BY <1>2, <2>5 DEF ProcType, Placed, Working, FinishStage
    <3>2. x.left \in BOOLEAN
      BY <1>2 DEF ProcType
    <3> QED BY <1>3, <1>5, <2>5, <3>1, <3>2, RowTypes DEF FinishStage, Live
  <2>6. CASE Recheck(p)
    <3> DEFINE todo == IF Deferred = {} THEN Gated ELSE {}
               y == [x EXCEPT !.checked = TRUE, !.todo = todo]
    <3>1. todo \in SUBSET Stages
      BY StagesAre DEF Gated
    <3>2. y \in ProcType(Len(pipelines)) /\ Placed(y)
      <4> HIDE DEF todo
      <4> QED BY <1>2, <2>6, <3>1 DEF ProcType, Placed, Working, Recheck
    <3> QED BY <1>5, <2>6, <3>2 DEF Recheck, store
  <2>7. CASE Finish(p)
    BY <1>3, <1>4, <1>5, <2>7, RowTypes DEF Finish, Close, Live
  <2>8. CASE FailStage(p)
    <3> DEFINE y == [x EXCEPT !.pc = "close"]
    <3>1. y \in ProcType(Len(pipelines)) /\ Placed(y)
      BY <1>2, <2>8 DEF ProcType, Placed, Working, FailStage
    <3> QED BY <1>3, <1>5, <2>8, <3>1, RowTypes DEF FailStage, Live
  <2>9. CASE FailPipeline(p)
    BY <1>3, <1>4, <1>5, <2>9, RowTypes DEF FailPipeline, Close, Live
  <2> QED
    BY <1>8, <2>1, <2>2, <2>3, <2>4, <2>5, <2>6, <2>7, <2>8, <2>9 DEF Step
<1>9. CASE Raise(p)
  <2> DEFINE y == [x EXCEPT !.pc = "fail"]
  <2>1. y \in ProcType(Len(pipelines)) /\ Placed(y)
    BY <1>2, <1>9 DEF ProcType, Placed, Working, Raise
  <2> QED BY <1>5, <1>9, <2>1 DEF Raise
<1>10. CASE Crash(p)
  BY <1>4, <1>5, <1>10 DEF Crash
<1> QED
  BY <1>7, <1>8, <1>9, <1>10

LEMMA NextRest ==
    ASSUME ProcessesType, RestType, NEW p \in Procs,
           Command(p) \/ Step(p) \/ Raise(p) \/ Crash(p)
    PROVE  RestType'
<1>1. ProcessesType' /\ OnlyMoves(p)
  BY NextType
<1>2. ASSUME NEW i \in Ids PROVE AlsoAt(i, p) \subseteq Ids
  BY DEF AlsoAt
<1>3. shared' \subseteq Ids'
  <2>1. CASE UNCHANGED shared
    BY <1>1, <2>1 DEF RestType, OnlyMoves
  <2>2. CASE RunFind(p)
    <3>1. FindResumable \in Ids
      BY <2>2, QueriesType, Typed DEF RunFind
    <3> QED BY <1>1, <1>2, <2>2, <3>1 DEF RestType, OnlyMoves, RunFind
  <2>3. CASE RunClaim(p)
    <3>1. proc[p].row \in Ids
      BY <2>3, RowOfLive DEF RunClaim, Live
    <3> QED BY <1>1, <1>2, <2>3, <3>1 DEF RestType, OnlyMoves, RunClaim
  <2> QED BY <2>1, <2>2, <2>3 DEF Command, Step, RunNew, OpenPipeline, Resume,
       Standalone, Identify, StartStage, Work, FinishStage, Recheck, Finish,
       FailStage, FailPipeline, Raise, Crash
<1>4. StoreType'
  <2>1. CASE UNCHANGED <<status, logged, judged>>
    BY <2>1 DEF RestType, StoreType
  <2>2. ASSUME NEW s, Effect(p, s) \/ PartialEffect(s) \/ CutEffect(s) \/ NoEffect
        PROVE  StoreType'
    BY <2>2, EffectType DEF RestType
  <2> QED BY <2>1, <2>2 DEF Command, Step, RunNew, RunFind, OpenPipeline, Resume,
       Standalone, RunClaim, Identify, StartStage, Work, FinishStage, Recheck,
       Finish, FailStage, FailPipeline, Raise, Crash, store
<1>5. ingested' \in BOOLEAN
  BY DEF RestType, Command, Step, RunNew, RunFind, OpenPipeline, Resume, Standalone,
     RunClaim, Identify, StartStage, Work, FinishStage, Recheck, Finish, FailStage,
     FailPipeline, Raise, Crash, store, Recorded
<1>6. failures' \in 0 .. MaxFailures
  <2>1. failures' = failures \/ Raise(p)
    BY DEF Command, Step, RunNew, RunFind, OpenPipeline, Resume, Standalone, RunClaim,
       Identify, StartStage, Work, FinishStage, Recheck, Finish, FailStage,
       FailPipeline, Crash
  <2> QED BY <2>1, BoundsType DEF RestType, Raise
<1>7. crashes' \in 0 .. MaxCrashes
  <2>1. crashes' = crashes \/ Crash(p)
    BY DEF Command, Step, RunNew, RunFind, OpenPipeline, Resume, Standalone, RunClaim,
       Identify, StartStage, Work, FinishStage, Recheck, Finish, FailStage,
       FailPipeline, Raise
  <2> QED BY <2>1, BoundsType DEF RestType, Crash
<1> QED
  BY <1>3, <1>4, <1>5, <1>6, <1>7 DEF RestType

LEMMA UnchangedType ==
    ASSUME ProcessesType, RestType, UNCHANGED vars
    PROVE  ProcessesType' /\ RestType'
BY DEF ProcessesType, RestType, StoreType, vars, Ids

(* The rows, the processes and the findings have their types, an idle process is
   at no row and only a process inside a stage names one: this is where every
   step starts and ends, whatever failed or died (cli.py over the run records
   of db.py). *)
THEOREM RunsTyped == Spec => []TypeOK
<1>1. Init => ProcessesType /\ RestType
  <2>1. Init => \A p \in Procs : Placed(proc[p])
    BY DEF Init, NoProcess, Placed, Working
  <2> QED BY <2>1, InitType, Typed
<1>2. ProcessesType /\ RestType /\ [Next]_vars => (ProcessesType /\ RestType)'
  BY NextType, NextRest, UnchangedType DEF Next
<1>3. ProcessesType /\ RestType => TypeOK
  BY Typed
<1> QED
  BY <1>1, <1>2, <1>3, PTL DEF Spec

-----------------------------------------------------------------------------
(* No stage is paid for twice *)

LEMMA BegunRow ==
    ASSUME NEW row \in RowType, NEW s
    PROVE  /\ Completed(Begun(row, s)) = Completed(row) \ {s}
           /\ Begun(row, s).status = row.status
BY DEF RowType, Completed, Begun

LEMMA FailedRow ==
    ASSUME NEW row \in RowType, NEW s
    PROVE  /\ Completed(Ended(row, s, "failed", FALSE)) = Completed(row) \ {s}
           /\ Ended(row, s, "failed", FALSE).status = row.status
BY DEF RowType, Completed, Ended

LEMMA CompletedRow ==
    ASSUME NEW row \in RowType, NEW s \in Stages, NEW left
    PROVE  /\ Completed(Ended(row, s, "completed", left)) = Completed(row) \cup {s}
           /\ Ended(row, s, "completed", left).status = row.status
BY DEF RowType, Completed, Ended

LEMMA MarkedRow ==
    ASSUME NEW row \in RowType, NEW v
    PROVE  /\ Completed([row EXCEPT !.status = v]) = Completed(row)
           /\ Completed([row EXCEPT !.known = v]) = Completed(row)
           /\ [row EXCEPT !.status = v].status = v
           /\ [row EXCEPT !.known = v].status = row.status
BY DEF RowType, Completed

(* A process that starts afresh on a row of its own, and one that takes a row up. *)
LEMMA StartsOrderly ==
    ASSUME NEW cmd \in Commands, NEW i, NEW parent,
           NEW todo \in SUBSET Stages, NEW pc \in {"next", "identify"},
           cmd = "resume" => todo = {}
    PROVE  Orderly(Started(cmd, i, todo, pc), NewRow(parent))
<1>1. Completed(NewRow(parent)) = {}
  BY DEF Completed, NewRow
<1> QED
  BY <1>1 DEF Orderly, Started, NoProcess, NewRow, Working

LEMMA ClaimOrderly ==
    ASSUME NEW x, NEW row, NEW v, x = [NoProcess EXCEPT !.pc = "claim", !.cmd = "run",
                                                        !.row = v, !.known = x.known],
           row.status # "completed"
    PROVE  Orderly(x, row)
BY DEF Orderly, NoProcess, Working

(* The commands that have a row, one step on. *)
LEMMA OwnStepOrderly ==
    ASSUME NEW n, NEW x \in ProcType(n), NEW row \in RowType,
           Placed(x), Orderly(x, row)
    PROVE  /\ \A todo : x.pc = "claim" /\ todo \cap Completed(row) \subseteq {"ingest"} =>
                Orderly([x EXCEPT !.pc = "next", !.known = TRUE, !.todo = todo],
                        [row EXCEPT !.status = "running"])
           /\ \A todo : x.pc = "identify" /\ todo \in {x.todo} \cup
                            (IF x.cmd = "resume" THEN {{"falsify"}} ELSE {}) =>
                Orderly([x EXCEPT !.pc = "next", !.todo = todo],
                        [row EXCEPT !.known = TRUE])
           /\ \A s \in x.todo : x.pc = "next" =>
                Orderly([x EXCEPT !.pc = "work", !.stage = s, !.todo = @ \ {s}],
                        Begun(row, s))
           /\ \A left : x.pc = "work" => Orderly([x EXCEPT !.pc = "finish", !.left = left], row)
           /\ \A held : x.pc = "finish" =>
                Orderly([x EXCEPT !.pc = IF x.stage = "ingest" THEN "identify" ELSE "next",
                                  !.todo = @ \ held, !.stage = "none"],
                        Ended(row, x.stage, "completed", x.left))
           /\ \A todo \in {{}, Gated} : x.pc = "next" /\ ~x.checked =>
                Orderly([x EXCEPT !.checked = TRUE, !.todo = todo], row)
           /\ x.pc = "work" => Orderly([x EXCEPT !.pc = "fail"], row)
           /\ x.pc = "fail" =>
                Orderly([x EXCEPT !.pc = "close"], Ended(row, x.stage, "failed", FALSE))
<1>1. ASSUME NEW todo, x.pc = "claim", todo \cap Completed(row) \subseteq {"ingest"}
      PROVE  Orderly([x EXCEPT !.pc = "next", !.known = TRUE, !.todo = todo],
                     [row EXCEPT !.status = "running"])
  <2> DEFINE y == [x EXCEPT !.pc = "next", !.known = TRUE, !.todo = todo]
             r == [row EXCEPT !.status = "running"]
  <2>1. y.pc = "next" /\ y.stage = x.stage /\ y.todo = todo /\ y.cmd = x.cmd
        /\ y.checked = x.checked
    BY DEF ProcType
  <2>2. Completed(r) = Completed(row) /\ r.status = "running"
    BY MarkedRow
  <2>3. x.cmd = "run" /\ x.checked
    BY <1>1 DEF Placed
  <2>4. Orderly(y, r)
    <3> HIDE DEF y, r
    <3> QED BY <1>1, <2>1, <2>2, <2>3 DEF Orderly, Working
  <2> QED BY <2>4
<1>2. ASSUME NEW todo, x.pc = "identify",
             todo \in {x.todo} \cup (IF x.cmd = "resume" THEN {{"falsify"}} ELSE {})
      PROVE  Orderly([x EXCEPT !.pc = "next", !.todo = todo], [row EXCEPT !.known = TRUE])
  <2> DEFINE y == [x EXCEPT !.pc = "next", !.todo = todo]  r == [row EXCEPT !.known = TRUE]
  <2>1. y.pc = "next" /\ y.stage = x.stage /\ y.todo = todo /\ y.cmd = x.cmd
        /\ y.checked = x.checked
    BY DEF ProcType
  <2>2. Completed(r) = Completed(row) /\ r.status = row.status
    BY MarkedRow
  <2>3. x.stage = "none"
    BY <1>2 DEF Placed
  <2>4. todo = x.todo \/ (x.cmd = "resume" /\ todo = {"falsify"})
    BY <1>2
  <2>5. Orderly(y, r)
    <3> HIDE DEF y, r
    <3>1. CASE todo = x.todo
      BY <1>2, <2>1, <2>2, <3>1 DEF Orderly, Working
    <3>2. CASE x.cmd = "resume" /\ todo = {"falsify"}
      BY <1>2, <2>1, <2>2, <2>3, <3>2 DEF Orderly, Working
    <3> QED BY <2>4, <3>1, <3>2
  <2> QED BY <2>5
<1>3. ASSUME NEW s \in x.todo, x.pc = "next"
      PROVE  Orderly([x EXCEPT !.pc = "work", !.stage = s, !.todo = @ \ {s}], Begun(row, s))
  <2> DEFINE y == [x EXCEPT !.pc = "work", !.stage = s, !.todo = @ \ {s}]  r == Begun(row, s)
  <2>1. /\ y.pc = "work" /\ y.stage = s /\ y.todo = x.todo \ {s}
        /\ y.cmd = x.cmd /\ y.checked = x.checked
    BY DEF ProcType
  <2>2. Completed(r) = Completed(row) \ {s} /\ r.status = row.status
    BY BegunRow
  <2>3. Orderly(y, r)
    <3> HIDE DEF y, r
    <3> QED BY <1>3, <2>1, <2>2 DEF Orderly, Working
  <2> QED BY <2>3
<1>4. ASSUME NEW left, x.pc = "work"
      PROVE  Orderly([x EXCEPT !.pc = "finish", !.left = left], row)
  BY <1>4 DEF Orderly, Working, ProcType
<1>5. ASSUME NEW held, x.pc = "finish"
      PROVE  Orderly([x EXCEPT !.pc = IF x.stage = "ingest" THEN "identify" ELSE "next",
                               !.todo = @ \ held, !.stage = "none"],
                     Ended(row, x.stage, "completed", x.left))
  <2> DEFINE y == [x EXCEPT !.pc = IF x.stage = "ingest" THEN "identify" ELSE "next",
                            !.todo = @ \ held, !.stage = "none"]
             r == Ended(row, x.stage, "completed", x.left)
  <2>1. /\ y.pc = IF x.stage = "ingest" THEN "identify" ELSE "next"
        /\ y.stage = "none" /\ y.todo = x.todo \ held
        /\ y.cmd = x.cmd /\ y.checked = x.checked
    BY DEF ProcType
  <2>2. x.stage \in Stages
    BY <1>5 DEF Placed, Working
  <2>3. Completed(r) = Completed(row) \cup {x.stage} /\ r.status = row.status
    BY <2>2, CompletedRow
  <2>4. Orderly(y, r)
    <3> HIDE DEF y, r
    <3> QED BY <1>5, <2>1, <2>3 DEF Orderly, Working, Gated
  <2> QED BY <2>4
<1>6. ASSUME NEW todo \in {{}, Gated}, x.pc = "next", ~x.checked
      PROVE  Orderly([x EXCEPT !.checked = TRUE, !.todo = todo], row)
  BY <1>6 DEF Orderly, Working, ProcType, Placed, Gated
<1>7. ASSUME x.pc = "work" PROVE Orderly([x EXCEPT !.pc = "fail"], row)
  BY <1>7 DEF Orderly, Working, ProcType
<1>8. ASSUME x.pc = "fail"
      PROVE  Orderly([x EXCEPT !.pc = "close"], Ended(row, x.stage, "failed", FALSE))
  <2> DEFINE y == [x EXCEPT !.pc = "close"]  r == Ended(row, x.stage, "failed", FALSE)
  <2>1. /\ y.pc = "close" /\ y.stage = x.stage /\ y.todo = x.todo
        /\ y.cmd = x.cmd /\ y.checked = x.checked
    BY DEF ProcType
  <2>2. Completed(r) = Completed(row) \ {x.stage} /\ r.status = row.status
    BY FailedRow
  <2>3. Orderly(y, r)
    <3> HIDE DEF y, r
    <3> QED BY <1>8, <2>1, <2>2 DEF Orderly, Working
  <2> QED BY <2>3
<1> QED
  BY <1>1, <1>2, <1>3, <1>4, <1>5, <1>6, <1>7, <1>8

LEMMA OthersOrderly ==
    ASSUME ProcessesType, RestType, Apart, NEW p \in Procs, NEW q \in Procs \ {p},
           OnlyMoves(p), shared \subseteq shared', OwnOrderly(q)
    PROVE  OwnOrderly(q)'
<1> SUFFICES ASSUME Live(q)', (proc[q].row \notin shared)'
             PROVE  Orderly(proc[q], pipelines[proc[q].row])'
  BY DEF OwnOrderly
<1>1. proc'[q] = proc[q]
  BY DEF OnlyMoves
<1>2. Live(q) /\ proc[q].row \notin shared
  BY <1>1 DEF Live
<1>3. proc[q].row \in Ids /\ proc[q].row # 0
  BY <1>2, RowOfLive DEF ProcessesType, Placed, Live
<1>4. proc[q].row # proc[p].row
  BY <1>2, <1>3 DEF Apart
<1>5. pipelines'[proc[q].row] = pipelines[proc[q].row]
  BY <1>3, <1>4 DEF OnlyMoves
<1>6. Orderly(proc[q], pipelines[proc[q].row])
  BY <1>2 DEF OwnOrderly
<1> QED
  BY <1>1, <1>5, <1>6

LEMMA StaysApart ==
    ASSUME ProcessesType, RestType, Apart, NEW p \in Procs,
           OnlyMoves(p), shared \subseteq shared',
           \/ proc'[p].row \in {proc[p].row, 0}
           \/ proc'[p].row \notin Ids
           \/ \A q \in Procs \ {p} : proc[q].row = proc'[p].row => proc'[p].row \in shared'
    PROVE  Apart'
<1>1. \A q \in Procs \ {p} : proc'[q] = proc[q]
  BY DEF OnlyMoves
<1>2. \A q \in Procs : proc[q].row \in Ids \cup {0}
  <2>1. TypeOK
    BY Typed
  <2> QED BY <2>1, RowsType, QueriesType DEF ProcType
<1>3. ASSUME NEW q \in Procs \ {p}, proc'[p].row = proc[q].row
      PROVE  proc[q].row \in shared' \cup {0}
  BY <1>2, <1>3 DEF Apart
<1>4. ASSUME NEW q \in Procs \ {p}, NEW r \in Procs \ {p}, q # r, proc[q].row = proc[r].row
      PROVE  proc[q].row \in shared' \cup {0}
  BY <1>4 DEF Apart
<1> QED
  BY <1>1, <1>3, <1>4 DEF Apart

LEMMA OwnNext ==
    ASSUME ProcessesType, RestType, Apart, NEW p \in Procs, OwnOrderly(p),
           Command(p) \/ Step(p) \/ Raise(p) \/ Crash(p)
    PROVE  /\ shared \subseteq shared'
           /\ Apart'
           /\ OwnOrderly(p)'
           /\ \A i \in Ids \ shared : PaidKept(i)
<1> DEFINE x == proc[p]  i == x.row  row == pipelines[i]
<1>1. TypeOK /\ Placed(x) /\ x \in ProcType(Len(pipelines)) /\ OnlyMoves(p) /\ ProcessesType'
  BY Typed, RowsType, NextType DEF ProcessesType
<1>2. Live(p) => i \in Ids /\ row \in RowType
  BY RowOfLive
<1>3. ASSUME i \in Ids \ shared => PaidKept(i)
      PROVE  \A j \in Ids \ shared : PaidKept(j)
  BY <1>1, <1>3 DEF OnlyMoves, PaidKept
(* A step that opens a row. *)
<1>4. ASSUME NEW cmd \in Commands, NEW parent \in Nat, NEW todo \in SUBSET Stages,
             NEW pc \in {"next", "identify"}, cmd = "resume" => todo = {},
             OpenPipeline(p, cmd, parent, todo, pc), ~Live(p)
      PROVE  /\ shared \subseteq shared'
             /\ Apart'
             /\ OwnOrderly(p)'
             /\ \A j \in Ids \ shared : PaidKept(j)
  <2>1. /\ proc'[p] = Started(cmd, Len(pipelines) + 1, todo, pc)
        /\ pipelines'[Len(pipelines) + 1] = NewRow(parent)
        /\ \A j \in Ids : pipelines'[j] = pipelines[j]
    BY <1>1, <1>4, OpenKeeps
  <2>2. proc'[p].row = Len(pipelines) + 1
    BY <2>1 DEF Started, NoProcess
  <2>3. proc'[p].row \notin Ids
    BY <1>1, <2>2, QueriesType
  <2>4. shared \subseteq shared'
    BY <1>4 DEF OpenPipeline
  <2>5. Apart'
    BY <1>1, <2>3, <2>4, StaysApart
  <2>6. OwnOrderly(p)'
    BY <1>4, <2>1, <2>2, StartsOrderly DEF OwnOrderly
  <2>7. \A j \in Ids : PaidKept(j)
    BY <2>1 DEF PaidKept
  <2> QED BY <2>4, <2>5, <2>6, <2>7
(* A step of a process that stays at its row, or leaves it. *)
<1>5. ASSUME NEW y, NEW r, Live(p), Becomes(p, y),
             Rewrite(i, r) \/ (UNCHANGED pipelines /\ r = row),
             y = NoProcess \/ (y.row = i /\ (i \notin shared' => Orderly(y, r))),
             i \notin shared => Completed(row) \ {"ingest"} \subseteq Completed(r),
             shared \subseteq shared'
      PROVE  /\ shared \subseteq shared'
             /\ Apart'
             /\ OwnOrderly(p)'
             /\ \A j \in Ids \ shared : PaidKept(j)
  <2>1. proc'[p] = y /\ pipelines'[i] = r
    BY <1>1, <1>2, <1>5, RowsType DEF Becomes, Rewrite
  <2>2. Apart'
    BY <1>1, <1>5, <2>1, StaysApart DEF NoProcess
  <2>3. OwnOrderly(p)'
    BY <1>5, <2>1 DEF OwnOrderly, Live, NoProcess
  <2>4. i \notin shared => PaidKept(i)
    <3>1. i \notin shared => row.status # "completed"
      BY <1>5 DEF OwnOrderly, Orderly
    <3>2. i \notin shared => \A s \in Stages \ {"ingest"} :
            row.stage[s] = "completed" => r.stage[s] = "completed"
      BY <1>5 DEF Completed
    <3> QED BY <2>1, <3>1, <3>2 DEF PaidKept
  <2> QED BY <1>3, <1>5, <2>2, <2>3, <2>4
<1>6. CASE Command(p)
  <2>1. CASE RunNew(p)
    <3>1. PICK cmd \in {"run", "fresh"} : MayStart(p, cmd) /\ OpenPipeline(p, cmd, 0, Stages, "next")
      BY <2>1 DEF RunNew
    <3>2. cmd \in Commands /\ ~Live(p) /\ cmd # "resume"
      BY <3>1 DEF MayStart
    <3> QED BY <1>4, <3>1, <3>2
  <2>2. CASE RunFind(p)
    <3> DEFINE y == [NoProcess EXCEPT !.pc = "claim", !.cmd = "run",
                                      !.row = FindResumable,
                                      !.known = pipelines[FindResumable].known]
    <3>1. /\ FindResumable \in Ids
          /\ pipelines[FindResumable].status # "completed"
          /\ pipelines[FindResumable].known \in BOOLEAN
      BY <1>1, <2>2, QueriesType, RowsType DEF RunFind, RowType
    <3>2. /\ proc'[p] = y
          /\ pipelines' = pipelines
          /\ shared' = shared \cup AlsoAt(FindResumable, p)
      BY <1>1, <2>2, RowsType DEF RunFind, store, Becomes
    <3>3. y.row = FindResumable /\ y.known = pipelines[FindResumable].known
      BY DEF NoProcess
    <3>4. \A q \in Procs \ {p} : proc[q].row = FindResumable => FindResumable \in shared'
      BY <3>2 DEF AlsoAt
    <3>5. Apart'
      BY <1>1, <3>2, <3>3, <3>4, StaysApart
    <3>6. Orderly(y, pipelines[FindResumable])
      <4>1. y = [NoProcess EXCEPT !.pc = "claim", !.cmd = "run",
                                  !.row = FindResumable, !.known = y.known]
        BY <3>3
      <4> HIDE DEF y
      <4> QED BY <3>1, <4>1, ClaimOrderly
    <3>7. OwnOrderly(p)'
      BY <3>2, <3>3, <3>6 DEF OwnOrderly
    <3>8. \A j \in Ids : PaidKept(j)
      BY <3>2 DEF PaidKept
    <3> QED BY <3>2, <3>5, <3>7, <3>8
  <2>3. CASE Resume(p)
    <3>1. LatestOfRepo \in Nat
      BY <1>1, QueriesType
    <3> QED BY <1>4, <2>3, <3>1 DEF Resume, MayStart
  <2>4. ASSUME NEW s \in Metered, Standalone(p, s)
        PROVE  /\ shared \subseteq shared'
               /\ Apart'
               /\ OwnOrderly(p)'
               /\ \A j \in Ids \ shared : PaidKept(j)
    <3>1. {s} \in SUBSET Stages /\ s # "resume"
      BY StagesAre DEF Metered
    <3> QED BY <1>4, <2>4, <3>1 DEF Standalone, MayStart
  <2> QED BY <1>6, <2>1, <2>2, <2>3, <2>4 DEF Command
<1>7. Live(p) /\ i \notin shared => Orderly(x, row)
  BY DEF OwnOrderly
<1>8. Live(p) /\ i \notin shared' => i \notin shared
  BY DEF Command, Step, RunNew, RunFind, OpenPipeline, Resume, Standalone, RunClaim,
     Identify, StartStage, Work, FinishStage, Recheck, Finish, FailStage,
     FailPipeline, Raise, Crash, MayStart, Live
<1>9. CASE Step(p)
  <2>1. CASE RunClaim(p)
    <3> DEFINE todo == Remaining(i, x.known)
    <3>1. Live(p) /\ Completed([row EXCEPT !.status = "running"]) = Completed(row)
      BY <1>2, <2>1, MarkedRow DEF RunClaim, Live
    <3>2. todo \cap Completed(row) \subseteq {"ingest"}
      BY DEF Remaining, Done
    <3> HIDE DEF todo
    <3>3. i \notin shared' => Orderly([x EXCEPT !.pc = "next", !.known = TRUE, !.todo = todo],
                                      [row EXCEPT !.status = "running"])
      BY <1>1, <1>2, <1>7, <1>8, <2>1, <3>1, <3>2, OwnStepOrderly DEF RunClaim
    <3>4. [x EXCEPT !.pc = "next", !.known = TRUE, !.todo = todo].row = i
      BY <1>1 DEF ProcType
    <3> QED BY <1>5, <2>1, <3>1, <3>3, <3>4 DEF RunClaim, todo
  <2>2. CASE Identify(p)
    <3> DEFINE todo == IF x.cmd = "resume" /\ Deferred # {} THEN {"falsify"} ELSE x.todo
    <3>1. Live(p) /\ Completed([row EXCEPT !.known = TRUE]) = Completed(row)
      BY <1>2, <2>2, MarkedRow DEF Identify, Live
    <3>2. i \notin shared' => Orderly([x EXCEPT !.pc = "next", !.todo = todo],
                                      [row EXCEPT !.known = TRUE])
      BY <1>1, <1>2, <1>7, <1>8, <2>2, <3>1, OwnStepOrderly DEF Identify
    <3> HIDE DEF todo
    <3>3. [x EXCEPT !.pc = "next", !.todo = todo].row = i
      BY <1>1 DEF ProcType
    <3> QED BY <1>5, <2>2, <3>1, <3>2, <3>3 DEF Identify, todo
  <2>3. CASE StartStage(p)
    <3> DEFINE s == First(x.todo)
    <3>1. Live(p) /\ x.pc = "next" /\ s \in x.todo
      BY <1>1, <2>3, FirstIsLeft DEF StartStage, Live, ProcType
    <3>2. Becomes(p, [x EXCEPT !.pc = "work", !.stage = s, !.todo = @ \ {s}])
          /\ Rewrite(i, Begun(row, s)) /\ shared' = shared
      BY <2>3 DEF StartStage
    <3> HIDE DEF s
    <3>3. i \notin shared' =>
            Orderly([x EXCEPT !.pc = "work", !.stage = s, !.todo = @ \ {s}], Begun(row, s))
      BY <1>1, <1>2, <1>7, <1>8, <3>1, OwnStepOrderly
    <3>4. Completed(Begun(row, s)) = Completed(row) \ {s}
      BY <1>2, <3>1, BegunRow
    <3>5. i \notin shared => Completed(row) \ {"ingest"} \subseteq Completed(Begun(row, s))
      BY <1>7, <3>1, <3>4 DEF Orderly
    <3>6. [x EXCEPT !.pc = "work", !.stage = s, !.todo = @ \ {s}].row = i
      BY <1>1 DEF ProcType
    <3> QED BY <1>5, <3>1, <3>2, <3>3, <3>5, <3>6
  <2>4. CASE Work(p)
    <3> DEFINE left == IF x.stage = "falsify"
                       THEN \E f \in Pending : status'[f] = "deferred" /\ f \notin logged'
                       ELSE x.left
    <3>1. /\ Live(p) /\ x.pc = "work" /\ shared' = shared /\ UNCHANGED pipelines
          /\ Becomes(p, [x EXCEPT !.pc = "finish", !.left = left])
      BY <2>4 DEF Work, Live
    <3> HIDE DEF left
    <3>2. i \notin shared' => Orderly([x EXCEPT !.pc = "finish", !.left = left], row)
      BY <1>1, <1>2, <1>7, <1>8, <3>1, OwnStepOrderly
    <3>3. [x EXCEPT !.pc = "finish", !.left = left].row = i
      BY <1>1 DEF ProcType
    <3> QED BY <1>5, <3>1, <3>2, <3>3
  <2>5. CASE FinishStage(p)
    <3> DEFINE held == HeldBack(p)
               y == [x EXCEPT !.pc = IF x.stage = "ingest" THEN "identify" ELSE "next",
                              !.todo = @ \ held, !.stage = "none"]
               r == Ended(row, x.stage, "completed", x.left)
    <3>1. /\ Live(p) /\ x.pc = "finish" /\ shared' = shared
          /\ Becomes(p, y) /\ Rewrite(i, r)
      BY <2>5 DEF FinishStage, Live
    <3> HIDE DEF held
    <3>2. i \notin shared' => Orderly(y, r)
      BY <1>1, <1>2, <1>7, <1>8, <3>1, OwnStepOrderly
    <3>3. Completed(r) = Completed(row) \cup {x.stage}
      BY <1>1, <1>2, <3>1, CompletedRow DEF Placed, Working
    <3>4. y.row = i
      BY <1>1 DEF ProcType
    <3> HIDE DEF y, r
    <3> QED BY <1>5, <3>1, <3>2, <3>3, <3>4
  <2>6. CASE Recheck(p)
    <3> DEFINE todo == IF Deferred = {} THEN Gated ELSE {}
               y == [x EXCEPT !.checked = TRUE, !.todo = todo]
    <3>1. /\ Live(p) /\ x.pc = "next" /\ ~x.checked /\ shared' = shared
          /\ UNCHANGED pipelines /\ Becomes(p, y)
      BY <2>6 DEF Recheck, Live, store
    <3>2. todo \in {{}, Gated}
      OBVIOUS
    <3> HIDE DEF todo
    <3>3. i \notin shared' => Orderly(y, row)
      BY <1>1, <1>2, <1>7, <1>8, <3>1, <3>2, OwnStepOrderly
    <3>4. y.row = i
      BY <1>1 DEF ProcType
    <3> HIDE DEF y
    <3> QED BY <1>5, <3>1, <3>3, <3>4
  <2>7. CASE Finish(p)
    <3>1. Completed([row EXCEPT !.status = "completed"]) = Completed(row)
      BY <1>2, <2>7, MarkedRow DEF Finish, Live
    <3> QED BY <1>5, <2>7, <3>1 DEF Finish, Close, Live
  <2>8. CASE FailStage(p)
    <3> DEFINE y == [x EXCEPT !.pc = "close"]
               r == Ended(row, x.stage, "failed", FALSE)
    <3>1. /\ Live(p) /\ x.pc = "fail" /\ shared' = shared
          /\ Becomes(p, y) /\ Rewrite(i, r)
      BY <2>8 DEF FailStage, Live
    <3>2. i \notin shared' => Orderly(y, r)
      BY <1>1, <1>2, <1>7, <1>8, <3>1, OwnStepOrderly
    <3>3. Completed(r) = Completed(row) \ {x.stage}
      BY <1>2, <3>1, FailedRow
    <3>4. i \notin shared => Completed(row) \ {"ingest"} \subseteq Completed(r)
      BY <1>7, <3>1, <3>3 DEF Orderly, Working
    <3>5. y.row = i
      BY <1>1 DEF ProcType
    <3> HIDE DEF y, r
    <3> QED BY <1>5, <3>1, <3>2, <3>4, <3>5
  <2>9. CASE FailPipeline(p)
    <3>1. Completed([row EXCEPT !.status = "failed"]) = Completed(row)
      BY <1>2, <2>9, MarkedRow DEF FailPipeline, Live
    <3> QED BY <1>5, <2>9, <3>1 DEF FailPipeline, Close, Live
  <2> QED
    BY <1>9, <2>1, <2>2, <2>3, <2>4, <2>5, <2>6, <2>7, <2>8, <2>9 DEF Step
<1>10. CASE Raise(p)
  <2> DEFINE y == [x EXCEPT !.pc = "fail"]
  <2>1. /\ Live(p) /\ x.pc = "work" /\ shared' = shared /\ UNCHANGED pipelines /\ Becomes(p, y)
    BY <1>10 DEF Raise, Live
  <2>2. i \notin shared' => Orderly(y, row)
    BY <1>1, <1>2, <1>7, <1>8, <2>1, OwnStepOrderly
  <2>3. y.row = i
    BY <1>1 DEF ProcType
  <2> HIDE DEF y
  <2> QED BY <1>5, <2>1, <2>2, <2>3
<1>11. CASE Crash(p)
  BY <1>5, <1>11 DEF Crash
<1> QED
  BY <1>6, <1>9, <1>10, <1>11

LEMMA PaidIs ==
    PaidInv <=> /\ ProcessesType /\ RestType /\ Apart
                /\ \A p \in Procs : OwnOrderly(p)
BY Typed DEF PaidInv

LEMMA PaidNext ==
    PaidInv /\ [Next]_vars => PaidInv' /\ [\A i \in Ids \ shared : PaidKept(i)]_vars
<1> SUFFICES ASSUME PaidInv, [Next]_vars
             PROVE  PaidInv' /\ [\A i \in Ids \ shared : PaidKept(i)]_vars
  OBVIOUS
<1>1. CASE UNCHANGED vars
  <2>1. PaidInv'
    BY <1>1 DEF vars, PaidInv, TypeOK, Ids, Apart, OwnOrderly, Live
  <2> QED BY <1>1, <2>1
<1>2. ASSUME NEW p \in Procs, Command(p) \/ Step(p) \/ Raise(p) \/ Crash(p)
      PROVE  PaidInv' /\ \A i \in Ids \ shared : PaidKept(i)
  <2>1. ProcessesType /\ RestType /\ Apart /\ \A q \in Procs : OwnOrderly(q)
    BY PaidIs
  <2>2. ProcessesType' /\ RestType' /\ OnlyMoves(p)
    BY <1>2, <2>1, NextType, NextRest
  <2>3. /\ shared \subseteq shared'
        /\ Apart'
        /\ OwnOrderly(p)'
        /\ \A i \in Ids \ shared : PaidKept(i)
    BY <1>2, <2>1, OwnNext
  <2>4. ASSUME NEW q \in Procs \ {p} PROVE OwnOrderly(q)'
    BY <2>1, <2>2, <2>3, OthersOrderly
  <2>5. \A q \in Procs : OwnOrderly(q)'
    BY <2>3, <2>4
  <2>6. PaidInv'
    <3>1. TypeOK' /\ \A q \in Procs : Placed(proc'[q])
      BY <2>2 DEF TypeOK, ProcessesType, RestType, StoreType
    <3> QED BY <2>3, <2>5, <3>1 DEF PaidInv
  <2> QED BY <2>3, <2>6
<1> QED
  BY <1>1, <1>2 DEF Next

(* Nothing that a run completed is paid for again, and no completed run is
   reopened, for any number of processes, runs, failures and process deaths: run()
   skips what completed_stages() names, and each attempt starts from there. *)
THEOREM StagesPaidOnce == Spec => PaidStageOnce
<1>1. Init => PaidInv
  <2>1. Init => ProcessesType /\ RestType
    <3>1. Init => \A p \in Procs : Placed(proc[p])
      BY DEF Init, NoProcess, Placed, Working
    <3> QED BY <3>1, InitType, Typed
  <2>2. Init => Apart /\ \A p \in Procs : OwnOrderly(p)
    BY DEF Init, NoProcess, Apart, OwnOrderly, Live
  <2> QED BY <2>1, <2>2, PaidIs
<1>2. PaidInv /\ [Next]_vars => PaidInv' /\ [\A i \in Ids \ shared : PaidKept(i)]_vars
  BY PaidNext
<1> QED
  BY <1>1, <1>2, PTL DEF Spec, PaidStageOnce

-----------------------------------------------------------------------------
(* Only examined findings are reviewed *)

FindingsOK == StoreType /\ OutcomesJudged

LEMMA ClearIs == Clear => Inserted /\ Deferred = {}
BY DEF Clear, Inserted, Deferred

LEMMA ChallengeKeeps ==
    ASSUME FindingsOK, NEW settled \in SUBSET Pending, NEW examined, NEW ruled, NEW put,
           Challenge(examined, settled, ruled, put)
    PROVE  /\ OutcomesJudged'
           /\ Inserted => Inserted'
<1>1. StoreType
  BY DEF FindingsOK
<1>2. \A f \in Findings : status'[f] =
            CASE f \in ruled           -> "ruled"
              [] f \in settled \ ruled -> "unresolved"
              [] f \in put             -> "deferred"
              [] OTHER                 -> status[f]
  BY DEF Challenge
<1>3. Inserted => Inserted'
  BY <1>2 DEF Inserted, Challenge
<1>4. /\ logged' = logged \cup examined /\ judged' = judged \cup settled
      /\ examined \subseteq settled /\ ruled \subseteq settled
      /\ put \subseteq Pending \ settled
  BY DEF Challenge
<1>5. settled \cap logged = {} /\ put \cap logged = {}
  BY <1>4 DEF Pending
<1>6. Deferred' \cap logged' = {}
  BY <1>2, <1>4, <1>5 DEF FindingsOK, OutcomesJudged, Deferred
<1>7. (logged \cup {f \in Findings : status[f] = "ruled"} \subseteq judged)'
  BY <1>2, <1>4 DEF FindingsOK, OutcomesJudged
<1> QED
  BY <1>3, <1>6, <1>7 DEF OutcomesJudged

(* What work on a stage, done or cut short by an exception, does to the findings. *)
LEMMA EffectKeeps ==
    ASSUME FindingsOK, NEW p \in Procs, NEW s, Effect(p, s) \/ PartialEffect(s)
    PROVE  /\ OutcomesJudged'
           /\ Inserted => Inserted'
           /\ s # "falsify" /\ Clear => Clear'
<1>1. CASE NoEffect
  BY <1>1 DEF FindingsOK, OutcomesJudged, NoEffect, Inserted, Clear, Deferred
<1>2. ASSUME NEW S \in SUBSET Findings, Insert(S)
      PROVE  OutcomesJudged' /\ (Inserted => Inserted') /\ (Clear => Clear')
  <2>1. /\ logged' = logged /\ judged' = judged
        /\ \A f \in Findings : status'[f] = IF f \in S /\ status[f] = "absent"
                                            THEN "unresolved" ELSE status[f]
    BY <1>2 DEF Insert, Set
  <2>2. OutcomesJudged'
    BY <2>1 DEF FindingsOK, OutcomesJudged, Deferred
  <2>3. (Inserted => Inserted') /\ (Clear => Clear')
    BY <2>1 DEF Inserted, Clear
  <2> QED BY <2>2, <2>3
<1>3. ASSUME NEW S \in SUBSET Findings, Adjudicate(S)
      PROVE  OutcomesJudged' /\ (Inserted => Inserted') /\ (Clear => Clear')
  <2>1. /\ logged' = logged /\ judged' = judged
        /\ \A f \in Findings : status'[f] = IF f \in S THEN "unresolved" ELSE status[f]
    BY <1>3 DEF Adjudicate, Set
  <2>2. OutcomesJudged'
    BY <2>1 DEF FindingsOK, OutcomesJudged, Deferred
  <2>3. (Inserted => Inserted') /\ (Clear => Clear')
    BY <2>1 DEF Inserted, Clear
  <2> QED BY <2>2, <2>3
<1>4. CASE Effect(p, s)
  BY <1>1, <1>2, <1>3, <1>4, ChallengeKeeps DEF Effect
<1>5. CASE PartialEffect(s)
  BY <1>1, <1>2, <1>3, <1>5, ChallengeKeeps DEF PartialEffect
<1> QED
  BY <1>4, <1>5

LEMMA DetectInserts ==
    ASSUME FindingsOK, NEW p \in Procs, Effect(p, "detect")
    PROVE  Inserted'
<1>1. Insert(Findings)
  BY DEF Effect
<1> QED
  BY <1>1 DEF Insert, Set, Inserted

(* A falsification that left nothing, or after which nothing is deferred, has
   examined every finding. *)
LEMMA FalsifyClears ==
    ASSUME FindingsOK, Inserted, NEW p \in Procs, Effect(p, "falsify"),
           \/ Deferred' = {}
           \/ ~ \E f \in Pending : status'[f] = "deferred" /\ f \notin logged'
    PROVE  Clear'
<1>1. PICK settled \in SUBSET Pending : \E examined \in SUBSET settled, ruled \in SUBSET settled :
          Challenge(examined, settled, ruled, Pending \ settled)
  BY DEF Effect
<1> PICK examined \in SUBSET settled, ruled \in SUBSET settled :
          Challenge(examined, settled, ruled, Pending \ settled)
  BY <1>1
<1>2. \A f \in Findings : status'[f] =
            CASE f \in ruled             -> "ruled"
              [] f \in settled \ ruled   -> "unresolved"
              [] f \in Pending \ settled -> "deferred"
              [] OTHER                   -> status[f]
  BY DEF Challenge
<1>3. logged' = logged \cup examined /\ judged' = judged \cup settled
  BY DEF Challenge
<1>4. Pending \subseteq Findings /\ \A f \in Pending : f \notin logged
  BY DEF Pending
<1>5. \A f \in Pending \ settled : status'[f] = "deferred" /\ f \notin logged'
  BY <1>2, <1>3, <1>4
<1>6. Pending \subseteq settled
  BY <1>4, <1>5 DEF Deferred
<1>7. \A f \in Findings \ Pending : f \in judged /\ status[f] \in {"unresolved", "ruled"}
  BY DEF FindingsOK, StoreType, OutcomesJudged, Inserted, Pending, Deferred
<1>8. judged' = Findings
  BY <1>3, <1>6, <1>7 DEF FindingsOK, StoreType, Pending
<1>9. \A f \in Findings : status'[f] \in {"unresolved", "ruled"}
  BY <1>2, <1>6, <1>7
<1> QED
  BY <1>8, <1>9 DEF Clear

(* The steps that leave the findings alone keep what WorkHonest and RowHonest say
   of the process and its row. *)
LEMMA StagesNamed == Gated \subseteq Stages /\ {"ingest", "detect", "falsify"} \subseteq Stages \ Gated
                     /\ "none" \notin Stages
BY StagesAre DEF Gated

LEMMA ClaimHonest ==
    ASSUME NEW n, NEW x \in ProcType(n), Placed(x), x.pc = "claim",
           x.row \in Ids, pipelines[x.row] \in RowType,
           pipelines[x.row].status # "completed", RowHonest(pipelines[x.row])
    PROVE  LET y == [x EXCEPT !.pc = "next", !.known = TRUE, !.todo = Remaining(x.row, x.known)]
               r == [pipelines[x.row] EXCEPT !.status = "running"]
           IN  WorkHonest(y, r) /\ RowHonest(r)
<1> DEFINE row == pipelines[x.row]
           todo == Remaining(x.row, x.known)
           y == [x EXCEPT !.pc = "next", !.known = TRUE, !.todo = todo]
           r == [row EXCEPT !.status = "running"]
<1>1. Completed(r) = Completed(row) /\ r.status = "running" /\ r.backlog = row.backlog
  BY MarkedRow DEF RowType
<1>2. "detect" \in todo \/ "detect" \in Completed(row)
  BY StagesNamed DEF Remaining, Done
<1>3. "falsify" \notin todo /\ todo \cap Gated # {} =>
        "falsify" \in Completed(row) /\ ~row.backlog
  BY StagesNamed DEF Remaining, Done
<1>4. y.pc = "next" /\ y.stage = x.stage /\ y.todo = todo /\ y.cmd = x.cmd /\ y.checked = x.checked
  BY DEF ProcType
<1>5. x.stage = "none" /\ x.cmd = "run" /\ x.checked
  BY DEF Placed
<1>6. RowHonest(r)
  <2> HIDE DEF r, row
  <2> QED BY <1>1 DEF RowHonest, row
<1>7. WorkHonest(y, r)
  <2> HIDE DEF y, r, row, todo
  <2> QED BY <1>1, <1>2, <1>3, <1>4, <1>5, StagesNamed DEF WorkHonest, RowHonest, Gated, row
<1> QED
  BY <1>6, <1>7

LEMMA IdentifyHonest ==
    ASSUME NEW n, NEW x \in ProcType(n), Placed(x), x.pc = "identify",
           NEW row \in RowType, RowHonest(row), WorkHonest(x, row)
    PROVE  LET y == [x EXCEPT !.pc = "next",
                              !.todo = IF x.cmd = "resume" /\ Deferred # {}
                                       THEN {"falsify"} ELSE @]
               r == [row EXCEPT !.known = TRUE]
           IN  WorkHonest(y, r) /\ RowHonest(r)
<1> DEFINE todo == IF x.cmd = "resume" /\ Deferred # {} THEN {"falsify"} ELSE x.todo
           y == [x EXCEPT !.pc = "next", !.todo = todo]
           r == [row EXCEPT !.known = TRUE]
<1>1. Completed(r) = Completed(row) /\ r.status = row.status /\ r.backlog = row.backlog
  BY MarkedRow DEF RowType
<1>2. y.pc = "next" /\ y.stage = x.stage /\ y.todo = todo /\ y.cmd = x.cmd /\ y.checked = x.checked
  <2> HIDE DEF todo
  <2> QED BY DEF ProcType
<1>3. x.stage = "none"
  BY DEF Placed
<1>4. RowHonest(r)
  <2> HIDE DEF r
  <2> QED BY <1>1 DEF RowHonest
<1>5. WorkHonest(y, r)
  <2>1. CASE x.cmd = "resume" /\ Deferred # {}
    <3> HIDE DEF y, r
    <3> QED BY <1>1, <1>2, <1>3, <2>1, StagesNamed DEF WorkHonest, Gated
  <2>2. CASE ~(x.cmd = "resume" /\ Deferred # {})
    <3>1. todo = x.todo
      BY <2>2
    <3> HIDE DEF y, r, todo
    <3> QED BY <1>1, <1>2, <1>3, <2>2, <3>1, StagesNamed DEF WorkHonest, Gated
  <2> QED BY <2>1, <2>2
<1> QED
  BY <1>4, <1>5

LEMMA StartHonest ==
    ASSUME NEW n, NEW x \in ProcType(n), Placed(x), x.pc = "next", x.todo # {},
           NEW row \in RowType, RowHonest(row), WorkHonest(x, row)
    PROVE  LET s == First(x.todo)
               y == [x EXCEPT !.pc = "work", !.stage = s, !.todo = @ \ {s}]
               r == Begun(row, s)
           IN  WorkHonest(y, r) /\ RowHonest(r)
<1> DEFINE s == First(x.todo)
           y == [x EXCEPT !.pc = "work", !.stage = s, !.todo = @ \ {s}]
           r == Begun(row, s)
<1>1. /\ s \in x.todo
      /\ "falsify" \in x.todo => s \notin Gated
      /\ "detect" \in x.todo => s \notin Gated \cup {"falsify"}
  BY FirstIsLeft DEF ProcType
<1> HIDE DEF s
<1>2. /\ Completed(r) = Completed(row) \ {s} /\ r.status = row.status
      /\ s # "falsify" => r.backlog = row.backlog
  BY BegunRow DEF Begun, RowType
<1>3. /\ y.pc = "work" /\ y.stage = s /\ y.todo = x.todo \ {s}
      /\ y.cmd = x.cmd /\ y.checked = x.checked
  BY DEF ProcType
<1>4. x.stage = "none"
  BY DEF Placed
<1>5. RowHonest(r)
  <2> HIDE DEF r
  <2> QED BY <1>2 DEF RowHonest
<1>6. WorkHonest(y, r)
  <2> HIDE DEF y, r
  <2> QED BY <1>1, <1>2, <1>3, <1>4, StagesNamed DEF WorkHonest
<1> QED
  BY <1>5, <1>6 DEF s

LEMMA FinishStageHonest ==
    ASSUME NEW n, NEW x \in ProcType(n), Placed(x), x.pc = "finish",
           NEW row \in RowType, RowHonest(row), WorkHonest(x, row),
           NEW held, held = IF x.stage = "falsify" /\ x.left THEN Gated ELSE {},
           row.status # "completed"
    PROVE  LET y == [x EXCEPT !.pc = IF x.stage = "ingest" THEN "identify" ELSE "next",
                              !.todo = @ \ held, !.stage = "none"]
               r == Ended(row, x.stage, "completed", x.left)
           IN  WorkHonest(y, r) /\ RowHonest(r)
<1> DEFINE y == [x EXCEPT !.pc = IF x.stage = "ingest" THEN "identify" ELSE "next",
                          !.todo = @ \ held, !.stage = "none"]
           r == Ended(row, x.stage, "completed", x.left)
<1>1. x.stage \in Stages
  BY DEF Placed, Working
<1>2. /\ Completed(r) = Completed(row) \cup {x.stage} /\ r.status = row.status
      /\ r.backlog = IF x.stage = "falsify" THEN x.left ELSE row.backlog
  <2>1. Completed(r) = Completed(row) \cup {x.stage} /\ r.status = row.status
    BY <1>1, CompletedRow
  <2>2. r.backlog = IF x.stage = "falsify" THEN x.left ELSE row.backlog
    BY DEF Ended, RowType
  <2> QED BY <2>1, <2>2
<1>3. /\ y.pc = IF x.stage = "ingest" THEN "identify" ELSE "next"
      /\ y.stage = "none" /\ y.todo = x.todo \ held
      /\ y.cmd = x.cmd /\ y.checked = x.checked
  BY DEF ProcType
<1>4. RowHonest(r)
  <2> HIDE DEF r
  <2> QED BY <1>2 DEF RowHonest, WorkHonest
<1>5. WorkHonest(y, r)
  <2> HIDE DEF y, r
  <2>1. CASE x.stage = "falsify"
    <3> QED BY <1>1, <1>2, <1>3, <2>1, StagesNamed DEF WorkHonest
  <2>2. CASE x.stage # "falsify"
    <3> QED BY <1>1, <1>2, <1>3, <2>2, StagesNamed DEF WorkHonest
  <2> QED BY <2>1, <2>2
<1> QED
  BY <1>4, <1>5

LEMMA RecheckHonest ==
    ASSUME NEW n, NEW x \in ProcType(n), Placed(x), x.pc = "next", x.todo = {}, ~x.checked,
           NEW row \in RowType, WorkHonest(x, row)
    PROVE  WorkHonest([x EXCEPT !.checked = TRUE,
                                !.todo = IF Deferred = {} THEN Gated ELSE {}], row)
<1> DEFINE todo == IF Deferred = {} THEN Gated ELSE {}
           y == [x EXCEPT !.checked = TRUE, !.todo = todo]
<1>1. y.pc = "next" /\ y.stage = x.stage /\ y.todo = todo /\ y.cmd = x.cmd /\ y.checked
  <2> HIDE DEF todo
  <2> QED BY DEF ProcType
<1>2. x.stage = "none"
  BY DEF Placed
<1>3. WorkHonest(y, row)
  <2> HIDE DEF y
  <2> QED BY <1>1, <1>2, StagesNamed DEF WorkHonest
<1> QED
  BY <1>3

LEMMA FailStageHonest ==
    ASSUME NEW n, NEW x \in ProcType(n), Placed(x), x.pc = "fail",
           NEW row \in RowType, RowHonest(row), WorkHonest(x, row)
    PROVE  LET y == [x EXCEPT !.pc = "close"]
               r == Ended(row, x.stage, "failed", FALSE)
           IN  WorkHonest(y, r) /\ RowHonest(r)
<1> DEFINE y == [x EXCEPT !.pc = "close"]
           r == Ended(row, x.stage, "failed", FALSE)
<1>1. /\ Completed(r) = Completed(row) \ {x.stage} /\ r.status = row.status
      /\ x.stage # "falsify" => r.backlog = row.backlog
  BY FailedRow DEF Ended, RowType
<1>2. /\ y.pc = "close" /\ y.stage = x.stage /\ y.todo = x.todo
      /\ y.cmd = x.cmd /\ y.checked = x.checked
  BY DEF ProcType
<1>3. RowHonest(r)
  <2> HIDE DEF r
  <2> QED BY <1>1 DEF RowHonest
<1>4. WorkHonest(y, r)
  <2> HIDE DEF y, r
  <2> QED BY <1>1, <1>2 DEF WorkHonest
<1> QED
  BY <1>3, <1>4

(* The work of a stage, and a stage that raises. *)
LEMMA WorkHonestNext ==
    ASSUME FindingsOK, NEW p \in Procs, NEW n, NEW x \in ProcType(n), x.pc = "work",
           NEW row, NEW left, WorkHonest(x, row), Effect(p, x.stage),
           left = IF x.stage = "falsify"
                  THEN \E f \in Pending : status'[f] = "deferred" /\ f \notin logged'
                  ELSE x.left
    PROVE  WorkHonest([x EXCEPT !.pc = "finish", !.left = left], row)'
<1> DEFINE y == [x EXCEPT !.pc = "finish", !.left = left]
<1>1. /\ y.pc = "finish" /\ y.stage = x.stage /\ y.todo = x.todo
      /\ y.cmd = x.cmd /\ y.checked = x.checked /\ y.left = left
  BY DEF ProcType
<1>2. (Inserted => Inserted') /\ (x.stage # "falsify" /\ Clear => Clear')
  BY EffectKeeps
<1>3. x.stage = "detect" => Inserted'
  BY DetectInserts
<1>4. x.stage = "falsify" /\ (Deferred' = {} \/ ~left) => Clear'
  <2>1. x.stage = "falsify" => Inserted
    BY DEF WorkHonest
  <2> QED BY <2>1, FalsifyClears
<1>5. WorkHonest(y, row)'
  <2> HIDE DEF y
  <2> QED BY <1>1, <1>2, <1>3, <1>4 DEF WorkHonest
<1> QED
  BY <1>5

LEMMA RaiseHonestNext ==
    ASSUME FindingsOK, NEW p \in Procs, NEW n, NEW x \in ProcType(n), x.pc = "work",
           NEW row, WorkHonest(x, row), PartialEffect(x.stage)
    PROVE  WorkHonest([x EXCEPT !.pc = "fail"], row)'
<1> DEFINE y == [x EXCEPT !.pc = "fail"]
<1>1. /\ y.pc = "fail" /\ y.stage = x.stage /\ y.todo = x.todo
      /\ y.cmd = x.cmd /\ y.checked = x.checked
  BY DEF ProcType
<1>2. Inserted => Inserted'
  BY EffectKeeps
<1>3. WorkHonest(y, row)'
  <2> HIDE DEF y
  <2> QED BY <1>1, <1>2 DEF WorkHonest
<1> QED
  BY <1>3

LEMMA RowsHonestNext ==
    ASSUME FindingsOK, NEW p \in Procs, NEW x, NEW row,
           x.pc = "work", WorkHonest(x, row), Effect(p, x.stage) \/ PartialEffect(x.stage),
           NEW r, RowHonest(r), r = row \/ r.status = "completed"
    PROVE  RowHonest(r)'
<1>1. (Inserted => Inserted') /\ (x.stage # "falsify" /\ Clear => Clear')
  BY EffectKeeps
<1>2. x.stage = "falsify" => "falsify" \notin Completed(row)
  BY DEF WorkHonest
<1> QED
  BY <1>1, <1>2 DEF RowHonest

LEMMA StillHonest ==
    ASSUME UNCHANGED <<status, logged, judged>>, NEW x, NEW row
    PROVE  /\ WorkHonest(x, row)' <=> WorkHonest(x, row)
           /\ RowHonest(row)' <=> RowHonest(row)
           /\ OutcomesJudged' <=> OutcomesJudged
<1>1. (Inserted' <=> Inserted) /\ (Clear' <=> Clear) /\ Deferred' = Deferred
  BY DEF Inserted, Clear, Deferred
<1> QED
  BY <1>1 DEF WorkHonest, RowHonest, OutcomesJudged

LEMMA EmptySeq == ASSUME pipelines \in Seq(RowType), pipelines # <<>>
                  PROVE  Len(pipelines) \in 1 .. Len(pipelines)
OBVIOUS

LEMMA HonestNext ==
    ASSUME Guided, MaxCrashes = 0, ProcessesType, RestType, OutcomesJudged, RowsHonest,
           NEW p \in Procs, OwnHonest(p), Command(p) \/ Step(p) \/ Raise(p) \/ Crash(p)
    PROVE  OutcomesJudged' /\ RowsHonest' /\ OwnHonest(p)'
<1> DEFINE x == proc[p]  i == x.row  row == pipelines[i]  n == Len(pipelines)
<1>1. /\ TypeOK /\ Placed(x) /\ x \in ProcType(n) /\ FindingsOK
      /\ n \in Nat /\ Ids = 1 .. n /\ pipelines \in [Ids -> RowType]
  BY Typed, RowsType, QueriesType DEF ProcessesType, RestType, FindingsOK
<1>2. Live(p) => /\ i \in Ids /\ row \in RowType /\ i = n /\ row.status # "completed"
                 /\ RowHonest(row) /\ WorkHonest(x, row)
  BY RowOfLive DEF OwnHonest, RowsHonest
(* A step that leaves the findings alone. *)
<1>3. ASSUME NEW y, NEW r, Live(p), Becomes(p, y), Rewrite(i, r) \/ (UNCHANGED pipelines /\ r = row),
             UNCHANGED <<status, logged, judged>>, RowHonest(r),
             \/ y = NoProcess
             \/ y.row = i /\ r.status # "completed" /\ WorkHonest(y, r)
      PROVE  OutcomesJudged' /\ RowsHonest' /\ OwnHonest(p)'
  <2>1. /\ proc'[p] = y
        /\ Len(pipelines') = n /\ Ids' = Ids
        /\ \A j \in Ids : pipelines'[j] = IF j = i THEN r ELSE pipelines[j]
    <3>1. proc'[p] = y
      BY <1>1, <1>3 DEF Becomes, ProcessesType
    <3>2. Len(pipelines') = n
      <4>1. pipelines \in Seq(RowType)
        BY DEF ProcessesType
      <4> QED BY <1>2, <1>3, <4>1 DEF Rewrite
    <3>3. Ids' = Ids
      BY <3>2 DEF Ids
    <3>4. \A j \in Ids : pipelines'[j] = IF j = i THEN r ELSE pipelines[j]
      BY <1>1, <1>2, <1>3 DEF Rewrite
    <3> QED BY <3>1, <3>2, <3>3, <3>4
  <2>2. OutcomesJudged'
    BY <1>3, StillHonest
  <2>3. ASSUME NEW j \in Ids
        PROVE  /\ pipelines'[j].status = "completed" \/ j = n
               /\ RowHonest(pipelines'[j])
    BY <1>2, <1>3, <2>1, <2>3 DEF RowsHonest
  <2>4. RowsHonest'
    <3>1. ASSUME NEW j \in Ids, RowHonest(pipelines'[j]) PROVE RowHonest(pipelines[j])'
      BY <1>3, <3>1 DEF RowHonest, Inserted, Clear
    <3> QED BY <2>1, <2>3, <3>1 DEF RowsHonest
  <2>5. OwnHonest(p)'
    <3>1. CASE y = NoProcess
      BY <2>1, <3>1 DEF OwnHonest, Live, NoProcess
    <3>2. CASE y.row = i /\ r.status # "completed" /\ WorkHonest(y, r)
      <4>1. WorkHonest(y, r)'
        BY <1>3, <3>2, StillHonest
      <4> QED BY <1>2, <1>3, <2>1, <3>2, <4>1 DEF OwnHonest
    <3> QED BY <1>3, <3>1, <3>2
  <2> QED BY <2>2, <2>4, <2>5
(* A step that opens a row: every row there is was completed. *)
<1>4. ASSUME NEW cmd \in Commands, NEW parent \in Nat, NEW todo \in SUBSET Stages,
             NEW pc \in {"next", "identify"}, OpenPipeline(p, cmd, parent, todo, pc),
             \A j \in Ids : pipelines[j].status = "completed",
             NEW y, y = Started(cmd, n + 1, todo, pc), WorkHonest(y, NewRow(parent))
      PROVE  OutcomesJudged' /\ RowsHonest' /\ OwnHonest(p)'
  <2>1. /\ proc'[p] = Started(cmd, n + 1, todo, pc)
        /\ Len(pipelines') = n + 1 /\ Ids' = Ids \cup {n + 1}
        /\ pipelines'[n + 1] = NewRow(parent)
        /\ \A j \in Ids : pipelines'[j] = pipelines[j]
    BY <1>1, <1>4, OpenKeeps
  <2>2. UNCHANGED <<status, logged, judged>>
    BY <1>4 DEF OpenPipeline
  <2>3. RowHonest(NewRow(parent))
    BY DEF RowHonest, NewRow, Completed
  <2>4. \A j \in Ids' : /\ pipelines'[j].status = "completed" \/ j = n + 1
                        /\ RowHonest(pipelines'[j])
    BY <1>4, <2>1, <2>3 DEF RowsHonest
  <2>5. RowsHonest'
    <3>1. ASSUME NEW j \in Ids', RowHonest(pipelines'[j]) PROVE RowHonest(pipelines[j])'
      BY <2>2, <3>1 DEF RowHonest, Inserted, Clear
    <3> QED BY <2>1, <2>4, <3>1 DEF RowsHonest
  <2>6. WorkHonest(y, NewRow(parent))'
    BY <1>4, <2>2, StillHonest
  <2>7. OwnHonest(p)'
    <3>1. y.row = n + 1 /\ NewRow(parent).status # "completed"
      BY <1>4 DEF Started, NoProcess, NewRow
    <3> QED BY <1>4, <2>1, <2>6, <3>1 DEF OwnHonest
  <2>8. OutcomesJudged'
    BY <1>1, <2>2, StillHonest DEF FindingsOK
  <2> QED BY <2>5, <2>7, <2>8
(* A step that works on the findings. *)
<1>5. ASSUME NEW y, Live(p), x.pc = "work", Becomes(p, y), UNCHANGED pipelines, y.row = i,
             Effect(p, x.stage) \/ PartialEffect(x.stage), WorkHonest(y, row)'
      PROVE  OutcomesJudged' /\ RowsHonest' /\ OwnHonest(p)'
  <2>1. proc'[p] = y /\ pipelines' = pipelines /\ Ids' = Ids
    BY <1>1, <1>5 DEF Becomes, ProcessesType, Ids
  <2>2. OutcomesJudged'
    BY <1>1, <1>5, EffectKeeps
  <2>3. ASSUME NEW j \in Ids PROVE RowHonest(pipelines[j])'
    <3>1. pipelines[j] = row \/ pipelines[j].status = "completed"
      BY <1>2, <1>5 DEF RowsHonest
    <3>2. RowHonest(pipelines[j])
      BY DEF RowsHonest
    <3>3. PICK c : c = pipelines[j]
      OBVIOUS
    <3>4. PICK d : d = row
      OBVIOUS
    <3>5. RowHonest(c)'
      BY <1>1, <1>2, <1>5, <3>1, <3>2, <3>3, <3>4, RowsHonestNext
    <3> QED BY <2>1, <3>3, <3>5
  <2>4. RowsHonest'
    BY <2>1, <2>3 DEF RowsHonest
  <2>5. OwnHonest(p)'
    BY <1>2, <1>5, <2>1 DEF OwnHonest
  <2> QED BY <2>2, <2>4, <2>5
<1>6. CASE Command(p)
  <2>1. ~Live(p)
    BY <1>6 DEF Command, RunNew, RunFind, Resume, Standalone, MayStart
  <2>2. FindResumable = 0 => \A j \in Ids : pipelines[j].status = "completed"
    BY <1>1, QueriesType
  <2>3. CASE RunNew(p)
    <3>1. PICK cmd \in {"run", "fresh"} : /\ MayStart(p, cmd)
                                          /\ cmd = "run" => FindResumable = 0
                                          /\ OpenPipeline(p, cmd, 0, Stages, "next")
      BY <2>3 DEF RunNew
    <3>2. cmd = "run" /\ cmd \in Commands
      BY <3>1 DEF MayStart, Advised
    <3>3. PICK y : y = Started("run", n + 1, Stages, "next")
      OBVIOUS
    <3>4. WorkHonest(y, NewRow(0))
      BY <3>3, StagesNamed DEF WorkHonest, Started, NoProcess
    <3>5. \A j \in Ids : pipelines[j].status = "completed"
      BY <2>2, <3>1, <3>2
    <3> QED BY <1>4, <3>1, <3>2, <3>3, <3>4, <3>5
  <2>4. CASE RunFind(p)
    <3> PICK y : y = [NoProcess EXCEPT !.pc = "claim", !.cmd = "run",
                                       !.row = FindResumable,
                                       !.known = pipelines[FindResumable].known]
      OBVIOUS
    <3>1. FindResumable \in Ids /\ pipelines[FindResumable].status # "completed"
      BY <1>1, <2>4, QueriesType DEF RunFind
    <3>2. FindResumable = n
      BY <3>1 DEF RowsHonest
    <3>3. proc'[p] = y /\ pipelines' = pipelines /\ UNCHANGED <<status, logged, judged>>
      BY <1>1, <2>4 DEF RunFind, store, Becomes, ProcessesType
    <3>4. OutcomesJudged' /\ RowsHonest'
      BY <1>1, <3>3 DEF FindingsOK, OutcomesJudged, Deferred, RowsHonest, Ids, RowHonest,
         Inserted, Clear
    <3>5. /\ y.pc = "claim" /\ y.stage = "none" /\ y.checked /\ y.cmd = "run"
          /\ y.row = FindResumable
      BY DEF NoProcess
    <3>6. WorkHonest(y, pipelines[n])'
      BY <3>5, StagesNamed DEF WorkHonest
    <3>7. OwnHonest(p)'
      BY <3>1, <3>2, <3>3, <3>5, <3>6 DEF OwnHonest
    <3> QED BY <3>4, <3>7
  <2>5. CASE Resume(p)
    <3>1. /\ OpenPipeline(p, "resume", LatestOfRepo, {}, "identify")
          /\ "resume" \in Commands /\ Advised("resume")
      BY <2>5 DEF Resume, MayStart
    <3>2. FindResumable = 0 /\ pipelines # <<>> /\ Deferred # {}
      BY <3>1 DEF Advised
    <3>3. Inserted
      <4>1. n \in Ids
        BY <1>1, <3>2, EmptySeq DEF ProcessesType
      <4> QED BY <2>2, <3>2, <4>1 DEF RowsHonest, RowHonest
    <3>4. PICK y : y = Started("resume", n + 1, {}, "identify")
      OBVIOUS
    <3>5. WorkHonest(y, NewRow(LatestOfRepo))
      BY <3>2, <3>3, <3>4, StagesNamed DEF WorkHonest, Started, NoProcess
    <3>6. LatestOfRepo \in Nat
      BY <1>1, QueriesType
    <3> QED BY <1>4, <2>2, <3>1, <3>2, <3>4, <3>5, <3>6
  <2>6. ASSUME NEW s \in Metered, Standalone(p, s) PROVE FALSE
    BY <2>6 DEF Standalone, MayStart, Advised, Metered
  <2> QED BY <1>6, <2>3, <2>4, <2>5, <2>6 DEF Command
<1>7. CASE Step(p)
  <2>1. CASE RunClaim(p)
    <3>1. /\ Live(p) /\ x.pc = "claim" /\ UNCHANGED <<status, logged, judged>>
          /\ Becomes(p, [x EXCEPT !.pc = "next", !.known = TRUE, !.todo = Remaining(i, x.known)])
          /\ Rewrite(i, [row EXCEPT !.status = "running"])
      BY <2>1 DEF RunClaim, Live
    <3>2. /\ WorkHonest([x EXCEPT !.pc = "next", !.known = TRUE, !.todo = Remaining(i, x.known)],
                        [row EXCEPT !.status = "running"])
          /\ RowHonest([row EXCEPT !.status = "running"])
      BY <1>1, <1>2, <3>1, ClaimHonest
    <3>3. /\ [x EXCEPT !.pc = "next", !.known = TRUE, !.todo = Remaining(i, x.known)].row = i
          /\ [row EXCEPT !.status = "running"].status # "completed"
      BY <1>1, <1>2, <3>1 DEF ProcType, RowType
    <3> QED BY <1>3, <3>1, <3>2, <3>3
  <2>2. CASE Identify(p)
    <3> DEFINE y == [x EXCEPT !.pc = "next",
                              !.todo = IF x.cmd = "resume" /\ Deferred # {}
                                       THEN {"falsify"} ELSE @]
               r == [row EXCEPT !.known = TRUE]
    <3>1. /\ Live(p) /\ x.pc = "identify" /\ UNCHANGED <<status, logged, judged>>
          /\ Becomes(p, y) /\ Rewrite(i, r)
      BY <2>2 DEF Identify, Live
    <3>2. WorkHonest(y, r) /\ RowHonest(r)
      BY <1>1, <1>2, <3>1, IdentifyHonest
    <3>3. y.row = i /\ r.status # "completed"
      BY <1>1, <1>2, <3>1 DEF ProcType, RowType
    <3> HIDE DEF y, r
    <3> QED BY <1>3, <3>1, <3>2, <3>3
  <2>3. CASE StartStage(p)
    <3> DEFINE s == First(x.todo)
               y == [x EXCEPT !.pc = "work", !.stage = s, !.todo = @ \ {s}]
               r == Begun(row, s)
    <3>1. /\ Live(p) /\ x.pc = "next" /\ x.todo # {} /\ UNCHANGED <<status, logged, judged>>
          /\ Becomes(p, y) /\ Rewrite(i, r)
      BY <2>3 DEF StartStage, Live
    <3>2. WorkHonest(y, r) /\ RowHonest(r)
      BY <1>1, <1>2, <3>1, StartHonest
    <3>3. y.row = i /\ r.status # "completed"
      <4> HIDE DEF s
      <4> QED BY <1>1, <1>2, <3>1, BegunRow DEF ProcType
    <3> HIDE DEF y, r
    <3> QED BY <1>3, <3>1, <3>2, <3>3
  <2>4. CASE Work(p)
    <3> DEFINE left == IF x.stage = "falsify"
                       THEN \E f \in Pending : status'[f] = "deferred" /\ f \notin logged'
                       ELSE x.left
    <3>1. PICK y, c, d : y = [x EXCEPT !.pc = "finish", !.left = left] /\ c = row /\ d = left
      OBVIOUS
    <3>2. /\ Live(p) /\ x.pc = "work" /\ UNCHANGED pipelines /\ Becomes(p, y)
          /\ Effect(p, x.stage)
      BY <2>4, <3>1 DEF Work, Live
    <3>3. WorkHonest(y, c)'
      <4>1. y = [x EXCEPT !.pc = "finish", !.left = d] /\ WorkHonest(x, c)
        BY <1>2, <3>1, <3>2
      <4>2. d = IF x.stage = "falsify"
                THEN \E f \in Pending : status'[f] = "deferred" /\ f \notin logged'
                ELSE x.left
        BY <3>1
      <4> QED BY <1>1, <3>2, <4>1, <4>2, WorkHonestNext
    <3>4. y.row = i /\ proc'[p] = y
      <4> HIDE DEF left
      <4> QED BY <1>1, <3>1, <3>2 DEF ProcType, Becomes, ProcessesType
    <3> QED BY <1>5, <3>1, <3>2, <3>3, <3>4
  <2>5. CASE FinishStage(p)
    <3> DEFINE held == HeldBack(p)
               y == [x EXCEPT !.pc = IF x.stage = "ingest" THEN "identify" ELSE "next",
                              !.todo = @ \ held, !.stage = "none"]
               r == Ended(row, x.stage, "completed", x.left)
    <3>1. /\ Live(p) /\ x.pc = "finish" /\ UNCHANGED <<status, logged, judged>>
          /\ Becomes(p, y) /\ Rewrite(i, r)
      BY <2>5 DEF FinishStage, Live
    <3>2. held = IF x.stage = "falsify" /\ x.left THEN Gated ELSE {}
      BY DEF HeldBack
    <3> HIDE DEF held
    <3>3. WorkHonest(y, r) /\ RowHonest(r)
      BY <1>1, <1>2, <3>1, <3>2, FinishStageHonest
    <3>4. y.row = i
      BY <1>1 DEF ProcType
    <3>5. r.status # "completed"
      BY <1>1, <1>2, <3>1, CompletedRow DEF Placed, Working
    <3> HIDE DEF y, r
    <3> QED BY <1>3, <3>1, <3>3, <3>4, <3>5
  <2>6. CASE Recheck(p)
    <3> DEFINE y == [x EXCEPT !.checked = TRUE, !.todo = IF Deferred = {} THEN Gated ELSE {}]
    <3>1. /\ Live(p) /\ x.pc = "next" /\ x.todo = {} /\ ~x.checked
          /\ UNCHANGED <<pipelines, status, logged, judged>> /\ Becomes(p, y)
      BY <2>6 DEF Recheck, Live, store
    <3>2. WorkHonest(y, row)
      BY <1>1, <1>2, <3>1, RecheckHonest
    <3>3. y.row = i
      BY <1>1 DEF ProcType
    <3> HIDE DEF y
    <3> QED BY <1>2, <1>3, <3>1, <3>2, <3>3
  <2>7. CASE Finish(p)
    <3> DEFINE r == [row EXCEPT !.status = "completed"]
    <3>1. /\ Live(p) /\ x.pc = "next" /\ x.todo = {} /\ UNCHANGED <<status, logged, judged>>
          /\ Becomes(p, NoProcess) /\ Rewrite(i, r)
      BY <2>7 DEF Finish, Live, Close
    <3>2. Inserted
      BY <1>1, <1>2, <3>1 DEF WorkHonest, Placed
    <3>3. RowHonest(r)
      <4>1. r.status = "completed"
        BY <1>2, <3>1 DEF RowType
      <4> HIDE DEF r
      <4> QED BY <3>2, <4>1 DEF RowHonest
    <3> HIDE DEF r
    <3> QED BY <1>3, <3>1, <3>3
  <2>8. CASE FailStage(p)
    <3> DEFINE y == [x EXCEPT !.pc = "close"]
               r == Ended(row, x.stage, "failed", FALSE)
    <3>1. /\ Live(p) /\ x.pc = "fail" /\ UNCHANGED <<status, logged, judged>>
          /\ Becomes(p, y) /\ Rewrite(i, r)
      BY <2>8 DEF FailStage, Live
    <3>2. WorkHonest(y, r) /\ RowHonest(r)
      BY <1>1, <1>2, <3>1, FailStageHonest
    <3>3. y.row = i /\ r.status # "completed"
      BY <1>1, <1>2, <3>1, FailedRow DEF ProcType
    <3> HIDE DEF y, r
    <3> QED BY <1>3, <3>1, <3>2, <3>3
  <2>9. CASE FailPipeline(p)
    <3> DEFINE r == [row EXCEPT !.status = "failed"]
    <3>1. /\ Live(p) /\ UNCHANGED <<status, logged, judged>>
          /\ Becomes(p, NoProcess) /\ Rewrite(i, r)
      BY <2>9 DEF FailPipeline, Live, Close
    <3>2. Completed(r) = Completed(row) /\ r.backlog = row.backlog
      BY <1>2, <3>1, MarkedRow DEF RowType
    <3>3. r.status = "failed"
      BY <1>2, <3>1 DEF RowType
    <3> HIDE DEF r
    <3>4. RowHonest(r)
      BY <1>2, <3>1, <3>2, <3>3 DEF RowHonest
    <3> QED BY <1>3, <3>1, <3>4
  <2> QED
    BY <1>7, <2>1, <2>2, <2>3, <2>4, <2>5, <2>6, <2>7, <2>8, <2>9 DEF Step
<1>8. CASE Raise(p)
  <2>1. PICK y : y = [x EXCEPT !.pc = "fail"]
    OBVIOUS
  <2>2. PICK c : c = row
    OBVIOUS
  <2>3. /\ Live(p) /\ x.pc = "work" /\ UNCHANGED pipelines /\ Becomes(p, y)
        /\ PartialEffect(x.stage)
    BY <1>8, <2>1 DEF Raise, Live
  <2>4. WorkHonest(y, c)'
    BY <1>1, <1>2, <2>1, <2>2, <2>3, RaiseHonestNext
  <2>5. y.row = i /\ proc'[p] = y
    BY <1>1, <2>1, <2>3 DEF ProcType, Becomes, ProcessesType
  <2> QED BY <1>5, <2>2, <2>3, <2>4, <2>5
<1>9. CASE Crash(p)
  BY <1>1, <1>9 DEF Crash, TypeOK
<1> QED
  BY <1>6, <1>7, <1>8, <1>9

(* What is put before the reviewer was examined, and nothing is deferred by then,
   for every scan, however often its stages fail: one operator at a time follows
   the commands that are printed, and no process dies (run() and resume() of
   cli.py).  A death in the middle of falsification breaks it, see README. *)
THEOREM OnlyExaminedAreReviewed ==
    ASSUME Guided, MaxCrashes = 0, \A p, q \in Procs : p = q
    PROVE  Spec => []OnlyExaminedReviewed
<1> DEFINE Inv == /\ ProcessesType /\ RestType /\ OutcomesJudged /\ RowsHonest
                  /\ \A p \in Procs : OwnHonest(p)
<1>1. Init => Inv
  <2> SUFFICES ASSUME Init PROVE Inv
    OBVIOUS
  <2>1. ProcessesType /\ RestType
    <3>1. \A p \in Procs : Placed(proc[p])
      BY DEF Init, NoProcess, Placed, Working
    <3> QED BY <3>1, InitType, Typed
  <2>2. OutcomesJudged
    BY DEF Init, OutcomesJudged, Deferred
  <2>3. Ids = {}
    BY DEF Init, Ids
  <2>4. \A p \in Procs : OwnHonest(p)
    BY DEF Init, NoProcess, OwnHonest, Live
  <2> QED BY <2>1, <2>2, <2>3, <2>4 DEF RowsHonest
<1>2. Inv /\ [Next]_vars => Inv'
  <2> SUFFICES ASSUME Inv, [Next]_vars PROVE Inv'
    OBVIOUS
  <2>1. CASE UNCHANGED vars
    <3>1. UNCHANGED <<pipelines, proc, status, logged, judged>>
      BY <2>1 DEF vars
    <3>2. ProcessesType' /\ RestType'
      BY <2>1, UnchangedType
    <3>3. OutcomesJudged' /\ RowsHonest'
      BY <3>1 DEF OutcomesJudged, Deferred, RowsHonest, Ids, RowHonest, Inserted, Clear
    <3>4. \A p \in Procs : OwnHonest(p)'
      BY <3>1 DEF OwnHonest, Live, WorkHonest, Inserted, Clear, Deferred
    <3> QED BY <3>2, <3>3, <3>4
  <2>2. ASSUME NEW p \in Procs, Command(p) \/ Step(p) \/ Raise(p) \/ Crash(p)
        PROVE  Inv'
    <3>1. ProcessesType' /\ RestType'
      BY <2>2, NextType, NextRest
    <3>2. OutcomesJudged' /\ RowsHonest' /\ OwnHonest(p)'
      BY <2>2, HonestNext
    <3>3. \A q \in Procs : q = p
      OBVIOUS
    <3>4. \A q \in Procs : OwnHonest(q)'
      BY <3>2, <3>3
    <3> QED BY <3>1, <3>2, <3>4
  <2> QED BY <2>1, <2>2 DEF Next
<1>3. Inv => OnlyExaminedReviewed
  <2> SUFFICES ASSUME Inv, NEW p \in Procs, proc[p].pc = "work", proc[p].stage \in Gated
               PROVE  /\ Deferred = {}
                      /\ \A f \in Findings : status[f] = "unresolved" => f \in judged
    BY DEF OnlyExaminedReviewed
  <2>1. Clear
    BY DEF OwnHonest, Live, WorkHonest
  <2> QED BY <2>1, ClearIs DEF Clear
<1> HIDE DEF Inv
<1> QED
  BY <1>1, <1>2, <1>3, PTL DEF Spec
=============================================================================
