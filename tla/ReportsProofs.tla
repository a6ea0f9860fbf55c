---------------------------- MODULE ReportsProofs ----------------------------
(***************************************************************************)
(* What TLAPS proves of Reports, for any number of terminals, findings,    *)
(* commands, rulings and deaths.                                           *)
(***************************************************************************)
EXTENDS Reports, TLAPS

-----------------------------------------------------------------------------
(* Types *)

(* A step of one command leaves the others where they are. *)
LEMMA OneGoes ==
    ASSUME TypeOK, NEW p \in Procs, NEW next \in CommandType, Goes(p, next)
    PROVE  /\ proc' \in [Procs -> CommandType]
           /\ proc'[p] = next
           /\ \A q \in Procs \ {p} : proc'[q] = proc[q]
BY DEF TypeOK, Goes

(* A command is a record of its type, wherever it is moved to. *)
LEMMA PositionsTyped ==
    ASSUME TypeOK, NEW p \in Procs,
           NEW pc \in {"idle", "deferred", "raise", "open", "count", "build", "persist",
                       "inputs", "charts", "simulation", "link", "appendix", "artifacts",
                       "disclose", "backlog", "weigh", "rank", "disclaim", "copy", "as_of",
                       "write"}
    PROVE  proc[p] \in CommandType /\ To(p, pc) \in CommandType
<1>1. proc[p] \in CommandType
  BY DEF TypeOK
<1> QED
  BY <1>1 DEF CommandType, To

(* To changes nothing but the place. *)
LEMMA Advances ==
    ASSUME TypeOK, NEW p \in Procs, NEW pc
    PROVE  /\ To(p, pc).pc = pc
           /\ To(p, pc).kind = proc[p].kind /\ To(p, pc).audit = proc[p].audit
           /\ To(p, pc).by = proc[p].by /\ To(p, pc).alone = proc[p].alone
           /\ To(p, pc).dir = proc[p].dir /\ To(p, pc).members = proc[p].members
           /\ To(p, pc).before = proc[p].before /\ To(p, pc).row = proc[p].row
           /\ To(p, pc).sim = proc[p].sim /\ To(p, pc).counted = proc[p].counted
           /\ To(p, pc).artifacts = proc[p].artifacts
           /\ To(p, pc).weighed = proc[p].weighed /\ To(p, pc).ranked = proc[p].ranked
           /\ To(p, pc).cites = proc[p].cites
<1>1. proc[p] \in CommandType
  BY DEF TypeOK
<1> QED
  BY <1>1 DEF CommandType, To

(* Between two commands. *)
LEMMA IdleTyped == Idle \in CommandType
BY ReportsAssumption DEF Idle, CommandType

(* list_countable_findings keeps part of list_analyzable_findings. *)
LEMMA CountablesTyped == Analyzable \subseteq Findings /\ Countable \subseteq Analyzable
BY DEF Analyzable, Countable

(* Nothing has been quantified. *)
LEMMA InitTyped == Init => TypeOK
<1> SUFFICES ASSUME Init PROVE TypeOK
  OBVIOUS
<1>1. proc \in [Procs -> CommandType]
  BY IdleTyped DEF Init
<1>2. 0 \in 0 .. MaxCommands /\ 0 \in 0 .. MaxEvents
  BY ReportsAssumption
<1>3. Absent \in SimulationType
  BY <1>2 DEF Absent, SimulationType
<1> QED
  BY <1>1, <1>2, <1>3 DEF Init, TypeOK

(* Steps that only move their command. *)
LEMMA MovesTyped ==
    ASSUME TypeOK, NEW p \in Procs, NEW next \in CommandType, Goes(p, next),
           UNCHANGED <<store, audit, files, count>>
    PROVE  TypeOK'
<1>1. proc' \in [Procs -> CommandType]
  BY OneGoes
<1> QED
  BY <1>1 DEF TypeOK, store, audit, count, ScenarioType, SimulationType

(* All of them. *)
LEMMA MovingTyped ==
    ASSUME TypeOK, NEW p \in Procs,
           \/ CheckDeferred(p) \/ CheckOpen(p) \/ CountBefore(p) \/ Build(p) \/ Artifacts(p)
           \/ Disclose(p) \/ Weigh(p) \/ Rank(p) \/ Disclaim(p) \/ AsOf(p)
    PROVE  TypeOK'
<1>0. Len(scenarios) \in Nat /\ Len(sims) \in Nat
  BY DEF TypeOK
<1>1. CASE CheckDeferred(p)
  BY <1>1, PositionsTyped, IdleTyped, MovesTyped DEF CheckDeferred, Ends, Goes
<1>2. CASE CheckOpen(p)
  BY <1>2, PositionsTyped, IdleTyped, MovesTyped DEF CheckOpen, Ends, Goes
<1>3. CASE CountBefore(p)
  <2>1. To(p, "build") \in CommandType
    BY PositionsTyped
  <2> DEFINE size == IF Countable = {} THEN 0 ELSE 1
  <2>2. size \in Int
    OBVIOUS
  <2> HIDE DEF size
  <2>3. [To(p, "build") EXCEPT !.before = Len(scenarios), !.counted = size] \in CommandType
    BY <1>0, <2>1, <2>2 DEF CommandType
  <2>4. CountBefore(p) =>
          \/ Goes(p, [To(p, "build") EXCEPT !.before = Len(scenarios), !.counted = size])
          \/ Ends(p)
    BY DEF CountBefore, size
  <2> QED
    BY <1>3, <2>3, <2>4, IdleTyped, MovesTyped DEF CountBefore, Ends, Goes
<1>4. CASE Build(p)
  <2> DEFINE next == IF Countable = {} THEN "appendix"
                     ELSE IF proc[p].audit THEN "persist" ELSE "charts"
  <2>1. next \in {"appendix", "persist", "charts"}
    OBVIOUS
  <2> HIDE DEF next
  <2>2. To(p, next) \in CommandType /\ Countable \in SUBSET Findings
    BY <2>1, PositionsTyped, CountablesTyped
  <2>3. [To(p, next) EXCEPT !.members = Countable] \in CommandType
    BY <2>2 DEF CommandType
  <2> QED
    BY <1>4, <2>3, IdleTyped, MovesTyped DEF Build, Ends, Goes, next
<1>5. CASE Artifacts(p)
  <2>1. To(p, "disclose") \in CommandType /\ proc[p] \in CommandType
    BY PositionsTyped
  <2>2. proc[p].before \in Nat
    BY <2>1 DEF CommandType
  <2>3. Len(scenarios) - proc[p].before \in Int
    BY <1>0, <2>2
  <2>4. [To(p, "disclose") EXCEPT
           !.artifacts = {a \in {"charts", "appendix"} : files["risk"][a] # Absent},
           !.counted = IF proc[p].audit THEN Len(scenarios) - proc[p].before ELSE @]
          \in CommandType
    BY <2>1, <2>3 DEF CommandType
  <2> QED
    BY <1>5, <2>4, MovesTyped DEF Artifacts
<1>6. CASE Disclose(p)
  BY <1>6, PositionsTyped, IdleTyped, MovesTyped DEF Disclose, Ends, Goes
<1>7. CASE Weigh(p)
  <2>1. To(p, "rank") \in CommandType
    BY PositionsTyped
  <2>2. [To(p, "rank") EXCEPT !.weighed = Analyzable] \in CommandType
    BY <2>1, CountablesTyped DEF CommandType
  <2> QED
    BY <1>7, <2>2, MovesTyped DEF Weigh
<1>8. CASE Rank(p)
  <2>1. To(p, "disclaim") \in CommandType
    BY PositionsTyped
  <2>2. [To(p, "disclaim") EXCEPT !.ranked = Countable \cap proc[p].weighed] \in CommandType
    BY <2>1, CountablesTyped DEF CommandType
  <2> QED
    BY <1>8, <2>2, MovesTyped DEF Rank
<1>9. CASE Disclaim(p)
  <2>1. To(p, "copy") \in CommandType /\ To(p, "build") \in CommandType
    BY PositionsTyped
  <2> QED
    BY <1>9, <2>1, IdleTyped, MovesTyped DEF Disclaim, Ends, Goes
<1>10. CASE AsOf(p)
  <2>1. Cited(p) \in Nat /\ To(p, "write") \in CommandType
    BY <1>0, PositionsTyped DEF Cited
  <2>2. [To(p, "write") EXCEPT !.cites = Cited(p)] \in CommandType
    BY <2>1 DEF CommandType
  <2> QED
    BY <1>10, <2>2, MovesTyped DEF AsOf
<1> QED
  BY <1>1, <1>2, <1>3, <1>4, <1>5, <1>6, <1>7, <1>8, <1>9, <1>10

(* Steps that write rows or files. *)
LEMMA WritingTyped ==
    ASSUME TypeOK, NEW p \in Procs,
           \/ Persist(p) \/ PersistInputs(p) \/ Charts(p) \/ Simulation(p) \/ Link(p)
           \/ Appendix(p) \/ Backlog(p) \/ Copy(p) \/ WriteMemo(p),
           At(p, "inputs") \/ At(p, "link") => proc[p].row \in DOMAIN scenarios,
           At(p, "link") => proc[p].sim \in DOMAIN sims
    PROVE  TypeOK'
<1>0. /\ Len(scenarios) \in Nat /\ Len(sims) \in Nat
      /\ scenarios \in Seq(ScenarioType) /\ sims \in Seq(SimulationType)
  BY DEF TypeOK
<1>1. /\ proc[p] \in CommandType
      /\ Shown(p) \in SimulationType
      /\ proc[p].members \in SUBSET Findings /\ proc[p].dir \in {"risk", "memo"}
      /\ proc[p].by \in 0 .. MaxCommands
  BY DEF TypeOK, Shown, CommandType, SimulationType
<1>2. CASE Persist(p)
  <2> DEFINE row == [members |-> proc[p].members, inputs |-> FALSE, sim |-> 0]
  <2>1. row \in ScenarioType
    BY <1>0, <1>1 DEF ScenarioType
  <2> HIDE DEF row
  <2>2. scenarios' = Append(scenarios, row)
    BY <1>2 DEF Persist, row
  <2>3. scenarios' \in Seq(ScenarioType) /\ Len(scenarios') \in Nat
    BY <1>0, <2>1, <2>2
  <2>4. sims' = sims
    BY <1>2 DEF Persist
  <2>5. scenarios' \in Seq(ScenarioType')
    BY <2>3, <2>4 DEF ScenarioType
  <2>6. To(p, "inputs") \in CommandType
    BY PositionsTyped
  <2>7. [To(p, "inputs") EXCEPT !.row = Len(scenarios')] \in CommandType
    BY <2>3, <2>6 DEF CommandType
  <2>8. proc' \in [Procs -> CommandType]
    BY <1>2, <2>7, OneGoes DEF Persist
  <2> QED
    BY <1>2, <2>5, <2>8 DEF Persist, TypeOK, store, count, SimulationType
<1>3. CASE PersistInputs(p)
  <2>1. /\ proc[p].row \in DOMAIN scenarios
        /\ scenarios' = [scenarios EXCEPT ![proc[p].row].inputs = TRUE]
        /\ sims' = sims
    BY <1>3 DEF PersistInputs
  <2>2. [scenarios[proc[p].row] EXCEPT !.inputs = TRUE] \in ScenarioType
    <3>1. scenarios[proc[p].row] \in ScenarioType
      BY <1>0, <2>1
    <3> QED
      BY <3>1 DEF ScenarioType
  <2>3. scenarios' \in Seq(ScenarioType)
    BY <1>0, <2>1, <2>2
  <2>4. scenarios' \in Seq(ScenarioType')
    BY <2>1, <2>3 DEF ScenarioType
  <2>5. proc' \in [Procs -> CommandType]
    BY <1>3, PositionsTyped, OneGoes DEF PersistInputs
  <2> QED
    BY <1>3, <2>4, <2>5 DEF PersistInputs, TypeOK, store, count, SimulationType
<1>4. CASE Simulation(p)
  <2>1. sims' = Append(sims, Shown(p)) /\ scenarios' = scenarios
    BY <1>4 DEF Simulation
  <2>2. sims' \in Seq(SimulationType) /\ Len(sims') = Len(sims) + 1
    BY <1>0, <1>1, <2>1
  <2>3. ScenarioType \subseteq ScenarioType'
    BY <1>0, <2>2 DEF ScenarioType
  <2>4. scenarios' \in Seq(ScenarioType')
    BY <1>0, <2>1, <2>3
  <2>5. To(p, "link") \in CommandType
    BY PositionsTyped
  <2>6. [To(p, "link") EXCEPT !.sim = Len(sims')] \in CommandType
    <3>1. Len(sims') \in Nat
      BY <1>0, <2>2
    <3> QED
      BY <2>5, <3>1 DEF CommandType
  <2>7. proc' \in [Procs -> CommandType]
    BY <1>4, <2>6, OneGoes DEF Simulation
  <2> QED
    BY <1>4, <2>2, <2>4, <2>7 DEF Simulation, TypeOK, store, count, SimulationType
<1>5. CASE Link(p)
  <2>1. /\ proc[p].row \in DOMAIN scenarios /\ proc[p].sim \in DOMAIN sims
        /\ scenarios' = [scenarios EXCEPT ![proc[p].row].sim = proc[p].sim]
        /\ sims' = sims
    BY <1>5 DEF Link, Linked
  <2>2. [scenarios[proc[p].row] EXCEPT !.sim = proc[p].sim] \in ScenarioType
    <3>1. scenarios[proc[p].row] \in ScenarioType /\ proc[p].sim \in 0 .. Len(sims)
      BY <1>0, <2>1
    <3> QED
      BY <3>1 DEF ScenarioType
  <2>3. scenarios' \in Seq(ScenarioType)
    BY <1>0, <2>1, <2>2
  <2>4. scenarios' \in Seq(ScenarioType')
    BY <2>1, <2>3 DEF ScenarioType
  <2>5. proc' \in [Procs -> CommandType]
    BY <1>5, PositionsTyped, OneGoes DEF Link
  <2> QED
    BY <1>5, <2>4, <2>5 DEF Link, TypeOK, store, count, SimulationType
<1>6. CASE Charts(p)
  <2>1. files' = [files EXCEPT ![proc[p].dir].charts = Shown(p)]
    BY <1>6 DEF Charts
  <2>2. proc' \in [Procs -> CommandType]
    BY <1>6, PositionsTyped, OneGoes DEF Charts
  <2>3. \A dir \in {"risk", "memo"} :
          files'[dir] \in [charts : SimulationType, appendix : SimulationType]
    BY <1>1, <2>1 DEF TypeOK
  <2> QED
    BY <1>1, <1>6, <2>1, <2>2, <2>3
       DEF Charts, TypeOK, store, audit, count, SimulationType, ScenarioType
<1>7. CASE Appendix(p)
  <2>1. files' = [files EXCEPT ![proc[p].dir].appendix = Shown(p)]
    BY <1>7 DEF Appendix
  <2>2. proc' \in [Procs -> CommandType]
    BY <1>7, PositionsTyped, OneGoes DEF Appendix
  <2>3. \A dir \in {"risk", "memo"} :
          files'[dir] \in [charts : SimulationType, appendix : SimulationType]
    BY <1>1, <2>1 DEF TypeOK
  <2> QED
    BY <1>1, <1>7, <2>1, <2>2, <2>3
       DEF Appendix, TypeOK, store, audit, count, SimulationType, ScenarioType
<1>8. CASE Backlog(p)
  <2>1. files' = [files EXCEPT !.backlog = Countable] /\ Countable \subseteq Findings
    BY <1>8, CountablesTyped DEF Backlog
  <2>2. proc' \in [Procs -> CommandType]
    BY <1>8, PositionsTyped, IdleTyped, OneGoes DEF Backlog, Ends, Goes
  <2> QED
    BY <1>8, <2>1, <2>2 DEF Backlog, TypeOK, store, audit, count, SimulationType, ScenarioType
<1>9. CASE Copy(p)
  <2>1. proc' \in [Procs -> CommandType]
    <3>1. \A a : [proc[p] EXCEPT !.artifacts = @ \ {a}] \in CommandType
      BY <1>1 DEF CommandType
    <3> QED
      BY <1>9, <3>1, PositionsTyped, OneGoes DEF Copy
  <2>2. CASE files' = files
    BY <1>9, <2>1, <2>2 DEF Copy, TypeOK, store, audit, count, SimulationType, ScenarioType
  <2>3. ASSUME NEW a \in proc[p].artifacts, files' = [files EXCEPT !["memo"][a] = Copied(p, a)]
        PROVE  TypeOK'
    <3>1. a \in {"charts", "appendix"}
      BY <1>1 DEF CommandType
    <3>2. Copied(p, a) \in SimulationType
      BY <3>1 DEF Copied, TypeOK
    <3>3. \A dir \in {"risk", "memo"} :
            files'[dir] \in [charts : SimulationType, appendix : SimulationType]
      BY <2>3, <3>1, <3>2 DEF TypeOK
    <3> QED
      BY <1>9, <2>1, <2>3, <3>3
         DEF Copy, TypeOK, store, audit, count, SimulationType, ScenarioType
  <2> QED
    BY <1>9, <2>2, <2>3 DEF Copy
<1>10. CASE WriteMemo(p)
  <2>1. proc' \in [Procs -> CommandType]
    BY <1>10, IdleTyped, OneGoes DEF WriteMemo, Ends, Goes
  <2>2. /\ DOMAIN files' = DOMAIN files
        /\ \A x \in {"risk", "memo", "backlog"} : files'[x] = files[x]
        /\ files'.report.by = proc[p].by
    BY <1>10 DEF WriteMemo, TypeOK
  <2> QED
    BY <1>1, <1>10, <2>1, <2>2
       DEF WriteMemo, TypeOK, store, audit, count, SimulationType, ScenarioType
<1> QED
  BY <1>2, <1>3, <1>4, <1>5, <1>6, <1>7, <1>8, <1>9, <1>10

(* Being disturbed. *)
LEMMA NotAloneTyped ==
    ASSUME NEW c \in CommandType
    PROVE  [c EXCEPT !.alone = FALSE] \in CommandType
BY DEF CommandType

(* Disturbs only says of commands that they are not alone. *)
LEMMA DisturbsTyped ==
    ASSUME NEW others, NEW new \in [Procs -> CommandType]
    PROVE  /\ Disturbs(others, new) \in [Procs -> CommandType]
           /\ \A q \in Procs : Disturbs(others, new)[q] =
                IF q \in others THEN [new[q] EXCEPT !.alone = FALSE] ELSE new[q]
<1>1. \A q \in Procs : new[q] \in CommandType
  OBVIOUS
<1>2. \A q \in Procs : [new[q] EXCEPT !.alone = FALSE] \in CommandType
  BY <1>1, NotAloneTyped
<1> QED
  BY <1>1, <1>2 DEF Disturbs

(* A new command. *)
LEMMA StartTyped ==
    ASSUME TypeOK, NEW p \in Procs, Start(p)
    PROVE  TypeOK'
<1>1. PICK c \in Commands :
        LET first == CASE c.kind = "quantify" -> "count"
                       [] c.kind = "finalize" -> "deferred"
                       [] c.kind = "memo"     -> "weigh"
                       [] c.kind = "backlog"  -> "backlog"
            begun == [Idle EXCEPT !.pc = first, !.kind = c.kind, !.audit = c.audit,
                                  !.by = commands + 1, !.alone = (Running = {}),
                                  !.dir = IF c.kind = "memo" THEN "memo" ELSE "risk"]
        IN  proc' = Disturbs(Running, [proc EXCEPT ![p] = begun])
  BY DEF Start
<1> DEFINE first == CASE c.kind = "quantify" -> "count"
                      [] c.kind = "finalize" -> "deferred"
                      [] c.kind = "memo"     -> "weigh"
                      [] c.kind = "backlog"  -> "backlog"
           dir == IF c.kind = "memo" THEN "memo" ELSE "risk"
           alone == Running = {}
           begun == [Idle EXCEPT !.pc = first, !.kind = c.kind, !.audit = c.audit,
                                 !.by = commands + 1, !.alone = alone, !.dir = dir]
<1>2. /\ c.kind \in {"quantify", "finalize", "memo", "backlog"} /\ c.audit \in BOOLEAN
      /\ first \in {"count", "deferred", "weigh", "backlog"} /\ dir \in {"risk", "memo"}
      /\ alone \in BOOLEAN
  BY ReportsAssumption
<1>3. commands + 1 \in 0 .. MaxCommands
  BY ReportsAssumption DEF Start, TypeOK
<1>4. proc' = Disturbs(Running, [proc EXCEPT ![p] = begun])
  BY <1>1
<1> HIDE DEF first, dir, alone
<1>5. begun \in CommandType
  BY <1>2, <1>3, IdleTyped DEF CommandType
<1> HIDE DEF begun
<1>6. [proc EXCEPT ![p] = begun] \in [Procs -> CommandType]
  BY <1>5 DEF TypeOK
<1>7. proc' \in [Procs -> CommandType]
  BY <1>4, <1>6, DisturbsTyped
<1> QED
  BY <1>3, <1>7 DEF Start, TypeOK, store, audit, SimulationType, ScenarioType

(* finalize raises review requests. *)
LEMMA RaiseTyped ==
    ASSUME TypeOK, NEW p \in Procs, Raise(p)
    PROVE  TypeOK'
<1> DEFINE new == [proc EXCEPT ![p].pc = "open"]
           others == IF requested' = requested THEN {} ELSE Running \ {p}
<1>1. proc' = Disturbs(others, new)
  BY DEF Raise
<1>2. [proc[p] EXCEPT !.pc = "open"] \in CommandType
  BY PositionsTyped DEF To
<1>3. new \in [Procs -> CommandType]
  BY <1>2 DEF TypeOK
<1> HIDE DEF new, others
<1>4. proc' \in [Procs -> CommandType]
  BY <1>1, <1>3, DisturbsTyped
<1> QED
  BY <1>4 DEF Raise, TypeOK, audit, count, SimulationType, ScenarioType

(* A death, a verdict, a decision. *)
LEMMA EventsTyped ==
    ASSUME TypeOK,
           \/ \E p \in Procs : Die(p)
           \/ \E f \in Findings : Examine(f) \/ Decide(f)
    PROVE  TypeOK'
<1>1. ASSUME events < MaxEvents PROVE events + 1 \in 0 .. MaxEvents
  BY <1>1, ReportsAssumption DEF TypeOK
<1>2. ASSUME NEW p \in Procs, Die(p) PROVE TypeOK'
  <2>1. proc' \in [Procs -> CommandType]
    BY <1>2, IdleTyped, OneGoes DEF Die, Ends, Goes
  <2> QED
    BY <1>1, <1>2, <2>1 DEF Die, TypeOK, store, audit, SimulationType, ScenarioType
<1>3. ASSUME Disturbed PROVE proc' \in [Procs -> CommandType]
  BY <1>3, DisturbsTyped DEF Disturbed, TypeOK
<1>4. ASSUME NEW f \in Findings, Examine(f) PROVE TypeOK'
  BY <1>1, <1>3, <1>4 DEF Examine, TypeOK, audit, SimulationType, ScenarioType
<1>5. ASSUME NEW f \in Findings, Decide(f) PROVE TypeOK'
  BY <1>1, <1>3, <1>5 DEF Decide, TypeOK, audit, SimulationType, ScenarioType
<1> QED
  BY <1>2, <1>4, <1>5

-----------------------------------------------------------------------------
(* The trail of an audit *)

(* A command takes up no row and no simulation in a step. *)
Follows(q) ==
    /\ proc'[q].pc \in {"persist", "inputs", "simulation", "link"} => proc'[q].audit
    /\ Auditing(q)' =>
         /\ Auditing(q)
         /\ proc'[q].row = proc[q].row /\ proc'[q].members = proc[q].members
         /\ At(q, "inputs") => At(q, "inputs")'
    /\ At(q, "link")' => At(q, "link") /\ proc'[q].sim = proc[q].sim

(* So the trail of every audit stays what it was. *)
LEMMA FollowingKeeps ==
    ASSUME AuditInv, TypeOK', UNCHANGED audit, \A q \in Procs : Follows(q)
    PROVE  AuditInv'
<1>1. scenarios' = scenarios /\ sims' = sims
  BY DEF audit
<1>2. \A q \in Procs :
         /\ proc'[q].pc \in {"persist", "inputs", "simulation", "link"} => proc'[q].audit
         /\ Auditing(q)' => HoldsRow(q)'
         /\ At(q, "link")' => HoldsSimulation(q)'
  <2> TAKE q \in Procs
  <2>1. ASSUME Auditing(q)' PROVE HoldsRow(q)'
    BY <1>1, <2>1 DEF Follows, AuditInv, HoldsRow, At
  <2>2. ASSUME At(q, "link")' PROVE HoldsSimulation(q)'
    <3>1. Auditing(q)'
      BY <2>2 DEF Follows, Auditing, At
    <3> QED
      BY <1>1, <2>2, <3>1 DEF Follows, AuditInv, HoldsSimulation
  <2> QED
    BY <2>1, <2>2 DEF Follows
<1>3. \A q, x \in Procs : q # x =>
         /\ Auditing(q)' /\ Auditing(x)' => proc'[q].row # proc'[x].row
         /\ At(q, "link")' /\ At(x, "link")' => proc'[q].sim # proc'[x].sim
  BY DEF Follows, AuditInv
<1>4. AuditTrailHolds'
  BY <1>1 DEF AuditInv, AuditTrailHolds
<1> QED
  BY <1>2, <1>3, <1>4 DEF AuditInv, At, Auditing

(* A new scenario takes a row that no other command holds. *)
LEMMA PersistKeeps ==
    ASSUME AuditInv, NEW p \in Procs, Persist(p)
    PROVE  AuditInv'
<1>0. TypeOK /\ scenarios \in Seq(ScenarioType) /\ sims \in Seq(SimulationType)
      /\ proc[p] \in CommandType
  BY PositionsTyped DEF AuditInv, TypeOK
<1>1. TypeOK'
  BY <1>0, WritingTyped DEF Persist, At
<1> DEFINE row == [members |-> proc[p].members, inputs |-> FALSE, sim |-> 0]
<1>2. /\ scenarios' = Append(scenarios, row) /\ sims' = sims
      /\ At(p, "persist") /\ Goes(p, [To(p, "inputs") EXCEPT !.row = Len(scenarios')])
  BY DEF Persist
<1>3. /\ Len(scenarios') = Len(scenarios) + 1 /\ Len(scenarios) \in Nat
      /\ scenarios'[Len(scenarios')] = row
      /\ \A i \in DOMAIN scenarios : scenarios'[i] = scenarios[i]
      /\ DOMAIN scenarios' = DOMAIN scenarios \cup {Len(scenarios')}
      /\ Len(scenarios') \notin DOMAIN scenarios
  BY <1>0, <1>2 DEF ScenarioType
<1>4. /\ \A q \in Procs \ {p} : proc'[q] = proc[q]
      /\ proc'[p].pc = "inputs" /\ proc'[p].audit = proc[p].audit
      /\ proc'[p].row = Len(scenarios') /\ proc'[p].members = proc[p].members
  <2>1. To(p, "inputs") \in CommandType
    BY <1>0, PositionsTyped
  <2>2. [To(p, "inputs") EXCEPT !.row = Len(scenarios')] \in CommandType
    <3>1. Len(scenarios') \in Nat
      BY <1>3
    <3> QED
      BY <2>1, <3>1 DEF CommandType
  <2>3. proc'[p] = [To(p, "inputs") EXCEPT !.row = Len(scenarios')]
        /\ \A q \in Procs \ {p} : proc'[q] = proc[q]
    BY <1>0, <1>2, <2>2, OneGoes
  <2>4. /\ To(p, "inputs").pc = "inputs" /\ To(p, "inputs").audit = proc[p].audit
        /\ To(p, "inputs").row = proc[p].row /\ To(p, "inputs").members = proc[p].members
    BY <1>0, Advances
  <2> QED
    BY <2>1, <2>3, <2>4 DEF CommandType
<1> HIDE DEF row
<1>5. row.members = proc[p].members /\ row.sim = 0
  BY DEF row
<1>6. proc[p].audit
  BY <1>2 DEF AuditInv, At
<1>7. ASSUME NEW q \in Procs
      PROVE  /\ proc'[q].pc \in {"persist", "inputs", "simulation", "link"} => proc'[q].audit
             /\ Auditing(q)' => HoldsRow(q)'
             /\ At(q, "link")' => HoldsSimulation(q)'
  <2>1. CASE q = p
    BY <1>3, <1>4, <1>5, <1>6, <2>1 DEF HoldsRow, Auditing, At
  <2>2. CASE q # p
    <3>1. proc'[q] = proc[q]
      BY <1>4, <2>2
    <3>2. Auditing(q)' => HoldsRow(q)'
      BY <1>3, <3>1 DEF AuditInv, Auditing, HoldsRow
    <3>3. At(q, "link")' => HoldsSimulation(q)'
      <4>1. SUFFICES ASSUME At(q, "link")' PROVE HoldsSimulation(q)'
        OBVIOUS
      <4>2. HoldsSimulation(q)
        BY <3>1, <4>1 DEF AuditInv, At
      <4>3. proc[q].sim # 0
        BY <1>0, <4>2 DEF HoldsSimulation
      <4> QED
        BY <1>2, <1>3, <1>5, <3>1, <4>2, <4>3 DEF HoldsSimulation
    <3> QED
      BY <3>1, <3>2, <3>3 DEF AuditInv
  <2> QED
    BY <2>1, <2>2
<1>8. ASSUME NEW q \in Procs, NEW x \in Procs, q # x
      PROVE  /\ Auditing(q)' /\ Auditing(x)' => proc'[q].row # proc'[x].row
             /\ At(q, "link")' /\ At(x, "link")' => proc'[q].sim # proc'[x].sim
  <2>1. \A y \in Procs \ {p} : Auditing(y)' => proc'[y].row \in DOMAIN scenarios
    BY <1>4 DEF AuditInv, Auditing, HoldsRow
  <2> QED
    BY <1>3, <1>4, <1>8, <2>1 DEF AuditInv, Auditing, At
<1>9. AuditTrailHolds'
  BY <1>2, <1>3, <1>5 DEF AuditInv, AuditTrailHolds
<1> QED
  BY <1>1, <1>7, <1>8, <1>9 DEF AuditInv

(* Its inputs are recorded beside it. *)
LEMMA PersistInputsKeeps ==
    ASSUME AuditInv, NEW p \in Procs, PersistInputs(p)
    PROVE  AuditInv'
<1>0. /\ TypeOK /\ scenarios \in Seq(ScenarioType) /\ sims \in Seq(SimulationType)
      /\ proc[p] \in CommandType
      /\ proc[p].audit /\ Auditing(p) /\ HoldsRow(p) /\ proc[p].row \in DOMAIN scenarios
  BY PositionsTyped DEF AuditInv, TypeOK, PersistInputs, At, Auditing, HoldsRow
<1>1. TypeOK'
  BY <1>0, WritingTyped DEF PersistInputs, At
<1>2. /\ scenarios' = [scenarios EXCEPT ![proc[p].row].inputs = TRUE] /\ sims' = sims
      /\ At(p, "inputs") /\ Goes(p, To(p, "charts"))
  BY DEF PersistInputs
<1>3. /\ DOMAIN scenarios' = DOMAIN scenarios
      /\ \A i \in DOMAIN scenarios :
           /\ scenarios'[i].members = scenarios[i].members
           /\ scenarios'[i].sim = scenarios[i].sim
           /\ scenarios[i].inputs => scenarios'[i].inputs
      /\ scenarios'[proc[p].row].inputs
  <2>1. \A i \in DOMAIN scenarios : scenarios[i] \in ScenarioType
    BY <1>0
  <2> QED
    BY <1>0, <1>2, <2>1 DEF ScenarioType
<1>4. /\ \A q \in Procs \ {p} : proc'[q] = proc[q]
      /\ proc'[p].pc = "charts" /\ proc'[p].audit = proc[p].audit
      /\ proc'[p].row = proc[p].row /\ proc'[p].members = proc[p].members
  <2>1. To(p, "charts") \in CommandType
    BY <1>0, PositionsTyped
  <2>2. proc'[p] = To(p, "charts") /\ \A q \in Procs \ {p} : proc'[q] = proc[q]
    BY <1>0, <1>2, <2>1, OneGoes
  <2>3. /\ To(p, "charts").pc = "charts" /\ To(p, "charts").audit = proc[p].audit
        /\ To(p, "charts").row = proc[p].row /\ To(p, "charts").members = proc[p].members
    BY <1>0, Advances
  <2> QED
    BY <2>2, <2>3
<1>5. ASSUME NEW q \in Procs
      PROVE  /\ proc'[q].pc \in {"persist", "inputs", "simulation", "link"} => proc'[q].audit
             /\ Auditing(q)' => HoldsRow(q)'
             /\ At(q, "link")' => HoldsSimulation(q)'
  <2>1. CASE q = p
    BY <1>0, <1>3, <1>4, <2>1 DEF HoldsRow, Auditing, At
  <2>2. CASE q # p
    BY <1>2, <1>3, <1>4, <2>2 DEF AuditInv, Auditing, HoldsRow, HoldsSimulation, At
  <2> QED
    BY <2>1, <2>2
<1>6. ASSUME NEW q \in Procs, NEW x \in Procs, q # x
      PROVE  /\ Auditing(q)' /\ Auditing(x)' => proc'[q].row # proc'[x].row
             /\ At(q, "link")' /\ At(x, "link")' => proc'[q].sim # proc'[x].sim
  <2>1. \A y \in Procs : /\ Auditing(y)' => Auditing(y) /\ proc'[y].row = proc[y].row
                         /\ At(y, "link")' => y # p
    BY <1>0, <1>4 DEF Auditing, At
  <2> QED
    BY <1>4, <1>6, <2>1 DEF AuditInv, At
<1>7. AuditTrailHolds'
  BY <1>2, <1>3 DEF AuditInv, AuditTrailHolds
<1> QED
  BY <1>1, <1>5, <1>6, <1>7 DEF AuditInv

(* A new simulation is one that no scenario is linked to. *)
LEMMA SimulationKeeps ==
    ASSUME AuditInv, NEW p \in Procs, Simulation(p)
    PROVE  AuditInv'
<1>0. /\ TypeOK /\ scenarios \in Seq(ScenarioType) /\ sims \in Seq(SimulationType)
      /\ proc[p] \in CommandType
      /\ proc[p].audit /\ Auditing(p) /\ HoldsRow(p) /\ ~At(p, "inputs")
  BY PositionsTyped DEF AuditInv, TypeOK, Simulation, At, Auditing
<1>1. TypeOK'
  BY <1>0, WritingTyped DEF Simulation, At
<1>2. /\ sims' = Append(sims, Shown(p)) /\ scenarios' = scenarios
      /\ Goes(p, [To(p, "link") EXCEPT !.sim = Len(sims')])
  BY DEF Simulation
<1>3. /\ Len(sims') = Len(sims) + 1 /\ Len(sims) \in Nat
      /\ sims'[Len(sims')] = Shown(p)
      /\ \A i \in DOMAIN sims : sims'[i] = sims[i]
      /\ DOMAIN sims' = DOMAIN sims \cup {Len(sims')}
      /\ Len(sims') \notin DOMAIN sims
  BY <1>0, <1>2
<1>4. /\ \A q \in Procs \ {p} : proc'[q] = proc[q]
      /\ proc'[p].pc = "link" /\ proc'[p].audit = proc[p].audit
      /\ proc'[p].row = proc[p].row /\ proc'[p].members = proc[p].members
      /\ proc'[p].sim = Len(sims')
  <2>1. To(p, "link") \in CommandType
    BY <1>0, PositionsTyped
  <2>2. [To(p, "link") EXCEPT !.sim = Len(sims')] \in CommandType
    BY <1>3, <2>1 DEF CommandType
  <2>3. proc'[p] = [To(p, "link") EXCEPT !.sim = Len(sims')]
        /\ \A q \in Procs \ {p} : proc'[q] = proc[q]
    BY <1>0, <1>2, <2>2, OneGoes
  <2>4. /\ To(p, "link").pc = "link" /\ To(p, "link").audit = proc[p].audit
        /\ To(p, "link").row = proc[p].row /\ To(p, "link").members = proc[p].members
    BY <1>0, Advances
  <2> QED
    BY <2>1, <2>3, <2>4 DEF CommandType
<1>5. \A i \in DOMAIN scenarios : scenarios[i].sim \in 0 .. Len(sims)
  <2>1. \A i \in DOMAIN scenarios : scenarios[i] \in ScenarioType
    BY <1>0
  <2> QED
    BY <2>1 DEF ScenarioType
<1>6. ASSUME NEW q \in Procs
      PROVE  /\ proc'[q].pc \in {"persist", "inputs", "simulation", "link"} => proc'[q].audit
             /\ Auditing(q)' => HoldsRow(q)'
             /\ At(q, "link")' => HoldsSimulation(q)'
  <2>1. CASE q = p
    <3>1. HoldsRow(p)'
      BY <1>0, <1>2, <1>4 DEF HoldsRow, At
    <3>2. HoldsSimulation(p)'
      BY <1>2, <1>3, <1>4, <1>5 DEF HoldsSimulation, Shown
    <3> QED
      BY <1>0, <1>4, <2>1, <3>1, <3>2
  <2>2. CASE q # p
    BY <1>2, <1>3, <1>4, <2>2 DEF AuditInv, Auditing, HoldsRow, HoldsSimulation, At
  <2> QED
    BY <2>1, <2>2
<1>7. ASSUME NEW q \in Procs, NEW x \in Procs, q # x
      PROVE  /\ Auditing(q)' /\ Auditing(x)' => proc'[q].row # proc'[x].row
             /\ At(q, "link")' /\ At(x, "link")' => proc'[q].sim # proc'[x].sim
  <2>1. \A y \in Procs : /\ Auditing(y)' => Auditing(y) /\ proc'[y].row = proc[y].row
    BY <1>0, <1>4 DEF Auditing, At
  <2>2. \A y \in Procs \ {p} : At(y, "link")' => At(y, "link") /\ proc'[y].sim \in DOMAIN sims
                                                  /\ proc'[y].sim = proc[y].sim
    BY <1>4 DEF AuditInv, At, HoldsSimulation
  <2> QED
    BY <1>3, <1>4, <1>7, <2>1, <2>2 DEF AuditInv
<1>8. AuditTrailHolds'
  BY <1>0, <1>2, <1>3, <1>5 DEF AuditInv, AuditTrailHolds
<1> QED
  BY <1>1, <1>6, <1>7, <1>8 DEF AuditInv

(* The command links its own row to its own simulation, and lets go of both. *)
LEMMA LinkKeeps ==
    ASSUME AuditInv, NEW p \in Procs, Link(p)
    PROVE  AuditInv'
<1>0. /\ TypeOK /\ scenarios \in Seq(ScenarioType) /\ sims \in Seq(SimulationType)
      /\ proc[p] \in CommandType
      /\ proc[p].audit /\ Auditing(p) /\ HoldsRow(p) /\ HoldsSimulation(p)
      /\ proc[p].row \in DOMAIN scenarios /\ proc[p].sim \in DOMAIN sims /\ ~At(p, "inputs")
  BY PositionsTyped DEF AuditInv, TypeOK, Link, At, Auditing, HoldsRow, HoldsSimulation
<1>1. TypeOK'
  BY <1>0, WritingTyped
<1>2. /\ scenarios' = [scenarios EXCEPT ![proc[p].row].sim = proc[p].sim] /\ sims' = sims
      /\ At(p, "link") /\ Goes(p, To(p, "appendix"))
  BY DEF Link, Linked
<1>3. /\ DOMAIN scenarios' = DOMAIN scenarios
      /\ \A i \in DOMAIN scenarios :
           /\ scenarios'[i].members = scenarios[i].members
           /\ scenarios'[i].sim = IF i = proc[p].row THEN proc[p].sim ELSE scenarios[i].sim
           /\ scenarios'[i].inputs = scenarios[i].inputs
  <2>1. \A i \in DOMAIN scenarios : scenarios[i] \in ScenarioType
    BY <1>0
  <2> QED
    BY <1>0, <1>2, <2>1 DEF ScenarioType
<1>4. /\ \A q \in Procs \ {p} : proc'[q] = proc[q]
      /\ proc'[p].pc = "appendix"
  <2>1. To(p, "appendix") \in CommandType
    BY <1>0, PositionsTyped
  <2>2. proc'[p] = To(p, "appendix") /\ \A q \in Procs \ {p} : proc'[q] = proc[q]
    BY <1>0, <1>2, <2>1, OneGoes
  <2>3. /\ To(p, "appendix").pc = "appendix" /\ To(p, "appendix").audit = proc[p].audit
        /\ To(p, "appendix").row = proc[p].row /\ To(p, "appendix").members = proc[p].members
    BY <1>0, Advances
  <2> QED
    BY <2>2, <2>3
<1>5. ASSUME NEW q \in Procs
      PROVE  /\ proc'[q].pc \in {"persist", "inputs", "simulation", "link"} => proc'[q].audit
             /\ Auditing(q)' => HoldsRow(q)'
             /\ At(q, "link")' => HoldsSimulation(q)'
  <2>1. CASE q = p
    BY <1>4, <2>1 DEF Auditing, At
  <2>2. CASE q # p
    <3>1. proc'[q] = proc[q]
      BY <1>4, <2>2
    <3>2. ASSUME Auditing(q)' PROVE HoldsRow(q)'
      <4>1. Auditing(q) /\ proc[q].row # proc[p].row
        BY <1>0, <2>2, <3>1, <3>2 DEF AuditInv, Auditing
      <4> QED
        BY <1>3, <3>1, <4>1 DEF AuditInv, HoldsRow
    <3>3. ASSUME At(q, "link")' PROVE HoldsSimulation(q)'
      <4>1. At(q, "link") /\ proc[q].sim # proc[p].sim
        BY <1>2, <2>2, <3>1, <3>3 DEF AuditInv, At
      <4> QED
        BY <1>2, <1>3, <3>1, <4>1 DEF AuditInv, HoldsSimulation
    <3> QED
      BY <3>1, <3>2, <3>3 DEF AuditInv
  <2> QED
    BY <2>1, <2>2
<1>6. ASSUME NEW q \in Procs, NEW x \in Procs, q # x
      PROVE  /\ Auditing(q)' /\ Auditing(x)' => proc'[q].row # proc'[x].row
             /\ At(q, "link")' /\ At(x, "link")' => proc'[q].sim # proc'[x].sim
  <2>1. ~Auditing(p)' /\ ~At(p, "link")'
    BY <1>4 DEF Auditing, At
  <2> QED
    BY <1>4, <1>6, <2>1 DEF AuditInv, Auditing, At
<1>7. AuditTrailHolds'
  <2>1. scenarios[proc[p].row].inputs /\ scenarios[proc[p].row].members = proc[p].members
    BY <1>0 DEF HoldsRow, At
  <2>2. sims[proc[p].sim].members = proc[p].members
        /\ \A i \in DOMAIN scenarios : scenarios[i].sim # proc[p].sim
    BY <1>0 DEF HoldsSimulation
  <2>3. SUFFICES ASSUME NEW i \in DOMAIN scenarios, scenarios'[i].sim # 0
                 PROVE  /\ sims[scenarios'[i].sim].members = scenarios[i].members
                        /\ scenarios[i].inputs
                        /\ \A j \in DOMAIN scenarios : scenarios'[j].sim = scenarios'[i].sim => j = i
    BY <1>2, <1>3 DEF AuditTrailHolds
  <2>4. CASE i = proc[p].row
    BY <1>3, <2>1, <2>2, <2>4
  <2>5. CASE i # proc[p].row
    <3>1. scenarios'[i].sim = scenarios[i].sim /\ scenarios[i].sim # 0
      BY <1>3, <2>3, <2>5
    <3> QED
      BY <1>3, <2>2, <3>1 DEF AuditInv, AuditTrailHolds
  <2> QED
    BY <2>4, <2>5
<1> QED
  BY <1>1, <1>5, <1>6, <1>7 DEF AuditInv

(* The other steps of a command take up neither. *)
LEMMA MovingFollows ==
    ASSUME AuditInv, NEW p \in Procs, NEW next \in CommandType, Goes(p, next),
           next.pc \in {"persist", "inputs", "simulation", "link"} => next.audit,
           next.audit => \/ next.pc \notin {"inputs", "charts", "simulation", "link"}
                         \/ /\ Auditing(p) /\ next.row = proc[p].row
                            /\ next.members = proc[p].members
                            /\ next.pc # "link" /\ ~At(p, "inputs")
    PROVE  \A q \in Procs : Follows(q)
<1>1. /\ proc'[p] = next /\ \A q \in Procs \ {p} : proc'[q] = proc[q]
  BY OneGoes DEF AuditInv
<1>2. Follows(p)
  BY <1>1 DEF Follows, Auditing, At
<1>3. ASSUME NEW q \in Procs \ {p} PROVE Follows(q)
  BY <1>1 DEF Follows, Auditing, At, AuditInv
<1> QED
  BY <1>2, <1>3

(* Being no longer alone changes nothing of it. *)
LEMMA DisturbedFollows ==
    ASSUME AuditInv, NEW others, NEW new \in [Procs -> CommandType],
           proc' = Disturbs(others, new),
           \A q \in Procs : \/ new[q] = proc[q]
                             \/ new[q].pc \notin {"persist", "inputs", "charts", "simulation",
                                                   "link"}
    PROVE  \A q \in Procs : Follows(q)
<1> TAKE q \in Procs
<1>1. new[q] \in CommandType
  OBVIOUS
<1>2. /\ proc'[q].pc = new[q].pc /\ proc'[q].audit = new[q].audit
      /\ proc'[q].row = new[q].row /\ proc'[q].members = new[q].members
      /\ proc'[q].sim = new[q].sim
  <2>1. proc'[q] = IF q \in others THEN [new[q] EXCEPT !.alone = FALSE] ELSE new[q]
    BY DisturbsTyped
  <2> QED
    BY <1>1, <2>1 DEF CommandType
<1> QED
  BY <1>2 DEF Follows, Auditing, At, AuditInv

(* A command that ends holds nothing. *)
LEMMA EndingFollows ==
    ASSUME AuditInv, NEW p \in Procs, Ends(p)
    PROVE  \A q \in Procs : Follows(q)
<1>1. Goes(p, Idle) /\ Idle.pc = "idle"
  BY DEF Ends, Goes, Idle
<1> QED
  BY <1>1, IdleTyped, MovingFollows

(* Nor does one that only moves. *)
LEMMA ToFollows ==
    ASSUME AuditInv, NEW p \in Procs, NEW pc, Goes(p, To(p, pc)),
           \/ pc \in {"raise", "open", "count", "build", "appendix", "as_of", "artifacts",
                      "backlog", "weigh", "copy"}
           \/ pc = "simulation" /\ At(p, "charts") /\ proc[p].audit
    PROVE  \A q \in Procs : Follows(q)
<1>0. TypeOK
  BY DEF AuditInv
<1>1. To(p, pc) \in CommandType
  BY <1>0, PositionsTyped
<1>2. /\ To(p, pc).pc = pc /\ To(p, pc).audit = proc[p].audit
      /\ To(p, pc).row = proc[p].row /\ To(p, pc).members = proc[p].members
  BY <1>0, Advances
<1>3. /\ To(p, pc).pc \in {"persist", "inputs", "simulation", "link"} => To(p, pc).audit
      /\ \/ To(p, pc).pc \notin {"inputs", "charts", "simulation", "link"}
         \/ /\ Auditing(p) /\ To(p, pc).row = proc[p].row
            /\ To(p, pc).members = proc[p].members
            /\ To(p, pc).pc # "link" /\ ~At(p, "inputs")
  BY <1>2 DEF Auditing, At
<1> QED
  BY <1>1, <1>3, MovingFollows

(* All the steps that write no row. *)
LEMMA StepsFollow ==
    ASSUME AuditInv, NEW p \in Procs, Step(p),
           ~Persist(p), ~PersistInputs(p), ~Simulation(p), ~Link(p)
    PROVE  UNCHANGED audit /\ \A q \in Procs : Follows(q)
<1>0. TypeOK /\ proc[p] \in CommandType
  BY PositionsTyped DEF AuditInv
<1>1. CASE Start(p)
  <2>1. UNCHANGED audit
    BY <1>1 DEF Start
  <2>2. PICK c \in Commands :
        LET first == CASE c.kind = "quantify" -> "count"
                       [] c.kind = "finalize" -> "deferred"
                       [] c.kind = "memo"     -> "weigh"
                       [] c.kind = "backlog"  -> "backlog"
            begun == [Idle EXCEPT !.pc = first, !.kind = c.kind, !.audit = c.audit,
                                  !.by = commands + 1, !.alone = (Running = {}),
                                  !.dir = IF c.kind = "memo" THEN "memo" ELSE "risk"]
        IN  proc' = Disturbs(Running, [proc EXCEPT ![p] = begun])
    BY <1>1 DEF Start
  <2> DEFINE first == CASE c.kind = "quantify" -> "count"
                        [] c.kind = "finalize" -> "deferred"
                        [] c.kind = "memo"     -> "weigh"
                        [] c.kind = "backlog"  -> "backlog"
             dir == IF c.kind = "memo" THEN "memo" ELSE "risk"
             alone == Running = {}
             begun == [Idle EXCEPT !.pc = first, !.kind = c.kind, !.audit = c.audit,
                                   !.by = commands + 1, !.alone = alone, !.dir = dir]
  <2>3. /\ c.kind \in {"quantify", "finalize", "memo", "backlog"} /\ c.audit \in BOOLEAN
        /\ first \in {"count", "deferred", "weigh", "backlog"} /\ dir \in {"risk", "memo"}
        /\ alone \in BOOLEAN
    BY ReportsAssumption
  <2>4. commands + 1 \in 0 .. MaxCommands
    BY <1>0, <1>1, ReportsAssumption DEF Start, TypeOK
  <2>5. proc' = Disturbs(Running, [proc EXCEPT ![p] = begun])
    BY <2>2
  <2> HIDE DEF first, dir, alone
  <2>6. begun \in CommandType /\ begun.pc = first
    <3>1. begun.pc = first
      BY DEF Idle
    <3>2. begun \in CommandType
      BY <2>3, <2>4, IdleTyped DEF CommandType
    <3> QED
      BY <3>1, <3>2
  <2> HIDE DEF begun
  <2>7. /\ [proc EXCEPT ![p] = begun] \in [Procs -> CommandType]
        /\ \A q \in Procs : [proc EXCEPT ![p] = begun][q] = IF q = p THEN begun ELSE proc[q]
    BY <1>0, <2>6 DEF TypeOK
  <2> QED
    BY <2>1, <2>3, <2>5, <2>6, <2>7, DisturbedFollows
<1>2. CASE Raise(p)
  <2> DEFINE new == [proc EXCEPT ![p].pc = "open"]
             others == IF requested' = requested THEN {} ELSE Running \ {p}
  <2>1. proc' = Disturbs(others, new) /\ UNCHANGED audit
    BY <1>2 DEF Raise
  <2>2. [proc[p] EXCEPT !.pc = "open"] \in CommandType
        /\ [proc[p] EXCEPT !.pc = "open"].pc = "open"
    BY <1>0 DEF CommandType
  <2>3. /\ new \in [Procs -> CommandType]
        /\ \A q \in Procs : new[q] = proc[q] \/ new[q].pc = "open"
    BY <1>0, <2>2 DEF TypeOK
  <2> HIDE DEF new, others
  <2> QED
    BY <2>1, <2>3, DisturbedFollows
<1>3. CASE CheckDeferred(p) \/ CheckOpen(p)
  BY <1>3, EndingFollows, ToFollows DEF CheckDeferred, CheckOpen
<1>4. CASE Disclose(p) \/ Disclaim(p)
  BY <1>4, EndingFollows, ToFollows DEF Disclose, Disclaim
<1>5. CASE Charts(p) \/ Appendix(p) \/ Backlog(p)
  BY <1>5, EndingFollows, ToFollows DEF Charts, Appendix, Backlog
<1>6. CASE WriteMemo(p) \/ Die(p)
  BY <1>6, EndingFollows DEF WriteMemo, Die, audit
<1>7. CASE CountBefore(p)
  <2>1. To(p, "build") \in CommandType /\ To(p, "build").pc = "build"
    BY <1>0, PositionsTyped, Advances
  <2> DEFINE size == IF Countable = {} THEN 0 ELSE 1
             next == [To(p, "build") EXCEPT !.before = Len(scenarios), !.counted = size]
  <2>2. size \in Int /\ Len(scenarios) \in Nat
    BY <1>0 DEF TypeOK
  <2>3. CountBefore(p) => Goes(p, next) \/ Ends(p)
    BY DEF CountBefore
  <2> HIDE DEF size
  <2>4. next \in CommandType /\ next.pc = "build"
    BY <2>1, <2>2 DEF CommandType
  <2> HIDE DEF next
  <2>5. UNCHANGED audit
    BY <1>7 DEF CountBefore
  <2> QED
    BY <1>7, <2>3, <2>4, <2>5, EndingFollows, MovingFollows
<1>8. CASE Build(p)
  <2> DEFINE place == IF Countable = {} THEN "appendix"
                      ELSE IF proc[p].audit THEN "persist" ELSE "charts"
             next == [To(p, place) EXCEPT !.members = Countable]
  <2>1. place \in {"appendix", "persist", "charts"}
    OBVIOUS
  <2>2. /\ place = "persist" => proc[p].audit
        /\ place = "charts" => ~proc[p].audit
    OBVIOUS
  <2>3. Build(p) => Goes(p, next) \/ Ends(p)
    BY DEF Build
  <2> HIDE DEF place
  <2>4. To(p, place) \in CommandType /\ Countable \in SUBSET Findings
    BY <1>0, <2>1, PositionsTyped, CountablesTyped
  <2>5. To(p, place).pc = place /\ To(p, place).audit = proc[p].audit
    BY <1>0, Advances
  <2>6. next \in CommandType /\ next.pc = place /\ next.audit = proc[p].audit
    BY <2>4, <2>5 DEF CommandType
  <2> HIDE DEF next
  <2>7. UNCHANGED audit
    BY <1>8 DEF Build
  <2> QED
    BY <1>8, <2>1, <2>2, <2>3, <2>6, <2>7, EndingFollows, MovingFollows
<1>9. CASE Artifacts(p)
  <2>1. To(p, "disclose") \in CommandType /\ To(p, "disclose").pc = "disclose"
    BY <1>0, PositionsTyped, Advances
  <2> DEFINE there == {a \in {"charts", "appendix"} : files["risk"][a] # Absent}
             added == Len(scenarios) - proc[p].before
             next == [To(p, "disclose") EXCEPT !.artifacts = there,
                        !.counted = IF proc[p].audit THEN added ELSE @]
  <2>2. there \in SUBSET {"charts", "appendix"} /\ added \in Int
    BY <1>0 DEF TypeOK, CommandType
  <2>3. Goes(p, next) /\ UNCHANGED audit
    BY <1>9 DEF Artifacts
  <2> HIDE DEF there, added
  <2>4. next \in CommandType /\ next.pc = "disclose"
    BY <2>1, <2>2 DEF CommandType
  <2> HIDE DEF next
  <2> QED
    BY <2>3, <2>4, MovingFollows
<1>10. CASE Weigh(p)
  <2>1. To(p, "rank") \in CommandType /\ To(p, "rank").pc = "rank"
    BY <1>0, PositionsTyped, Advances
  <2> DEFINE next == [To(p, "rank") EXCEPT !.weighed = Analyzable]
  <2>2. next \in CommandType /\ next.pc = "rank"
    BY <2>1, CountablesTyped DEF CommandType
  <2>3. Goes(p, next) /\ UNCHANGED audit
    BY <1>10 DEF Weigh
  <2> HIDE DEF next
  <2> QED
    BY <2>2, <2>3, MovingFollows
<1>11. CASE Rank(p)
  <2>1. To(p, "disclaim") \in CommandType /\ To(p, "disclaim").pc = "disclaim"
    BY <1>0, PositionsTyped, Advances
  <2> DEFINE next == [To(p, "disclaim") EXCEPT !.ranked = Countable \cap proc[p].weighed]
  <2>2. next \in CommandType /\ next.pc = "disclaim"
    BY <2>1, CountablesTyped DEF CommandType
  <2>3. Goes(p, next) /\ UNCHANGED audit
    BY <1>11 DEF Rank
  <2> HIDE DEF next
  <2> QED
    BY <2>2, <2>3, MovingFollows
<1>12. CASE Copy(p)
  <2>1. UNCHANGED audit
    BY <1>12 DEF Copy
  <2>2. CASE Goes(p, To(p, "as_of"))
    BY <2>1, <2>2, ToFollows
  <2>3. ASSUME NEW a, Goes(p, [proc[p] EXCEPT !.artifacts = @ \ {a}])
        PROVE  \A q \in Procs : Follows(q)
    <3> DEFINE next == [proc[p] EXCEPT !.artifacts = @ \ {a}]
    <3>1. next \in CommandType /\ next.pc = proc[p].pc
      BY <1>0 DEF CommandType
    <3>2. next.pc = "copy"
      BY <1>12, <3>1 DEF Copy, At
    <3> HIDE DEF next
    <3>3. Goes(p, next)
      BY <2>3 DEF next
    <3> QED
      BY <3>1, <3>2, <3>3, MovingFollows
  <2> QED
    BY <1>12, <2>1, <2>2, <2>3 DEF Copy
<1>13. CASE AsOf(p)
  <2>1. Cited(p) \in Nat
    BY <1>0 DEF Cited, TypeOK
  <2>2. To(p, "write") \in CommandType /\ To(p, "write").pc = "write"
    BY <1>0, PositionsTyped, Advances
  <2> DEFINE next == [To(p, "write") EXCEPT !.cites = Cited(p)]
  <2>3. next \in CommandType /\ next.pc = "write"
    BY <2>1, <2>2 DEF CommandType
  <2>4. Goes(p, next) /\ UNCHANGED audit
    BY <1>13 DEF AsOf
  <2> HIDE DEF next
  <2> QED
    BY <2>3, <2>4, MovingFollows
<1> QED
  BY <1>1, <1>2, <1>3, <1>4, <1>5, <1>6, <1>7, <1>8, <1>9, <1>10, <1>11, <1>12, <1>13 DEF Step

(* All the steps, where what a command holds is there. *)
LEMMA StepTyped ==
    ASSUME TypeOK, NEW p \in Procs, Step(p),
           At(p, "inputs") \/ At(p, "link") => proc[p].row \in DOMAIN scenarios,
           At(p, "link") => proc[p].sim \in DOMAIN sims
    PROVE  TypeOK'
<1>1. CASE \/ CheckDeferred(p) \/ CheckOpen(p) \/ CountBefore(p) \/ Build(p) \/ Artifacts(p)
           \/ Disclose(p) \/ Weigh(p) \/ Rank(p) \/ Disclaim(p) \/ AsOf(p)
  BY <1>1, MovingTyped
<1>2. CASE \/ Persist(p) \/ PersistInputs(p) \/ Charts(p) \/ Simulation(p) \/ Link(p)
           \/ Appendix(p) \/ Backlog(p) \/ Copy(p) \/ WriteMemo(p)
  BY <1>2, WritingTyped
<1>3. CASE Start(p)
  BY <1>3, StartTyped
<1>4. CASE Raise(p)
  BY <1>4, RaiseTyped
<1>5. CASE Die(p)
  BY <1>5, EventsTyped
<1> QED
  BY <1>1, <1>2, <1>3, <1>4, <1>5 DEF Step

(* Nothing is on record at the start. *)
LEMMA AuditInit == Init => AuditInv
<1> SUFFICES ASSUME Init PROVE AuditInv
  OBVIOUS
<1>1. TypeOK
  BY InitTyped
<1>2. \A p \in Procs : proc[p].pc = "idle"
  BY DEF Init, Idle
<1>3. DOMAIN scenarios = {}
  BY DEF Init
<1> QED
  BY <1>1, <1>2, <1>3 DEF AuditInv, AuditTrailHolds, Auditing, At

(* AuditInv is inductive. *)
LEMMA AuditStep == AuditInv /\ [Next]_vars => AuditInv'
<1> SUFFICES ASSUME AuditInv, [Next]_vars PROVE AuditInv'
  OBVIOUS
<1>0. TypeOK
  BY DEF AuditInv
<1>1. CASE UNCHANGED vars
  BY <1>1 DEF vars, store, audit, count, AuditInv, AuditTrailHolds, TypeOK, ScenarioType,
              SimulationType, Auditing, HoldsRow, HoldsSimulation, At
<1>2. ASSUME NEW p \in Procs, Step(p) PROVE AuditInv'
  <2>1. CASE Persist(p)
    BY <2>1, PersistKeeps
  <2>2. CASE PersistInputs(p)
    BY <2>2, PersistInputsKeeps
  <2>3. CASE Simulation(p)
    BY <2>3, SimulationKeeps
  <2>4. CASE Link(p)
    BY <2>4, LinkKeeps
  <2>5. CASE ~Persist(p) /\ ~PersistInputs(p) /\ ~Simulation(p) /\ ~Link(p)
    <3>1. UNCHANGED audit /\ \A q \in Procs : Follows(q)
      BY <1>2, <2>5, StepsFollow
    <3>2. /\ At(p, "inputs") \/ At(p, "link") => proc[p].row \in DOMAIN scenarios
          /\ At(p, "link") => proc[p].sim \in DOMAIN sims
      BY DEF AuditInv, At, Auditing, HoldsRow, HoldsSimulation
    <3>3. TypeOK'
      BY <1>0, <1>2, <3>2, StepTyped
    <3> QED
      BY <3>1, <3>3, FollowingKeeps
  <2> QED
    BY <2>1, <2>2, <2>3, <2>4, <2>5
<1>3. ASSUME NEW f \in Findings, Examine(f) \/ Decide(f) PROVE AuditInv'
  <2>1. TypeOK'
    BY <1>0, <1>3, EventsTyped
  <2>2. proc' = Disturbs(Running, proc) /\ UNCHANGED audit
    BY <1>3 DEF Examine, Decide, Disturbed
  <2>3. proc \in [Procs -> CommandType]
    BY <1>0 DEF TypeOK
  <2>4. \A q \in Procs : Follows(q)
    BY <2>2, <2>3, DisturbedFollows
  <2> QED
    BY <2>1, <2>2, <2>4, FollowingKeeps
<1> QED
  BY <1>1, <1>2, <1>3 DEF Next

(* Every scenario that says it was simulated says so truly, with its inputs
   there, and no two say it of the same simulation, in any number of audits
   side by side that may die anywhere (risk_quant.generate_appendix,
   store.link_risk_scenarios_to_simulation). *)
THEOREM AuditTrailIsTrue == Spec => [](TypeOK /\ AuditTrailHolds)
<1>1. AuditInv => TypeOK /\ AuditTrailHolds
  BY DEF AuditInv
<1> QED
  BY <1>1, AuditInit, AuditStep, PTL DEF Spec

-----------------------------------------------------------------------------
(* The memo of one run *)

(* What may be counted depends on verdicts, requests and decisions only. *)
LEMMA StoreKeeps ==
    ASSUME UNCHANGED store
    PROVE  Analyzable' = Analyzable /\ Countable' = Countable
<1>1. Analyzable' = Analyzable
  BY DEF store, Analyzable
<1> QED
  BY <1>1 DEF Countable

(* What the invariant says of one command by itself. *)
Holds(p) == Route(p) /\ (Undisturbed(p) => Quantifies(p) /\ Counts(p) /\ Tells(p))

LineKept(p) ==
    /\ proc'[p].kind = proc[p].kind /\ proc'[p].audit = proc[p].audit
    /\ proc'[p].by = proc[p].by /\ proc'[p].alone = proc[p].alone
    /\ proc'[p].dir = proc[p].dir

CountKept(p) ==
    proc'[p].before = proc[p].before /\ proc'[p].counted = proc[p].counted

MemoKept(p) ==
    /\ proc'[p].artifacts = proc[p].artifacts /\ proc'[p].weighed = proc[p].weighed
    /\ proc'[p].ranked = proc[p].ranked /\ proc'[p].cites = proc[p].cites

(* A move keeps everything that was computed. *)
LEMMA ToKeeps ==
    ASSUME TypeOK, NEW p \in Procs,
           NEW pc \in {"raise", "open", "count", "build", "appendix", "as_of", "artifacts",
                       "backlog", "weigh", "copy", "charts", "simulation"},
           Goes(p, To(p, pc))
    PROVE  /\ proc'[p].pc = pc /\ proc'[p].members = proc[p].members
           /\ LineKept(p) /\ CountKept(p) /\ MemoKept(p)
<1>1. To(p, pc) \in CommandType
  BY PositionsTyped
<1>2. proc'[p] = To(p, pc)
  BY <1>1, OneGoes
<1> QED
  BY <1>2, Advances DEF LineKept, CountKept, MemoKept

(* An idle terminal owes nothing. *)
LEMMA EndingHolds ==
    ASSUME TypeOK, NEW p \in Procs, Ends(p)
    PROVE  Holds(p)'
<1>1. proc'[p] = Idle
  BY DEF Ends, TypeOK
<1> QED
  BY <1>1 DEF Holds, Route, Undisturbed, At, Idle

(* The checks of finalize before it quantifies. *)
LEMMA ChecksHold ==
    ASSUME TypeOK, NEW p \in Procs, Holds(p), CheckDeferred(p) \/ CheckOpen(p)
    PROVE  Holds(p)'
<1>1. CASE Ends(p)
  BY <1>1, EndingHolds
<1>2. CASE Goes(p, To(p, "raise")) /\ CheckDeferred(p)
  <2>1. /\ proc'[p].pc = "raise" /\ LineKept(p) /\ At(p, "deferred")
    BY <1>2, ToKeeps DEF CheckDeferred
  <2> QED
    BY <2>1 DEF Holds, Route, Undisturbed, Quantifies, InFiles, Quantified, Counts, Tells, At,
                LineKept
<1>3. CASE Goes(p, To(p, "count")) /\ CheckOpen(p)
  <2>1. /\ proc'[p].pc = "count" /\ LineKept(p) /\ At(p, "open")
    BY <1>3, ToKeeps DEF CheckOpen
  <2> QED
    BY <2>1 DEF Holds, Route, Undisturbed, Quantifies, InFiles, Quantified, Counts, Tells, At,
                LineKept
<1> QED
  BY <1>1, <1>2, <1>3 DEF CheckDeferred, CheckOpen

(* The rows there are, or the scenarios there will be, are counted. *)
LEMMA CountBeforeHolds ==
    ASSUME TypeOK, NEW p \in Procs, Holds(p), CountBefore(p)
    PROVE  Holds(p)'
<1>1. CASE Ends(p)
  BY <1>1, EndingHolds
<1>2. CASE ~Ends(p)
  <2>1. To(p, "build") \in CommandType
    BY PositionsTyped
  <2>2. Scenarios \in Int /\ Len(scenarios) \in Nat
    BY DEF Scenarios, TypeOK
  <2> DEFINE next == [To(p, "build") EXCEPT !.before = Len(scenarios), !.counted = Scenarios]
  <2>3. Goes(p, next)
    BY <1>2 DEF CountBefore, Scenarios
  <2>4. /\ next \in CommandType /\ next.pc = "build" /\ next.before = Len(scenarios)
        /\ next.counted = Scenarios
        /\ next.kind = proc[p].kind /\ next.audit = proc[p].audit /\ next.by = proc[p].by
        /\ next.alone = proc[p].alone /\ next.dir = proc[p].dir
    <3>1. /\ To(p, "build").pc = "build"
          /\ To(p, "build").kind = proc[p].kind /\ To(p, "build").audit = proc[p].audit
          /\ To(p, "build").by = proc[p].by /\ To(p, "build").alone = proc[p].alone
          /\ To(p, "build").dir = proc[p].dir
      BY Advances
    <3>2. next \in CommandType
      BY <2>1, <2>2 DEF CommandType
    <3>3. next.before = Len(scenarios) /\ next.counted = Scenarios
      BY <2>1, <2>2 DEF CommandType
    <3>4. /\ next.pc = To(p, "build").pc /\ next.kind = To(p, "build").kind
          /\ next.audit = To(p, "build").audit /\ next.by = To(p, "build").by
          /\ next.alone = To(p, "build").alone /\ next.dir = To(p, "build").dir
      BY <2>1 DEF CommandType
    <3> HIDE DEF next
    <3> QED
      BY <3>1, <3>2, <3>3, <3>4
  <2> HIDE DEF next
  <2>5. /\ proc'[p].pc = "build" /\ LineKept(p) /\ At(p, "count")
        /\ proc'[p].before = Len(scenarios) /\ proc'[p].counted = Scenarios
    BY <2>3, <2>4, OneGoes DEF CountBefore, LineKept
  <2>6. scenarios' = scenarios /\ Countable' = Countable
    BY StoreKeeps DEF CountBefore, audit
  <2> QED
    BY <2>5, <2>6 DEF Holds, Route, Undisturbed, Quantifies, InFiles, Quantified, Counts, Tells,
                      At, LineKept, Scenarios
<1> QED
  BY <1>1, <1>2

(* The scenario has the countable findings as its members. *)
LEMMA BuildHolds ==
    ASSUME TypeOK, NEW p \in Procs, Holds(p), Build(p)
    PROVE  Holds(p)'
<1>1. CASE Ends(p)
  BY <1>1, EndingHolds
<1>2. CASE ~Ends(p)
  <2> DEFINE place == IF Countable = {} THEN "appendix"
                      ELSE IF proc[p].audit THEN "persist" ELSE "charts"
             next == [To(p, place) EXCEPT !.members = Countable]
  <2>1. /\ place \in {"appendix", "persist", "charts"}
        /\ place = "appendix" <=> Countable = {}
        /\ place = "persist" => proc[p].audit
        /\ place = "charts" => ~proc[p].audit
    OBVIOUS
  <2>2. Goes(p, next)
    BY <1>2 DEF Build
  <2> HIDE DEF place
  <2>3. To(p, place) \in CommandType /\ Countable \in SUBSET Findings
    BY <2>1, PositionsTyped, CountablesTyped
  <2>4. /\ next \in CommandType /\ next.pc = place /\ next.members = Countable
        /\ next.kind = proc[p].kind /\ next.audit = proc[p].audit /\ next.by = proc[p].by
        /\ next.alone = proc[p].alone /\ next.dir = proc[p].dir
        /\ next.before = proc[p].before /\ next.counted = proc[p].counted
        /\ next.artifacts = proc[p].artifacts /\ next.weighed = proc[p].weighed
        /\ next.ranked = proc[p].ranked /\ next.cites = proc[p].cites
    <3>1. /\ To(p, place).pc = place
          /\ To(p, place).kind = proc[p].kind /\ To(p, place).audit = proc[p].audit
          /\ To(p, place).by = proc[p].by /\ To(p, place).alone = proc[p].alone
          /\ To(p, place).dir = proc[p].dir
          /\ To(p, place).before = proc[p].before /\ To(p, place).counted = proc[p].counted
          /\ To(p, place).artifacts = proc[p].artifacts
          /\ To(p, place).weighed = proc[p].weighed
          /\ To(p, place).ranked = proc[p].ranked /\ To(p, place).cites = proc[p].cites
      BY Advances
    <3> QED
      BY <2>3, <3>1 DEF CommandType
  <2> HIDE DEF next
  <2>5. /\ proc'[p].pc = place /\ proc'[p].members = Countable /\ At(p, "build")
        /\ LineKept(p) /\ CountKept(p) /\ MemoKept(p)
    BY <2>2, <2>4, OneGoes DEF Build, LineKept, CountKept, MemoKept
  <2>6. scenarios' = scenarios /\ sims' = sims /\ files' = files /\ Countable' = Countable
    BY StoreKeeps DEF Build, audit
  <2>7. proc[p].before \in Nat /\ Len(scenarios) \in Nat
    BY DEF TypeOK, CommandType
  <2>8. Route(p)'
    BY <2>1, <2>5 DEF Holds, Route, At, LineKept
  <2>9. Undisturbed(p)' => Quantifies(p)'
    BY <2>1, <2>5, <2>6 DEF Quantifies, InFiles, Quantified, At, LineKept
  <2>10. Undisturbed(p)' => Counts(p)'
    BY <2>1, <2>5, <2>6, <2>7
       DEF Holds, Undisturbed, Counts, Quantified, At, LineKept, CountKept, Scenarios
  <2>11. Undisturbed(p)' => Tells(p)'
    BY <2>1, <2>5, <2>6
       DEF Holds, Undisturbed, Tells, Quantified, At, LineKept, MemoKept
  <2> QED
    BY <2>8, <2>9, <2>10, <2>11 DEF Holds
<1> QED
  BY <1>1, <1>2

(* One more row than was counted before. *)
LEMMA PersistHolds ==
    ASSUME TypeOK, NEW p \in Procs, Holds(p), Persist(p)
    PROVE  Holds(p)'
<1>0. To(p, "inputs") \in CommandType
  BY PositionsTyped
<1> DEFINE row == [members |-> proc[p].members, inputs |-> FALSE, sim |-> 0]
<1>1. /\ scenarios' = Append(scenarios, row) /\ sims' = sims /\ files' = files
      /\ At(p, "persist") /\ Goes(p, [To(p, "inputs") EXCEPT !.row = Len(scenarios')])
  BY DEF Persist
<1>2. /\ Len(scenarios) \in Nat /\ Len(scenarios') = Len(scenarios) + 1
      /\ proc[p].before \in Nat
  <2>1. row \in ScenarioType
    BY DEF TypeOK, CommandType, ScenarioType
  <2>2. Len(Append(scenarios, row)) = Len(scenarios) + 1 /\ Len(scenarios) \in Nat
    BY <2>1 DEF TypeOK
  <2> QED
    BY <1>1, <2>2 DEF TypeOK, CommandType
<1> HIDE DEF row
<1>3. /\ proc'[p].pc = "inputs" /\ proc'[p].members = proc[p].members
      /\ LineKept(p) /\ CountKept(p) /\ MemoKept(p)
  <2> DEFINE next == [To(p, "inputs") EXCEPT !.row = Len(scenarios')]
  <2>1. next \in CommandType
    <3>1. Len(scenarios') \in Nat
      BY <1>2
    <3> QED
      BY <1>0, <3>1 DEF CommandType
  <2>2. proc'[p] = next
    BY <1>1, <2>1, OneGoes
  <2>3. /\ next.pc = To(p, "inputs").pc /\ next.kind = To(p, "inputs").kind
        /\ next.audit = To(p, "inputs").audit /\ next.by = To(p, "inputs").by
        /\ next.alone = To(p, "inputs").alone /\ next.dir = To(p, "inputs").dir
        /\ next.members = To(p, "inputs").members /\ next.before = To(p, "inputs").before
        /\ next.counted = To(p, "inputs").counted
        /\ next.artifacts = To(p, "inputs").artifacts
        /\ next.weighed = To(p, "inputs").weighed
        /\ next.ranked = To(p, "inputs").ranked /\ next.cites = To(p, "inputs").cites
    BY <1>0 DEF CommandType
  <2> HIDE DEF next
  <2> QED
    <3>1. proc'[p].pc = "inputs" /\ proc'[p].members = proc[p].members
      BY <2>2, <2>3, Advances
    <3>2. LineKept(p)
      BY <2>2, <2>3, Advances DEF LineKept
    <3>3. CountKept(p)
      BY <2>2, <2>3, Advances DEF CountKept
    <3>4. MemoKept(p)
      BY <2>2, <2>3, Advances DEF MemoKept
    <3> QED
      BY <3>1, <3>2, <3>3, <3>4
<1>4. Countable' = Countable
  BY StoreKeeps DEF Persist
<1>5. Route(p)'
  BY <1>1, <1>3 DEF Holds, Route, At, LineKept
<1>6. Undisturbed(p)' => Quantifies(p)'
  BY <1>1, <1>3, <1>4 DEF Holds, Undisturbed, Quantifies, InFiles, Quantified, At, LineKept
<1>7. Undisturbed(p)' => Counts(p)'
  BY <1>1, <1>2, <1>3, <1>4
     DEF Holds, Undisturbed, Quantifies, Counts, Quantified, At, LineKept, CountKept, Scenarios
<1>8. Undisturbed(p)' => Tells(p)'
  BY <1>1, <1>3, <1>4 DEF Holds, Undisturbed, Tells, Quantified, At, LineKept, MemoKept
<1> QED
  BY <1>5, <1>6, <1>7, <1>8 DEF Holds

(* The row gets its inputs; there are as many rows as before. *)
LEMMA PersistInputsHolds ==
    ASSUME TypeOK, NEW p \in Procs, Holds(p), PersistInputs(p),
           proc[p].row \in DOMAIN scenarios
    PROVE  Holds(p)'
<1>1. /\ scenarios' = [scenarios EXCEPT ![proc[p].row].inputs = TRUE] /\ sims' = sims
      /\ files' = files /\ At(p, "inputs") /\ Goes(p, To(p, "charts"))
  BY DEF PersistInputs
<1>2. Len(scenarios') = Len(scenarios)
  BY <1>1 DEF TypeOK
<1>3. /\ proc'[p].pc = "charts" /\ proc'[p].members = proc[p].members
      /\ LineKept(p) /\ CountKept(p) /\ MemoKept(p)
  BY <1>1, ToKeeps
<1>4. Countable' = Countable
  BY StoreKeeps DEF PersistInputs
<1>5. Route(p)'
  BY <1>1, <1>3 DEF Holds, Route, At, LineKept
<1>6. Undisturbed(p)' => Quantifies(p)'
  BY <1>1, <1>3, <1>4 DEF Holds, Undisturbed, Quantifies, InFiles, Quantified, At, LineKept
<1>7. Undisturbed(p)' => Counts(p)'
  BY <1>1, <1>2, <1>3, <1>4
     DEF Holds, Undisturbed, Counts, Quantified, At, LineKept, CountKept, Scenarios
<1>8. Undisturbed(p)' => Tells(p)'
  BY <1>1, <1>3, <1>4 DEF Holds, Undisturbed, Tells, Quantified, At, LineKept, MemoKept
<1> QED
  BY <1>5, <1>6, <1>7, <1>8 DEF Holds

(* The simulation becomes the last on record. *)
LEMMA SimulationHolds ==
    ASSUME TypeOK, NEW p \in Procs, Holds(p), Simulation(p), proc[p].audit
    PROVE  Holds(p)'
<1>0. To(p, "link") \in CommandType /\ Shown(p) \in SimulationType
  <2>1. To(p, "link") \in CommandType /\ proc[p] \in CommandType
    BY PositionsTyped
  <2> QED
    BY <2>1 DEF Shown, CommandType, SimulationType
<1>1. /\ sims' = Append(sims, Shown(p)) /\ scenarios' = scenarios /\ files' = files
      /\ At(p, "simulation") /\ Goes(p, [To(p, "link") EXCEPT !.sim = Len(sims')])
  BY DEF Simulation
<1>2. Len(sims') \in Nat /\ sims' # <<>> /\ Last(sims') = Shown(p)
  BY <1>0, <1>1 DEF TypeOK, Last
<1>3. /\ proc'[p].pc = "link" /\ proc'[p].members = proc[p].members
      /\ LineKept(p) /\ CountKept(p) /\ MemoKept(p)
  <2> DEFINE next == [To(p, "link") EXCEPT !.sim = Len(sims')]
  <2>1. next \in CommandType
    BY <1>0, <1>2 DEF CommandType
  <2>2. proc'[p] = next
    BY <1>1, <2>1, OneGoes
  <2>3. /\ next.pc = To(p, "link").pc /\ next.kind = To(p, "link").kind
        /\ next.audit = To(p, "link").audit /\ next.by = To(p, "link").by
        /\ next.alone = To(p, "link").alone /\ next.dir = To(p, "link").dir
        /\ next.members = To(p, "link").members /\ next.before = To(p, "link").before
        /\ next.counted = To(p, "link").counted
        /\ next.artifacts = To(p, "link").artifacts
        /\ next.weighed = To(p, "link").weighed
        /\ next.ranked = To(p, "link").ranked /\ next.cites = To(p, "link").cites
    BY <1>0 DEF CommandType
  <2> HIDE DEF next
  <2> QED
    <3>1. proc'[p].pc = "link" /\ proc'[p].members = proc[p].members
      BY <2>2, <2>3, Advances
    <3>2. LineKept(p)
      BY <2>2, <2>3, Advances DEF LineKept
    <3>3. CountKept(p)
      BY <2>2, <2>3, Advances DEF CountKept
    <3>4. MemoKept(p)
      BY <2>2, <2>3, Advances DEF MemoKept
    <3> QED
      BY <3>1, <3>2, <3>3, <3>4
<1>4. Countable' = Countable /\ Shown(p)' = Shown(p)
  BY <1>3, StoreKeeps DEF Simulation, Shown, LineKept
<1>5. Route(p)'
  BY <1>1, <1>3 DEF Holds, Route, At, LineKept
<1>6. Undisturbed(p)' => Quantifies(p)'
  BY <1>1, <1>2, <1>3, <1>4 DEF Holds, Undisturbed, Quantifies, InFiles, Quantified, At, LineKept
<1>7. Undisturbed(p)' => Counts(p)'
  BY <1>1, <1>2, <1>3, <1>4
     DEF Holds, Undisturbed, Counts, Quantified, At, LineKept, CountKept, Scenarios
<1>8. Undisturbed(p)' => Tells(p)'
  BY <1>1, <1>3, <1>4 DEF Holds, Undisturbed, Tells, Quantified, At, LineKept, MemoKept
<1> QED
  BY <1>5, <1>6, <1>7, <1>8 DEF Holds

(* And stays it while the row is linked. *)
LEMMA LinkHolds ==
    ASSUME TypeOK, NEW p \in Procs, Holds(p), Link(p), proc[p].row \in DOMAIN scenarios
    PROVE  Holds(p)'
<1>1. /\ scenarios' = [scenarios EXCEPT ![proc[p].row].sim = proc[p].sim] /\ sims' = sims
      /\ files' = files /\ At(p, "link") /\ Goes(p, To(p, "appendix"))
  BY DEF Link, Linked
<1>2. Len(scenarios') = Len(scenarios)
  BY <1>1 DEF TypeOK
<1>3. /\ proc'[p].pc = "appendix" /\ proc'[p].members = proc[p].members
      /\ LineKept(p) /\ CountKept(p) /\ MemoKept(p)
  BY <1>1, ToKeeps
<1>4. Countable' = Countable /\ Shown(p)' = Shown(p)
  BY <1>3, StoreKeeps DEF Link, Shown, LineKept
<1>5. Route(p)'
  BY <1>1, <1>3 DEF Holds, Route, At, LineKept
<1>6. Undisturbed(p)' => Quantifies(p)'
  BY <1>1, <1>3, <1>4 DEF Holds, Undisturbed, Quantifies, InFiles, Quantified, At, LineKept
<1>7. Undisturbed(p)' => Counts(p)'
  BY <1>1, <1>2, <1>3, <1>4
     DEF Holds, Undisturbed, Counts, Quantified, At, LineKept, CountKept, Scenarios
<1>8. Undisturbed(p)' => Tells(p)'
  BY <1>1, <1>3, <1>4 DEF Holds, Undisturbed, Tells, Quantified, At, LineKept, MemoKept
<1> QED
  BY <1>5, <1>6, <1>7, <1>8 DEF Holds

(* A file is written and nothing else in its directory. *)
LEMMA FilesWritten ==
    ASSUME TypeOK, NEW dir \in {"risk", "memo"}, NEW a \in {"charts", "appendix"}, NEW what,
           files' = [files EXCEPT ![dir][a] = what]
    PROVE  /\ files'[dir][a] = what
           /\ \A d \in {"risk", "memo"} : \A b \in {"charts", "appendix"} :
                d # dir \/ b # a => files'[d][b] = files[d][b]
           /\ files'.backlog = files.backlog /\ files'.report = files.report
<1>1. /\ {"risk", "memo", "backlog", "report"} \subseteq DOMAIN files
      /\ \A d \in {"risk", "memo"} : files[d] \in [charts : SimulationType,
                                                    appendix : SimulationType]
  BY DEF TypeOK
<1>2. files'[dir] = [files[dir] EXCEPT ![a] = what]
  BY <1>1
<1>3. \A x \in {"risk", "memo", "backlog", "report"} : x # dir => files'[x] = files[x]
  BY <1>1
<1>4. /\ files'[dir][a] = what
      /\ \A b \in {"charts", "appendix"} : b # a => files'[dir][b] = files[dir][b]
  BY <1>1, <1>2
<1> QED
  BY <1>3, <1>4

(* The charts in the directory become those of the command. *)
LEMMA ChartsHolds ==
    ASSUME TypeOK, NEW p \in Procs, Holds(p), Charts(p)
    PROVE  Holds(p)'
<1> DEFINE place == IF proc[p].audit THEN "simulation" ELSE "appendix"
<1>1. place \in {"simulation", "appendix"} /\ (place = "simulation" <=> proc[p].audit)
  BY DEF TypeOK, CommandType
<1>2. /\ scenarios' = scenarios /\ sims' = sims /\ At(p, "charts")
      /\ files' = [files EXCEPT ![proc[p].dir].charts = Shown(p)]
      /\ Goes(p, To(p, place))
  BY DEF Charts, audit
<1> HIDE DEF place
<1>3. /\ proc'[p].pc = place /\ proc'[p].members = proc[p].members
      /\ LineKept(p) /\ CountKept(p) /\ MemoKept(p)
  BY <1>1, <1>2, ToKeeps
<1>4. Countable' = Countable /\ Shown(p)' = Shown(p)
  BY <1>3, StoreKeeps DEF Charts, Shown, LineKept
<1>5. /\ proc[p].dir \in {"risk", "memo"} /\ files'[proc[p].dir].charts = Shown(p)
      /\ files'.backlog = files.backlog
  <2>1. proc[p].dir \in {"risk", "memo"}
    BY DEF TypeOK, CommandType
  <2> QED
    BY <1>2, <2>1, FilesWritten
<1>6. Route(p)'
  BY <1>1, <1>2, <1>3 DEF Holds, Route, At, LineKept
<1>7. Undisturbed(p)' => Quantifies(p)'
  BY <1>1, <1>2, <1>3, <1>4, <1>5
     DEF Holds, Undisturbed, Quantifies, InFiles, Quantified, At, LineKept
<1>8. Undisturbed(p)' => Counts(p)'
  BY <1>1, <1>2, <1>3, <1>4
     DEF Holds, Undisturbed, Counts, Quantified, At, LineKept, CountKept, Scenarios
<1>9. Undisturbed(p)' => Tells(p)'
  BY <1>1, <1>2, <1>3, <1>4 DEF Holds, Undisturbed, Tells, Quantified, At, LineKept, MemoKept
<1> QED
  BY <1>6, <1>7, <1>8, <1>9 DEF Holds

(* And so does the appendix. *)
LEMMA AppendixHolds ==
    ASSUME TypeOK, NEW p \in Procs, Holds(p), Appendix(p)
    PROVE  Holds(p)'
<1> DEFINE place == IF proc[p].kind = "memo" THEN "as_of" ELSE "artifacts"
<1>1. place \in {"as_of", "artifacts"} /\ (place = "as_of" <=> proc[p].kind = "memo")
  OBVIOUS
<1>2. /\ scenarios' = scenarios /\ sims' = sims /\ At(p, "appendix")
      /\ files' = [files EXCEPT ![proc[p].dir].appendix = Shown(p)]
      /\ Goes(p, To(p, place))
  BY DEF Appendix, audit
<1> HIDE DEF place
<1>3. /\ proc'[p].pc = place /\ proc'[p].members = proc[p].members
      /\ LineKept(p) /\ CountKept(p) /\ MemoKept(p)
  BY <1>1, <1>2, ToKeeps
<1>4. Countable' = Countable /\ Shown(p)' = Shown(p)
  BY <1>3, StoreKeeps DEF Appendix, Shown, LineKept
<1>5. /\ proc[p].dir \in {"risk", "memo"} /\ files'[proc[p].dir].appendix = Shown(p)
      /\ files'[proc[p].dir].charts = files[proc[p].dir].charts
      /\ files'.backlog = files.backlog
  <2>1. proc[p].dir \in {"risk", "memo"}
    BY DEF TypeOK, CommandType
  <2> QED
    BY <1>2, <2>1, FilesWritten
<1>6. Route(p)' /\ proc[p].kind \in {"quantify", "finalize", "memo"}
  BY <1>1, <1>2, <1>3 DEF TypeOK, CommandType, Holds, Route, At, LineKept
<1>7. Undisturbed(p)' => Quantifies(p)'
  BY <1>1, <1>2, <1>3, <1>4, <1>5
     DEF Holds, Undisturbed, Quantifies, InFiles, Quantified, At, LineKept
<1>8. Undisturbed(p)' => Counts(p)'
  BY <1>1, <1>2, <1>3, <1>4
     DEF Holds, Undisturbed, Counts, Quantified, At, LineKept, CountKept, Scenarios
<1>9. Undisturbed(p)' => Tells(p)'
  BY <1>1, <1>2, <1>3, <1>4 DEF Holds, Undisturbed, Tells, Quantified, At, LineKept, MemoKept
<1> QED
  BY <1>6, <1>7, <1>8, <1>9 DEF Holds

(* What it finds in the directory is its own, and it has added one row or none. *)
LEMMA ArtifactsHolds ==
    ASSUME TypeOK, NEW p \in Procs, Holds(p), Artifacts(p)
    PROVE  Holds(p)'
<1>0. /\ To(p, "disclose") \in CommandType
      /\ Len(scenarios) \in Nat /\ proc[p].before \in Nat /\ proc[p].counted \in Int
  <2>1. To(p, "disclose") \in CommandType /\ proc[p] \in CommandType
    BY PositionsTyped
  <2>2. Len(scenarios) \in Nat
    BY DEF TypeOK
  <2> QED
    BY <2>1, <2>2 DEF CommandType
<1> DEFINE there == {a \in {"charts", "appendix"} : files["risk"][a] # Absent}
           added == IF proc[p].audit THEN Len(scenarios) - proc[p].before
                                     ELSE proc[p].counted
           next == [To(p, "disclose") EXCEPT !.artifacts = there, !.counted = added]
<1>1. /\ scenarios' = scenarios /\ sims' = sims /\ files' = files /\ At(p, "artifacts")
      /\ Goes(p, next)
  <2>1. To(p, "disclose").counted = proc[p].counted
    BY Advances
  <2>2. Goes(p, [To(p, "disclose") EXCEPT !.artifacts = there,
                   !.counted = IF proc[p].audit THEN Len(scenarios) - proc[p].before ELSE @])
    BY DEF Artifacts
  <2>3. [To(p, "disclose") EXCEPT !.artifacts = there].counted = To(p, "disclose").counted
    BY <1>0 DEF CommandType
  <2> QED
    BY <2>1, <2>2, <2>3 DEF Artifacts, audit
<1>2. there \in SUBSET {"charts", "appendix"} /\ added \in Int
  BY <1>0
<1> HIDE DEF there, added
<1>3. next \in CommandType /\ next.artifacts = there /\ next.counted = added
  BY <1>0, <1>2 DEF CommandType
<1>4. /\ next.pc = To(p, "disclose").pc /\ next.kind = To(p, "disclose").kind
      /\ next.audit = To(p, "disclose").audit /\ next.by = To(p, "disclose").by
      /\ next.alone = To(p, "disclose").alone /\ next.dir = To(p, "disclose").dir
      /\ next.members = To(p, "disclose").members /\ next.before = To(p, "disclose").before
      /\ next.weighed = To(p, "disclose").weighed /\ next.ranked = To(p, "disclose").ranked
      /\ next.cites = To(p, "disclose").cites
  BY <1>0 DEF CommandType
<1> HIDE DEF next
<1>5. /\ proc'[p].pc = "disclose" /\ proc'[p].members = proc[p].members /\ LineKept(p)
      /\ proc'[p].artifacts = there /\ proc'[p].counted = added
      /\ proc'[p].ranked = proc[p].ranked
  <2>1. proc'[p] = next
    BY <1>1, <1>3, OneGoes
  <2> QED
    BY <1>3, <1>4, <2>1, Advances DEF LineKept
<1>6. Countable' = Countable /\ Shown(p)' = Shown(p)
  BY <1>5, StoreKeeps DEF Artifacts, Shown, LineKept
<1>7. Route(p)' /\ proc[p].dir = "risk" /\ proc[p].by > 0
  BY <1>1, <1>5 DEF Holds, Route, At, LineKept
<1>8. Undisturbed(p)' => Quantifies(p)'
  BY <1>1, <1>5, <1>6, <1>7
     DEF Holds, Undisturbed, Quantifies, InFiles, Quantified, At, LineKept
<1>9. Undisturbed(p)' => Counts(p)'
  BY <1>0, <1>1, <1>5, <1>6
     DEF Holds, Undisturbed, Counts, Quantified, At, LineKept, Scenarios, added
<1>10. Undisturbed(p)' => Tells(p)'
  <2> SUFFICES ASSUME Undisturbed(p)' PROVE Tells(p)'
    OBVIOUS
  <2>1. /\ files["risk"].appendix = Shown(p)
        /\ Countable # {} => files["risk"].charts = Shown(p)
    BY <1>1, <1>5, <1>7 DEF Holds, Undisturbed, Quantifies, InFiles, At, LineKept
  <2>2. Shown(p) # Absent
    BY <1>7 DEF Shown, Absent, TypeOK, CommandType
  <2>3. "appendix" \in there /\ (Countable # {} => "charts" \in there)
    BY <2>1, <2>2 DEF there
  <2> QED
    BY <1>1, <1>5, <1>6, <1>7, <2>3
       DEF Holds, Undisturbed, Tells, Quantified, At, LineKept, Route
<1> QED
  BY <1>7, <1>8, <1>9, <1>10 DEF Holds

(* finalize goes on to the reports. *)
LEMMA DiscloseHolds ==
    ASSUME TypeOK, NEW p \in Procs, Holds(p), Disclose(p), ~Ends(p)
    PROVE  Holds(p)'
<1>1. /\ scenarios' = scenarios /\ sims' = sims /\ files' = files /\ At(p, "disclose")
      /\ proc[p].kind = "finalize" /\ Goes(p, To(p, "backlog"))
  BY DEF Disclose, audit
<1>2. /\ proc'[p].pc = "backlog" /\ proc'[p].members = proc[p].members
      /\ LineKept(p) /\ CountKept(p) /\ MemoKept(p)
  BY <1>1, ToKeeps
<1>3. Countable' = Countable /\ Shown(p)' = Shown(p)
  BY <1>2, StoreKeeps DEF Disclose, Shown, LineKept
<1>6. Route(p)'
  BY <1>1, <1>2, <1>3 DEF Holds, Route, At, LineKept
<1>7. Undisturbed(p)' => Quantifies(p)'
  BY <1>1, <1>2, <1>3
     DEF Holds, Undisturbed, Quantifies, InFiles, Quantified, At, LineKept
<1>8. Undisturbed(p)' => Counts(p)'
  BY <1>1, <1>2, <1>3
     DEF Holds, Undisturbed, Counts, Quantified, At, LineKept, CountKept, Scenarios
<1>9. Undisturbed(p)' => Tells(p)'
  BY <1>1, <1>2, <1>3
     DEF Holds, Undisturbed, Tells, Quantified, At, LineKept, MemoKept, Cited
<1> QED
  BY <1>6, <1>7, <1>8, <1>9 DEF Holds

(* The backlog lists the countable findings. *)
LEMMA BacklogHolds ==
    ASSUME TypeOK, NEW p \in Procs, Holds(p), Backlog(p), ~Ends(p)
    PROVE  Holds(p)'
<1>1. /\ scenarios' = scenarios /\ sims' = sims /\ At(p, "backlog")
      /\ files' = [files EXCEPT !.backlog = Countable]
      /\ proc[p].kind = "finalize" /\ Goes(p, To(p, "weigh"))
  BY DEF Backlog, audit
<1>2. /\ proc'[p].pc = "weigh" /\ proc'[p].members = proc[p].members
      /\ LineKept(p) /\ CountKept(p) /\ MemoKept(p)
  BY <1>1, ToKeeps
<1>3. Countable' = Countable /\ Shown(p)' = Shown(p)
  BY <1>2, StoreKeeps DEF Backlog, Shown, LineKept
<1>4. /\ files'["risk"] = files["risk"] /\ files'["memo"] = files["memo"]
      /\ files'.backlog = Countable
  BY <1>1 DEF TypeOK
<1>5. files'[proc[p].dir] = files[proc[p].dir]
  <2>1. proc[p].dir \in {"risk", "memo"}
    BY DEF TypeOK, CommandType
  <2> QED
    BY <1>4, <2>1
<1>6. Route(p)'
  BY <1>1, <1>2, <1>3, <1>4, <1>5 DEF Holds, Route, At, LineKept
<1>7. Undisturbed(p)' => Quantifies(p)'
  BY <1>1, <1>2, <1>3, <1>4, <1>5
     DEF Holds, Undisturbed, Quantifies, InFiles, Quantified, At, LineKept
<1>8. Undisturbed(p)' => Counts(p)'
  BY <1>1, <1>2, <1>3, <1>4, <1>5
     DEF Holds, Undisturbed, Counts, Quantified, At, LineKept, CountKept, Scenarios
<1>9. Undisturbed(p)' => Tells(p)'
  BY <1>1, <1>2, <1>3, <1>4, <1>5
     DEF Holds, Undisturbed, Tells, Quantified, At, LineKept, MemoKept, Cited
<1> QED
  BY <1>6, <1>7, <1>8, <1>9 DEF Holds

(* All analyzable findings are weighed, *)
LEMMA WeighHolds ==
    ASSUME TypeOK, NEW p \in Procs, Holds(p), Weigh(p)
    PROVE  Holds(p)'
<1> DEFINE next == [To(p, "rank") EXCEPT !.weighed = Analyzable]
<1>1. /\ scenarios' = scenarios /\ sims' = sims /\ files' = files /\ At(p, "weigh")
      /\ Goes(p, next)
  BY DEF Weigh, audit
<1>2. next \in CommandType /\ next.weighed = Analyzable
  <2>1. To(p, "rank") \in CommandType /\ Analyzable \in SUBSET Findings
    BY PositionsTyped, CountablesTyped
  <2> QED
    BY <2>1 DEF CommandType
<1>3. /\ next.pc = To(p, "rank").pc /\ next.kind = To(p, "rank").kind
      /\ next.audit = To(p, "rank").audit /\ next.by = To(p, "rank").by
      /\ next.alone = To(p, "rank").alone /\ next.dir = To(p, "rank").dir
      /\ next.members = To(p, "rank").members /\ next.before = To(p, "rank").before
      /\ next.counted = To(p, "rank").counted /\ next.artifacts = To(p, "rank").artifacts
      /\ next.ranked = To(p, "rank").ranked /\ next.cites = To(p, "rank").cites
  <2>1. To(p, "rank") \in CommandType
    BY PositionsTyped
  <2> QED
    BY <2>1 DEF CommandType
<1> HIDE DEF next
<1>4. /\ proc'[p].pc = "rank" /\ proc'[p].members = proc[p].members
      /\ LineKept(p) /\ CountKept(p)
      /\ proc'[p].weighed = Analyzable /\ proc'[p].artifacts = proc[p].artifacts
      /\ proc'[p].ranked = proc[p].ranked
  <2>1. proc'[p] = next
    BY <1>1, <1>2, OneGoes
  <2> QED
    BY <1>2, <1>3, <2>1, Advances DEF LineKept, CountKept
<1>5. Countable' = Countable /\ Analyzable' = Analyzable /\ Shown(p)' = Shown(p)
  BY <1>4, StoreKeeps DEF Weigh, Shown, LineKept
<1>6. Route(p)'
  BY <1>1, <1>4, <1>5 DEF Holds, Route, At, LineKept
<1>7. Undisturbed(p)' => Quantifies(p)'
  BY <1>1, <1>4, <1>5
     DEF Holds, Undisturbed, Quantifies, InFiles, Quantified, At, LineKept
<1>8. Undisturbed(p)' => Counts(p)'
  BY <1>1, <1>4, <1>5
     DEF Holds, Undisturbed, Counts, Quantified, At, LineKept, CountKept, Scenarios
<1>9. Undisturbed(p)' => Tells(p)'
  BY <1>1, <1>4, <1>5
     DEF Holds, Undisturbed, Tells, Quantified, At, LineKept, Cited
<1> QED
  BY <1>6, <1>7, <1>8, <1>9 DEF Holds

(* so all countable ones are ranked. *)
LEMMA RankHolds ==
    ASSUME TypeOK, NEW p \in Procs, Holds(p), Rank(p)
    PROVE  Holds(p)'
<1> DEFINE both == Countable \cap proc[p].weighed
           next == [To(p, "disclaim") EXCEPT !.ranked = both]
<1>1. /\ scenarios' = scenarios /\ sims' = sims /\ files' = files /\ At(p, "rank")
      /\ Goes(p, next)
  BY DEF Rank, audit
<1>2. both \in SUBSET Findings /\ (proc[p].weighed = Analyzable => both = Countable)
  BY CountablesTyped
<1> HIDE DEF both
<1>3. next \in CommandType /\ next.ranked = both
  <2>1. To(p, "disclaim") \in CommandType
    BY PositionsTyped
  <2> QED
    BY <1>2, <2>1 DEF CommandType
<1>4. /\ next.pc = To(p, "disclaim").pc /\ next.kind = To(p, "disclaim").kind
      /\ next.audit = To(p, "disclaim").audit /\ next.by = To(p, "disclaim").by
      /\ next.alone = To(p, "disclaim").alone /\ next.dir = To(p, "disclaim").dir
      /\ next.members = To(p, "disclaim").members /\ next.before = To(p, "disclaim").before
      /\ next.counted = To(p, "disclaim").counted /\ next.artifacts = To(p, "disclaim").artifacts
      /\ next.weighed = To(p, "disclaim").weighed /\ next.cites = To(p, "disclaim").cites
  <2>1. To(p, "disclaim") \in CommandType
    BY PositionsTyped
  <2> QED
    BY <2>1 DEF CommandType
<1> HIDE DEF next
<1>5. /\ proc'[p].pc = "disclaim" /\ proc'[p].members = proc[p].members
      /\ LineKept(p) /\ CountKept(p)
      /\ proc'[p].artifacts = proc[p].artifacts /\ proc'[p].ranked = both
  <2>1. proc'[p] = next
    BY <1>1, <1>3, OneGoes
  <2> QED
    BY <1>3, <1>4, <2>1, Advances DEF LineKept, CountKept
<1>10. Countable' = Countable /\ Shown(p)' = Shown(p)
  BY <1>5, StoreKeeps DEF Rank, Shown, LineKept
<1>6. Route(p)'
  BY <1>1, <1>2, <1>5, <1>10 DEF Holds, Route, At, LineKept
<1>7. Undisturbed(p)' => Quantifies(p)'
  BY <1>1, <1>2, <1>5, <1>10
     DEF Holds, Undisturbed, Quantifies, InFiles, Quantified, At, LineKept
<1>8. Undisturbed(p)' => Counts(p)'
  BY <1>1, <1>2, <1>5, <1>10
     DEF Holds, Undisturbed, Counts, Quantified, At, LineKept, CountKept, Scenarios
<1>9. Undisturbed(p)' => Tells(p)'
  BY <1>1, <1>2, <1>5, <1>10
     DEF Holds, Undisturbed, Tells, Quantified, At, LineKept, Cited
<1> QED
  BY <1>6, <1>7, <1>8, <1>9 DEF Holds

(* The memo embeds what was quantified, or quantifies. *)
LEMMA DisclaimHolds ==
    ASSUME TypeOK, NEW p \in Procs, Holds(p), Disclaim(p), ~Ends(p)
    PROVE  Holds(p)'
<1> DEFINE place == IF proc[p].kind = "finalize" THEN "copy" ELSE "build"
<1>1. place \in {"copy", "build"} /\ (place = "copy" <=> proc[p].kind = "finalize")
  OBVIOUS
<1>2. /\ scenarios' = scenarios /\ sims' = sims /\ files' = files /\ At(p, "disclaim")
      /\ Goes(p, To(p, place))
  BY DEF Disclaim, audit
<1> HIDE DEF place
<1>3. /\ proc'[p].pc = place /\ proc'[p].members = proc[p].members
      /\ LineKept(p) /\ CountKept(p) /\ MemoKept(p)
  BY <1>1, <1>2, ToKeeps
<1>4. Countable' = Countable /\ Shown(p)' = Shown(p)
  BY <1>3, StoreKeeps DEF Disclaim, Shown, LineKept
<1>6. Route(p)'
  BY <1>1, <1>2, <1>3, <1>4 DEF Holds, Route, At, LineKept
<1>7. Undisturbed(p)' => Quantifies(p)'
  BY <1>1, <1>2, <1>3, <1>4
     DEF Holds, Undisturbed, Quantifies, InFiles, Quantified, At, LineKept
<1>8. Undisturbed(p)' => Counts(p)'
  BY <1>1, <1>2, <1>3, <1>4
     DEF Holds, Undisturbed, Counts, Quantified, At, LineKept, CountKept, Scenarios
<1>9. Undisturbed(p)' => Tells(p)'
  BY <1>1, <1>2, <1>3, <1>4
     DEF Holds, Undisturbed, Tells, Quantified, At, LineKept, MemoKept, Cited
<1> QED
  BY <1>6, <1>7, <1>8, <1>9 DEF Holds

(* The citation is of the last simulation. *)
LEMMA AsOfHolds ==
    ASSUME TypeOK, NEW p \in Procs, Holds(p), AsOf(p)
    PROVE  Holds(p)'
<1> DEFINE next == [To(p, "write") EXCEPT !.cites = Cited(p)]
<1>1. /\ scenarios' = scenarios /\ sims' = sims /\ files' = files /\ At(p, "as_of")
      /\ Goes(p, next)
  BY DEF AsOf, audit
<1>2. next \in CommandType /\ next.cites = Cited(p)
  <2>1. To(p, "write") \in CommandType /\ Cited(p) \in Nat
    BY PositionsTyped DEF Cited, TypeOK
  <2> QED
    BY <2>1 DEF CommandType
<1>3. /\ next.pc = To(p, "write").pc /\ next.kind = To(p, "write").kind
      /\ next.audit = To(p, "write").audit /\ next.by = To(p, "write").by
      /\ next.alone = To(p, "write").alone /\ next.dir = To(p, "write").dir
      /\ next.members = To(p, "write").members /\ next.before = To(p, "write").before
      /\ next.counted = To(p, "write").counted /\ next.artifacts = To(p, "write").artifacts
      /\ next.weighed = To(p, "write").weighed /\ next.ranked = To(p, "write").ranked
  <2>1. To(p, "write") \in CommandType
    BY PositionsTyped
  <2> QED
    BY <2>1 DEF CommandType
<1> HIDE DEF next
<1>4. /\ proc'[p].pc = "write" /\ proc'[p].members = proc[p].members
      /\ LineKept(p) /\ CountKept(p) /\ proc'[p].cites = Cited(p)
      /\ proc'[p].artifacts = proc[p].artifacts /\ proc'[p].ranked = proc[p].ranked
  <2>1. proc'[p] = next
    BY <1>1, <1>2, OneGoes
  <2> QED
    BY <1>2, <1>3, <2>1, Advances DEF LineKept, CountKept
<1>5. Countable' = Countable /\ Shown(p)' = Shown(p)
  BY <1>4, StoreKeeps DEF AsOf, Shown, LineKept
<1>6. Route(p)'
  BY <1>1, <1>4, <1>5 DEF Holds, Route, At, LineKept
<1>7. Undisturbed(p)' => Quantifies(p)'
  BY <1>1, <1>4, <1>5
     DEF Holds, Undisturbed, Quantifies, InFiles, Quantified, At, LineKept
<1>8. Undisturbed(p)' => Counts(p)'
  BY <1>1, <1>4, <1>5
     DEF Holds, Undisturbed, Counts, Quantified, At, LineKept, CountKept, Scenarios
<1>9. Undisturbed(p)' => Tells(p)'
  BY <1>1, <1>4, <1>5
     DEF Holds, Undisturbed, Tells, Quantified, At, LineKept, Cited
<1> QED
  BY <1>6, <1>7, <1>8, <1>9 DEF Holds

(* A file is copied beside the memo, or nothing is left to copy. *)
LEMMA CopyHolds ==
    ASSUME TypeOK, NEW p \in Procs, Holds(p), Copy(p)
    PROVE  Holds(p)'
<1>1. /\ scenarios' = scenarios /\ sims' = sims /\ At(p, "copy") /\ proc[p] \in CommandType
      /\ proc[p].kind = "finalize" /\ proc[p].dir = "risk"
  BY PositionsTyped DEF Copy, audit, Holds, Route, At
<1>2. Countable' = Countable
  BY StoreKeeps DEF Copy
<1>3. CASE Goes(p, To(p, "as_of")) /\ proc[p].artifacts = {} /\ files' = files
  <2>1. /\ proc'[p].pc = "as_of" /\ proc'[p].members = proc[p].members
        /\ LineKept(p) /\ CountKept(p) /\ MemoKept(p)
    BY <1>3, ToKeeps
  <2>2. Shown(p)' = Shown(p)
    BY <2>1 DEF Shown, LineKept
  <2>3. Route(p)'
    BY <1>1, <2>1 DEF Holds, Route, At, LineKept
  <2>4. Undisturbed(p)' => Quantifies(p)'
    BY <1>1, <1>2, <1>3, <2>1, <2>2
       DEF Holds, Undisturbed, Quantifies, InFiles, Quantified, At, LineKept
  <2>5. Undisturbed(p)' => Counts(p)'
    BY <1>1, <1>2, <2>1
       DEF Holds, Undisturbed, Counts, Quantified, At, LineKept, CountKept, Scenarios
  <2>6. Undisturbed(p)' => Tells(p)'
    BY <1>1, <1>2, <1>3, <2>1, <2>2
       DEF Holds, Undisturbed, Tells, Quantified, At, LineKept, MemoKept
  <2> QED
    BY <2>3, <2>4, <2>5, <2>6 DEF Holds
<1>4. ASSUME NEW a \in proc[p].artifacts, Goes(p, [proc[p] EXCEPT !.artifacts = @ \ {a}]),
             files' = [files EXCEPT !["memo"][a] = Copied(p, a)]
      PROVE  Holds(p)'
  <2> DEFINE left == proc[p].artifacts \ {a}
             next == [proc[p] EXCEPT !.artifacts = left]
  <2>1. left \in SUBSET {"charts", "appendix"} /\ a \in {"charts", "appendix"}
    BY <1>1 DEF CommandType
  <2>2. Goes(p, next)
    BY <1>4
  <2>3. \A b \in proc[p].artifacts : b = a \/ b \in left
    OBVIOUS
  <2> HIDE DEF left
  <2>4. /\ next \in CommandType /\ next.artifacts = left
        /\ next.pc = proc[p].pc /\ next.kind = proc[p].kind
        /\ next.audit = proc[p].audit /\ next.by = proc[p].by
        /\ next.alone = proc[p].alone /\ next.dir = proc[p].dir
        /\ next.members = proc[p].members /\ next.before = proc[p].before
        /\ next.counted = proc[p].counted /\ next.ranked = proc[p].ranked
    BY <1>1, <2>1 DEF CommandType
  <2> HIDE DEF next
  <2>5. /\ proc'[p].pc = "copy" /\ proc'[p].members = proc[p].members
        /\ LineKept(p) /\ CountKept(p)
        /\ proc'[p].artifacts = left /\ proc'[p].ranked = proc[p].ranked
    BY <1>1, <2>2, <2>4, OneGoes DEF LineKept, CountKept, At
  <2>6. Shown(p)' = Shown(p)
    BY <2>5 DEF Shown, LineKept
  <2>7. /\ files'["memo"][a] = files["risk"][a]
        /\ \A b \in {"charts", "appendix"} : b # a => files'["memo"][b] = files["memo"][b]
        /\ files'["risk"].charts = files["risk"].charts
        /\ files'["risk"].appendix = files["risk"].appendix
        /\ files'.backlog = files.backlog
    BY <1>4, <2>1, FilesWritten DEF Copied
  <2>8. Route(p)'
    BY <1>1, <2>5 DEF Holds, Route, At, LineKept
  <2>9. Undisturbed(p)' => Quantifies(p)'
    BY <1>1, <1>2, <2>5, <2>6, <2>7
       DEF Holds, Undisturbed, Quantifies, InFiles, Quantified, At, LineKept
  <2>10. Undisturbed(p)' => Counts(p)'
    BY <1>1, <1>2, <2>5
       DEF Holds, Undisturbed, Counts, Quantified, At, LineKept, CountKept, Scenarios
  <2>11. Undisturbed(p)' => Tells(p)'
    <3> SUFFICES ASSUME Undisturbed(p)' PROVE Tells(p)'
      OBVIOUS
    <3>1. Undisturbed(p) /\ Quantified(p)
      BY <1>1, <2>5 DEF Undisturbed, At, LineKept, Quantified
    <3>2. /\ files["risk"].appendix = Shown(p)
          /\ Countable # {} => files["risk"].charts = Shown(p)
      BY <1>1, <3>1 DEF Holds, Quantifies, InFiles
    <3>3. /\ "appendix" \in proc[p].artifacts \/ files["memo"].appendix = Shown(p)
          /\ Countable # {} =>
               "charts" \in proc[p].artifacts \/ files["memo"].charts = Shown(p)
          /\ files.backlog = Countable /\ proc[p].ranked = Countable
      <4>1. Tells(p)
        BY <3>1 DEF Holds
      <4> QED
        BY <1>1, <3>1, <4>1 DEF Tells, At
    <3>4. "appendix" \in left \/ files'["memo"].appendix = Shown(p)
      BY <2>1, <2>3, <2>7, <3>2, <3>3
    <3>5. Countable # {} => "charts" \in left \/ files'["memo"].charts = Shown(p)
      BY <2>1, <2>3, <2>7, <3>2, <3>3
    <3> QED
      BY <1>1, <1>2, <2>5, <2>6, <2>7, <3>3, <3>4, <3>5 DEF Tells, Quantified, At, LineKept
  <2> QED
    BY <2>8, <2>9, <2>10, <2>11 DEF Holds
<1> QED
  BY <1>3, <1>4 DEF Copy

(* New requests may change what is countable, before anything is computed. *)
LEMMA RaiseHolds ==
    ASSUME TypeOK, NEW p \in Procs, Holds(p), Raise(p)
    PROVE  Holds(p)'
<1> DEFINE new == [proc EXCEPT ![p].pc = "open"]
           others == IF requested' = requested THEN {} ELSE Running \ {p}
<1>1. proc' = Disturbs(others, new) /\ At(p, "raise") /\ p \notin others
  BY DEF Raise
<1>2. proc[p] \in CommandType /\ [proc[p] EXCEPT !.pc = "open"] \in CommandType
  BY PositionsTyped DEF To
<1>3. new \in [Procs -> CommandType] /\ new[p] = [proc[p] EXCEPT !.pc = "open"]
  BY <1>2 DEF TypeOK
<1> HIDE DEF new, others
<1>4. proc'[p] = [proc[p] EXCEPT !.pc = "open"]
  <2>1. \A q \in Procs : Disturbs(others, new)[q] =
          IF q \in others THEN [new[q] EXCEPT !.alone = FALSE] ELSE new[q]
    BY <1>3, DisturbsTyped
  <2> QED
    BY <1>1, <1>3, <2>1
<1>5. proc'[p].pc = "open" /\ LineKept(p)
  BY <1>2, <1>4 DEF CommandType, LineKept
<1> QED
  BY <1>1, <1>5 DEF Holds, Route, Undisturbed, Quantifies, InFiles, Quantified, Counts, Tells, At,
                    LineKept

(* A command starts alone or not, and nobody else is alone from then on. *)
LEMMA StartHolds ==
    ASSUME TypeOK, NEW p \in Procs, Start(p)
    PROVE  /\ Holds(p)' /\ (proc'[p].alone => Running = {})
           /\ \A q \in Procs \ {p} : proc'[q] = IF q \in Running
                                             THEN [proc[q] EXCEPT !.alone = FALSE]
                                             ELSE proc[q]
<1>1. PICK c \in Commands :
        LET first == CASE c.kind = "quantify" -> "count"
                       [] c.kind = "finalize" -> "deferred"
                       [] c.kind = "memo"     -> "weigh"
                       [] c.kind = "backlog"  -> "backlog"
            begun == [Idle EXCEPT !.pc = first, !.kind = c.kind, !.audit = c.audit,
                                  !.by = commands + 1, !.alone = (Running = {}),
                                  !.dir = IF c.kind = "memo" THEN "memo" ELSE "risk"]
        IN  proc' = Disturbs(Running, [proc EXCEPT ![p] = begun])
  BY DEF Start
<1> DEFINE first == CASE c.kind = "quantify" -> "count"
                      [] c.kind = "finalize" -> "deferred"
                      [] c.kind = "memo"     -> "weigh"
                      [] c.kind = "backlog"  -> "backlog"
           dir == IF c.kind = "memo" THEN "memo" ELSE "risk"
           alone == Running = {}
           begun == [Idle EXCEPT !.pc = first, !.kind = c.kind, !.audit = c.audit,
                                 !.by = commands + 1, !.alone = alone, !.dir = dir]
           new == [proc EXCEPT ![p] = begun]
<1>2. /\ c.kind \in {"quantify", "finalize", "memo", "backlog"} /\ c.audit \in BOOLEAN
      /\ \/ c.kind = "quantify" /\ first = "count"
         \/ c.kind = "finalize" /\ first = "deferred"
         \/ c.kind = "memo" /\ first = "weigh"
         \/ c.kind = "backlog" /\ first = "backlog"
      /\ dir = IF c.kind = "memo" THEN "memo" ELSE "risk"
      /\ alone \in BOOLEAN /\ (alone => Running = {})
  BY ReportsAssumption
<1>3. commands + 1 \in 0 .. MaxCommands /\ commands + 1 > 0
  BY ReportsAssumption DEF Start, TypeOK
<1>4. proc' = Disturbs(Running, new) /\ p \notin Running
  BY <1>1 DEF Start, Running
<1> HIDE DEF first, dir, alone
<1>5. begun \in CommandType
  <2>1. /\ first \in {"count", "deferred", "weigh", "backlog"} /\ dir \in {"risk", "memo"}
        /\ alone \in BOOLEAN /\ c.audit \in BOOLEAN
        /\ c.kind \in {"quantify", "finalize", "memo", "backlog"}
        /\ commands + 1 \in 0 .. MaxCommands
    BY <1>2, <1>3
  <2> QED
    BY <2>1, IdleTyped DEF CommandType
<1>6. /\ begun.pc = first /\ begun.kind = c.kind /\ begun.by = commands + 1
      /\ begun.alone = alone /\ begun.dir = dir
  BY DEF Idle
<1> HIDE DEF begun
<1>7. /\ new \in [Procs -> CommandType] /\ new[p] = begun
      /\ \A q \in Procs \ {p} : new[q] = proc[q]
  BY <1>5 DEF TypeOK
<1> HIDE DEF new
<1>8. /\ proc'[p] = begun
      /\ \A q \in Procs \ {p} : proc'[q] = IF q \in Running
                                        THEN [proc[q] EXCEPT !.alone = FALSE] ELSE proc[q]
  <2>1. \A q \in Procs : Disturbs(Running, new)[q] =
          IF q \in Running THEN [new[q] EXCEPT !.alone = FALSE] ELSE new[q]
    BY <1>7, DisturbsTyped
  <2> QED
    BY <1>4, <1>7, <2>1
<1>9. Holds(p)'
  <2>1. Route(p)'
    BY <1>2, <1>3, <1>6, <1>8 DEF Route, At
  <2>2. Quantifies(p)' /\ Counts(p)' /\ Tells(p)'
    BY <1>2, <1>6, <1>8 DEF Quantifies, InFiles, Quantified, Counts, Tells, At
  <2> QED
    BY <2>1, <2>2 DEF Holds
<1> QED
  BY <1>2, <1>6, <1>8, <1>9

(* The requests of a command do not disturb itself. *)
LEMMA RaiseAlone ==
    ASSUME TypeOK, NEW p \in Procs, Raise(p)
    PROVE  proc'[p].alone = proc[p].alone
<1> DEFINE new == [proc EXCEPT ![p].pc = "open"]
           others == IF requested' = requested THEN {} ELSE Running \ {p}
<1>1. proc' = Disturbs(others, new) /\ p \notin others
  BY DEF Raise
<1>2. new[p].alone = proc[p].alone
  BY DEF TypeOK, CommandType
<1> HIDE DEF new, others
<1> QED
  BY <1>1, <1>2 DEF Disturbs

(* All the steps of a command. *)
LEMMA StepHolds ==
    ASSUME AuditInv, NEW p \in Procs, Holds(p), Step(p)
    PROVE  Holds(p)'
<1>0. TypeOK
  BY DEF AuditInv
<1>1. CASE Ends(p)
  BY <1>0, <1>1, EndingHolds
<1>2. CASE Start(p)
  BY <1>0, <1>2, StartHolds
<1>3. CASE CheckDeferred(p) \/ Raise(p) \/ CheckOpen(p) \/ CountBefore(p) \/ Build(p)
  BY <1>0, <1>3, ChecksHold, RaiseHolds, CountBeforeHolds, BuildHolds
<1>4. CASE Persist(p) \/ PersistInputs(p) \/ Simulation(p) \/ Link(p)
  <2>1. /\ At(p, "inputs") \/ At(p, "link") => proc[p].row \in DOMAIN scenarios
        /\ At(p, "simulation") => proc[p].audit
    BY DEF AuditInv, At, Auditing, HoldsRow
  <2>2. CASE Persist(p)
    BY <1>0, <2>2, PersistHolds
  <2>3. CASE PersistInputs(p)
    BY <1>0, <2>1, <2>3, PersistInputsHolds DEF PersistInputs
  <2>4. CASE Simulation(p)
    BY <1>0, <2>1, <2>4, SimulationHolds DEF Simulation
  <2>5. CASE Link(p)
    BY <1>0, <2>1, <2>5, LinkHolds DEF Link
  <2> QED
    BY <1>4, <2>2, <2>3, <2>4, <2>5
<1>5. CASE Charts(p) \/ Appendix(p) \/ Artifacts(p)
  BY <1>0, <1>5, ChartsHolds, AppendixHolds, ArtifactsHolds
<1>6. CASE ~Ends(p) /\ (Disclose(p) \/ Backlog(p) \/ Disclaim(p))
  BY <1>0, <1>6, DiscloseHolds, BacklogHolds, DisclaimHolds
<1>7. CASE Weigh(p) \/ Rank(p) \/ Copy(p) \/ AsOf(p)
  BY <1>0, <1>7, WeighHolds, RankHolds, CopyHolds, AsOfHolds
<1>8. CASE WriteMemo(p) \/ Die(p)
  BY <1>1, <1>8 DEF WriteMemo, Die
<1> QED
  BY <1>1, <1>2, <1>3, <1>4, <1>5, <1>6, <1>7, <1>8 DEF Step

(* A running command that was not alone is not alone after its step, and the
   step says of no other command that it is. *)
LEMMA StepsAlone ==
    ASSUME TypeOK, NEW p \in Procs, Step(p), ~Start(p)
    PROVE  /\ ~At(p, "idle")
           /\ proc'[p].pc = "idle" \/ proc'[p].alone = proc[p].alone
           /\ \A q \in Procs \ {p} : \/ proc'[q] = proc[q]
                                    \/ proc'[q] = [proc[q] EXCEPT !.alone = FALSE]
<1>0. /\ DOMAIN proc = Procs /\ "alone" \in DOMAIN proc[p]
      /\ Ends(p) => proc'[p].pc = "idle" /\ \A q \in Procs \ {p} : proc'[q] = proc[q]
  BY DEF TypeOK, CommandType, Ends, Idle
<1>1. \A pc : To(p, pc).alone = proc[p].alone /\ "alone" \in DOMAIN To(p, pc)
  BY <1>0 DEF To
<1>2. ASSUME NEW next, Goes(p, next)
      PROVE  proc'[p] = next /\ \A q \in Procs \ {p} : proc'[q] = proc[q]
  BY <1>0, <1>2 DEF Goes
<1>3. CASE Raise(p)
  <2> DEFINE new == [proc EXCEPT ![p].pc = "open"]
             others == IF requested' = requested THEN {} ELSE Running \ {p}
  <2>1. proc' = Disturbs(others, new) /\ At(p, "raise")
    BY <1>3 DEF Raise
  <2>2. \A q \in Procs \ {p} : new[q] = proc[q]
    BY <1>0
  <2>3. proc'[p].alone = proc[p].alone
    BY <1>0, <1>3, RaiseAlone
  <2> HIDE DEF new, others
  <2>4. \A q \in Procs \ {p} : proc'[q] = IF q \in others THEN [proc[q] EXCEPT !.alone = FALSE]
                                                         ELSE proc[q]
    BY <2>1, <2>2 DEF Disturbs
  <2> QED
    BY <2>1, <2>3, <2>4 DEF At
<1>4. CASE \/ CheckDeferred(p) \/ CheckOpen(p) \/ PersistInputs(p) \/ Charts(p) \/ Link(p)
           \/ Appendix(p) \/ Disclose(p) \/ Backlog(p) \/ Disclaim(p)
  <2>1. ~At(p, "idle") /\ (Ends(p) \/ \E pc : Goes(p, To(p, pc)))
    BY <1>4 DEF CheckDeferred, CheckOpen, PersistInputs, Charts, Link, Appendix, Disclose,
                Backlog, Disclaim, At
  <2> QED
    BY <1>0, <1>1, <1>2, <2>1
<1>5. CASE CountBefore(p)
  <2>1. At(p, "count") /\ (\/ Ends(p)
                           \/ Goes(p, [To(p, "build") EXCEPT
                                 !.before = Len(scenarios),
                                 !.counted = IF Countable = {} THEN 0 ELSE 1]))
    BY <1>5 DEF CountBefore
  <2> DEFINE next == [To(p, "build") EXCEPT !.before = Len(scenarios),
                                            !.counted = IF Countable = {} THEN 0 ELSE 1]
  <2>2. next.alone = proc[p].alone
    BY <1>1
  <2>3. Ends(p) \/ Goes(p, next)
    BY <2>1
  <2> HIDE DEF next
  <2> QED
    BY <1>0, <1>2, <2>1, <2>2, <2>3 DEF At
<1>6. CASE Build(p)
  <2>1. At(p, "build") /\ (\/ Ends(p)
                           \/ \E pc : Goes(p, [To(p, pc) EXCEPT !.members = Countable]))
    BY <1>6 DEF Build
  <2>2. \A pc : [To(p, pc) EXCEPT !.members = Countable].alone = proc[p].alone
    BY <1>1
  <2>3. CASE Ends(p)
    BY <1>0, <2>1, <2>3 DEF At
  <2>4. ASSUME NEW pc, Goes(p, [To(p, pc) EXCEPT !.members = Countable])
        PROVE  /\ proc'[p].alone = proc[p].alone
               /\ \A q \in Procs \ {p} : proc'[q] = proc[q]
    <3> DEFINE next == [To(p, pc) EXCEPT !.members = Countable]
    <3>1. next.alone = proc[p].alone
      BY <2>2
    <3>2. Goes(p, next)
      BY <2>4
    <3> HIDE DEF next
    <3> QED
      BY <1>2, <3>1, <3>2
  <2> QED
    BY <2>1, <2>3, <2>4 DEF At
<1>7. CASE Persist(p)
  <2>1. At(p, "persist") /\ Goes(p, [To(p, "inputs") EXCEPT !.row = Len(scenarios')])
    BY <1>7 DEF Persist
  <2> QED
    BY <1>0, <1>1, <1>2, <2>1 DEF At
<1>8. CASE Simulation(p)
  <2>1. At(p, "simulation") /\ Goes(p, [To(p, "link") EXCEPT !.sim = Len(sims')])
    BY <1>8 DEF Simulation
  <2> QED
    BY <1>0, <1>1, <1>2, <2>1 DEF At
<1>9. CASE Artifacts(p)
  <2>1. /\ At(p, "artifacts")
        /\ \E there, added : Goes(p, [To(p, "disclose") EXCEPT !.artifacts = there,
                                                              !.counted = added])
    BY <1>9 DEF Artifacts
  <2>2. PICK there, added : Goes(p, [To(p, "disclose") EXCEPT !.artifacts = there,
                                                              !.counted = added])
    BY <2>1
  <2> DEFINE next == [To(p, "disclose") EXCEPT !.artifacts = there, !.counted = added]
  <2>3. next.alone = proc[p].alone
    BY <1>1
  <2>4. Goes(p, next)
    BY <2>2
  <2> HIDE DEF next
  <2> QED
    BY <1>2, <2>1, <2>3, <2>4 DEF At
<1>10. CASE Weigh(p)
  <2>1. At(p, "weigh") /\ Goes(p, [To(p, "rank") EXCEPT !.weighed = Analyzable])
    BY <1>10 DEF Weigh
  <2> QED
    BY <1>0, <1>1, <1>2, <2>1 DEF At
<1>11. CASE Rank(p)
  <2>1. /\ At(p, "rank")
        /\ Goes(p, [To(p, "disclaim") EXCEPT !.ranked = Countable \cap proc[p].weighed])
    BY <1>11 DEF Rank
  <2> QED
    BY <1>0, <1>1, <1>2, <2>1 DEF At
<1>12. CASE Copy(p)
  <2>1. /\ At(p, "copy")
        /\ \/ \E left : Goes(p, [proc[p] EXCEPT !.artifacts = left])
           \/ Goes(p, To(p, "as_of"))
    BY <1>12 DEF Copy
  <2>2. CASE Goes(p, To(p, "as_of"))
    BY <1>1, <1>2, <2>1, <2>2 DEF At
  <2>3. ASSUME NEW left, Goes(p, [proc[p] EXCEPT !.artifacts = left])
        PROVE  /\ proc'[p].alone = proc[p].alone
               /\ \A q \in Procs \ {p} : proc'[q] = proc[q]
    <3> DEFINE next == [proc[p] EXCEPT !.artifacts = left]
    <3>1. next.alone = proc[p].alone
      BY <1>0
    <3>2. Goes(p, next)
      BY <2>3
    <3> HIDE DEF next
    <3> QED
      BY <1>2, <3>1, <3>2
  <2> QED
    BY <2>1, <2>2, <2>3 DEF At
<1>13. CASE AsOf(p)
  <2>1. At(p, "as_of") /\ Goes(p, [To(p, "write") EXCEPT !.cites = Cited(p)])
    BY <1>13 DEF AsOf
  <2> QED
    BY <1>0, <1>1, <1>2, <2>1 DEF At
<1>14. CASE WriteMemo(p) \/ Die(p)
  BY <1>0, <1>14 DEF WriteMemo, Die, At
<1> QED
  BY <1>3, <1>4, <1>5, <1>6, <1>7, <1>8, <1>9, <1>10, <1>11, <1>12, <1>13, <1>14 DEF Step

(* A memo that was written stays true of the simulations on record. *)
LEMMA ReportStands ==
    ASSUME TypeOK, MemoIsOfOneRun, files'.report = files.report,
           Written /\ files.report.alone => files.report.cites \in 0 .. Len(sims),
           sims' = sims \/ \E s \in SimulationType : sims' = Append(sims, s)
    PROVE  /\ MemoIsOfOneRun'
           /\ (Written /\ files.report.alone => files.report.cites \in 0 .. Len(sims))'
<1>1. /\ Len(sims) \in Nat /\ Len(sims') \in Nat /\ Len(sims') >= Len(sims)
      /\ \A i \in 1 .. Len(sims) : sims'[i] = sims[i]
  <2>1. sims \in Seq(SimulationType) /\ Len(sims) \in Nat
    BY DEF TypeOK
  <2>2. CASE sims' = sims
    BY <2>1, <2>2
  <2>3. ASSUME NEW s \in SimulationType, sims' = Append(sims, s)
        PROVE  /\ Len(sims') = Len(sims) + 1
               /\ \A i \in 1 .. Len(sims) : sims'[i] = sims[i]
    BY <2>1, <2>3
  <2> QED
    BY <2>1, <2>2, <2>3
<1>2. (Written /\ files.report.alone => files.report.cites \in 0 .. Len(sims))'
  BY <1>1 DEF Written
<1>3. Written /\ files.report.alone /\ files.report.cites # 0
        => sims'[files.report.cites] = sims[files.report.cites]
  BY <1>1
<1>4. MemoIsOfOneRun'
  BY <1>3 DEF MemoIsOfOneRun, Written
<1> QED
  BY <1>2, <1>4

(* The memo of an undisturbed command says what the command has computed. *)
LEMMA MemoIsWritten ==
    ASSUME TypeOK, NEW p \in Procs, Holds(p), WriteMemo(p)
    PROVE  /\ MemoIsOfOneRun'
           /\ (Written /\ files.report.alone => files.report.cites \in 0 .. Len(sims))'
<1>1. /\ files'.report = [by       |-> proc[p].by,
                          alone    |-> proc[p].alone,
                          ranked   |-> proc[p].ranked,
                          embedded |-> files["memo"]["appendix"],
                          charts   |-> files["memo"]["charts"],
                          backlog  |-> IF proc[p].kind = "finalize"
                                       THEN files.backlog ELSE proc[p].ranked,
                          counted  |-> proc[p].counted,
                          final    |-> proc[p].kind = "finalize",
                          cites    |-> proc[p].cites]
      /\ sims' = sims /\ At(p, "write")
  BY DEF WriteMemo, TypeOK, audit
<1>2. Len(sims) \in Nat
  BY DEF TypeOK
<1>3. CASE ~proc[p].alone
  BY <1>1, <1>3 DEF MemoIsOfOneRun, Written
<1>4. CASE proc[p].alone
  <2>1. /\ Undisturbed(p) /\ Quantifies(p) /\ Counts(p) /\ Tells(p) /\ Route(p)
        /\ proc[p].kind \in {"finalize", "memo"} /\ Quantified(p) /\ InFiles(p)
    BY <1>1, <1>4 DEF Holds, Undisturbed, Route, Quantified, InFiles, At
  <2>2. proc[p].members = Countable /\ proc[p].ranked = Countable
    BY <1>1, <2>1 DEF Quantifies, Tells, At
  <2>3. proc[p].kind = "finalize" => files.backlog = Countable
    BY <1>1, <2>1 DEF Tells, At
  <2>4. files["memo"].appendix = Shown(p)
    BY <1>1, <2>1 DEF Quantifies, Tells, Route, At
  <2>5. Countable # {} => files["memo"].charts = Shown(p)
    BY <1>1, <2>1 DEF Quantifies, Tells, Route, At
  <2>6. proc[p].kind = "finalize" => proc[p].counted = IF Countable = {} THEN 0 ELSE 1
    BY <2>1 DEF Counts, Scenarios
  <2>7. proc[p].cites = (IF proc[p].audit THEN Len(sims) ELSE 0)
    BY <1>1, <2>1 DEF Tells, Cited, At
  <2>8. proc[p].audit /\ Countable # {} => sims[Len(sims)] = Shown(p)
    BY <2>1 DEF Quantifies, Last
  <2>9. (Written /\ files.report.alone => files.report.cites \in 0 .. Len(sims))'
    BY <1>1, <1>2, <2>7
  <2> DEFINE memo == files'.report
  <2>10. /\ memo.ranked = Countable /\ memo.backlog = Countable
         /\ memo.embedded = Shown(p) /\ (Countable # {} => memo.charts = Shown(p))
         /\ memo.final => memo.counted = IF Countable = {} THEN 0 ELSE 1
         /\ memo.cites # 0 /\ Countable # {} => sims'[memo.cites] = Shown(p)
         /\ memo.by = proc[p].by
    <3>1. /\ memo.by = proc[p].by /\ memo.ranked = proc[p].ranked
          /\ memo.embedded = files["memo"].appendix /\ memo.charts = files["memo"].charts
          /\ memo.backlog = IF proc[p].kind = "finalize" THEN files.backlog
                                                         ELSE proc[p].ranked
          /\ memo.counted = proc[p].counted /\ memo.final = (proc[p].kind = "finalize")
          /\ memo.cites = proc[p].cites
      BY <1>1
    <3> HIDE DEF memo
    <3>2. /\ memo.backlog = Countable
          /\ memo.final => memo.counted = IF Countable = {} THEN 0 ELSE 1
      BY <2>2, <2>3, <2>6, <3>1
    <3>3. memo.cites # 0 /\ Countable # {} => sims'[memo.cites] = Shown(p)
      <4> SUFFICES ASSUME memo.cites # 0, Countable # {} PROVE sims'[memo.cites] = Shown(p)
        OBVIOUS
      <4>1. proc[p].audit /\ memo.cites = Len(sims)
        BY <2>7, <3>1
      <4> QED
        BY <1>1, <2>8, <4>1
    <3> QED
      BY <2>2, <2>4, <2>5, <3>1, <3>2, <3>3
  <2>11. Shown(p) = [members |-> Countable, by |-> proc[p].by]
    BY <2>2 DEF Shown
  <2>12. MemoIsOfOneRun'
    BY <2>10, <2>11 DEF MemoIsOfOneRun
  <2> QED
    BY <2>9, <2>12
<1> QED
  BY <1>3, <1>4

(* No other step writes the memo or changes a simulation on record. *)
LEMMA ReportKept ==
    ASSUME AuditInv, NEW p \in Procs, Step(p), ~WriteMemo(p)
    PROVE  /\ files'.report = files.report
           /\ sims' = sims \/ \E s \in SimulationType : sims' = Append(sims, s)
<1>0. TypeOK /\ proc[p] \in CommandType
  BY PositionsTyped DEF AuditInv
<1>1. CASE Charts(p) \/ Appendix(p)
  <2>1. proc[p].dir \in {"risk", "memo"}
    BY <1>0 DEF CommandType
  <2> QED
    BY <1>0, <1>1, <2>1, FilesWritten DEF Charts, Appendix, audit
<1>2. CASE Copy(p)
  <2>1. proc[p].artifacts \subseteq {"charts", "appendix"}
    BY <1>0 DEF CommandType
  <2>2. \/ files' = files
        \/ \E a \in proc[p].artifacts : files' = [files EXCEPT !["memo"][a] = Copied(p, a)]
    BY <1>2 DEF Copy
  <2> QED
    BY <1>0, <1>2, <2>1, <2>2, FilesWritten DEF Copy, audit
<1>3. CASE Backlog(p)
  BY <1>0, <1>3 DEF Backlog, TypeOK, audit
<1>4. CASE Simulation(p)
  <2>1. Shown(p) \in SimulationType
    BY <1>0 DEF Shown, CommandType, SimulationType
  <2> QED
    BY <1>4, <2>1 DEF Simulation
<1>5. CASE ~(Charts(p) \/ Appendix(p) \/ Copy(p) \/ Backlog(p) \/ Simulation(p))
  BY <1>5 DEF Step, Start, CheckDeferred, Raise, CheckOpen, CountBefore, Build, Persist,
              PersistInputs, Link, Artifacts, Disclose, Weigh, Rank, Disclaim, AsOf, Die, audit
<1> QED
  BY <1>1, <1>2, <1>3, <1>4, <1>5

(* No memo is there at the start. *)
LEMMA MemoInit == Init => MemoInv
<1> SUFFICES ASSUME Init PROVE MemoInv
  OBVIOUS
<1>1. \A p \in Procs : proc[p] = Idle
  BY DEF Init
<1>2. files.report.by = 0
  BY DEF Init
<1> QED
  BY <1>1, <1>2, InitTyped
     DEF MemoInv, MemoIsOfOneRun, Written, Undisturbed, Route, At, Idle

(* MemoInv is inductive, beside AuditInv. *)
LEMMA MemoStep == AuditInv /\ AuditInv' /\ MemoInv /\ [Next]_vars => MemoInv'
<1> SUFFICES ASSUME AuditInv, AuditInv', MemoInv, [Next]_vars PROVE MemoInv'
  OBVIOUS
<1>0. /\ TypeOK /\ TypeOK' /\ \A p \in Procs : Holds(p) /\ proc[p] \in CommandType
  BY PositionsTyped DEF AuditInv, MemoInv, Holds
<1>1. CASE UNCHANGED vars
  <2>1. Countable' = Countable /\ Analyzable' = Analyzable
    BY <1>1, StoreKeeps DEF vars
  <2>2. proc' = proc /\ files' = files /\ scenarios' = scenarios /\ sims' = sims
    BY <1>1 DEF vars, audit
  <2>3. \A p \in Procs : Route(p)' /\ (Undisturbed(p)' => Undisturbed(p))
    BY <2>2 DEF MemoInv, Route, Undisturbed, At
  <2>4. \A p \in Procs : Quantifies(p) /\ Counts(p) /\ Tells(p)
                            => Quantifies(p)' /\ Counts(p)' /\ Tells(p)'
    BY <2>1, <2>2 DEF Quantifies, Counts, Tells, InFiles, Quantified, Scenarios, Shown, Cited, At
  <2>5. /\ MemoIsOfOneRun'
        /\ (Written /\ files.report.alone => files.report.cites \in 0 .. Len(sims))'
    BY <2>2 DEF MemoInv, MemoIsOfOneRun, Written
  <2> QED
    BY <1>0, <2>2, <2>3, <2>4, <2>5 DEF MemoInv, At
<1>2. ASSUME NEW p \in Procs, Step(p) PROVE MemoInv'
  <2>1. Holds(p)'
    BY <1>0, <1>2, StepHolds
  <2>2. /\ MemoIsOfOneRun'
        /\ (Written /\ files.report.alone => files.report.cites \in 0 .. Len(sims))'
    <3>1. CASE WriteMemo(p)
      BY <1>0, <3>1, MemoIsWritten
    <3>2. CASE ~WriteMemo(p)
      BY <1>0, <1>2, <3>2, ReportKept, ReportStands DEF MemoInv
    <3> QED
      BY <3>1, <3>2
  <2>3. \A q \in Procs \ {p} : \/ proc'[q] = proc[q] /\ ~(Start(p) /\ q \in Running)
                              \/ proc'[q] = [proc[q] EXCEPT !.alone = FALSE]
    BY <1>0, <1>2, StartHolds, StepsAlone
  <2>4. ASSUME NEW q \in Procs \ {p}
        PROVE  Route(q)' /\ ~Undisturbed(q)' /\ (At(q, "idle") => At(q, "idle")')
    <3>1. /\ proc'[q].pc = proc[q].pc /\ proc'[q].kind = proc[q].kind
          /\ proc'[q].by = proc[q].by /\ proc'[q].dir = proc[q].dir
          /\ \/ ~proc'[q].alone
             \/ proc'[q].alone = proc[q].alone /\ ~(Start(p) /\ q \in Running)
      <4>1. proc[q] \in CommandType
        BY <1>0
      <4>2. CASE proc'[q] = proc[q] /\ ~(Start(p) /\ q \in Running)
        BY <4>2
      <4>3. CASE proc'[q] = [proc[q] EXCEPT !.alone = FALSE]
        BY <4>1, <4>3 DEF CommandType
      <4> QED
        BY <2>3, <4>2, <4>3
    <3>2. Route(q)'
      BY <3>1 DEF MemoInv, Route, At
    <3>3. ASSUME Undisturbed(q)' PROVE FALSE
      <4>1. Undisturbed(q) /\ ~(Start(p) /\ q \in Running)
        BY <3>1, <3>3 DEF Undisturbed, At
      <4>2. At(p, "idle") /\ q \in Running
        BY <4>1 DEF MemoInv, Undisturbed, Running
      <4> QED
        BY <1>0, <1>2, <4>1, <4>2, StepsAlone
    <3> QED
      BY <3>1, <3>2, <3>3 DEF At
  <2>5. ASSUME Undisturbed(p)' PROVE \A q \in Procs \ {p} : At(q, "idle")'
    <3>1. CASE Start(p)
      BY <1>0, <2>4, <2>5, <3>1, StartHolds DEF Undisturbed, Running
    <3>2. CASE ~Start(p)
      BY <1>0, <1>2, <2>4, <2>5, <3>2, StepsAlone DEF MemoInv, Undisturbed, At
    <3> QED
      BY <3>1, <3>2
  <2> QED
    BY <1>0, <2>1, <2>2, <2>4, <2>5 DEF MemoInv, Holds
<1>3. ASSUME NEW f \in Findings, Examine(f) \/ Decide(f) PROVE MemoInv'
  <2>1. /\ proc' = Disturbs(Running, proc) /\ files' = files /\ sims' = sims
    BY <1>3 DEF Examine, Decide, Disturbed, audit
  <2>2. \A q \in Procs : proc'[q] = IF q \in Running THEN [proc[q] EXCEPT !.alone = FALSE]
                                                   ELSE proc[q]
    BY <2>1 DEF Disturbs
  <2>3. ASSUME NEW q \in Procs PROVE Route(q)' /\ ~Undisturbed(q)'
    <3>1. /\ proc'[q].pc = proc[q].pc /\ proc'[q].kind = proc[q].kind
          /\ proc'[q].by = proc[q].by /\ proc'[q].dir = proc[q].dir
          /\ q \in Running => ~proc'[q].alone
      <4>1. proc[q] \in CommandType
        BY <1>0
      <4>2. CASE q \in Running
        <5>1. proc'[q] = [proc[q] EXCEPT !.alone = FALSE]
          BY <2>2, <4>2
        <5> QED
          BY <4>1, <5>1 DEF CommandType
      <4>3. CASE q \notin Running
        BY <2>2, <4>3
      <4> QED
        BY <4>2, <4>3
    <3> QED
      BY <3>1 DEF MemoInv, Route, Undisturbed, At, Running
  <2>4. /\ MemoIsOfOneRun'
        /\ (Written /\ files.report.alone => files.report.cites \in 0 .. Len(sims))'
    BY <2>1 DEF MemoInv, MemoIsOfOneRun, Written
  <2> QED
    BY <1>0, <2>3, <2>4 DEF MemoInv
<1> QED
  BY <1>1, <1>2, <1>3 DEF Next

(* The memo of a command that nothing disturbed tells one story: its ranking,
   its backlog, the appendix it embeds, the charts beside it, the number of
   scenarios that finalize prints and the simulation it cites, whatever earlier
   commands left in the directories (report/memo.py build_memo, cli.finalize). *)
THEOREM MemoTellsOneRun == Spec => []MemoIsOfOneRun
<1>1. Spec => []AuditInv
  BY AuditInit, AuditStep, PTL DEF Spec
<1>2. Spec => []MemoInv
  BY <1>1, MemoInit, MemoStep, PTL DEF Spec
<1>3. MemoInv => MemoIsOfOneRun
  BY DEF MemoInv
<1> QED
  BY <1>2, <1>3, PTL
=============================================================================
