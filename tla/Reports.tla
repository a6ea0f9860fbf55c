------------------------------- MODULE Reports -------------------------------
(***************************************************************************)
(* Quantification and reports: analyze/risk_quant.py, report/, and the     *)
(* quantify, report and finalize commands of cli.py.                       *)
(*                                                                         *)
(* A quantification reads the countable findings, records (when it is      *)
(* audited) the scenario they make and its inputs, runs the simulation,    *)
(* and writes charts and an appendix.  The memo ranks the countable        *)
(* findings anew and embeds an appendix: one it has written, or the files  *)
(* that finalize had quantified before, copied beside it.  Every read and  *)
(* every write is a transaction or a file of its own, while other          *)
(* commands, reviewers and a resumed falsification work on the same store  *)
(* and the same directories, and a process may die anywhere.               *)
(*                                                                         *)
(* The number of the command that computed it stands for what a simulation *)
(* shows, with the members it was computed from.                           *)
(***************************************************************************)
EXTENDS Matching, Integers, SequencesExt

CONSTANTS
    Procs,        \* terminals
    Position,     \* place of a finding by confidence, then id: least speaks first
    Triaged,      \* findings with a triage_result
    Settled,      \* findings that falsification confirmed at the start
    Commands,     \* the command lines that are run
    MaxCommands,  \* bound: commands run
    MaxEvents     \* bound: verdicts, decisions and deaths meanwhile

ASSUME ReportsAssumption ==
    /\ Position \in [Findings -> Nat]
    /\ \A f, g \in Findings : Position[f] = Position[g] => f = g
    /\ Triaged \subseteq Findings
    /\ Settled \subseteq Findings
    /\ Commands \subseteq [kind  : {"quantify", "finalize", "memo", "backlog"},
                           audit : BOOLEAN]
    /\ MaxCommands \in Nat
    /\ MaxEvents \in Nat

VARIABLES
    status,     \* finding.falsification_status
    requested,  \* findings with a review_request
    decision,   \* disposition of the last review_decision of a finding
    scenarios,  \* risk_scenario rows, with their scenario_input rows
    sims,       \* simulation_run rows
    files,      \* reports/<repo>_risk_appendix, _memo and _engineering
    proc,       \* the command that each terminal runs
    commands, events

store == <<status, requested, decision>>
audit == <<scenarios, sims>>
count == <<commands, events>>
vars  == <<store, audit, files, proc, count>>

Absent == [members |-> {}, by |-> 0]  \* no such file

Idle == [pc |-> "idle", kind |-> "quantify", audit |-> FALSE, by |-> 0,
         alone |-> TRUE, dir |-> "risk", members |-> {}, before |-> 0,
         row |-> 0, sim |-> 0, counted |-> 0, artifacts |-> {},
         weighed |-> {}, ranked |-> {}, cites |-> 0]

-----------------------------------------------------------------------------
(* What may be counted *)

Speaker(S) == CHOOSE f \in S : \A g \in S : Position[f] <= Position[g]

(* list_analyzable_findings *)
Analyzable ==
    {f \in Findings : /\ status[f] \notin {"killed", "deferred"}
                      /\ f \notin requested \/ decision[f] = "confirm"}

(* list_countable_findings *)
Countable == {f \in Analyzable : f = Speaker(MatchGroup(Analyzable, f))}

(* _validity: a finding it has no probability for raises a ValueError. *)
HasValidity(f) ==
    \/ status[f] = "confirmed"
    \/ f \in requested /\ decision[f] = "confirm"
    \/ f \in Triaged

(* build_scenarios *)
Buildable == \A f \in Countable : HasValidity(f)

(* open_review_requests *)
Open == {f \in requested : decision[f] = "none"}

-----------------------------------------------------------------------------
(* Commands *)

At(p, pc) == proc[p].pc = pc

Goes(p, next) == proc' = [proc EXCEPT ![p] = next]

To(p, pc) == [proc[p] EXCEPT !.pc = pc]

Running == {p \in Procs : ~At(p, "idle")}

(* The processes that a step of p may disturb are no longer alone. *)
Disturbs(others, new) ==
    [q \in Procs |-> IF q \in others THEN [new[q] EXCEPT !.alone = FALSE]
                                     ELSE new[q]]

(* quantify, report --mode=memo, report --mode=engineering, finalize *)
Start(p) ==
    /\ At(p, "idle")
    /\ commands < MaxCommands
    /\ \E c \in Commands :
         LET first == CASE c.kind = "quantify" -> "count"
                        [] c.kind = "finalize" -> "deferred"
                        [] c.kind = "memo"     -> "weigh"
                        [] c.kind = "backlog"  -> "backlog"
             begun == [Idle EXCEPT !.pc = first, !.kind = c.kind, !.audit = c.audit,
                                   !.by = commands + 1, !.alone = (Running = {}),
                                   !.dir = IF c.kind = "memo" THEN "memo" ELSE "risk"]
         IN  proc' = Disturbs(Running, [proc EXCEPT ![p] = begun])
    /\ commands' = commands + 1
    /\ UNCHANGED <<store, audit, files, events>>

Ends(p) == proc' = [proc EXCEPT ![p] = Idle]

(* finalize: nothing may be set aside by a bounded falsification. *)
CheckDeferred(p) ==
    /\ At(p, "deferred")
    /\ IF \E f \in Findings : status[f] = "deferred"
       THEN Ends(p)
       ELSE Goes(p, To(p, "raise"))
    /\ UNCHANGED <<store, audit, files, count>>

(* finalize: raise_review_requests, here for the findings without a verdict;
   ReviewGate has the checkpoint itself. *)
Raise(p) ==
    /\ At(p, "raise")
    /\ requested' = requested \cup {f \in Findings : status[f] = "unresolved"}
    /\ proc' = Disturbs(IF requested' = requested THEN {} ELSE Running \ {p},
                        [proc EXCEPT ![p].pc = "open"])
    /\ UNCHANGED <<status, decision, audit, files, count>>

(* finalize: no request may be undecided. *)
CheckOpen(p) ==
    /\ At(p, "open")
    /\ IF Open # {} THEN Ends(p) ELSE Goes(p, To(p, "count"))
    /\ UNCHANGED <<store, audit, files, count>>

-----------------------------------------------------------------------------
(* quantify_appendix and generate_appendix *)

(* The rows before, or the scenarios there would be without an audit. *)
CountBefore(p) ==
    /\ At(p, "count")
    /\ IF proc[p].audit \/ Buildable
       THEN Goes(p, [To(p, "build") EXCEPT !.before = Len(scenarios),
                                           !.counted = IF Countable = {} THEN 0 ELSE 1])
       ELSE Ends(p)
    /\ UNCHANGED <<store, audit, files, count>>

(* build_scenarios: one scenario of all countable findings, or none. *)
Build(p) ==
    /\ At(p, "build")
    /\ IF Buildable
       THEN LET next == IF Countable = {} THEN "appendix"
                        ELSE IF proc[p].audit THEN "persist" ELSE "charts"
            IN  Goes(p, [To(p, next) EXCEPT !.members = Countable])
       ELSE Ends(p)
    /\ UNCHANGED <<store, audit, files, count>>

(* insert_risk_scenario, after the prior_source rows it draws on *)
Persist(p) ==
    /\ At(p, "persist")
    /\ scenarios' = Append(scenarios, [members |-> proc[p].members,
                                       inputs |-> FALSE, sim |-> 0])
    /\ Goes(p, [To(p, "inputs") EXCEPT !.row = Len(scenarios')])
    /\ UNCHANGED <<store, sims, files, count>>

(* insert_scenario_input, for each input of the scenario *)
PersistInputs(p) ==
    /\ At(p, "inputs")
    /\ scenarios' = [scenarios EXCEPT ![proc[p].row].inputs = TRUE]
    /\ Goes(p, To(p, "charts"))
    /\ UNCHANGED <<store, sims, files, count>>

Shown(p) == [members |-> proc[p].members, by |-> proc[p].by]

(* _render_charts *)
Charts(p) ==
    /\ At(p, "charts")
    /\ files' = [files EXCEPT ![proc[p].dir].charts = Shown(p)]
    /\ Goes(p, To(p, IF proc[p].audit THEN "simulation" ELSE "appendix"))
    /\ UNCHANGED <<store, audit, count>>

(* insert_simulation_run *)
Simulation(p) ==
    /\ At(p, "simulation")
    /\ sims' = Append(sims, Shown(p))
    /\ Goes(p, [To(p, "link") EXCEPT !.sim = Len(sims')])
    /\ UNCHANGED <<store, scenarios, files, count>>

(* Mutant of Linked: whatever is still without a simulation is linked. *)
LinkedAll(rows, row, sim) ==
    [i \in DOMAIN rows |-> IF rows[i].sim = 0 THEN [rows[i] EXCEPT !.sim = sim]
                                              ELSE rows[i]]

(* link_risk_scenarios_to_simulation: the rows of this pass only. *)
Linked(rows, row, sim) == [rows EXCEPT ![row].sim = sim]

Link(p) ==
    /\ At(p, "link")
    /\ scenarios' = Linked(scenarios, proc[p].row, proc[p].sim)
    /\ Goes(p, To(p, "appendix"))
    /\ UNCHANGED <<store, sims, files, count>>

(* The text of the appendix; one without findings leaves the charts there. *)
Appendix(p) ==
    /\ At(p, "appendix")
    /\ files' = [files EXCEPT ![proc[p].dir].appendix = Shown(p)]
    /\ Goes(p, To(p, IF proc[p].kind = "memo" THEN "as_of" ELSE "artifacts"))
    /\ UNCHANGED <<store, audit, count>>

(* QuantificationArtifacts: what the directory holds and what was added. *)
Artifacts(p) ==
    /\ At(p, "artifacts")
    /\ Goes(p, [To(p, "disclose") EXCEPT
                   !.artifacts = {a \in {"charts", "appendix"} : files["risk"][a] # Absent},
                   !.counted = IF proc[p].audit THEN Len(scenarios) - proc[p].before
                                                ELSE @])
    /\ UNCHANGED <<store, audit, files, count>>

(* audit_quantitative_inputs resolves the scenarios once more. *)
Disclose(p) ==
    /\ At(p, "disclose")
    /\ IF Buildable /\ proc[p].kind = "finalize"
       THEN Goes(p, To(p, "backlog"))
       ELSE Ends(p)
    /\ UNCHANGED <<store, audit, files, count>>

-----------------------------------------------------------------------------
(* The reports *)

(* write_backlog *)
Backlog(p) ==
    /\ At(p, "backlog")
    /\ files' = [files EXCEPT !.backlog = Countable]
    /\ IF proc[p].kind = "finalize" THEN Goes(p, To(p, "weigh")) ELSE Ends(p)
    /\ UNCHANGED <<store, audit, count>>

(* weigh_deal_risk *)
Weigh(p) ==
    /\ At(p, "weigh")
    /\ Goes(p, [To(p, "rank") EXCEPT !.weighed = Analyzable])
    /\ UNCHANGED <<store, audit, files, count>>

(* build_memo ranks the countable findings that have a weight, *)
Rank(p) ==
    /\ At(p, "rank")
    /\ Goes(p, [To(p, "disclaim") EXCEPT !.ranked = Countable \cap proc[p].weighed])
    /\ UNCHANGED <<store, audit, files, count>>

(* resolves the scenarios for its disclosure, *)
Disclaim(p) ==
    /\ At(p, "disclaim")
    /\ IF ~Buildable THEN Ends(p)
       ELSE Goes(p, To(p, IF proc[p].kind = "finalize" THEN "copy" ELSE "build"))
    /\ UNCHANGED <<store, audit, files, count>>

CopyMissing(p, a) ==  \* mutant: what is there already is not copied again
    IF files["memo"][a] = Absent THEN files["risk"][a] ELSE files["memo"][a]

Copied(p, a) == files["risk"][a]

(* copies the artifacts of the quantification, one file after the other, *)
Copy(p) ==
    /\ At(p, "copy")
    /\ \/ \E a \in proc[p].artifacts :
            /\ files' = [files EXCEPT !["memo"][a] = Copied(p, a)]
            /\ Goes(p, [proc[p] EXCEPT !.artifacts = @ \ {a}])
       \/ /\ proc[p].artifacts = {}
          /\ Goes(p, To(p, "as_of"))
          /\ UNCHANGED files
    /\ UNCHANGED <<store, audit, count>>

(* cites the last simulation on record if there is one to cite, *)
Cited(p) == IF proc[p].audit THEN Len(sims) ELSE 0

AsOf(p) ==
    /\ At(p, "as_of")
    /\ Goes(p, [To(p, "write") EXCEPT !.cites = Cited(p)])
    /\ UNCHANGED <<store, audit, files, count>>

(* embeds the appendix that the directory holds, and is written. *)
WriteMemo(p) ==
    /\ At(p, "write")
    /\ files' = [files EXCEPT !.report =
                   [by       |-> proc[p].by,
                    alone    |-> proc[p].alone,
                    ranked   |-> proc[p].ranked,
                    embedded |-> files["memo"]["appendix"],
                    charts   |-> files["memo"]["charts"],
                    backlog  |-> IF proc[p].kind = "finalize"
                                 THEN files.backlog ELSE proc[p].ranked,
                    counted  |-> proc[p].counted,
                    final    |-> proc[p].kind = "finalize",
                    cites    |-> proc[p].cites]]
    /\ Ends(p)
    /\ UNCHANGED <<store, audit, count>>

-----------------------------------------------------------------------------
(* What happens beside the commands *)

Disturbed == proc' = Disturbs(Running, proc)

(* Falsification of what was set aside, by a resumed scan. *)
Examine(f) ==
    /\ status[f] = "deferred"
    /\ events < MaxEvents
    /\ \E verdict \in {"confirmed", "killed", "unresolved"} :
         status' = [status EXCEPT ![f] = verdict]
    /\ Disturbed
    /\ events' = events + 1
    /\ UNCHANGED <<requested, decision, audit, files, commands>>

(* record_decision of review/checkpoint.py, which may correct an earlier one. *)
Decide(f) ==
    /\ f \in requested
    /\ events < MaxEvents
    /\ \E disposition \in {"confirm", "dismiss"} :
         /\ disposition # decision[f]
         /\ decision' = [decision EXCEPT ![f] = disposition]
    /\ Disturbed
    /\ events' = events + 1
    /\ UNCHANGED <<status, requested, audit, files, commands>>

Die(p) ==
    /\ ~At(p, "idle")
    /\ events < MaxEvents
    /\ Ends(p)
    /\ events' = events + 1
    /\ UNCHANGED <<store, audit, files, commands>>

-----------------------------------------------------------------------------
(* Some findings are confirmed, the others have been set aside or have no
   verdict yet, and nothing has been quantified. *)
Init ==
    /\ status \in [Findings -> {"confirmed", "deferred", "unresolved"}]
    /\ \A f \in Findings : status[f] = "confirmed" <=> f \in Settled
    /\ requested = {}
    /\ decision = [f \in Findings |-> "none"]
    /\ scenarios = <<>>
    /\ sims = <<>>
    /\ files = [risk    |-> [charts |-> Absent, appendix |-> Absent],
                memo    |-> [charts |-> Absent, appendix |-> Absent],
                backlog |-> {},
                report  |-> [by |-> 0]]
    /\ proc = [p \in Procs |-> Idle]
    /\ commands = 0
    /\ events = 0

Step(p) ==
    \/ Start(p) \/ CheckDeferred(p) \/ Raise(p) \/ CheckOpen(p)
    \/ CountBefore(p) \/ Build(p) \/ Persist(p) \/ PersistInputs(p) \/ Charts(p)
    \/ Simulation(p) \/ Link(p) \/ Appendix(p) \/ Artifacts(p) \/ Disclose(p)
    \/ Backlog(p) \/ Weigh(p) \/ Rank(p) \/ Disclaim(p) \/ Copy(p) \/ AsOf(p)
    \/ WriteMemo(p) \/ Die(p)

Next ==
    \/ \E p \in Procs : Step(p)
    \/ \E f \in Findings : Examine(f) \/ Decide(f)

Spec == Init /\ [][Next]_vars

-----------------------------------------------------------------------------
(* Properties *)

(* risk_scenario rows, and simulation_run rows by what they were computed from *)
ScenarioType == [members : SUBSET Findings, inputs : BOOLEAN, sim : 0 .. Len(sims)]

SimulationType == [members : SUBSET Findings, by : 0 .. MaxCommands]

CommandType ==
    [pc : {"idle", "deferred", "raise", "open", "count", "build", "persist", "inputs",
           "charts", "simulation", "link", "appendix", "artifacts", "disclose",
           "backlog", "weigh", "rank", "disclaim", "copy", "as_of", "write"},
     kind : {"quantify", "finalize", "memo", "backlog"}, audit : BOOLEAN,
     by : 0 .. MaxCommands, alone : BOOLEAN, dir : {"risk", "memo"},
     members : SUBSET Findings, before : Nat, row : Nat, sim : Nat, counted : Int,
     artifacts : SUBSET {"charts", "appendix"}, weighed : SUBSET Findings,
     ranked : SUBSET Findings, cites : Nat]

TypeOK ==
    /\ status \in [Findings -> {"confirmed", "killed", "unresolved", "deferred"}]
    /\ requested \subseteq Findings
    /\ decision \in [Findings -> {"none", "confirm", "dismiss"}]
    /\ scenarios \in Seq(ScenarioType)
    /\ sims \in Seq(SimulationType)
    /\ DOMAIN files = {"risk", "memo", "backlog", "report"}
    /\ \A dir \in {"risk", "memo"} :
         files[dir] \in [charts : SimulationType, appendix : SimulationType]
    /\ files.backlog \subseteq Findings
    /\ files.report.by \in 0 .. MaxCommands
    /\ proc \in [Procs -> CommandType]
    /\ commands \in 0 .. MaxCommands
    /\ events \in 0 .. MaxEvents

(* A scenario that is linked to a simulation is the one it was computed from,
   with its inputs on record, and no other scenario is linked to it: the trail
   that --record-audit leaves (risk_quant.generate_appendix) stays true
   beside other audits and after a death between its transactions. *)
AuditTrailHolds ==
    \A i \in DOMAIN scenarios : scenarios[i].sim # 0 =>
        /\ sims[scenarios[i].sim].members = scenarios[i].members
        /\ scenarios[i].inputs
        /\ \A j \in DOMAIN scenarios :
             scenarios[j].sim = scenarios[i].sim => j = i

Written == files.report.by # 0

(* What a command says that nothing disturbed, whatever earlier ones left in
   the directories: the findings that its memo ranks, its backlog lists, its
   appendix quantifies and its charts show are the same, finalize prints one
   scenario if there are any, and the simulation that an audited memo cites is
   the one its appendix presents (report/memo.py build_memo, which embeds a
   file by its name and cites the last simulation on record). *)
MemoIsOfOneRun ==
    Written /\ files.report.alone =>
        LET memo == files.report
        IN  /\ memo.ranked = memo.backlog
            /\ memo.embedded = [members |-> memo.ranked, by |-> memo.by]
            /\ memo.ranked # {} => memo.charts = memo.embedded
            /\ memo.final => memo.counted = IF memo.ranked = {} THEN 0 ELSE 1
            /\ memo.cites # 0 /\ memo.ranked # {} =>
                 sims[memo.cites] = memo.embedded

-----------------------------------------------------------------------------
(* The inductive invariants. *)

(* A command that has written its scenario and not linked it yet holds a row of
   its own, and then a simulation that no scenario is linked to. *)
Auditing(p) ==
    proc[p].audit /\ proc[p].pc \in {"inputs", "charts", "simulation", "link"}

HoldsRow(p) ==
    LET row == scenarios[proc[p].row] IN
    /\ proc[p].row \in DOMAIN scenarios
    /\ row.members = proc[p].members /\ row.sim = 0
    /\ proc[p].pc # "inputs" => row.inputs

HoldsSimulation(p) ==
    /\ proc[p].sim \in DOMAIN sims
    /\ sims[proc[p].sim].members = proc[p].members
    /\ \A i \in DOMAIN scenarios : scenarios[i].sim # proc[p].sim

AuditInv ==
    /\ TypeOK
    /\ \A p \in Procs :
         /\ proc[p].pc \in {"persist", "inputs", "simulation", "link"} => proc[p].audit
         /\ Auditing(p) => HoldsRow(p)
         /\ At(p, "link") => HoldsSimulation(p)
    /\ \A p, q \in Procs : p # q =>
         /\ Auditing(p) /\ Auditing(q) => proc[p].row # proc[q].row
         /\ At(p, "link") /\ At(q, "link") => proc[p].sim # proc[q].sim
    /\ AuditTrailHolds

(* The steps that a command of each kind takes. *)
Route(p) ==
    /\ proc[p].dir = IF proc[p].kind = "memo" THEN "memo" ELSE "risk"
    /\ ~At(p, "idle") => proc[p].by > 0
    /\ proc[p].pc \in {"deferred", "raise", "open", "copy"} => proc[p].kind = "finalize"
    /\ proc[p].pc \in {"count", "artifacts", "disclose"}
         => proc[p].kind \in {"quantify", "finalize"}
    /\ proc[p].pc \in {"build", "persist", "inputs", "charts", "simulation", "link",
                       "appendix"} => proc[p].kind # "backlog"
    /\ At(p, "backlog") => proc[p].kind \in {"finalize", "backlog"}
    /\ proc[p].pc \in {"weigh", "rank", "disclaim", "as_of", "write"}
         => proc[p].kind \in {"finalize", "memo"}

(* The quantification of a command is over, and its reports are to come. *)
Quantified(p) ==
    \/ /\ proc[p].kind = "finalize"
       /\ proc[p].pc \in {"disclose", "backlog", "weigh", "rank", "disclaim", "copy",
                          "as_of", "write"}
    \/ proc[p].kind = "memo" /\ proc[p].pc \in {"as_of", "write"}

InFiles(p) == proc[p].pc \in {"appendix", "artifacts"} \/ Quantified(p)

(* What it has computed is in its directory and on record. *)
Quantifies(p) ==
    /\ proc[p].pc \in {"persist", "inputs", "charts", "simulation", "link"}
         => proc[p].members = Countable /\ Countable # {}
    /\ InFiles(p) => proc[p].members = Countable
    /\ proc[p].pc \in {"simulation", "link"} \/ (InFiles(p) /\ Countable # {})
         => files[proc[p].dir].charts = Shown(p)
    /\ At(p, "artifacts") \/ Quantified(p) => files[proc[p].dir].appendix = Shown(p)
    /\ proc[p].audit /\ (At(p, "link") \/ (InFiles(p) /\ Countable # {}))
         => sims # <<>> /\ Last(sims) = Shown(p)

Scenarios == IF Countable = {} THEN 0 ELSE 1

(* The number of scenarios it has counted, or will find that it has added. *)
Counts(p) ==
    proc[p].kind = "finalize" =>
        /\ At(p, "build") => /\ proc[p].counted = Scenarios
                             /\ proc[p].before = Len(scenarios)
        /\ proc[p].pc \in {"persist", "inputs", "charts", "simulation", "link",
                           "appendix", "artifacts"} =>
             IF proc[p].audit
             THEN Len(scenarios) = proc[p].before + IF At(p, "persist") THEN 0 ELSE Scenarios
             ELSE proc[p].counted = Scenarios
        /\ Quantified(p) => proc[p].counted = Scenarios

(* What finalize has yet to copy, and what the memo will say. *)
Tells(p) ==
    /\ Quantified(p) /\ proc[p].kind = "finalize" =>
         /\ "appendix" \in proc[p].artifacts \/ files["memo"].appendix = Shown(p)
         /\ Countable # {} =>
              "charts" \in proc[p].artifacts \/ files["memo"].charts = Shown(p)
         /\ proc[p].pc \in {"as_of", "write"} => proc[p].artifacts = {}
         /\ proc[p].pc \notin {"disclose", "backlog"} => files.backlog = Countable
    /\ At(p, "rank") => proc[p].weighed = Analyzable
    /\ proc[p].kind = "finalize" /\ proc[p].pc \in {"disclaim", "copy", "as_of", "write"}
         => proc[p].ranked = Countable
    /\ proc[p].kind = "memo" /\ proc[p].pc \notin {"idle", "weigh", "rank"}
         => proc[p].ranked = Countable
    /\ At(p, "write") => proc[p].cites = Cited(p)

Undisturbed(p) == ~At(p, "idle") /\ proc[p].alone

MemoInv ==
    /\ TypeOK
    /\ \A p \in Procs : Route(p)
    /\ \A p \in Procs : Undisturbed(p) =>
         /\ \A q \in Procs \ {p} : At(q, "idle")
         /\ Quantifies(p) /\ Counts(p) /\ Tells(p)
    /\ Written /\ files.report.alone => files.report.cites \in 0 .. Len(sims)
    /\ MemoIsOfOneRun
=============================================================================
