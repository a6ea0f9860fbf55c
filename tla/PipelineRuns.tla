----------------------------- MODULE PipelineRuns -----------------------------
(***************************************************************************)
(* The orchestration of the stages: cli.py and the run records it keeps.   *)
(*                                                                         *)
(* A pipeline_run row says how far one scan of a source has come, with one *)
(* stage_run row per stage it attempted.  `run' takes up the latest        *)
(* unfinished row of its source, or opens a new one, and skips the stages  *)
(* that row has completed; `resume' always opens a row, linked to the      *)
(* latest one of the repository, for the next falsification batch; the     *)
(* standalone stage commands open a row for their one stage.  A stage that *)
(* raises is recorded, and then its run is; a process that dies leaves     *)
(* both `running'.                                                         *)
(*                                                                         *)
(* One source, one commit; each database write is its own step.  The work  *)
(* of a stage is one step on the findings: Falsification.tla has the       *)
(* detail of the stage that matters most here.                             *)
(***************************************************************************)
EXTENDS Integers, Sequences, FiniteSets, FiniteSetsExt

CONSTANTS
    Findings,     \* the findings that detection would insert
    Procs,        \* the operating system processes that run commands
    Commands,     \* the commands that are used
    Guided,       \* TRUE: the operator follows the printed next commands
    MaxPipelines, \* bound: pipeline_run rows
    MaxFailures,  \* bound: stages that raise
    MaxCrashes    \* bound: processes that die

StageOrder ==
    <<"ingest", "map", "detect", "triage", "falsify", "normalize", "review">>

Stages    == {StageOrder[i] : i \in 1 .. Len(StageOrder)}
Gated     == {"normalize", "review"}  \* held back while findings are deferred
Metered   == {"map", "detect", "falsify", "normalize"}  \* standalone commands

ASSUME CommandsAssumption ==
    Commands \subseteq {"run", "fresh", "resume"} \cup Metered

ASSUME BoundsAssumption ==
    /\ Guided \in BOOLEAN
    /\ {MaxPipelines, MaxFailures, MaxCrashes} \subseteq Nat

VARIABLES
    (* the store *)
    pipelines,  \* the pipeline_run rows in id order, with their stage_run rows
    ingested,   \* an ingested_repo row and its snapshot exist
    status,     \* finding.falsification_status, or "absent"
    logged,     \* findings that have falsification_iteration rows
    (* the processes *)
    proc,
    (* history and bounds *)
    judged,     \* findings that were given the outcome of a challenge
    shared,     \* pipelines that two processes have worked on at a time
    failures,
    crashes

store == <<pipelines, ingested, status, logged>>
vars  == <<pipelines, ingested, status, logged, proc, judged, shared,
           failures, crashes>>

Ids == 1 .. Len(pipelines)

NewRow(parent) ==
    [status |-> "running", parent |-> parent, known |-> FALSE,
     stage |-> [s \in Stages |-> "none"], backlog |-> FALSE]

NoProcess ==
    [pc |-> "idle", cmd |-> "none", row |-> 0, todo |-> {}, stage |-> "none",
     known |-> TRUE, left |-> FALSE, checked |-> TRUE]

Live(p) == proc[p].pc # "idle"

-----------------------------------------------------------------------------
(* The store's queries *)

Latest(S) == IF S = {} THEN 0 ELSE Max(S)

FindAnyPipeline == Latest(Ids)  \* mutant: no status filter

(* find_resumable_pipeline_run: the newest row that is not completed,
   whichever command opened it and whether or not its process still runs. *)
FindResumable == Latest({i \in Ids : pipelines[i].status # "completed"})

(* get_latest_pipeline_run: the newest row that knows its repository. *)
LatestOfRepo == Latest({i \in Ids : pipelines[i].known})

(* list_deferred_findings *)
Deferred == {f \in Findings : status[f] = "deferred"}

(* pending_falsification_findings *)
Pending == {f \in Findings : status[f] \in {"unresolved", "deferred"}} \ logged

DoneByAttempt(i) ==  \* mutant: a stage that failed counts as done
    {s \in Stages : pipelines[i].stage[s] \in {"completed", "failed"}}

(* The stages `run' skips. *)
Completed(row) == {s \in Stages : row.stage[s] = "completed"}
Done(i)        == Completed(pipelines[i])

RemainingAll(i, known) == Stages  \* mutant: a row that is taken up starts over

(* What is left to do for `run' on row i: ingestion again if it ended before
   the row was told its repository, and the gated stages only if the
   falsification that is skipped deferred nothing. *)
Remaining(i, known) ==
    ((Stages \ Done(i)) \cup (IF known THEN {} ELSE {"ingest"}))
        \ (IF "falsify" \in Done(i) /\ pipelines[i].backlog THEN Gated ELSE {})

First(S) == StageOrder[Min({i \in 1 .. Len(StageOrder) : StageOrder[i] \in S})]

-----------------------------------------------------------------------------
Init ==
    /\ pipelines = <<>>
    /\ ingested = FALSE
    /\ status = [f \in Findings |-> "absent"]
    /\ logged = {}
    /\ proc = [p \in Procs |-> NoProcess]
    /\ judged = {}
    /\ shared = {}
    /\ failures = 0
    /\ crashes = 0

(* The next command the messages of the last one, or the README after a
   failure, tell the operator to use. *)
Advised(cmd) ==
    IF FindResumable # 0 \/ pipelines = <<>>
    THEN cmd = "run"
    ELSE cmd = "resume" /\ Deferred # {}

MayStart(p, cmd) ==
    /\ ~Live(p)
    /\ cmd \in Commands
    /\ Guided => Advised(cmd)

Rewrite(i, row) == pipelines' = [pipelines EXCEPT ![i] = row]
Becomes(p, x)   == proc' = [proc EXCEPT ![p] = x]

Started(cmd, i, todo, pc) ==
    [NoProcess EXCEPT !.pc = pc, !.cmd = cmd, !.row = i, !.todo = todo,
                      !.checked = cmd # "resume"]

(* start_pipeline_run *)
OpenPipeline(p, cmd, parent, todo, pc) ==
    /\ Len(pipelines) < MaxPipelines
    /\ pipelines' = Append(pipelines, NewRow(parent))
    /\ Becomes(p, Started(cmd, Len(pipelines) + 1, todo, pc))
    /\ UNCHANGED <<ingested, status, logged, judged, shared, failures, crashes>>

(* `run', when there is no row to take up, and `run --fresh'. *)
RunNew(p) ==
    \E cmd \in {"run", "fresh"} :
        /\ MayStart(p, cmd)
        /\ cmd = "run" => FindResumable = 0
        /\ OpenPipeline(p, cmd, 0, Stages, "next")

(* The rows that another process is working on, of the one p takes up. *)
AlsoAt(i, p) == {j \in {i} : \E q \in Procs \ {p} : proc[q].row = j}

(* `run', when find_resumable_pipeline_run returns a row ... *)
RunFind(p) ==
    /\ MayStart(p, "run")
    /\ FindResumable # 0
    /\ Becomes(p, [NoProcess EXCEPT !.pc = "claim", !.cmd = "run",
                                    !.row = FindResumable,
                                    !.known = pipelines[FindResumable].known])
    /\ shared' = shared \cup AlsoAt(FindResumable, p)
    /\ UNCHANGED <<store, judged, failures, crashes>>

(* ... which it marks running again and whose completed stages it reads. *)
RunClaim(p) ==
    LET i == proc[p].row
    IN  /\ proc[p].pc = "claim"
        /\ Rewrite(i, [pipelines[i] EXCEPT !.status = "running"])
        /\ Becomes(p, [proc[p] EXCEPT !.pc = "next", !.known = TRUE,
                                      !.todo = Remaining(i, proc[p].known)])
        /\ shared' = shared \cup AlsoAt(i, p)
        /\ UNCHANGED <<ingested, status, logged, judged, failures, crashes>>

(* `resume' *)
Resume(p) ==
    /\ MayStart(p, "resume")
    /\ ingested
    /\ OpenPipeline(p, "resume", LatestOfRepo, {}, "identify")

(* _metered_repo_stage *)
Standalone(p, s) ==
    /\ s \in Metered
    /\ MayStart(p, s)
    /\ ingested
    /\ OpenPipeline(p, s, 0, {s}, "identify")

(* update_pipeline_run_identity; `resume' then reads the deferred queue. *)
Identify(p) ==
    /\ proc[p].pc = "identify"
    /\ Rewrite(proc[p].row, [pipelines[proc[p].row] EXCEPT !.known = TRUE])
    /\ Becomes(p, [proc[p] EXCEPT
                        !.pc = "next",
                        !.todo = IF proc[p].cmd = "resume" /\ Deferred # {}
                                 THEN {"falsify"} ELSE @])
    /\ UNCHANGED <<ingested, status, logged, judged, shared, failures, crashes>>

-----------------------------------------------------------------------------
(* One stage *)

(* The row once start_stage_run has started or restarted the attempt and cleared
   its summary, and once finish_stage_run has recorded how it ended. *)
Begun(row, s) ==
    [row EXCEPT !.stage[s] = "running",
                !.backlog = IF s = "falsify" THEN FALSE ELSE @]

Ended(row, s, how, left) ==
    [row EXCEPT !.stage[s] = how,
                !.backlog = IF s = "falsify" THEN left ELSE @]

(* start_stage_run *)
StartStage(p) ==
    LET i == proc[p].row
        s == First(proc[p].todo)
    IN  /\ proc[p].pc = "next"
        /\ proc[p].todo # {}
        /\ Rewrite(i, Begun(pipelines[i], s))
        /\ Becomes(p, [proc[p] EXCEPT !.pc = "work", !.stage = s, !.todo = @ \ {s}])
        /\ UNCHANGED <<ingested, status, logged, judged, shared, failures, crashes>>

Set(S, value) == [f \in Findings |-> IF f \in S THEN value ELSE status[f]]

(* detect inserts the findings it has not inserted before. *)
Insert(S) ==
    /\ status' = Set({f \in S : status[f] = "absent"}, "unresolved")
    /\ UNCHANGED <<logged, judged>>

(* challenge(): every settled finding is given an outcome, `examined' are the
   representatives whose own loop it was, and `put' is deferred. *)
Challenge(examined, settled, ruled, put) ==
    /\ examined \subseteq settled
    /\ settled # {} => examined # {}
    /\ ruled \subseteq settled
    /\ put \subseteq Pending \ settled
    /\ status' = [f \in Findings |->
                    CASE f \in ruled           -> "ruled"
                      [] f \in settled \ ruled -> "unresolved"
                      [] f \in put             -> "deferred"
                      [] OTHER                 -> status[f]]
    /\ logged' = logged \cup examined
    /\ judged' = judged \cup settled

(* adjudicate_repo: a severity conflict without consensus makes the group's
   representative unresolved, whatever it was.  Two findings make a conflict. *)
Adjudicate(S) ==
    /\ S \subseteq {f \in Findings : status[f] # "absent"}
    /\ S # {} => \E f \in S, g \in Findings \ S : status[g] # "absent"
    /\ status' = Set(S, "unresolved")
    /\ UNCHANGED <<logged, judged>>

NoEffect == UNCHANGED <<status, logged, judged>>

(* The whole work of stage s.  A command with a fresh budget gets through one
   group at least; a `run' may have spent its calls. *)
Effect(p, s) ==
    CASE s = "detect" -> Insert(Findings)
      [] s = "falsify" ->
            \E settled \in SUBSET Pending : \E examined \in SUBSET settled, ruled \in SUBSET settled :
                /\ proc[p].cmd = "resume" /\ Pending # {} => settled # {}
                /\ Challenge(examined, settled, ruled, Pending \ settled)
      [] s = "normalize" -> \E S \in SUBSET Findings : Adjudicate(S)
      [] OTHER -> NoEffect

(* Ingestion records the repository before it reads the manifests. *)
Recorded(s) == \E late \in BOOLEAN : ingested' = (ingested \/ (s = "ingest" /\ late))

(* What a stage that raises has done by then. *)
PartialEffect(s) ==
    CASE s = "detect" -> \E S \in SUBSET Findings : Insert(S)
      [] s = "falsify" ->
            \E settled \in SUBSET Pending : \E examined \in SUBSET settled, ruled \in SUBSET settled :
                Challenge(examined, settled, ruled, {})
      [] s = "normalize" -> \E S \in SUBSET Findings : Adjudicate(S)
      [] OTHER -> NoEffect

(* A process that dies in falsify may also leave rows without an outcome for
   the finding it was at, or have marked only part of the remainder. *)
CutEffect(s) ==
    \/ PartialEffect(s)
    \/ /\ s = "falsify"
       /\ \E f \in Pending : logged' = logged \cup {f}
       /\ UNCHANGED <<status, judged>>
    \/ /\ s = "falsify"
       /\ \E settled \in SUBSET Pending : \E examined \in SUBSET settled, ruled \in SUBSET settled :
            \E put \in SUBSET (Pending \ settled) :
                Challenge(examined, settled, ruled, put)

(* The stage returns; the run remembers whether its falsification deferred. *)
Work(p) ==
    LET s == proc[p].stage
    IN  /\ proc[p].pc = "work"
        /\ Effect(p, s)
        /\ ingested' = (ingested \/ s = "ingest")
        /\ Becomes(p, [proc[p] EXCEPT
                            !.pc = "finish",
                            !.left = IF s = "falsify"
                                     THEN \E f \in Pending : status'[f] = "deferred"
                                                             /\ f \notin logged'
                                     ELSE @])
        /\ UNCHANGED <<pipelines, shared, failures, crashes>>

(* The stages `run' drops after a falsification that deferred findings. *)
HeldBack(p) == IF proc[p].stage = "falsify" /\ proc[p].left THEN Gated ELSE {}

(* finish_stage_run *)
FinishStage(p) ==
    LET i == proc[p].row
        s == proc[p].stage
    IN  /\ proc[p].pc = "finish"
        /\ Rewrite(i, Ended(pipelines[i], s, "completed", proc[p].left))
        /\ Becomes(p, [proc[p] EXCEPT
                            !.pc = IF s = "ingest" THEN "identify" ELSE "next",
                            !.todo = @ \ HeldBack(p), !.stage = "none"])
        /\ UNCHANGED <<ingested, status, logged, judged, shared, failures, crashes>>

(* `resume' reads the queue again, and goes on only when it is clear. *)
Recheck(p) ==
    /\ proc[p].pc = "next"
    /\ proc[p].todo = {}
    /\ ~proc[p].checked
    /\ Becomes(p, [proc[p] EXCEPT !.checked = TRUE,
                                  !.todo = IF Deferred = {} THEN Gated ELSE {}])
    /\ UNCHANGED <<store, judged, shared, failures, crashes>>

(* finish_pipeline_run, whatever the row says by now. *)
Close(i, s) == Rewrite(i, [pipelines[i] EXCEPT !.status = s])

Finish(p) ==
    /\ proc[p].pc = "next"
    /\ proc[p].todo = {}
    /\ proc[p].checked
    /\ Close(proc[p].row, "completed")
    /\ Becomes(p, NoProcess)
    /\ UNCHANGED <<ingested, status, logged, judged, shared, failures, crashes>>

-----------------------------------------------------------------------------
(* Failures *)

(* The stage raises ... *)
Raise(p) ==
    /\ proc[p].pc = "work"
    /\ failures < MaxFailures
    /\ failures' = failures + 1
    /\ PartialEffect(proc[p].stage)
    /\ Recorded(proc[p].stage)
    /\ Becomes(p, [proc[p] EXCEPT !.pc = "fail"])
    /\ UNCHANGED <<pipelines, shared, crashes>>

(* ... the attempt is recorded ... *)
FailStage(p) ==
    LET i == proc[p].row
        s == proc[p].stage
    IN  /\ proc[p].pc = "fail"
        /\ Rewrite(i, Ended(pipelines[i], s, "failed", FALSE))
        /\ Becomes(p, [proc[p] EXCEPT !.pc = "close"])
        /\ UNCHANGED <<ingested, status, logged, judged, shared, failures, crashes>>

(* ... and then the run. *)
FailPipeline(p) ==
    /\ proc[p].pc = "close"
    /\ Close(proc[p].row, "failed")
    /\ Becomes(p, NoProcess)
    /\ UNCHANGED <<ingested, status, logged, judged, shared, failures, crashes>>

(* The process dies, or an exception passes outside every stage's handler. *)
Crash(p) ==
    /\ Live(p)
    /\ crashes < MaxCrashes
    /\ crashes' = crashes + 1
    /\ IF proc[p].pc = "work"
       THEN CutEffect(proc[p].stage) /\ Recorded(proc[p].stage)
       ELSE NoEffect /\ UNCHANGED ingested
    /\ Becomes(p, NoProcess)
    /\ UNCHANGED <<pipelines, shared, failures>>

-----------------------------------------------------------------------------
Command(p) ==
    \/ RunNew(p)
    \/ RunFind(p)
    \/ Resume(p)
    \/ \E s \in Metered : Standalone(p, s)

Step(p) ==
    \/ RunClaim(p)
    \/ Identify(p)
    \/ StartStage(p)
    \/ Work(p)
    \/ FinishStage(p)
    \/ Recheck(p)
    \/ Finish(p)
    \/ FailStage(p)
    \/ FailPipeline(p)

Next == \E p \in Procs : Command(p) \/ Step(p) \/ Raise(p) \/ Crash(p)

Spec == Init /\ [][Next]_vars

(* A started process runs, and the operator gives the next command. *)
FairSpec == Spec /\ \A p \in Procs : WF_vars(Step(p)) /\ WF_vars(Command(p))

-----------------------------------------------------------------------------
(* The pipeline_run rows with their stage_run rows, and what a process knows of
   the first n of them. *)
RowType ==
    [status : {"running", "completed", "failed"}, parent : Nat, known : BOOLEAN,
     stage : [Stages -> {"none", "running", "completed", "failed"}],
     backlog : BOOLEAN]

ProcType(n) ==
    [pc : {"idle", "claim", "identify", "next", "work", "finish", "fail", "close"},
     cmd : {"none", "run", "fresh", "resume"} \cup Metered,
     row : 0 .. n, todo : SUBSET Stages, stage : Stages \cup {"none"},
     known : BOOLEAN, left : BOOLEAN, checked : BOOLEAN]

TypeOK ==
    /\ pipelines \in Seq(RowType)
    /\ proc \in [Procs -> ProcType(Len(pipelines))]
    /\ ingested \in BOOLEAN
    /\ status \in [Findings -> {"absent", "unresolved", "deferred", "ruled"}]
    /\ logged \subseteq Findings
    /\ judged \subseteq Findings
    /\ shared \subseteq Ids
    /\ failures \in 0 .. MaxFailures
    /\ crashes \in 0 .. MaxCrashes

(* Rows that one process at a time has worked on: one that was recorded as
   completed keeps that record, and however often a run is interrupted and
   taken up again, no stage that one of its attempts completed is paid for
   twice.  Ingestion alone is repeated, when the row was not told its
   repository (run() takes up a row by what find_resumable_pipeline_run says). *)
PaidKept(i) ==
    /\ pipelines[i].status = "completed" => pipelines'[i] = pipelines[i]
    /\ \A s \in Stages \ {"ingest"} :
        pipelines[i].stage[s] = "completed" => pipelines'[i].stage[s] = "completed"

PaidStageOnce == [][\A i \in Ids \ shared : PaidKept(i)]_vars

(* run(): "deferred findings have not been adjudicated and must not enter
   normalize/review/report as if examined"; and what is put before the reviewer
   as unresolved was examined (FalsificationStatus: UNRESOLVED means "examined,
   genuinely ambiguous, route to human review"). *)
OnlyExaminedReviewed ==
    \A p \in Procs : proc[p].pc = "work" /\ proc[p].stage \in Gated =>
        /\ Deferred = {}
        /\ \A f \in Findings : status[f] = "unresolved" => f \in judged

(* What PaidStageOnce needs of a process x at a row that is its own: what it has
   still to do is not done, and what it does was not. *)
Working == {"work", "finish", "fail"}

Placed(x) ==
    /\ x.pc = "idle" <=> x.row = 0
    /\ x.pc \in Working => x.stage \in Stages
    /\ x.pc \in {"claim", "identify", "next"} => x.stage = "none"
    /\ x.pc = "claim" => x.cmd = "run" /\ x.checked

Orderly(x, row) ==
    /\ row.status # "completed"
    /\ x.todo \cap Completed(row) \subseteq {"ingest"}
    /\ x.pc \in Working => /\ x.stage \notin x.todo
                           /\ x.stage = "ingest" \/ x.stage \notin Completed(row)
    /\ x.cmd = "resume" => /\ x.todo \cup {x.stage} \subseteq {"falsify", "none"} \cup Gated
                           /\ x.pc = "identify" => x.todo = {} /\ Completed(row) = {}
    /\ ~x.checked => /\ x.cmd = "resume"
                     /\ x.todo \cup {x.stage} \subseteq {"falsify", "none"}
                     /\ Gated \cap Completed(row) = {}

Apart ==
    \A p, q \in Procs : p # q /\ proc[p].row = proc[q].row => proc[p].row \in shared \cup {0}

OwnOrderly(p) ==
    Live(p) /\ proc[p].row \notin shared => Orderly(proc[p], pipelines[proc[p].row])

PaidInv ==
    /\ TypeOK
    /\ \A p \in Procs : Placed(proc[p])
    /\ Apart
    /\ \A p \in Procs : OwnOrderly(p)

(* What OnlyExaminedReviewed needs.  Clear: every finding was examined and none
   is deferred; it is what a falsification that left no backlog establishes,
   and only the next falsification may undo. *)
Inserted == \A f \in Findings : status[f] # "absent"

Clear ==
    /\ judged = Findings
    /\ \A f \in Findings : status[f] \in {"unresolved", "ruled"}

OutcomesJudged ==
    /\ Deferred \cap logged = {}
    /\ logged \cup {f \in Findings : status[f] = "ruled"} \subseteq judged

RowHonest(row) ==
    /\ row.status = "completed" \/ Completed(row) \cap {"detect", "falsify"} # {}
            => Inserted
    /\ row.status # "completed" /\ "falsify" \in Completed(row) /\ ~row.backlog
            => Clear

WorkHonest(x, row) ==
    /\ x.pc # "claim" => "detect" \in x.todo \/ x.stage = "detect" \/ Inserted
    /\ x.stage \in {"falsify"} \cup Gated => Inserted
    /\ x.pc = "finish" /\ x.stage = "detect" => Inserted
    /\ x.pc \in {"work", "finish"} /\ x.stage = "falsify" => "falsify" \notin Completed(row)
    /\ x.pc = "finish" /\ x.stage = "falsify" /\ (Deferred = {} \/ ~x.left) => Clear
    /\ x.pc \in {"identify", "next", "work", "finish"} /\ x.todo \cap Gated # {}
            => Clear \/ "falsify" \in x.todo \cup {x.stage}
    /\ x.pc = "work" /\ x.stage \in Gated => Clear
    /\ x.cmd = "resume" => /\ Inserted
                           /\ x.todo \cup {x.stage} \subseteq {"falsify", "none"} \cup Gated
                           /\ x.pc = "identify" => ~x.checked
    /\ ~x.checked => /\ x.cmd = "resume"
                     /\ x.todo \cup {x.stage} \subseteq {"falsify", "none"}
                     /\ x.pc = "identify" => Deferred # {} /\ x.todo = {}
                     /\ x.pc = "next" /\ x.todo = {} /\ Deferred = {} => Clear

RowsHonest ==
    \A i \in Ids : /\ pipelines[i].status = "completed" \/ i = Len(pipelines)
                   /\ RowHonest(pipelines[i])

OwnHonest(p) ==
    Live(p) => /\ proc[p].row = Len(pipelines)
               /\ pipelines[proc[p].row].status # "completed"
               /\ WorkHonest(proc[p], pipelines[proc[p].row])

ExaminedInv ==
    /\ TypeOK
    /\ \A p \in Procs : Placed(proc[p])
    /\ OutcomesJudged
    /\ RowsHonest
    /\ \A p \in Procs : OwnHonest(p)

(* Following the printed commands, the operator gets to a review of a scan
   with nothing deferred, whatever failed on the way. *)
ScanGetsReviewed ==
    <>[](/\ pipelines # <<>>
         /\ pipelines[Len(pipelines)].status = "completed"
         /\ pipelines[Len(pipelines)].stage["review"] = "completed"
         /\ Deferred = {})
=============================================================================
