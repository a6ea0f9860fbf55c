# repoauditor: a TLA+ model of the audit pipeline

repoauditor ingests a repository, maps its architecture, detects findings with
scanners and language model lenses, ranks them, *tries to falsify* each of them
within a budget of provider calls, normalizes severities, and stops at a human
review checkpoint before anything is analyzed or reported. It runs as a
foreground command line program; everything it knows is in one SQLite database
and a directory of snapshots, and everything it does can be interrupted between
any two database transactions and taken up again by a later command.

That is where its hard behaviour is, and what this project is about: what is on
disk when a stage fails, the budget ends or the process dies; what the next
command makes of it; and whether work is lost, repeated or presented as done.

Paths below are relative to `src/repoauditor/`.

## Inventory

| Component | State | Operations | Correct when |
|---|---|---|---|
| Orchestration (`cli.py`) | the stages a process still has to do; the `pipeline_run` and `stage_run` rows | `run`, `run --fresh`, `resume`, standalone `map`/`detect`/`falsify`/`normalize` | an interrupted run continues where it ended, completed stages are not paid for twice, nothing unexamined passes the gate after falsification |
| Falsification (`falsify/`) | `finding.falsification_status`, `falsification_iteration`, `security_claim` and `claim_verification` rows; in memory the queue, the groups, the selection, the evidence | `challenge`, `challenge_finding`, the failure handler; the slicer, the claim checker, the read-only tools | every verdict is backed by a committed round, verdicts are final, nothing is dropped or stranded, the ceiling never cuts a challenge in half; a certificate means what it says |
| Store (`store/db.py`) | the tables; one transaction per call | inserts, idempotent upserts, queries, migrations | upserts never reset downstream state; append-only tables stay so; a version on record was applied |
| Matching (`matching.py`) | none | `same_issue`, `find_matches` | grouping is the closure of the relation over the findings it is given, and deterministic |
| Normalization (`normalize/`) | severity, status, corroborations, debates | `adjudicate_repo` | a higher severity is kept only with a licence and never above what a source asserted |
| Review (`review/`) | `review_request`, `review_decision` | raise, decide, correct, the analyzable and countable queries, `finalize` | decisions are append-only; nothing held, killed or deferred is analyzed |
| LLM client (`llm/`) | `model_usage` | `call` with retries and two ceilings | every attempt is counted, and no call is made beyond a ceiling |
| Detection (`detect/`) | `detection_region_run`, findings | the region loop, planning, anchoring of citations | a completed region is not billed again, a finding is inserted once and where it is cited |
| Scanners (`detect/deterministic/`) | execution records, the SARIF artifact | six adapters, canaries | what a valid answer reports survives; a gap in coverage is owned up to |
| Triage (`triage/`) | findings from SARIF, features, scores, results, labels, assessments, import batches, packets | scoring, labelling, import, derivation, acquisition plans | a human's last decided label stands; a score is of the code scanned; automation does not count as a human |
| Ingestion (`ingest/`) | snapshots, `ingested_repo` | `ingest_repo`, `latest_snapshot` | a snapshot is complete and immutable under its hash |
| Analysis and reports (`analyze/`, `report/`) | scenarios, inputs, simulations, files | `quantify`, `report`, memo | the audit trail is true of what was computed; a memo shows one run |
| Architecture map (`map/`) | the map tables | `recover_architecture` | - |
| Evaluation, preflight, menus | benchmark records, files | benchmarks, checks | - |

Components interact in two ways only: a stage calls the store, and a later
stage or a later process reads what it wrote. There are no threads that share
state and no messages. Several processes may use one database (a second
terminal), and the store does not prevent it: each transaction is atomic and
nothing spans two of them, but for `upsert_detected_finding`.

The hazards this leads to are listed, each at its line, in `PROJECT.json`.

## Modules

| Module | Code | Built on |
|---|---|---|
| `Matching` | `matching.py`: groups as the closure of an arbitrary symmetric relation `Matches` (`same_issue`) over the findings given, and their representatives | |
| `VerdictLedger` | abstract: what the falsify stage promises of findings and their trace | `Matching` |
| `Falsification` | `falsify/challenger.py` and the rows it writes | `Matching`; implements `VerdictLedger` |
| `Retrieval` | `detect/retrieval/index.py`: the index of a snapshot's functions | |
| `Evidence` | the evidence of a round, the check of a regex witness (`falsify/counterexample.py`), the tools (`falsify/read_only_tools.py`) | `Retrieval` |
| `Challenges` | the rounds of `Falsification` with the evidence of each | both |
| `StructuralClaims` | the slicer, the claim checker, and the claim and verification rows | |
| `PipelineRuns` | the commands of `cli.py` over the run records | |
| `Normalization`, `ReviewGate` | `normalize/adjudicate.py`; `review/`, the gated queries, `finalize` | `Matching` |
| `ModelCalls` | `llm/client.py`: one logical call, its attempts, the ceilings | |
| `Detection` | `run_ensemble` of `detect/ensemble.py` | `ModelCalls` |
| `Planning`, `Scanners` | `detect/planning.py`; `detect/deterministic/` and `run_deterministic_detection` | |
| `Migrations`, `Ingestion` | `init_db`; `ingest/repo.py` | |
| `TriageLabels` | `triage/labels.py`, its tables, the activation floor of `triage/collection.py` | |
| `Training`, `Acquisition`, `TriageRuns` | the corpus and its hold-out; the acquisition plan; `triage_repo` and the review packet | |
| `Reports` | `analyze/risk_quant.py`, `report/` and their commands | `Matching` |
| `MC...` | instances for TLC | |
| `...Proofs` | theorems, see below | |

### Falsification, Challenges

| In the model | In the code |
|---|---|
| `status`, `trace` | `finding.falsification_status`, and the iteration rows of a finding as the sequence of their results: a terminal verdict if committed, `"open"` otherwise |
| `calls` | the model calls recorded for the active pipeline run |
| `pc`, `todo`, `group`, `aside`, `cur`, `draft`, `members` | where `challenge` stands, the representatives still to do, the match groups, the remainder to defer, the finding under challenge, its verdict in this round, the members that still wait for the outcome |
| `ruling` | history: the last outcome written to a finding |
| `Start` | `challenge` up to its loop: `pending_falsification_findings`, `_grouped_queue`, the reserve per group, `_budget_partition` |
| `Verdict`, `Critique`, `LogIteration` | one round of `challenge_finding`: THINK/ACT, REFLECT with the counterexample check, `_log_iteration` and the decision to return |
| `Settle`, `Spread`, `NextGroup`, `Defer`, `Return` | the updates of the representative, of the other members one by one, and of the findings beyond the cutoff one by one |
| `Fail`, `Handle` | an exception inside `challenge_finding`, and the handler that records it |
| `Crash` | the process is killed, or an exception is raised outside the `try` |

`Matches` is any symmetric relation and `Priority` any total order; the groups
are the closure over the findings pending *now*, and change from run to run as
the code's do. A verdict with low confidence and an unresolved one have the same
consequence and are both `"open"`. A round with the critique disabled (an
evaluation baseline) is not modelled.

`VerdictLedger` has four operations (`Examine`, `Rule`, `LeaveOpen`, `SetAside`)
and nothing else may happen to a finding; `KeepsPromise` says that `Falsification`
implements it, with the same `status` and `trace` and everything else hidden.

`Challenges` adds no state: what a round is shown is a function of the snapshot
and the number of rounds, so `Evidence` computes it and `EvidenceIsSound` is about
the finding whose round begins. A line of source is what the queries can tell of
it: the names it calls and the words and regex guards in it. A definition has its
`place` in the walk over its file, which decides between functions of one line, since
Python's sort is stable; `find_callees` decides there by the order of a set of names,
which is the same in every round of a process. `Tiers` are the three rounds whose
evidence differs in kind, as many as the default configuration has; what a fourth
would lose is told below.
`RetrievalIndex.build` says it is idempotent; a second build would list each
function twice, which no caller does.

### StructuralClaims

| In the model | In the code |
|---|---|
| `snapshots` | the cited file in each snapshot: a function with a straight line of statements |
| `claim`, `verification` | the `security_claim` and `claim_verification` rows of a finding, upserted one after the other (`SaveClaim`, `SaveVerification`) by challenges that may overlap and die |
| `Slice`, `Certificate` | what `falsify/slicing.py` certifies of a sink |
| `Visited`, `Closure`, `Check` | what `falsify/claims.py` collects again and makes of any claim |
| `Reaching` | the worklists of both: the least set with the sink and, with a use, the assignment it is of |
| `SlicerRaises` | the `KeyError` of `slicing.py:314`, for a Python finding about deserialization; it ends the command as it does in the code |

`Held` and `Flow` are no part of the program: they execute the body forwards, as the
reference against which the checker is held.

### PipelineRuns

| In the model | In the code |
|---|---|
| `pipelines` | the `pipeline_run` rows in id order with their `stage_run` rows; `known` is `repo_id` being set, `backlog` the `deferred` count of the falsify summary being nonzero |
| `proc` | what a process holds in memory: command, row, stages left, the stage at work, the deferred count just returned |
| `RunFind`, `RunClaim` | `find_resumable_pipeline_run`, then `resume_pipeline_run` and `list_stage_runs`: two transactions |
| `OpenPipeline`, `Identify` | `start_pipeline_run`, `update_pipeline_run_identity` |
| `StartStage`, `Work`, `FinishStage` | the `step` helpers of `run` and `resume`, and `_metered_operation` |
| `Raise`, `FailStage`, `FailPipeline` | their exception handlers, one transaction each |
| `Recheck` | `resume` reading the deferred queue again |
| `Effect`, `PartialEffect`, `CutEffect` | what a stage does to findings when it returns, raises, or dies |
| `judged`, `shared` | history: findings that were given an outcome, rows that two processes have worked on at a time |

The work of a stage is one step here. For `falsify` that step is the summary of
a whole execution of `Falsification`; for `normalize` it is any change that
`adjudicate` can make to statuses; `map`, `triage` and `review` do not touch
finding statuses. There is one source with one commit.

### Normalization and ReviewGate

| In the model | In the code |
|---|---|
| `status`, `severity` | the columns of `finding` that the stages change |
| `debate` | the outcome of the last `adjudication_debate` row of a region |
| `trace` | the verdict in a finding's iteration rows, `"none"` without rows |
| `request`, `decisions` | the `review_request` of a finding by its stage, and the `review_decision` rows attached to it |
| `pc`, `heads`, `draft`, `raising` | in memory: the running command, the groups still to adjudicate, the resolution about to be written, the requests still to be upserted |
| `Settle`, `Defer` | what an execution of the falsify stage that succeeds leaves, group by group; its failures and deaths are in `Falsification` |
| `Adjudicate`, `Persist` | a group's resolution and debate row, then `apply_adjudication`: two transactions |
| `StartCheckpoint`, `Upsert` | `raise_review_requests` reading, and writing request by request |
| `CheckOpen`, `Quantify` | `finalize` after its checkpoint; what it quantifies is `Countable` |
| `Decide` | `record_decision` and `correct_decision`, at any moment |
| `Abort` | the running command raises or dies |

The consensus that the model reaches is any severity; the cap is the code's. Only
one pipeline command runs at a time, so the rows that normalization read are still
those it writes over; reviewers act beside it. `finalize` rewrites earlier
requests as they are (they count as sampled in a run without an id), which is
left out, as is `render_review_packet`, which insists on a single snapshot.

### ModelCalls and Detection

`ModelCalls` has `usage` (the `model_usage` rows of the run), `call` (where each
process stands between the check of the ceilings, the provider's answer and the
row that records it) and the history `spent`. `Detection` begins calls and takes
up their results.

| In the model | In the code |
|---|---|
| `region` | the `detection_region_run` rows of the commit |
| `findings` | how many rows a finding's identity has: the lens, the title the model gave it, and the place (`Identity`) |
| `proc` | where a process stands in the plan, the candidates of the answer still to insert, the one at hand and the places it was anchored to |
| `StartRegion`, `Finish`, `Leave`, `FailRegion` | `start_detection_region`, `finish_detection_region` inside the `try`, the end of the `try`, the handler, which marks the region failed whatever its row says |
| `Anchor`, `Rescore`, `Persist` | `_canonicalize_citation`, the second question about an unsure candidate, `_persist_candidate` after anchoring again |
| `Interrupt`, `Crash` | Ctrl-C, which the handler sees even right after the region was completed, and a death, which nothing sees |
| `owed`, `contested`, `lost` | history: what an answer that completed a region asserted, regions two processes were at together, calls whose process ended before their row |

### Planning and Scanners

A snapshot is its source files, which of them hold a flaw, and its manifests. Six
adapters run one after the other (they share nothing) on programs that work, are
absent, fail, print nothing, garbage, or JSON of another shape (`tool`, `met`).
`evidence` holds the execution records, `collected` what the adapters returned,
`store` what was inserted, `planned` the regions chosen for the model. What an adapter
leaves is a function of the way each of its invocations goes (`ResultOf`); `ScanNext`
chooses the ways, with at most `MaxHitches` transient troubles in all, and only for an
invocation that is made (`Made`). `phase` is where the stage stands, and `Collect` is
where a record that does not validate ends it, and where an empty SARIF file is
written for each Semgrep adapter that has left none: outside of the guard that contains
what adapters raise, so that a file that cannot be written there ends the detection
too. `SkipFails` is the same where the scanners are switched off.

### Migrations and Ingestion

`Migrations` is `init_db` statement by statement: `executescript` commits each
statement on its own, and the version is recorded afterwards. `Ingestion` extends
it, since every command opens the database first. `Refuses` says which statements
SQLite refuses, given what is in effect, and `Undoes` what a statement takes away: a
script that makes a table anew (`ddl/0006`) is not refused a second time, and drops what
later scripts have added to the table.

A source is what the command was given, and each command has a view: a working
directory, and the paths that are there. `Identity` is `_source_identity`, the origin
that a source stands for in a view. Rows keep the spelling, so `Free` resolves every
row again in the view of the command that asks, as the code does. `Fixed` sources
(URLs, absolute paths) mean one origin everywhere.

| In the model | In the code |
|---|---|
| `executed`, `recorded`, `opening` | the statements whose effect is in the schema, `schema_migrations`, the commands inside `init_db` with the versions they read at first |
| `held`, `clones`, `dirs` | what the origins hold, the scratch clones, the snapshot directories with modification times |
| `rows` | `ingested_repo` |
| `job` | `ingest_repo`: its source, the origin this stands for, the id it resolved, the key it computed |
| `Resolve`, `Prepare`, `Reuse`, `BeginCopy`, `EndCopy`, `RecordSnapshot` | its steps in order; `copytree` has a beginning and an end |
| `Edit`, `Commit` | the owner of the source, at any moment |
| `flawed`, `contested`, `cut`, `undone` | history: snapshots that a death, a race or an edit got into; ids resolved by commands for two origins at once; versions in whose script a command ended; what a script undid that was executed more than once |

### TriageLabels

| In the model | In the code |
|---|---|
| `labels`, `assessments` | `triage_label` by key, `triage_assessment` |
| `Assess`, `Continue` | `assess_finding`: the row, the reading of the other positions, the label written or withheld: three transactions |
| `Import` | a frozen batch, one transaction, in any order of its rows |
| `Derive` | `derive_labels`: verdicts first, the decisions of a repository later, one label at a time |
| `torn` | history: findings two commands were at together, or at which one died |

### Training, Acquisition, TriageRuns, Reports

`TriageRuns` is `triage_repo` step by step for two terminals, with `Training` (the
corpus and every split that may be drawn from it) and `Acquisition` (the plan of a
packet, with its funnel) as pure operators. Scores, priors and the classifier's
numbers are abstract; what is joined with what is not. `Reports` has one step for
each transaction and file of `quantify`, `report`, `finalize` and the memo, by two
terminals, beside reviewers and a resumed falsification.

## Runs

| Run | Question | Answer |
|---|---|---|
| `falsify` | Four findings, a chain of three that only the middle one joins and one apart; two groups at most per run, and runs that find the ceiling partly spent; a failure and a death. | Nothing dropped, nothing stranded but by a death, verdicts backed, no challenge cut by the ceiling, the ledger's promise kept, evidence that only grows, and the backlog clears. |
| `pipeline_guided` | One operator who follows the printed commands; two stages fail. | Every scan gets to a review in which everything was examined; the gate holds. |
| `pipeline_commands` | Two processes, `run`, `resume` and a standalone `falsify`, one failure, one death. | Completed stages of a row that one process at a time worked on are not paid for again, and completed rows are final. |
| `review_gate` | Two lenses rate one issue differently; every stage may be repeated, one command dies, one ruling is corrected. | No severity without licence or above what a source asserted; what is held is quantified only on the reviewer's last word; `finalize` gets through again and again. |
| `detection` | Two processes in one run, two lenses, unsure and misattributed citations, failing calls, an interrupt, a death. | Completed regions are paid for once, but for overlaps and an interrupt right after the completion; what they assert is stored once under its title and where it is cited, both ceilings hold, and detection ends. |
| `ingestion` | Two commands in two working directories open a new database with a script that can be repeated and undoes another, and ingest a working tree, a plain directory and a remote of one base name that change meanwhile; one dies. | The schema is complete unless a script was cut or a repeated one undid it; ids keep one origin as far as the rows tell; snapshots are whole and stay, but for the listed flaws. |
| `triage` | Two analysts, an import and derivation passes over changing verdicts and reviews. | The last decided assessment stands, a material one only with a second analyst; automation counts for nothing; labels catch up. |
| `claims` | Every body of three lines over two variables in four languages; two challenges, one dying. | What the slicer certifies the checker verifies; what it verifies is true of an execution; the two rows belong together. |
| `scanners` | Small trees on installations with one program missing or broken, or a SARIF file that cannot be written, scanned twice, with one transient trouble and a death. | What valid answers report is stored or the gap is owned up to; records are honest, except of a Semgrep that was cut short; a passed canary predicts coverage; a plan keeps its shares. |
| `reports` | Two terminals quantify, finalize and write memos while reviewers rule. | A linked simulation is of its scenario; an undisturbed memo shows one run. |
| `triage_runs` | Two terminals triage two repositories of one family; findings are ruled on, labelled, put into packets. | Scores are of the code that was scanned, a piece of evidence counts once, the reported hold-out is honest, packets show what is labelled. |
| `snapshot_latest` | Does `latest_snapshot` return the commit just ingested? | No: directory modification times do not tell. |

The exceptions ("but for the listed flaws", "worked on together") are part of each
property, at its definition: they are what the code really does in those
situations, and the history variables name them.

### Bounds

- Findings: two match groups of different size, and a group joined only by its
  middle member, are the smallest cases in which grouping, selection and
  deferral differ. Two findings are enough for `PipelineRuns`, where they only
  have to be examined or not; `pipeline_commands` has none, as its property
  is about records. `triage` has one finding, because findings with different
  keys do not meet.
- `MaxIterations = 2`: a round that does not commit and one that must be the last.
  `MaxRetries = 1`: a retry that is paid for. `MaxCalls = 16` with `0` or `9` spent:
  two groups by the cap or by the ceiling.
- `MaxFailures`, `MaxCrashes`, `MaxTroubles`, `MaxHitches`, `MaxAborts`, `MaxDeaths`: one
  or two.
  `MaxPipelines`: two rows for concurrent commands, five for the guided operator,
  which two failures and two findings never exceed.
- `detection`: `MaxCalls = 2` and `MaxTokens = 2` let the ceiling cut the second
  region; one snippet occurs twice in a file and in a file whose name ends alike.
- `review_gate` has the smallest conflict, two findings at one place, with one of
  them uncertain and the other suppressed. A third severity, which neither source
  asserted, lets the debate propose too much. `MaxCorrected = 1`: a ruling that is
  reversed once, before or after `finalize` looked; first rulings are not bounded.
- `claims`: three lines are a definition, an assignment in between and the sink,
  the least in which a reassignment can hide a flow.
- `ingestion`: two jobs let two commands meet at one id and a commit be ingested
  again, one change of an origin comes between the two. Three scripts, of two, three
  and one statement, stand for the one that creates the tables, the one that makes
  `finding` anew (`0006`) and one that adds a column to it later (`0021`); two views
  and three spellings give three origins of one base name. `snapshot_latest` has
  three jobs and two changes of one directory, which is there in one view only.
- `scanners`: one trouble is enough for the disk too: a SARIF file that cannot be
  written in one run, where the run before may have left one or not.
- `triage`: three assessments are a first position, a dissent and its
  confirmation.
- `reports`: three commands and one event; `triage_runs`: two runs and one event
  beside an earlier scan.
- These bound the environment only; nothing the program does is cut short. When no
  bound is left the operator may have no command to give, so most runs allow the
  system to stop; `falsify` and `review_gate` do not.

### Fairness

- `Falsification!FairSpec`: weak fairness of the process's own steps (a started
  process runs), and strong fairness of `Start(0)`. A `resume` opens a pipeline
  run of its own, so it starts with no calls recorded; that it is given again and
  again is what `BacklogClears` asks of the operator. Nothing is assumed of
  verdicts, failures or deaths beyond their bounds.
- `ReviewGate!FairSpec`: a started command runs; the operator does what the blocked
  `finalize` prints, which is to work off deferred findings, to decide each open
  request and to try again. The first and the last are strongly fair, since any
  other command may come between. No order of rulings or stages is assumed.
- `PipelineRuns!FairSpec`: weak fairness of each process's steps and of the
  operator giving a command. `Guided` restricts the command to the one that the
  last message names (`Next: repoauditor resume ...`), or that the README gives
  for a failed run (the same target again); `ScanGetsReviewed` holds for
  that operator. It also relies on a fresh budget paying for one group at least
  (`max_calls_per_pipeline_run` not below the reserve of one group): with a smaller
  ceiling the code defers everything, every time.
- `Detection!FairSpec`: a started process runs, and detection is started again
  (strongly fair, as another process may come between).
- `Ingestion!FairSpec`: a command inside `init_db` runs on, and a command that
  opens the database is given again.
- `TriageLabels!FairSpec`: every triage run begins with a derivation pass, and a
  started command runs.

## Theorems

All hold for every value of the constants that satisfies the named assumptions:
finitely many findings and a symmetric match relation (`Matching`), an injective
budget order and natural budgets with at least one iteration (`Falsification`),
injective positions of findings (`Normalization`, `Reports`), finitely many processes and
natural ceilings (`ModelCalls`), a plan no longer than the call ceiling and finitely
many places (`Detection`), positive version numbers and nonempty scripts, whatever
their statements refuse and undo (`Migrations`), hashed ids that differ from origin to
origin and from every base name (`Ingestion`: the hash is taken for injective, as the
code does), finitely many findings (`TriageLabels`), finite
corpora and a file that holds an alert (`TriageRuns`: an empty one is refused),
files with finitely many definitions that lie in their lines, each at a
place of its own (`Retrieval`), citations, slices and bounds of lines that are natural
numbers (`Evidence`), subjects that are the findings (`Challenges`),
snapshots whose flaws are in their files, and installations whose programs each behave
in one of the ways listed for it (`Scanners`), and finitely many files with distinct
names and digests, listed once as neighbors, as the keys of a dict are (`Planning`), and
plans that are asked of finitely many findings, each with one feature row, with
positive options and names whose digests differ (`Acquisition`; the code refuses other
options, and breaks ties by SHA-256). TLC evaluates each assumption in the runs.

Every invariant below that a proof needs is written in the module it is about,
after the properties, and was model-checked on the instances of the runs before it
was proved.

**Falsification** (`FalsificationProofs`).
- `TypeCorrect`, and `VerdictsAreBacked`: `Spec => []VerdictBacked`. A verdict on a
  member that was never challenged must be traced to a representative of its
  issue, though the two rows were written in different transactions and the group
  was computed from a queue that no longer exists. The inductive invariant `IInv`
  adds `BatchInv` (the groups of a run are disjoint from each other and from what is
  set aside, and all that waits is still pending) and `ChallengeInv` (the
  representative has only open rows until the round that commits; its members
  wait with no rows). Two lemmas carry the weight: match groups over a subset of
  the findings lie inside the match groups over all of them, and two groups that
  meet are equal, for which the symmetry of the relation is needed.
- `VerdictsAreFinal` and `TraceOnlyGrows`: the action properties
  `VerdictsStand` and `TraceGrowsUntilCommitted`, from the same invariant.
- `ImplementsLedger`: `Spec => Ledger!Spec`, the refinement of `VerdictLedger`. Each
  step of a run is one operation of the ledger or a stutter; the work is in `Settle`
  and `Spread`, whose outcome must be licensed by a committed round of the issue.
- `NothingStranded`: unless a process died, a deferred finding has no rows between
  two runs. Its invariant `HandlerInv` says that only the finding under challenge
  may be deferred with rows, and that the handler is what ends that.
- `QueueIsDisposed`: `NothingDropped`, by the invariant `QueueInv`: every finding of
  the queue is settled, set aside, or in hand. That each finding of the queue is in
  the group of *some* representative needs an element that comes first in an order
  of a finite set; the lemma `FirstOf` gets it from the well-foundedness of strict
  inclusion, with the library's `WFMin`, since induction theorems are out of reach.
- `CeilingNeverInterrupts`: `EnvelopeSuffices`. `EnvelopeInv` keeps an account: calls
  made, what the challenge at hand may still spend, and the full reserve of every
  group not yet taken up fit under the ceiling. It rests on a lemma that a selection
  has no more groups than the budget.

- `EvidenceStaysSound`: `EvidenceIsSound`, for any snapshot, citation, map and bounds.
  No step disturbs it, so the invariant is `TypeOK` and the work is in the operators.
  `Begins` (one sequence is the start of another) goes through everything evidence is
  made with: joining, cutting off, `Concat`, and a section that leaves out what it has
  shown (`SectionBegins`). Each query must list the functions it finds in one definite
  order for that (`OrderedIs`: counting what comes ahead gives each its place), which
  is where a file's definitions need places of their own. So the related section of the
  third round goes on where that of the second ends, with nothing behind it
  (`ContextBroadens`), guards stay shown and witnesses valid (`UpholdsStays`).
  `ReferencesAnswer` needs the one reference more than fits, and `RequestCounts` that a
  refused request is an attempt. `Concat` and `Session` are recursive functions:
  their value exists by the least number for which it would not, and facts go along
  them in the same way, so that no induction theorem is needed.

**Review gate** (`ReviewGateProofs`). `GateTyped`; `SeveritiesAreJustified`, by
`SeverityInv`: what rests on a confirmation or a licence still has it when the
resolution that was computed before is persisted, and what speaks for a group is
alive; `QuantifiedAreReleased`, by `GateInv`: while `finalize` holds the store, what
the checkpoint holds has its request or is still to get it.

**Orchestration** (`PipelineProofs`). `RunsTyped`. `StagesPaidOnce`: the action
property `PaidStageOnce`, by `PaidInv`: at a row of its own, what a process has still
to do is not completed there (`Orderly`), and two processes at one row have made it
`shared` (`Apart`). `OnlyExaminedAreReviewed`, by `ExaminedInv`: `Clear` (everything
examined, nothing deferred) is established by a falsification that left no backlog
and undone only by the next one; only the last row may be unfinished, so a row
that says its falsification left none is right about the present. It assumes one
process, no deaths and an operator who follows the printed commands: each of the
three is necessary (see below).

**Detection** (`DetectionProofs`). `DetectionTyped`, and for each property an invariant
of its own over the common `Steady`: `Anchored` (`ExactCitationsStay`), `Kept`: what a
process owes is stored, in its queue or at hand (`FindingsArePersisted`), `Alone`: a
region that one process is at is completed only while that process is about to leave
the `try` (`RegionsPaidOnce`), `CeilingsKept` (`CeilingsAreKept`): a call that has passed its
check is paid for in advance, so each process but the one that reached the ceiling
can overshoot by one.

**Scanners** (also `DetectionProofs`). `ScannersTyped`, then `DetectionGoesOn`,
`CompleteMeansStored`, `RecordsAreHonest` and `CanaryIsWorth`, all by `ScannersInv`:
everything in memory is what the adapters made of *some* ways for their invocations to
go (`LeftSomehow`), the SARIF file and the store follow from it (`ArtifactFollows`,
`StoreFollows`), a stage that ended in the middle had a reason to (`SunkFollows`), and the switch that turns the scanners off decides what else there
can be (`Placed`). So what is true of a result, whatever the ways, is true of the
records: one lemma an adapter says what it leaves for any snapshot and any ways
(`SemgrepTells`, `GitleaksTells`, `WeakRngTells`, `PipTells`, `OsvTells`), and
`AdapterSound` gathers them. The dependency adapter is the hard one: what pip-audit
raises costs OSV-Scanner its record, pip-audit stops at the manifest that raised, and
the last manifest that did not go well decides the status, for any number of manifests
in any order. For `CanaryIsWorth` each adapter has two more lemmas: a program that
finds its control works (`SemgrepPassed` and its like), and one that works covers
every snapshot it applies to (`SemgrepCovers` and its like).

`PlansKeepShares` needs a small invariant of its own, `PlanFollows`: what the model is
given is the plan of *this* snapshot and of what was collected. The rest is about
`PlannedRegions`. Sorting is stated by ranks (`Arranged`: the i-th is the one that
comes after i - 1 others), and what is left of a sequence by sorting the places it is
left at (`Without`), so no recursion has to be followed: `EachHasPlace` shows, by
counting, that a strict order of a finite set gives each place to exactly one, and
`OneOrder` that two increasing listings of a set are equal, since they would differ
first somewhere. From there every sequence of the plan lists a set (`Listing`), and
`WithoutMore` carries the share of the sample: leaving out the first k of what is left
is the same as going on after them. Nothing assumes the bounds
`MaxHitches`, `MaxRuns` and `MaxDeaths` to be small.

**Ingestion and migrations** (`IngestionProofs`). `SchemaIsApplied`, by `SchemaInv`: every
version before the one a command is at is on record, and the statements behind it
have taken effect as far as they last; the least version of a set that may be infinite
exists by the well-foundedness of the naturals. A statement that undoes others is the
hard step (`NothingLost`): what it takes away is of a script that comes later, which
is not on record unless this script is repeated, or does not last; and what a repeated
script takes away is in `undone`. `IngestionTyped`. `IdsAreKept`, by `OwnedInv`: what
was true of the origins when an id was resolved is still true when it is recorded,
unless the id is contested (`Exclusive`), as far as the spellings of the rows mean the
same in every view. `SnapshotsAreWhole` and the action property
`SnapshotsStay`, by `CopiedInv`: one command copies to a directory at a time, and a
directory that is there and not flawed is whole once its copier has ended.

**Triage labels** (`TriageProofs`). `TriageTyped`, `CountedAreHuman`, `LastDecisionHolds`
and `TwoForMaterial`, all by `LabelsInv`. Its core is `Undisturbed`: at a finding that
is not torn there is one command at most, it holds the last row, and either its
label is still to come or the label is what the last decided row makes it. The
hard steps are `Assess`, which must show that the others are away or the finding
torn, and `Import`, which appends a batch in any order.

**Triage runs** (also `TriageProofs`). `TriageRunsTyped`, then `FilesAreScored`,
`EvidenceTrainsHonestly` and `PacketsAreOfEvidence`, by `RunsInv`: whatever a terminal
does, a score, a feature row and an entry of an index are about the place they are
kept under (`AboutPlace`), and the index of a terminal leads from a place to a finding
there is at it (`IndexesLead`). In a repository at which no two runs were together
(`AloneAt`), findings are of different places, the terminal at it knows them all, and
what its run has left behind, or the last run finished, is scored. Two scores of one
label would be of two findings of one place and name, which those three exclude. That
a label knows an alert by its rule and the index by the rule's name is why
`EvidenceTrainsHonestly` takes the hypothesis `OneNamePerRule`: the name is what the
file gives for the rule, and a scanner that gave two files two names for one rule would
have its findings duplicated.

`PacketsAreFair` is about any plan at all, of candidates, labels, pairs and options that
are constants of `Acquisition`, and joins that to `PacketsAreOfEvidence`. `Selected` is a
fold, that is a `CHOOSE` of a function over sets of steps: `SelectedIs` shows that it is
what a chain of steps ends in, and facts go along the chain by its least
counterexample. What is drawn stays closed (`Drawn`): it is within the caps, without
repeats, and comes before all that is left of its queue. That takes the queue to be in
a total order (`PrecedesOrders`): its key holds the depth in the family, how many
families of the rule come before, and the rule, and each is shown to tell apart what
it should. Then a packet holds the first few of every queue (`DrawnIsAllowed`), stops
only when all of these are in it (`AllowedIsDrawn`), and cannot hold two of a rule
without the first of every other (`RulesTakeTurns`, as the first family of each rule
begins at depth 0).

**Claims** (`ClaimsProofs`). `ClaimsTyped` and `VerificationsMatch`, for any slicer and
checker that answer, by `ClaimsInv`. `CertificatesStand`: the row is what the slicer
makes of its snapshot (`ClaimIsOwn`), and what the two collect are least sets closed
under their uses (`Reaching`), so that it is enough to show that each use of the
slicer is one of the checker where they do not diverge. `VerifiedIsReached`: the
forward execution (`Held`) exists and leaves in the target of an assignment its line
and what the names it loads held; a name that is not assigned in between keeps what it
holds (the least line where it does not contradicts the one before); so the set of
lines whose value reaches the sink is closed under the checker's uses, and contains
the least such set.

**Reports** (`ReportsProofs`). `AuditTrailIsTrue`: types and `AuditTrailHolds`, by
`AuditInv`: between its two transactions each audit holds a row of its own with its
members and without a simulation, and then a simulation no row is linked to; four
steps write rows, and `FollowingKeeps` covers all the others. `MemoTellsOneRun`:
`MemoIsOfOneRun`, by `MemoInv`, for which what a command has computed is followed
through its places (`Quantifies`, `Counts`, `Tells`): it is that of the store at this
moment, lies in the command's directory, is the last simulation on record, and
still waits to be copied or is there. It only holds of an undisturbed command, and the
first step of anyone else ends that, so nothing has to be shown of two at once.

Only model-checked:
- Liveness (`BacklogClears`, `ScanGetsReviewed`, `FinalizeEnds`, `DetectionEnds`,
  `MigratesUnlessCut`, `LabelsCatchUp`), which is outside the prover's reach.
- `LatestIsIngested` is violated by the code.

## What the code does besides

Met while modelling, and part of the models as exceptions or guards:
- A process death between a logged round and its outcome strands a deferred finding
  with rows: no queue contains it again, while the backlog count does.
- `resume` takes an empty deferred queue for an examined scan. After a falsification
  that failed before it set anything aside it is empty, and the gate opens over
  unexamined findings. Hence `Guided` in `OnlyExaminedReviewed`.
- Each later attempt of a failed continuation through `run` repeats the stages from
  ingestion on in the continuation's row.
- The slicer raises `KeyError` for a Python finding about deserialization
  (`falsify/slicing.py:314`), on every attempt of the stage.
- When one requirements file has no packages, OSV's record becomes not applicable
  and the vulnerabilities reported for another file are dropped
  (`detect/deterministic/sca_adapter.py:353`); `docs/scanner-capability-matrix.md:33`
  says otherwise. When OSV raises, the finding count of pip-audit's record is not that
  of the candidates.
- A Semgrep that exits with 0 and prints nothing makes a record whose validation
  fails outside the adapter's guard. So does the write of the empty SARIF file for an
  adapter that left none (`detect/ensemble.py:666-669`, and 307 with the scanners
  switched off): an unwritable directory ends the detection, where
  `detect/ensemble.py:637` says that one adapter failing never sinks the others or the
  whole run.
- A Semgrep that exits with an error and prints a part of its results is recorded
  `complete` or `empty` (`detect/deterministic/sast_adapter.py:355-399`: the return code
  counts only when nothing is printed), where `docs/scanner-capability-matrix.md:36` has
  `failed` for it: "Execution, target verification, or output validation failed with
  attributable detail". `EvidenceIsHonest` has the case as its one
  exception (`CutShort`).
- An interrupt between the commit that completes a detection region and the end of
  the `try` makes the handler mark the region failed, since the update has no condition
  on the status (`store/db.py:324-328`): the region is billed again.
- The title is part of what `upsert_detected_finding` looks for (`store/db.py:708-718`).
  The repeated call of a failed region that gives another title to what the first call
  already had inserted leaves two findings of one citation.
- A command that read `schema_migrations` before another one migrated the database
  executes the scripts again. Most are refused by SQLite, but `ddl/0006` makes `finding`
  anew with the columns of its time: what later scripts added (`identity_key`, `0021`) is
  gone, their versions stay on record, and no later start adds it again.
  `store/db.py:108` calls `init_db` "Idempotent; safe to run repeatedly".
- Rows keep the spelling of a source, and a relative one is resolved again in the
  current directory (`ingest/repo.py:48`, `63`): `ingest svc` from two directories puts
  two sources under one id, with no overlap of commands.
- The same document (line 21) limits the weak-randomness check to non-test Java
  files; its record counts test files too.
- A memo of no members with `--record-audit` cites the last simulation on record,
  which is an older one (`report/memo.py:21`).
- A label of a related repository that contradicts another stops triage of every
  repository until an analyst changes it. A class with a single member raises in
  the stratified split, where a degraded split is promised. Derived labels of
  held-out families stay in the training set (`triage/classifier.py:119`). A
  "duplicate" assessment trains as a false positive, though neither reporting view
  counts it.
- Two alerts of one file, line and title become one finding; a packet's label goes to
  the fingerprint the finding has on that day.
- With `max_iterations` above 3, the fourth round may show *less*: `find_similar_patterns`
  is asked for one function more each round, in front of the module and the references,
  so a full prompt pushes some of these out, where `challenger.py:127` promises "a
  genuinely broader strategy each round". `Tiers == 1 .. 4` and six functions that
  share a call show it; for the default of three rounds `EvidenceIsSound` is proved.
- Retrieval resolves a path by its ending, so a short name may name another file;
  a detection region that was truncated still lists the context that was cut.

## Not modelled

The statistical ranking, its calibration and the Monte Carlo analysis are
numerical; prompts and the wording of reports compute texts that no property here
distinguishes; `map` is one model call and inserts. `analyze/corroboration.py`
offers `corroborate()`, which nothing calls. The evaluation harness (`eval/`, the
calibration modules of `analyze/`) runs offline on fixtures and is not part of an
audit. `same_issue` is any symmetric relation. Per component, see `PROJECT.json`.

## Plan

Models still to come: `same_issue` itself over the attributes it compares; the
collection status and its denominators (`triage/collection.py`); which text a region
shows.
