------------------------------- MODULE Scanners -------------------------------
(***************************************************************************)
(* The deterministic part of the detect stage: detect/deterministic/,      *)
(* run_deterministic_detection of detect/ensemble.py, and what the memo    *)
(* says about the coverage of the scanners afterwards.                     *)
(*                                                                         *)
(* Six adapters run side by side on a snapshot and share nothing, so their *)
(* order does not matter; here they run one after the other.  Four of them *)
(* start programs that may be missing, die, refuse, print nothing, print   *)
(* garbage, or print JSON of a shape the adapter does not expect, which    *)
(* makes it raise.  Each scanner leaves a record of its execution, and the *)
(* two runs of Semgrep a SARIF file each, which may not be writable.  What *)
(* the adapters return is inserted, the regions of the model part are      *)
(* planned from it, and the stage row is written at the end of the stage.  *)
(***************************************************************************)
EXTENDS Planning, FiniteSetsExt

CONSTANTS
    Language,      \* of a source file: "java", "python" or "javascript"
    ManifestOrder, \* sequence of the requirements files there may be, sorted
    RootManifests, \* those at the root
    MaxExplicit,   \* _MAX_EXPLICIT_OSV_REQUIREMENTS
    Snapshots,     \* bound: the snapshots to be scanned
    Installations, \* bound: what is installed, how it behaves, and the setting
    MaxHitches,    \* bound: transient troubles of programs
    MaxRuns,       \* bound: detections of the snapshot
    MaxDeaths      \* bound: processes that die

Manifests == ToSet(ManifestOrder)

ASSUME ScannersAssumption ==
    /\ Language \in [Sources -> {"java", "python", "javascript"}]
    /\ ManifestOrder \in Seq(Manifests)
    /\ RootManifests \subseteq Manifests
    /\ {MaxExplicit, MaxHitches, MaxRuns, MaxDeaths} \subseteq Nat

VARIABLES
    snapshot,  \* what is scanned
    tool,      \* how the programs of the installation behave
    ruleset,   \* whether the packaged Semgrep rules are intact
    enabled,   \* [detect].run_deterministic_tools
    phase,
    at,        \* adapters that have run, or scanners whose findings are stored
    evidence,  \* the executions of this run
    collected, \* the candidates that the adapters returned, by scanner
    artifact,  \* the SARIF files: the status that each tells and what is in it
    store,     \* the findings inserted
    row,       \* the summary of the detect stage, as a set of one, or none
    planned,   \* the regions planned for the model
    printed,   \* history: findings in the valid answers of a scanner
    met,       \* history: troubles that a scanner met in this run
    hitches, runs, deaths

env == <<snapshot, tool, ruleset, enabled>>
scannersVars == <<env, phase, at, evidence, collected, artifact, store, row, planned, printed,
          met, hitches, runs, deaths>>

Binaries == {"semgrep", "pip-audit", "osv-scanner", "gitleaks"}

(* Those that write semgrep.sarif and semgrep-supplemental.sarif *)
SarifScanners == {"semgrep", "semgrep-supplemental"}

(* discover_scanner_plugins, in the order of their ids *)
Plugins == <<"weak_rng_py">>

(* DETERMINISTIC_SCANNERS *)
Scanners == Binaries \cup {"semgrep-supplemental", "weak_rng"} \cup ToSet(Plugins)

Adapters == <<"semgrep", "semgrep-supplemental", "sca", "gitleaks", "weak_rng">> \o Plugins

ScannersOf(a) == IF a = "sca" THEN {"pip-audit", "osv-scanner"} ELSE {a}

(* What may go wrong with the programs, the index, or the file of an adapter. *)
Troubles(adapter) ==
    CASE adapter \in {"semgrep", "semgrep-supplemental"} ->
            {"dies", "refuses", "cut", "silent", "garbled", "odd", "unwritable"}
      [] adapter \in {"sca", "gitleaks"} -> {"dies", "refuses", "silent", "garbled", "odd"}
      [] OTHER -> {"odd"}

(* How a program of an installation may behave. *)
Defects(binary) ==
    {"works", "absent", "blind"}
    \cup Troubles(IF binary \in {"pip-audit", "osv-scanner"} THEN "sca" ELSE binary)

(* What the advisory services know of a manifest, by its content:
     comments        nothing but comments
     clean           exact pins without advisories
     vulnerable      an exact pin that has one
     transitive      exact pins, one of which needs a package that has one
     private         a vulnerable exact pin beside one that cannot be resolved
     private ranges  ranges, one of which cannot be resolved                  *)
Contents == {"comments", "clean", "vulnerable", "transitive", "private", "private ranges"}

SnapshotType ==
    [sources : SUBSET Sources, flawed : SUBSET Sources,
     manifests : [Manifests -> Contents \cup {"none"}], lock : {"none", "clean", "vulnerable"}]

ASSUME SnapshotsAssumption ==
    \A s \in Snapshots : s \in SnapshotType /\ s.flawed \subseteq s.sources

ASSUME InstallationsAssumption ==
    \A i \in Installations :
        /\ i \in [tool : [Binaries -> UNION {Defects(b) : b \in Binaries}],
                   ruleset : BOOLEAN, enabled : BOOLEAN]
        /\ \A b \in Binaries : i.tool[b] \in Defects(b)

Execution(status, valid, counted, targets) ==
    [status |-> status, valid |-> valid, counted |-> counted, targets |-> targets]

(* ScannerExecution.validate_status_evidence *)
Validates(e) ==
    /\ e.status \in {"complete", "empty"} => e.valid /\ e.targets >= 1
    /\ e.status = "complete" => e.counted >= 1
    /\ e.status = "empty" => e.counted = 0
    /\ e.status = "not-applicable" => e.targets = 0

Found(scanner, what, files) == {<<scanner, what, f>> : f \in files}

(* What an adapter leaves: the records of its scanners, what it returns, what
   the programs printed, and whether it raised (_safe_run). *)
Result(records, returned, said, raised) ==
    [records |-> records, returned |-> returned, said |-> said, raised |-> raised]

One(scanner, e, returned, said, raised) ==
    LET only(value) == [x \in {scanner} |-> value]
    IN  Result(only(e), only(returned), only(said), raised)

(* What g says, but for what f says. *)
Over(f, g) == [x \in DOMAIN f \cup DOMAIN g |-> IF x \in DOMAIN f THEN f[x] ELSE g[x]]

Clean(found) == IF found = {} THEN "empty" ELSE "complete"

(* What comes of a scanner: all that was found in n targets, nothing, or nothing
   of what was said because its adapter raised. *)
Told(scanner, found, n) ==
    One(scanner, Execution(Clean(found), TRUE, Cardinality(found), n), found, found, FALSE)

Plain(scanner, status, n) == One(scanner, Execution(status, FALSE, 0, n), {}, {}, FALSE)

Lost(scanner, valid, counted, n, said) ==
    One(scanner, Execution("failed", valid, counted, n), {}, said, TRUE)

-----------------------------------------------------------------------------
(* Semgrep, twice.  `way' is what the program does; `cut' is an exit code that
   tells of errors together with a part of the results.  Every end of a run writes
   the file, or raises because it cannot. *)

SemgrepScope(scanner, s) ==
    IF scanner = "semgrep" THEN s.sources
    ELSE {f \in s.sources : Language[f] = "javascript"}

Semgrep(scanner, s, way, intact) ==
    LET scope == SemgrepScope(scanner, s)
        found == Found(scanner, "flaw", scope \cap s.flawed)
        n     == Cardinality(scope)
        plain(status) == IF way = "unwritable" THEN Lost(scanner, FALSE, 0, 0, {})
                         ELSE Plain(scanner, status, 0)
        answer ==
            CASE way \in {"dies", "refuses", "garbled"} -> plain("failed")
              [] way = "silent"           -> plain("empty")
              [] way = "odd"              -> Lost(scanner, FALSE, 0, n, found)
              [] way = "unwritable"       -> Lost(scanner, TRUE, Cardinality(found), n, found)
              [] way \in {"blind", "cut"} -> Told(scanner, {}, n)
              [] way = "works"            -> Told(scanner, found, n)
    IN  IF way = "absent" THEN plain("unavailable")
        ELSE IF ~intact THEN plain("failed")
        ELSE IF scope = {} /\ scanner = "semgrep-supplemental" THEN plain("not-applicable")
        ELSE IF scope = {} /\ way # "silent" THEN plain("failed")
        ELSE answer

(* gitleaks goes by its exit code. *)
Gitleaks(s, way) ==
    LET found == Found("gitleaks", "flaw", s.flawed)
    IN  CASE way = "absent" -> Plain("gitleaks", "unavailable", 0)
          [] way \in {"dies", "refuses", "silent", "garbled"} -> Plain("gitleaks", "failed", 1)
          [] way = "odd"   -> Lost("gitleaks", FALSE, 0, 1, found)
          [] way = "blind" -> Told("gitleaks", {}, 1)
          [] way = "works" -> Told("gitleaks", found, 1)

(* The two built-in detectors read the retrieval index, which may raise.  Tests
   are not searched; the one for Java counts them among its targets. *)
WeakRngTargets(scanner, s) ==
    IF scanner = "weak_rng" THEN {f \in s.sources : Language[f] = "java"}
    ELSE {f \in s.sources \ TestSources : Language[f] = "python"}

(* detect_in_source *)
WeakRngFound(scanner, s) ==
    Found(scanner, "flaw", (WeakRngTargets(scanner, s) \cap s.flawed) \ TestSources)

WeakRngAlways(scanner, s, way) ==  \* mutant: applicable to every snapshot
    LET n == Cardinality(WeakRngTargets(scanner, s))
    IN  IF way = "odd" THEN Lost(scanner, FALSE, 0, n, {})
        ELSE Told(scanner, WeakRngFound(scanner, s), n)

WeakRng(scanner, s, way) ==
    LET targets == WeakRngTargets(scanner, s)
        n       == Cardinality(targets)
    IN  IF way = "odd" /\ (targets # {} \/ scanner = "weak_rng_py")
        THEN Lost(scanner, FALSE, 0, n, {})
        ELSE IF targets = {} THEN Plain(scanner, "not-applicable", 0)
        ELSE Told(scanner, WeakRngFound(scanner, s), n)

-----------------------------------------------------------------------------
(* The dependency adapter: pip-audit on every root manifest, then OSV-Scanner. *)

Unresolvable(content) == content \in {"private", "private ranges"}
ExactPins(content) ==  \* _direct_pins_only
    content \in {"clean", "vulnerable", "transitive", "private"}

Resolved(scanner, content, m) ==
    Found(scanner, content, IF content \in {"vulnerable", "transitive"} THEN {m} ELSE {})
Direct(scanner, content, m) ==
    Found(scanner, content, IF content \in {"vulnerable", "private"} THEN {m} ELSE {})

(* One manifest of pip-audit: what comes of it and what is found.  A refused
   audit of exact pins is tried again without resolving them. *)
PipOne(content, m, first, second) ==
    LET outcome(kind, found) == [kind |-> kind, found |-> found]
    IN  CASE first \in {"dies", "silent", "garbled"} -> outcome("failed", {})
          [] first = "odd" -> outcome("raised", {})
          [] first = "blind" -> outcome("ok", {})
          [] first = "works" /\ ~Unresolvable(content) ->
                outcome("ok", Resolved("pip-audit", content, m))
          [] first = "refuses" \/ (first = "works" /\ Unresolvable(content)) ->
                CASE ~ExactPins(content) -> outcome("failed", {})
                  [] ExactPins(content) /\ second = "works" ->
                        outcome("partial", Direct("pip-audit", content, m))
                  [] ExactPins(content) /\ second = "blind" -> outcome("partial", {})
                  [] ExactPins(content) /\ second = "odd" -> outcome("raised", {})
                  [] OTHER -> outcome("failed", {})

(* Mutant of PipStatus: decided by the findings alone. *)
PipStatusByFindings(outcomes, found) == Clean(found)

(* The last manifest that did not go well decides. *)
PipStatus(outcomes, found) ==
    LET bad == {i \in DOMAIN outcomes : outcomes[i].kind \in {"failed", "partial"}}
    IN  IF bad = {} THEN Clean(found) ELSE outcomes[Max(bad)].kind

(* The manifests that a snapshot has, as places in the order of their names. *)
Present(s) == {i \in DOMAIN ManifestOrder : s.manifests[ManifestOrder[i]] # "none"}

(* _run_pip_audit; `first' and `second' give the way of each invocation.  What
   raises keeps the manifests after it from being audited. *)
PipAudit(s, absent, first, second) ==
    LET roots    == {i \in Present(s) : ManifestOrder[i] \in RootManifests}
        one(m)   == PipOne(s.manifests[m], m, first[m], second[m])
        raises   == {i \in roots : one(ManifestOrder[i]).kind = "raised"}
        audited  == {i \in roots : \A j \in raises : i < j}
        outcomes == [i \in audited |-> one(ManifestOrder[i])]
        found    == UNION {outcomes[i].found : i \in audited}
        bad      == {i \in audited : outcomes[i].kind \in {"failed", "partial"}}
        valid    == \E i \in bad : outcomes[i].kind = "partial"
        n        == Cardinality(roots)
        status   == PipStatus(outcomes, found)
        execution ==
            IF raises = {}
            THEN Execution(status, bad = {} \/ valid, Cardinality(found), n)
            ELSE Execution(IF bad = {} THEN "failed" ELSE status, valid, 0, n)
    IN  CASE absent -> Plain("pip-audit", "unavailable", 0)
          [] ~absent /\ roots = {} -> Plain("pip-audit", "not-applicable", 0)
          [] OTHER -> One("pip-audit", execution, found, found, raises # {})

(* One manifest given to OSV-Scanner by name; it finds no package in comments. *)
OsvOne(content, m, way) ==
    LET outcome(kind, found) == [kind |-> kind, found |-> found]
    IN  CASE way = "odd" -> outcome("raised", {})
          [] way \in {"works", "blind"} /\ content = "comments" -> outcome("no source", {})
          [] way = "works" /\ content # "comments" ->
                outcome("ok", Direct("osv-scanner", content, m))
          [] way = "blind" /\ content # "comments" -> outcome("ok", {})
          [] OTHER -> outcome("failed", {})

(* The fallback: every manifest by name, up to a number of them. *)
OsvByName(s, way) ==
    LET explicit == {i \in Present(s) : Cardinality({j \in Present(s) : j < i}) < MaxExplicit}
        one(m)   == OsvOne(s.manifests[m], m, way[m])
        kinds    == {one(ManifestOrder[i]).kind : i \in explicit}
        found    == UNION {one(ManifestOrder[i]).found : i \in explicit}
        n        == Cardinality(explicit)
        left(e, returned, raised) == One("osv-scanner", e, returned, found, raised)
    IN  CASE kinds = {} -> left(Execution("not-applicable", FALSE, 0, 0), {}, FALSE)
          [] "raised" \in kinds -> left(Execution("failed", FALSE, 0, 1), {}, TRUE)
          [] kinds = {"ok"} ->
                left(Execution("partial", TRUE, Cardinality(found), n), found, FALSE)
          [] {"raised", "failed"} \cap kinds = {} /\ "no source" \in kinds ->
                left(Execution("not-applicable", FALSE, 0, 0), {}, FALSE)
          [] OTHER -> left(Execution("failed", FALSE, 0, 1), {}, FALSE)

Packages(s) == {m \in Manifests : s.manifests[m] \notin {"none", "comments"}}

NoSource(s, reads) == s.lock = "none" /\ (Packages(s) = {} \/ ~reads)

(* _run_osv_scanner.  `reads' says whether the recursive scan reads manifests,
   or lock files only; with neither there it refuses, naming the reason. *)
OsvScanner(s, reads, root, way) ==
    LET found == Found("osv-scanner", "lock", IF s.lock = "vulnerable" THEN {"lock"} ELSE {})
                 \cup UNION {Direct("osv-scanner", s.manifests[m], m) :
                              m \in {n \in Packages(s) : reads}}
    IN  CASE root = "absent" -> Plain("osv-scanner", "unavailable", 0)
          [] root \in {"works", "blind"} /\ NoSource(s, reads) -> OsvByName(s, way)
          [] root = "works" /\ ~NoSource(s, reads) -> Told("osv-scanner", found, 1)
          [] root = "blind" /\ ~NoSource(s, reads) -> Told("osv-scanner", {}, 1)
          [] root = "odd" -> Lost("osv-scanner", FALSE, 0, 1, found)
          [] OTHER -> Plain("osv-scanner", "failed", 1)

(* ScaAdapter.run: what either raises loses the findings of both. *)
Sca(pip, osv) ==
    LET after  == IF pip.raised THEN Plain("osv-scanner", "failed", 0) ELSE osv
        raised == pip.raised \/ after.raised
    IN  Result(Over(pip.records, after.records),
               IF raised THEN [x \in ScannersOf("sca") |-> {}]
               ELSE Over(pip.returned, after.returned),
               Over(pip.said, after.said), raised)

-----------------------------------------------------------------------------
(* The canaries: every adapter on a root that has what it looks for, and on one
   that has not. *)

Nothing == [sources |-> {}, flawed |-> {}, manifests |-> [m \in Manifests |-> "none"],
            lock |-> "none"]

SourceControl(language, flawed) ==
    LET f == CHOOSE f \in Sources \ TestSources : Language[f] = language
    IN  [Nothing EXCEPT !.sources = {f}, !.flawed = {g \in {f} : flawed}]

ManifestControl(content) ==
    LET m == CHOOSE m \in RootManifests : TRUE IN [Nothing EXCEPT !.manifests[m] = content]

Everywhere(way) == [m \in Manifests |-> way]

(* An adapter on a control; the canary brings rules of its own for Semgrep, and
   has it write no file. *)
OnControl(scanner, s, reads) ==
    CASE scanner \in SarifScanners ->
            Semgrep(scanner, s, IF tool["semgrep"] = "unwritable" THEN "works" ELSE tool["semgrep"],
                    TRUE)
      [] scanner = "gitleaks" -> Gitleaks(s, tool["gitleaks"])
      [] scanner = "pip-audit" ->
            PipAudit(s, tool[scanner] = "absent", Everywhere(tool[scanner]),
                     Everywhere(tool[scanner]))
      [] scanner = "osv-scanner" ->
            OsvScanner(s, reads, tool[scanner], Everywhere(tool[scanner]))
      [] OTHER -> WeakRng(scanner, s, "works")

Control(scanner, positive) ==
    CASE scanner \in {"semgrep", "gitleaks", "weak_rng_py"} -> SourceControl("python", positive)
      [] scanner = "semgrep-supplemental" -> SourceControl("javascript", positive)
      [] scanner = "weak_rng" -> SourceControl("java", positive)
      [] scanner = "pip-audit" -> ManifestControl(IF positive THEN "vulnerable" ELSE "comments")
      [] OTHER -> IF positive THEN ManifestControl("vulnerable") ELSE Nothing

(* Mutant of PositiveProbe: a run that finds nothing is good enough. *)
PositiveProbeAnswered(e) ==
    e.status \in {"complete", "empty", "partial"} /\ e.valid /\ e.targets > 0

PositiveProbe(e) ==
    e.status \in {"complete", "partial"} /\ e.valid /\ e.counted > 0 /\ e.targets > 0

CleanProbe(scanner, e) ==
    IF scanner = "osv-scanner" THEN e.status = "not-applicable"
    ELSE e.status = "empty" /\ e.valid /\ e.counted = 0 /\ e.targets > 0

(* run_scanner_canaries writes nothing but its report: the scanners that pass. *)
Passed ==
    {x \in Scanners : \E reads \in BOOLEAN :
        /\ PositiveProbe(OnControl(x, Control(x, TRUE), reads).records[x])
        /\ CleanProbe(x, OnControl(x, Control(x, FALSE), reads).records[x])}

-----------------------------------------------------------------------------
NoRecords == [x \in Scanners |-> Execution("failed", FALSE, 0, 0)]
None      == [x \in Scanners |-> {}]

ScannersInit ==
    /\ snapshot \in Snapshots
    /\ \E i \in Installations :
        /\ tool = i.tool
        /\ ruleset = i.ruleset
        /\ enabled = i.enabled
    /\ phase = "idle"
    /\ at = 0
    /\ evidence = NoRecords
    /\ collected = None
    /\ artifact = [x \in SarifScanners |-> [status |-> "none", found |-> {}]]
    /\ store = {}
    /\ row = {}
    /\ planned = <<>>
    /\ printed = None
    /\ met = None
    /\ hitches = 0
    /\ runs = 0
    /\ deaths = 0

(* A pipeline run, or a re-run, comes to its detect stage. *)
StartDetect ==
    /\ phase = "idle"
    /\ runs < MaxRuns
    /\ runs' = runs + 1
    /\ phase' = IF enabled THEN "scan" ELSE "disabled"
    /\ at' = 0
    /\ evidence' = NoRecords
    /\ collected' = None
    /\ planned' = <<>>
    /\ printed' = None
    /\ met' = None
    /\ row' = {}
    /\ UNCHANGED <<env, artifact, store, hitches, deaths>>

(* The scanners are turned off: an empty artifact says so ... *)
SkipScanners ==
    /\ phase = "disabled"
    /\ tool["semgrep"] # "unwritable"
    /\ artifact' = [artifact EXCEPT !["semgrep"] = [status |-> "disabled", found |-> {}]]
    /\ evidence' = [x \in Scanners |-> Execution("disabled", FALSE, 0, 0)]
    /\ phase' = "plan"
    /\ UNCHANGED <<env, at, collected, store, row, planned, printed, met, hitches,
                   runs, deaths>>

(* ... or cannot be written, which ends the detection. *)
SkipFails ==
    /\ phase = "disabled"
    /\ IF tool["semgrep"] = "unwritable" THEN UNCHANGED hitches
       ELSE hitches < MaxHitches /\ hitches' = hitches + 1
    /\ met' = [met EXCEPT !["semgrep"] = {"unwritable"}]
    /\ phase' = "sunk"
    /\ UNCHANGED <<env, at, evidence, collected, artifact, store, row, planned, printed,
                   runs, deaths>>

Invocations(adapter) ==
    IF adapter = "sca"
    THEN ({"full", "direct"} \X {m \in RootManifests : snapshot.manifests[m] # "none"})
         \cup ({"osv"} \X {m \in Manifests : snapshot.manifests[m] # "none"})
         \cup {<<"root", "osv">>}
    ELSE {<<"run", adapter>>}

(* Ways for the invocations of an adapter to go, n of them in trouble at most. *)
Ways(adapter, n) ==
    UNION {{[i \in Invocations(adapter) |-> IF i \in D THEN g[i] ELSE "works"] :
                g \in [D -> Troubles(adapter)]} :
            D \in UNION {kSubset(k, Invocations(adapter)) : k \in 0 .. n}}

(* A program that does not work does so every time. *)
Way(binary, way) == IF tool[binary] = "works" THEN way ELSE tool[binary]

InTrouble(ways) == {i \in DOMAIN ways : ways[i] # "works"}

(* The SARIF file is replaced by every run that gets to its end; after one that
   raised, an older file stays. *)
WriteArtifact(x, result) ==
    artifact' = IF result.raised THEN artifact
                ELSE [artifact EXCEPT ![x] = [status |-> result.records[x].status,
                                              found |-> result.returned[x]]]

(* One adapter runs (_safe_run), to the result that it leaves. *)
Run(adapter, result) ==
    /\ evidence' = Over(result.records, evidence)
    /\ collected' = Over(result.returned, collected)
    /\ printed' = Over(result.said, printed)
    /\ IF adapter \in SarifScanners THEN WriteArtifact(adapter, result)
       ELSE UNCHANGED artifact

(* What the adapter does when its invocations go these ways. *)
ResultOf(adapter, ways, reads) ==
    CASE adapter = "semgrep" ->
            Semgrep(adapter, snapshot, Way("semgrep", ways[<<"run", adapter>>]), ruleset)
      [] adapter = "semgrep-supplemental" ->
            Semgrep(adapter, snapshot, Way("semgrep", ways[<<"run", adapter>>]), TRUE)
      [] adapter = "gitleaks" -> Gitleaks(snapshot, Way(adapter, ways[<<"run", adapter>>]))
      [] adapter \in {"weak_rng", "weak_rng_py"} ->
            WeakRng(adapter, snapshot, ways[<<"run", adapter>>])
      [] adapter = "sca" ->
            Sca(PipAudit(snapshot, tool["pip-audit"] = "absent",
                         [m \in Manifests |-> Way("pip-audit", ways[<<"full", m>>])],
                         [m \in Manifests |-> Way("pip-audit", ways[<<"direct", m>>])]),
                OsvScanner(snapshot, reads, Way("osv-scanner", ways[<<"root", "osv">>]),
                           [m \in Manifests |-> Way("osv-scanner", ways[<<"osv", m>>])]))

ProgramOf(i) ==
    CASE i[1] \in {"root", "osv"}            -> "osv-scanner"
      [] i[1] \in {"full", "direct"}         -> "pip-audit"
      [] i = <<"run", "semgrep-supplemental">> -> "semgrep"
      [] OTHER                               -> i[2]

(* Only an invocation of a working program that is made can be in trouble: the
   fallbacks are made after the first one refused. *)
Made(ways, reads, i) ==
    /\ ProgramOf(i) \in Binaries => tool[ProgramOf(i)] = "works"
    /\ i[1] = "direct" => \/ ways[<<"full", i[2]>>] = "refuses"
                          \/ Unresolvable(snapshot.manifests[i[2]])
    /\ i[1] = "osv" => NoSource(snapshot, reads)

(* Invocations that are not needed go well. *)
AllWays(ways) == Over(ways, [i \in {"full", "direct", "osv"} \X Manifests |-> "works"])

(* The troubles that the programs of a scanner met. *)
MetBy(scanner, ways) ==
    {ways[i] : i \in {j \in InTrouble(ways) :
                        scanner \in {"pip-audit", "osv-scanner"} => ProgramOf(j) = scanner}}

ScanNext ==
    /\ phase = "scan"
    /\ at < Len(Adapters)
    /\ LET adapter == Adapters[at + 1]
       IN  \E ways \in Ways(adapter, MaxHitches - hitches), reads \in BOOLEAN :
            /\ \A i \in InTrouble(ways) : Made(ways, reads, i)
            /\ Run(adapter, ResultOf(adapter, AllWays(ways), reads))
            /\ met' = [x \in Scanners |->
                        IF x \in ScannersOf(adapter) THEN MetBy(x, ways) ELSE met[x]]
            /\ hitches' = hitches + Cardinality(InTrouble(ways))
    /\ at' = at + 1
    /\ UNCHANGED <<env, phase, store, row, planned, runs, deaths>>

MissingFiles == {x \in SarifScanners : artifact[x].status = "none"}

(* Whether the directory of the SARIF files refused to be written in this run. *)
Unwritable ==
    "unwritable" \in {tool["semgrep"]} \cup met["semgrep"] \cup met["semgrep-supplemental"]

(* Files that are still missing are written empty, one after the other, and the
   execution records are built.  Both is outside of _safe_run: a file that is not
   to be written, or a record that does not validate, ends the detection. *)
Collect ==
    /\ phase = "scan"
    /\ at = Len(Adapters)
    /\ at' = 0
    /\ \E left \in SUBSET MissingFiles :
        /\ left # {} => Unwritable
        /\ "semgrep" \in left => left = MissingFiles
        /\ tool["semgrep"] = "unwritable" => left = MissingFiles
        /\ artifact' = [x \in SarifScanners |->
                            IF x \in MissingFiles \ left
                            THEN [status |-> evidence[x].status, found |-> {}] ELSE artifact[x]]
        /\ phase' = IF left = {} /\ \A x \in Scanners : Validates(evidence[x]) THEN "persist"
                    ELSE "sunk"
    /\ UNCHANGED <<env, evidence, collected, store, row, planned, printed, met, hitches,
                   runs, deaths>>

(* _persist_tool_candidate, for what an adapter returned. *)
PersistNext ==
    /\ phase = "persist"
    /\ at < Len(Adapters)
    /\ store' = store \cup UNION {collected[x] : x \in ScannersOf(Adapters[at + 1])}
    /\ at' = at + 1
    /\ phase' = IF at' = Len(Adapters) THEN "plan" ELSE phase
    /\ UNCHANGED <<env, evidence, collected, artifact, row, planned, printed, met,
                   hitches, runs, deaths>>

Reported == {c[3] : c \in UNION {collected[x] : x \in Scanners}} \cap Sources

PlanRegions ==
    /\ phase = "plan"
    /\ planned' = PlannedRegions(snapshot.sources, Reported)
    /\ phase' = "model"
    /\ UNCHANGED <<env, at, evidence, collected, artifact, store, row, printed, met,
                   hitches, runs, deaths>>

(* check_runtime and the summary of the stage.  The model part is the subject of
   Detection; if it fails, the stage does (Die). *)
RecordStage ==
    /\ phase = "model"
    /\ row' = {[checked |-> enabled,
                missing |-> {b \in Binaries : tool[b] = "absent"},
                evidence |-> evidence]}
    /\ phase' = "idle"
    /\ UNCHANGED <<env, at, evidence, collected, artifact, store, planned, printed, met,
                   hitches, runs, deaths>>

GiveUp ==
    /\ phase' = "idle"
    /\ at' = 0
    /\ evidence' = NoRecords
    /\ collected' = None
    /\ printed' = None
    /\ met' = None
    /\ planned' = <<>>
    /\ UNCHANGED <<env, artifact, store, row, hitches, runs>>

(* The operator sees the exception. *)
Raise == phase = "sunk" /\ GiveUp /\ UNCHANGED deaths

(* The process dies, or the model part fails. *)
Die ==
    /\ phase \notin {"idle", "sunk"}
    /\ deaths < MaxDeaths
    /\ deaths' = deaths + 1
    /\ GiveUp

ScannersNext ==
    \/ StartDetect
    \/ SkipScanners
    \/ SkipFails
    \/ ScanNext
    \/ Collect
    \/ PersistNext
    \/ PlanRegions
    \/ RecordStage
    \/ Raise
    \/ Die

ScannersSpec == ScannersInit /\ [][ScannersNext]_scannersVars

-----------------------------------------------------------------------------
(* Mutant of CoverageText: degraded scanners are left to the list of records. *)
CoverageTextOfSemgrep(r) ==
    CASE ~r.checked -> "disabled"
      [] r.checked /\ r.missing # {} -> "unavailable"
      [] r.checked /\ r.missing = {} /\ r.evidence["semgrep"].status \notin {"complete", "empty"} ->
            "semgrep"
      [] OTHER -> "complete"

(* _as_of_lines of the memo *)
CoverageText(r) ==
    CASE ~r.checked -> "disabled"
      [] r.checked /\ r.missing # {} -> "unavailable"
      [] /\ r.checked
         /\ r.missing = {}
         /\ \E x \in Scanners : r.evidence[x].status \in {"failed", "partial"} -> "degraded"
      [] OTHER ->
            IF r.evidence["semgrep"].status \in {"complete", "empty"} THEN "complete"
            ELSE "semgrep"

Recorded == phase = "idle" /\ row # {}

(* One adapter that fails does not sink the detection, whatever the programs
   print or fail to print: the records that are built of it are accepted.  There
   are two exceptions, both outside of the guard that catches what adapters raise:
   a Semgrep that prints nothing, and says that all is well; and a SARIF file that
   cannot be written where no earlier run has left one. *)
DetectionSurvives ==
    phase = "sunk" =>
        \/ enabled /\ "silent" \in {tool["semgrep"]} \cup met["semgrep"]
                                                     \cup met["semgrep-supplemental"]
        \/ Unwritable /\ (enabled => MissingFiles # {})

(* A detection that the memo calls complete has inserted every finding that
   there was in a valid answer of a program, OSV-Scanner excepted. *)
ReportedIsStored ==
    Recorded => \A r \in row : CoverageText(r) = "complete" =>
        \A x \in Scanners \ {"osv-scanner"} : printed[x] \subseteq store

ArtifactIsOfThisRun(r) ==
    LET e == r.evidence["semgrep"] IN
    e.status # "failed" =>
        artifact["semgrep"] = [status |-> e.status, found |-> collected["semgrep"]]

(* Nothing that the program of a scanner did, or that it met, kept it from its
   work; a program that sees nothing does not show. *)
WentWell(x) ==
    /\ met[x] = {}
    /\ \A b \in Binaries \cap {IF x = "semgrep-supplemental" THEN "semgrep" ELSE x} :
            tool[b] \in {"works", "blind"}

(* Semgrep exits with an error and prints a part of its results, which the adapter
   takes for all of them. *)
CutShort(x) == x \in SarifScanners /\ "cut" \in {tool["semgrep"]} \cup met[x]

(* The execution records say what happened.  One that claims coverage, complete
   or empty, counts what the program printed, and nothing went wrong, with the one
   exception that the code has: a Semgrep that was cut short is recorded as if it
   had covered all, where the capability matrix says `failed'.  The count is that
   of the candidates returned, unless a sibling or the disk made the adapter raise.
   The SARIF file that triage is given is the one of this run, unless Semgrep
   failed. *)
EvidenceIsHonest ==
    Recorded => \A r \in row : ArtifactIsOfThisRun(r) /\ \A x \in Scanners :
        LET e == r.evidence[x]
            raised == \/ x = "pip-audit" /\ "odd" \in {tool["osv-scanner"]} \cup met["osv-scanner"]
                      \/ x \in SarifScanners /\ "unwritable" \in met[x]
        IN  /\ e.status \in {"complete", "empty"} =>
                    e.counted = Cardinality(printed[x]) /\ (WentWell(x) \/ CutShort(x))
            /\ e.counted = Cardinality(collected[x]) \/ raised

(* What a passed canary is worth: as long as nothing transient goes wrong, the
   scanner covers any snapshot it applies to, and reports what is there for it to
   see.  The rules that Semgrep is packaged with are not part of its canary. *)
CanaryPredicts ==
    Recorded => \A r \in row, x \in Passed :
        LET e == r.evidence[x]
            sca == ScannersOf("sca")
            quiet == IF x \in sca THEN \A y \in sca : met[y] = {} /\ tool[y] # "odd"
                     ELSE met[x] = {}
            beyond == \/ x = "semgrep" /\ (~ruleset \/ snapshot.sources = {})
                      \/ /\ x = "pip-audit"
                         /\ \E m \in RootManifests : snapshot.manifests[m] = "private ranges"
            visible == CASE x \in {"semgrep", "gitleaks"} -> snapshot.flawed
                         [] x = "semgrep-supplemental" ->
                                SemgrepScope(x, snapshot) \cap snapshot.flawed
                         [] x \in {"weak_rng", "weak_rng_py"} ->
                                (WeakRngTargets(x, snapshot) \cap snapshot.flawed) \ TestSources
                         [] x \in sca -> {}
        IN  r.checked /\ quiet /\ ~beyond =>
                /\ e.status \in {"complete", "empty", "partial", "not-applicable"}
                /\ e.counted >= Cardinality(visible)

(* However much the scanners report, the regions reserved for the sample are the
   first of an order that depends on nothing but paths, and what is reported or
   mapped is left out only if others like it take all of the other regions. *)
PlanKeepsShares ==
    phase = "model" =>
        LET files   == snapshot.sources
            pointed == Reported \cup Mapped \cup ToSet(Neighbors)
        IN  /\ IsInjective(planned)
            /\ Len(planned) = AtMost(MaxRegions, Cardinality(files))
            /\ SubSeq(planned, EvidenceSlots + 1, Len(planned)) =
                    Take(Without(SampleOrder(files), ToSet(Take(planned, EvidenceSlots))),
                         SampleSlots)
            /\ (files \cap (Reported \cup Mapped)) \ ToSet(planned) # {} =>
                    Cardinality(ToSet(planned) \cap pointed) >= EvidenceSlots

-----------------------------------------------------------------------------
(* The types of what the stage keeps. *)

ExecutionType ==
    [status : {"complete", "empty", "partial", "failed", "unavailable", "not-applicable",
               "disabled"},
     valid : BOOLEAN, counted : Nat, targets : Nat]

CandidateType ==
    Scanners \X ({"flaw", "lock"} \cup Contents) \X (Sources \cup Manifests \cup {"lock"})

ScannersTypeOK ==
    /\ snapshot \in Snapshots
    /\ [tool |-> tool, ruleset |-> ruleset, enabled |-> enabled] \in Installations
    /\ phase \in {"idle", "disabled", "scan", "sunk", "persist", "plan", "model"}
    /\ at \in 0 .. Len(Adapters)
    /\ evidence \in [Scanners -> ExecutionType]
    /\ collected \in [Scanners -> SUBSET CandidateType]
    /\ printed \in [Scanners -> SUBSET CandidateType]
    /\ DOMAIN artifact = SarifScanners
    /\ \A x \in SarifScanners : artifact[x].found \subseteq CandidateType
    /\ store \subseteq CandidateType
    /\ row \subseteq [checked : BOOLEAN, missing : SUBSET Binaries,
                     evidence : [Scanners -> ExecutionType]]
    /\ DOMAIN met = Scanners
    /\ {hitches, runs, deaths} \subseteq Nat

-----------------------------------------------------------------------------
(* What holds in between: everything in memory is what the adapters made of some
   ways of their invocations to go. *)

Scanned == enabled /\ (phase \in {"persist", "sunk", "plan", "model"} \/ Recorded)

Skipped == ~enabled /\ (phase \in {"plan", "model"} \/ Recorded)

HasRun(a) == Scanned \/ (phase = "scan" /\ \E i \in 1 .. at : Adapters[i] = a)

LeftBy(a, ways, reads) ==
    LET result == ResultOf(a, AllWays(ways), reads)
    IN  /\ \A i \in InTrouble(ways) : Made(ways, reads, i)
        /\ \A x \in ScannersOf(a) : /\ evidence[x] = result.records[x]
                                    /\ collected[x] = result.returned[x]
                                    /\ printed[x] = result.said[x]
                                    /\ met[x] = MetBy(x, ways)

LeftSomehow(a) == \E ways \in Ways(a, MaxHitches), reads \in BOOLEAN : LeftBy(a, ways, reads)

(* StartDetect and SkipScanners set the scene of each other path. *)
Placed ==
    /\ phase \in {"scan", "persist"} => enabled
    /\ phase = "disabled" => ~enabled
    /\ phase = "disabled" \/ Skipped => collected = None /\ printed = None
    /\ Skipped => /\ evidence = [x \in Scanners |-> Execution("disabled", FALSE, 0, 0)]
                  /\ artifact["semgrep"] = [status |-> "disabled", found |-> {}]
    /\ phase # "idle" => row = {}
    /\ \A r \in row : r = [checked |-> enabled,
                           missing |-> {b \in Binaries : tool[b] = "absent"},
                           evidence |-> evidence]

ArtifactFollows ==
    HasRun("semgrep") /\ evidence["semgrep"].status # "failed" =>
        artifact["semgrep"] = [status |-> evidence["semgrep"].status,
                               found |-> collected["semgrep"]]

(* Why a detection ended; files stay missing where they cannot be written. *)
SunkFollows ==
    /\ phase = "sunk" /\ ~enabled => Unwritable
    /\ Scanned => (phase = "sunk" <=> \/ \E x \in Scanners : ~Validates(evidence[x])
                                     \/ MissingFiles # {})
    /\ Scanned /\ MissingFiles # {} => Unwritable
    /\ tool["semgrep"] = "unwritable" => MissingFiles = SarifScanners

(* What was accepted is stored, adapter by adapter. *)
StoreFollows ==
    /\ Scanned /\ phase \notin {"persist", "sunk"} =>
        \A x \in Scanners : collected[x] \subseteq store
    /\ phase = "persist" =>
        \A i \in 1 .. at : \A x \in ScannersOf(Adapters[i]) : collected[x] \subseteq store

ScannersInv ==
    /\ ScannersTypeOK
    /\ \A a \in ToSet(Adapters) : HasRun(a) => LeftSomehow(a)
    /\ Placed /\ ArtifactFollows /\ SunkFollows /\ StoreFollows

(* The plan is that of the snapshot, and of what was collected, in this run. *)
PlanFollows == phase = "model" => planned = PlannedRegions(snapshot.sources, Reported)
=============================================================================
