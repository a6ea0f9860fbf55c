\* One issue of two findings and two of a single one, two groups per run by its
\* cap or by its ceiling: failures are raised, the process may die between any two
\* writes, and the operator keeps resuming.
CONSTANTS
    f1 = f1
    f2 = f2
    f3 = f3
    f4 = f4
    Findings = {f1, f2, f3, f4}
    NoFinding = NoFinding
    Matches <- ChainMatches
    Triaged = {f1, f2}
    Priority <- ChainPriority
    MaxIterations = 2
    MaxRetries = 1
    MaxFindingsPerRun = 2
    MinUntriaged = 1
    MaxCalls = 16
    SpentBefore = {0, 9}
    MaxFailures = 1
    MaxCrashes = 1
    Files = {"app.py", "guard.js", "lib.py", "main.go", "old.py", "dist/app.py"}
    Skipped = {"dist/app.py"}
    PathOrder <- Order
    PathLength <- Lengths
    SymbolOrder <- Symbols
    EndsWith <- Endings
    Source <- Sources
    Grammars = {"javascript"}
    Subjects = {f1, f2, f3, f4}
    Citation <- Citations
    Evading = {f2, f3}
    SliceOf <- Slices
    WordOrder <- Words
    Recovered <- Map
    LocalLines = 1
    ModuleLines = 2
    MaxEvidence = 30
    Guards = {"known", "odd"}
    Uncheckable = {"odd"}
    Caught <- Matched
    ToolCalls = 2
    ToolResults = 2
    ToolLines = 1
    ToolBytes = 12
    Inputs = {"mixed", "plain"}
    Requests <- Ask
SPECIFICATION FairSpec
INVARIANTS
    DeferredIsUnexamined
    EnvelopeSuffices
    NothingDropped
    VerdictBacked
    EvidenceIsSound
PROPERTIES
    KeepsPromise
    BacklogClears
