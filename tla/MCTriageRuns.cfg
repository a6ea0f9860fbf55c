\* Two terminals triage two repositories of one family: files with an edited
\* sink, two hits on a line and two rules on a line.
CONSTANTS
    r1 = r1
    r2 = r2
    r3 = r3
    t1 = t1
    t2 = t2
    Repos = {r1, r2}
    Drafts <- Asked
    Terminals = {t1, t2}
    Family <- OneFamily
    Digest <- Names
    Hash <- Prints
    PathRank <- Ranks
    Known <- Earlier
    SarifFiles <- Files
    PairsGiven = {}
    Corpora <- Samples
    MinFamilies = 2
    MinHoldout = 5
    Cutoff = 2
    Limit = 2
    PerFamily = 2
    PerRepo = 1
    RuleCap = 1
    MaxRuns = 2
    MaxOthers = 1
SPECIFICATION RunsSpec
SYMMETRY Symmetry
INVARIANTS
    ScoredAsScanned
    TrainingIsHonest
    PacketsAreSound
CHECK_DEADLOCK FALSE
