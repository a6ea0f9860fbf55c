\* Two terminals report on two findings while reviewers rule.
CONSTANTS
    f1 = f1
    f2 = f2
    p1 = p1
    p2 = p2
    Findings = {f1, f2}
    Matches <- PairMatches
    Position <- Positions
    Procs = {p1, p2}
    Triaged = {f2}
    Settled = {f1}
    Commands <- SomeLines
    MaxCommands = 3
    MaxEvents = 1
SPECIFICATION Spec
SYMMETRY Terminals
INVARIANTS
    AuditTrailHolds
    MemoIsOfOneRun
CHECK_DEADLOCK FALSE
