\* Two lenses disagree about one issue; reviewers rule at any time.
CONSTANTS
    f1 = f1
    f2 = f2
    lensA = lensA
    lensB = lensB
    Findings = {f1, f2}
    Matches <- PairMatches
    Asserted <- Asserts
    Position <- Positions
    Region <- Places
    Source <- Sources
    Lenses = {lensA, lensB}
    Severities = {1, 2, 3}
    Uncertain = {f2}
    Suppressed = {f1}
    SampleSize = 1
    MaxCorrected = 1
    MaxAborts = 1
SPECIFICATION FairSpec
INVARIANTS
    SeverityJustified
    QuantifiedWasReleased
PROPERTY FinalizeEnds
