\* Two processes that took up one run detect the same commit.
CONSTANTS
    p1 = p1
    p2 = p2
    r1 = r1
    r2 = r2
    owasp = owasp
    supply = supply
    Procs = {p1, p2}
    MaxRetries = 1
    MaxCalls = 2
    MaxTokens = 2
    Charges = {0, 2}
    Plan <- TwoLenses
    LensOf <- Lenses
    Occurs <- Places
    SameFile <- Suffixes
    Height <- Heights
    Candidates <- Reports
    MaxReported = 1
    MaxTroubles = 2
    MaxCrashes = 1
SPECIFICATION FairSpec
INVARIANTS
    PersistedOnce
    ExactCitationStays
    Budget
PROPERTIES
    PaidRegionOnce
    DetectionEnds
CHECK_DEADLOCK FALSE
