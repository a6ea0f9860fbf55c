\* Small trees of sources or manifests, on installations of which one program is
\* missing or broken, scanned twice, with one transient trouble.
CONSTANTS
    Sources <- Files
    TestSources <- Tests
    Directory <- Directories
    Digest <- Digests
    Name <- Names
    Mapped = {"a/T.java", "b/app.py"}
    Neighbors <- Callers
    MaxRegions = 3
    ReservedSample = 1
    ReservedNeighbors = 3
    Language <- Languages
    ManifestOrder <- Requirements
    RootManifests <- AtRoot
    MaxExplicit = 2
    Snapshots <- Trees
    Installations <- Installed
    MaxHitches = 1
    MaxRuns = 2
    MaxDeaths = 1
SPECIFICATION ScannersSpec
INVARIANTS
    DetectionSurvives
    ReportedIsStored
    EvidenceIsHonest
    CanaryPredicts
    PlanKeepsShares
CHECK_DEADLOCK FALSE
