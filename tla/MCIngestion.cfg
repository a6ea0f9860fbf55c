\* Two commands, in two directories, ingest three sources of one base name.
CONSTANTS
    p1 = p1
    p2 = p2
    Procs = {p1, p2}
    Versions = {1, 2, 3}
    Size <- Sizes
    Refuses <- Refused
    Undoes <- Undone
    Sources = {"svc", "/a/svc", "http://svc"}
    Views = {"a", "b"}
    Identity <- Spelled
    Kind <- Kinds
    Slug <- BaseName
    Hashed <- WithHash
    Contents = {"c1", "c2"}
    First = "c1"
    MaxJobs = 2
    MaxEdits = 2
    MaxCrashes = 1
SPECIFICATION FairSpec
INVARIANTS
    RecordedIsApplied
    OneSourcePerRepo
    RecordedIsWhole
PROPERTIES
    SnapshotStays
    MigratesUnlessCut
CHECK_DEADLOCK FALSE
