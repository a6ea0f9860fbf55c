\* One plain directory, one command at a time.
CONSTANTS
    p1 = p1
    p2 = p2
    Procs = {p1}
    Versions = {1, 2, 3}
    Size <- Sizes
    Refuses <- Refused
    Undoes <- Undone
    Sources = {"svc"}
    Views = {"a", "b"}
    Identity <- Alone
    Kind <- AloneKind
    Slug <- BaseName
    Hashed <- AloneHash
    Contents = {"c1", "c2"}
    First = "c1"
    MaxJobs = 3
    MaxEdits = 3
    MaxCrashes = 0
SPECIFICATION Spec
PROPERTIES
    LatestIsIngested
CHECK_DEADLOCK FALSE
