\* Every body of three lines over two variables, cited on any line, on two
\* snapshots, with two challenges at a time and one of them dying.
CONSTANTS
    a = a
    b = b
    Request = Request
    Names = {a, b}
    Length = 3
    Cited = {1, 3}
    Files <- AllFiles
    Mechanisms = {"ssrf", "deserialization"}
    Changes <- NextLines
    p = p
    q = q
    Procs = {p, q}
    MaxCommits = 2
    MaxCrashes = 1
SPECIFICATION Spec
SYMMETRY Alike
INVARIANTS
    OwnCertificateStands
    VerifiedReachesSink
    VerificationIsOfClaim
CHECK_DEADLOCK FALSE
