--------------------------- MODULE StructuralClaims ---------------------------
(***************************************************************************)
(* Certificates of the falsify stage: the slicer of falsify/slicing.py,    *)
(* which produces them, the checker of falsify/claims.py, which trusts     *)
(* none of them, and the security_claim and claim_verification rows that a *)
(* challenge writes and the reviewer is shown side by side.                *)
(*                                                                         *)
(* Slicer and checker were written apart.  Each reads the cited file and   *)
(* follows the arguments of the sink backwards, through the last           *)
(* assignment before each use, to parameters and request inputs.           *)
(*                                                                         *)
(* A file is a function and its body, a straight line of statements, one   *)
(* per line; a function defined in it takes the rest of the body.          *)
(***************************************************************************)
EXTENDS Integers, Sequences, FiniteSets, FiniteSetsExt

CONSTANTS
    Names,       \* of local variables
    Request,     \* the name of the request object
    Length,      \* lines of a body
    Cited,       \* lines that a finding may cite
    Files,       \* what a cited file may hold
    Mechanisms,  \* what a finding may be about
    Changes,     \* statements that the next snapshot may have in a line
    Procs,       \* commands that challenge the finding
    MaxCommits,  \* bound: snapshots
    MaxCrashes   \* bound: process deaths

None == "none"

Lines == 1 .. Length

Variables == Names \cup {Request}

(* target and loads of an assignment or of an augmented one (a reassignment in
   JavaScript and Java); the arguments of a sink and how many sink calls the
   line has; the parameters of a function in loads. *)
Statements ==
    [kind : {"assign", "augment", "sink", "def", "guard", "other"},
     target : Variables, loads : SUBSET Variables, count : 1 .. 2]

Snapshots ==
    [language : {"python", "javascript", "java", "ruby"},
     params : SUBSET Variables,
     context : SUBSET {"called", "registered", "guarded", "guarded in argument"},
     body : [Lines -> Statements]]

ASSUME ClaimsAssumption ==
    /\ Request \notin Names /\ None \notin Variables /\ Variables \cap Lines = {}
    /\ {Length, MaxCommits} \subseteq Nat \ {0} /\ MaxCrashes \in Nat
    /\ Cited \subseteq Lines /\ Changes \subseteq Statements
    /\ Files \subseteq Snapshots

VARIABLES
    snapshots,     \* the cited file in each snapshot, the last being the latest
    finding,       \* its mechanism, and the line it cites
    claim,         \* the security_claim row
    verification,  \* the claim_verification row
    challenge,     \* the commands
    torn,          \* history: the rows come from two challenges
    raised,        \* history: the slicer raised an exception
    crashes

vars == <<snapshots, finding, claim, verification, challenge, torn, raised, crashes>>

Supported(language) ==
    CASE language = "python" -> {"sql", "command", "ssrf"}
      [] language = "javascript" -> {"command", "ssrf"}
      [] language = "java" -> {"ssrf"}
      [] language = "ruby" -> {"deserialization"}

-----------------------------------------------------------------------------
(* What both of them read from a file *)

(* The line of the innermost function around a line, 0 for the outermost. *)
Function(file, l) == Max({0} \cup {d \in 1 .. l : file.body[d].kind = "def"})

Parameters(file, function) ==
    IF function = 0 THEN file.params ELSE file.body[function].loads

IsAssignment(s) == s.kind \in {"assign", "augment"}

(* A claim quotes lines or, in JavaScript, Java and Ruby, a request property in
   a line; a parameter is quoted by its name, on the line of its function. *)
Quote(file, l) == [line |-> l, text |-> file.body[l], parameter |-> None]
Property(l) == [line |-> l, text |-> [kind |-> "property"], parameter |-> None]
Parameter(function, name) == [line |-> function, text |-> [kind |-> "parameter"], parameter |-> name]

(* A sink's argument that is a plain variable, in JavaScript, Java and Ruby. *)
IsVariable(argument) == Cardinality(argument) = 1 /\ argument # {Request}

(* Declarations of a name that are one request property. *)
Declarations(file, name, before) ==
    {l \in 1 .. before - 1 : /\ file.body[l].kind = "assign"
                             /\ file.body[l].target = name
                             /\ file.body[l].loads = {Request}}

(* Evidence about a function beyond its body: direct callers, the registration
   of its routes, guards among its decorators or in their arguments. *)
Context(file, function) == IF function = 0 THEN file.context ELSE {}

(* What a worklist collects that begins with the sink: the least set of lines
   that has it and, with the second line of a pair of uses, the first. *)
Reaching(uses, sink) ==
    {l \in 1 .. sink : \A C \in SUBSET (1 .. sink) :
        sink \in C /\ (\A u \in uses : u[2] \in C => u[1] \in C) => l \in C}

-----------------------------------------------------------------------------
(* The slicer *)

FollowedAll(file, l) ==  \* mutant: the request object is followed like a variable
    file.body[l].loads \cup {n \in {file.body[l].target} : file.body[l].kind = "augment"}

(* The names whose values a line takes over. *)
Followed(file, l) ==
    CASE file.body[l].kind = "sink" -> file.body[l].loads
      [] file.body[l].kind = "assign" -> file.body[l].loads \ {Request}
      [] file.body[l].kind = "augment" ->
            (file.body[l].loads \ {Request}) \cup {file.body[l].target}
      [] OTHER -> {}

(* The slice of a sink: from the sink backwards, the last assignment of each
   name that is followed and is not a parameter of the function. *)
SlicerUses(file, function, sink) ==
    {u \in (function + 1 .. sink) \X (function + 1 .. sink) :
        /\ u[1] < u[2]
        /\ IsAssignment(file.body[u[1]])
        /\ file.body[u[1]].target \in Followed(file, u[2]) \ Parameters(file, function)
        /\ \A m \in u[1] + 1 .. u[2] - 1 :
            IsAssignment(file.body[m]) => file.body[m].target # file.body[u[1]].target}

Slice(file, function, sink) == Reaching(SlicerUses(file, function, sink), sink)

NoSink == [complete |-> FALSE, sources |-> {}, path |-> {}, sink |-> 0, guards |-> {},
           context |-> {}]

NoClaim == [commit |-> 0, mechanism |-> None, slice |-> NoSink]

(* The sink of the function nearest to the cited line. *)
NearestSink(file, function, cited) ==
    LET sinks == {l \in Lines : l > function /\ file.body[l].kind = "sink"}
        Distance(l) == IF l < cited THEN cited - l ELSE l - cited
    IN Min({l \in sinks : \A m \in sinks : Distance(l) <= Distance(m)})

HasSink(file, function) == \E l \in Lines : l > function /\ file.body[l].kind = "sink"

(* build_python_slice *)
PythonSlice(file, cited) ==
    LET function == Function(file, cited)
        sink == NearestSink(file, function, cited)
        slice == Slice(file, function, sink)
        parameters == (UNION {Followed(file, l) : l \in slice}) \cap Parameters(file, function)
        requests == {l \in slice \ {sink} : Request \in file.body[l].loads}
        sources == {Parameter(function, n) : n \in parameters}
                       \cup {Quote(file, l) : l \in requests}
    IN IF ~HasSink(file, function) THEN NoSink
       ELSE [complete |-> sources # {}, sources |-> sources,
             path |-> sources \cup {Quote(file, l) : l \in slice}, sink |-> sink,
             guards |-> {Quote(file, l) : l \in {g \in Lines : g > function /\ file.body[g].kind = "guard"}},
             context |-> Context(file, function)]

(* The one sink that is cited: its first argument is a request property, or a
   variable that was declared as one, the last such declaration of the file. *)
ShapeSlice(file, cited, variables) ==
    LET argument == file.body[cited].loads
        declared == {l \in Lines : \E n \in argument : l \in Declarations(file, n, cited)}
        sources == CASE argument = {Request} -> {Property(cited)}
                     [] variables /\ IsVariable(argument) /\ declared # {} ->
                            {Quote(file, Max(declared))}
                     [] OTHER -> {}
    IN IF file.body[cited].kind # "sink" \/ file.body[cited].count # 1 THEN NoSink
       ELSE [complete |-> sources # {}, sources |-> sources,
             path |-> sources \cup {Quote(file, cited)}, sink |-> cited,
             guards |-> {}, context |-> {}]

JavaScriptSlice(file, cited) == ShapeSlice(file, cited, TRUE)

JavaSlice(file, cited) == ShapeSlice(file, cited, TRUE)

(* Marshal.load takes params themselves, perhaps decoded, but no variable. *)
RubySlice(file, cited) == ShapeSlice(file, cited, FALSE)

(* The mechanism is looked up in the table of the supported sinks, for each
   call of the function. *)
SlicerRaises(file, about) ==
    /\ file.language = "python"
    /\ about.mechanism \notin Supported("python")
    /\ \/ \E l \in Lines : /\ l > Function(file, about.cited)
                         /\ file.body[l].kind \in {"sink", "guard"}
       \/ Context(file, Function(file, about.cited))
              \cap {"registered", "guarded in argument"} # {}

(* build_structural_slice and claim_from_slice *)
Certificate(file, about, commit) ==
    [commit |-> commit, mechanism |-> about.mechanism,
     slice |-> IF about.mechanism \notin Supported(file.language) THEN NoSink
               ELSE CASE file.language = "python" -> PythonSlice(file, about.cited)
                      [] file.language = "javascript" -> JavaScriptSlice(file, about.cited)
                      [] file.language = "java" -> JavaSlice(file, about.cited)
                      [] file.language = "ruby" -> RubySlice(file, about.cited)]

-----------------------------------------------------------------------------
(* The checker *)

ClosesByName(file, sink) ==  \* mutant: any assignment of a name counts
    {sink} \cup {l \in 1 .. sink - 1 : IsAssignment(file.body[l])}

(* The variables that a line loads: the request object is never followed. *)
Loaded(file, l) ==
    (file.body[l].loads \ {Request})
        \cup {n \in {file.body[l].target} : file.body[l].kind = "augment"}

(* The assignments of a name between a function's first line and another. *)
Writes(file, function, name, before) ==
    {m \in function + 1 .. before - 1 :
        IsAssignment(file.body[m]) /\ file.body[m].target = name}

CheckerUses(file, function, sink) ==
    {u \in (function + 1 .. sink) \X (function + 1 .. sink) :
        /\ u[1] < u[2]
        /\ IsAssignment(file.body[u[1]])
        /\ file.body[u[1]].target \in Loaded(file, u[2]) \ Parameters(file, function)
        /\ u[1] = Max(Writes(file, function, file.body[u[1]].target, u[2]))}

(* _local_closure: the lines that reach the sink, within its own function, the
   parameters that do, and with one of them the line that declares it. *)
Visited(file, sink) == Reaching(CheckerUses(file, Function(file, sink), sink), sink)

ReachedParameters(file, sink) ==
    (UNION {Loaded(file, l) : l \in Visited(file, sink)})
        \cap Parameters(file, Function(file, sink))

Closure(file, sink) ==
    Visited(file, sink)
        \cup {d \in {Function(file, sink)} : d # 0 /\ ReachedParameters(file, sink) # {}}

(* _matches_line; a parameter is not looked for in the text. *)
Quoted(file, item) ==
    \/ item.parameter # None
    \/ item.text = file.body[item.line]
    \/ /\ file.language # "python"
       /\ item = Property(item.line) /\ Request \in file.body[item.line].loads

SinkStands(file, slice) ==
    /\ \A item \in slice.path \cup slice.guards : Quoted(file, item)
    /\ file.body[slice.sink].kind = "sink"
    /\ file.body[slice.sink].count = 1

(* The checker finds call sites by the function's name, registrations by the
   subject of its routes, and guards that are decorators. *)
Recognized(file, function) == Context(file, function) \ {"guarded in argument"}

(* The context of the cited function, found again from the function around the
   sink; guards also in its own body. *)
ContextHolds(file, slice) ==
    LET function == Function(file, slice.sink) IN
    /\ slice.context \subseteq Recognized(file, function)
    /\ \A item \in slice.guards : Function(file, item.line) = function

(* The path closes: parameters of this function that reach the sink, and lines
   of its closure. *)
PathCloses(file, slice) ==
    /\ \A item \in slice.sources : item.parameter # None =>
        /\ item.parameter \in ReachedParameters(file, slice.sink)
        /\ item.line = Function(file, slice.sink)
    /\ {item.line : item \in {q \in slice.path : q.parameter = None}}
           \subseteq Closure(file, slice.sink)

Verdict(stands) == IF stands THEN "verified" ELSE "refuted"

PythonVerdict(file, slice) ==
    Verdict(SinkStands(file, slice) /\ ContextHolds(file, slice) /\ PathCloses(file, slice))

(* The sink takes the request property that the claim quotes, from wherever. *)
ArgumentQuoted(file, slice) ==
    /\ file.body[slice.sink].loads = {Request}
    /\ \E item \in slice.sources : item = Property(item.line)

(* Any declaration that the claim quotes will do. *)
DeclarationQuoted(file, slice) ==
    /\ IsVariable(file.body[slice.sink].loads)
    /\ \E n \in file.body[slice.sink].loads, l \in Lines :
        /\ l \in Declarations(file, n, slice.sink)
        /\ Quote(file, l) \in slice.sources

JavaScriptVerdict(file, slice) ==
    Verdict(/\ SinkStands(file, slice)
            /\ ArgumentQuoted(file, slice) \/ DeclarationQuoted(file, slice))

JavaVerdict(file, slice) ==
    Verdict(/\ SinkStands(file, slice)
            /\ ArgumentQuoted(file, slice) \/ DeclarationQuoted(file, slice))

RubyVerdict(file, slice) ==
    Verdict(/\ SinkStands(file, slice)
            /\ file.body[slice.sink].loads = {Request}
            /\ Property(slice.sink) \in slice.sources)

VerdictOn(file, slice) ==
    CASE file.language = "python" -> PythonVerdict(file, slice)
      [] file.language = "javascript" -> JavaScriptVerdict(file, slice)
      [] file.language = "java" -> JavaVerdict(file, slice)
      [] file.language = "ruby" -> RubyVerdict(file, slice)

(* What a checker answers before it opens the file, and else its verdict. *)
Answer(mechanisms, certificate, commit, verdict) ==
    CASE certificate.mechanism \notin mechanisms -> "unsupported"
      [] certificate.mechanism \in mechanisms /\ certificate.commit # commit -> "refuted"
      [] /\ certificate.mechanism \in mechanisms
         /\ certificate.commit = commit /\ ~certificate.slice.complete -> "incomplete"
      [] OTHER -> verdict

PythonCheck(file, certificate, commit) ==
    Answer(Supported("python"), certificate, commit, PythonVerdict(file, certificate.slice))

(* _verify_javascript_claim *)
JavaScriptCheck(file, certificate, commit) ==
    Answer(Supported("javascript"), certificate, commit,
           JavaScriptVerdict(file, certificate.slice))

(* _verify_java_ssrf_claim *)
JavaCheck(file, certificate, commit) ==
    Answer(Supported("java"), certificate, commit, JavaVerdict(file, certificate.slice))

(* _verify_ruby_deserialization_claim *)
RubyCheck(file, certificate, commit) ==
    Answer(Supported("ruby"), certificate, commit, RubyVerdict(file, certificate.slice))

(* verify_structural_claim: a claim against the file of a snapshot. *)
Check(file, certificate, commit) ==
    CASE file.language = "python" -> PythonCheck(file, certificate, commit)
      [] file.language = "javascript" -> JavaScriptCheck(file, certificate, commit)
      [] file.language = "java" -> JavaCheck(file, certificate, commit)
      [] file.language = "ruby" -> RubyCheck(file, certificate, commit)

-----------------------------------------------------------------------------
(* ClaimVerificationStatus *)
Answers == {"verified", "refuted", "incomplete", "unsupported"}

Latest == snapshots[Len(snapshots)]

Idle == [pc |-> "idle", certificate |-> NoClaim]

Init ==
    /\ \E file \in Files : snapshots = <<file>>
    /\ finding \in [mechanism : Mechanisms, cited : Cited]
    /\ claim = NoClaim
    /\ verification = None
    /\ challenge = [p \in Procs |-> Idle]
    /\ torn = FALSE
    /\ raised = FALSE
    /\ crashes = 0

(* The source is edited and ingested again: the finding keeps its lines. *)
Ingest ==
    /\ Len(snapshots) < MaxCommits
    /\ \E l \in Lines, s \in Changes :
        /\ s # Latest.body[l]
        /\ snapshots' = Append(snapshots, [Latest EXCEPT !.body[l] = s])
    /\ UNCHANGED <<finding, claim, verification, challenge, torn, raised, crashes>>

(* A challenge begins on the latest snapshot: it slices the finding and writes
   the claim ... *)
SaveClaim(p) ==
    LET certificate == Certificate(Latest, finding, Len(snapshots)) IN
    /\ challenge[p].pc = "idle"
    /\ ~SlicerRaises(Latest, finding)
    /\ claim' = certificate
    /\ challenge' = [challenge EXCEPT ![p] = [pc |-> "saved", certificate |-> certificate]]
    /\ torn' = (\E q \in Procs \ {p} : challenge[q].pc = "saved")
    /\ UNCHANGED <<snapshots, finding, verification, raised, crashes>>

SaveFirstVerification(p) ==  \* mutant: a verification that is there is kept
    LET certificate == challenge[p].certificate IN
    /\ challenge[p].pc = "saved"
    /\ verification' = IF verification # None THEN verification
                       ELSE Check(snapshots[certificate.commit], certificate, certificate.commit)
    /\ challenge' = [challenge EXCEPT ![p] = Idle]
    /\ UNCHANGED <<snapshots, finding, claim, torn, raised, crashes>>

(* ... the checker opens the snapshot again, and its result is written; then
   the rounds of the challenge begin. *)
SaveVerification(p) ==
    LET certificate == challenge[p].certificate IN
    /\ challenge[p].pc = "saved"
    /\ verification' = Check(snapshots[certificate.commit], certificate, certificate.commit)
    /\ challenge' = [challenge EXCEPT ![p] = Idle]
    /\ UNCHANGED <<snapshots, finding, claim, torn, raised, crashes>>

(* The slicer raises: the falsify stage ends, and the finding stays pending. *)
Raise(p) ==
    /\ challenge[p].pc = "idle"
    /\ SlicerRaises(Latest, finding)
    /\ raised' = TRUE
    /\ UNCHANGED <<snapshots, finding, claim, verification, challenge, torn, crashes>>

Crash(p) ==
    /\ challenge[p].pc = "saved"
    /\ crashes < MaxCrashes
    /\ crashes' = crashes + 1
    /\ challenge' = [challenge EXCEPT ![p] = Idle]
    /\ torn' = TRUE
    /\ UNCHANGED <<snapshots, finding, claim, verification, raised>>

Next ==
    \/ Ingest
    \/ \E p \in Procs : SaveClaim(p) \/ SaveVerification(p) \/ Raise(p) \/ Crash(p)

Spec == Init /\ [][Next]_vars

-----------------------------------------------------------------------------
TypeOK ==
    /\ snapshots \in Seq(Snapshots) /\ Len(snapshots) \in 1 .. MaxCommits
    /\ finding \in [mechanism : Mechanisms, cited : Cited]
    /\ claim.commit \in 0 .. Len(snapshots)
    /\ verification \in {None} \cup Answers
    /\ DOMAIN challenge = Procs
    /\ \A p \in Procs : /\ challenge[p].pc \in {"idle", "saved"}
                        /\ challenge[p].certificate.commit \in 0 .. Len(snapshots)
                        /\ challenge[p].pc = "saved" => challenge[p].certificate.commit > 0
    /\ torn \in BOOLEAN /\ raised \in BOOLEAN
    /\ crashes \in 0 .. MaxCrashes

Assigned(file, name, first, last) ==
    \E l \in first .. last : IsAssignment(file.body[l]) /\ file.body[l].target = name

(* Where slicer and checker disagree: they count the calls of a line, look for
   the function and for guards, and follow the request object in their own
   ways. *)
Divergent(file, slice) ==
    LET function == Function(file, finding.cited) IN
    \/ file.body[slice.sink].count # 1
    \/ Function(file, slice.sink) # function
    \/ "guarded in argument" \in slice.context
    \/ \E item \in slice.guards : Function(file, item.line) # function
    \/ /\ Request \in file.body[slice.sink].loads
       /\ \/ Request \in Parameters(file, function)
          \/ Assigned(file, Request, function + 1, slice.sink - 1)

(* Slicer and checker were written apart and agree: what the slicer certifies
   of a snapshot the checker finds in it again, but for the ways in which they
   differ. *)
OwnCertificateStands ==
    claim # NoClaim =>
        LET file == snapshots[claim.commit] IN
        (claim.mechanism \in Supported(file.language) /\ claim.slice.complete) =>
            \/ Divergent(file, claim.slice)
            \/ Check(file, claim, claim.commit) = "verified"

(* What the variables hold, as the lines and parameters that it comes from,
   after a line was executed. *)
Executed(file, l, held) ==
    LET s == file.body[l] IN
    IF ~IsAssignment(s) THEN held
    ELSE [held EXCEPT ![s.target] = {l} \cup (IF s.kind = "augment" THEN @ ELSE {})
                                       \cup UNION {held[n] : n \in s.loads}]

(* Reference: the body is executed forwards, and what the variables hold then
   reaches the sink. *)
Held(file, function, last) ==
    LET held[l \in function .. last] ==
            IF l = function THEN [n \in Variables |-> {n} \cap Parameters(file, function)]
            ELSE Executed(file, l, held[l - 1])
    IN held

Flow(file, function, sink) ==
    UNION {Held(file, function, sink - 1)[sink - 1][n] : n \in file.body[sink].loads}

(* A claim about a sink: its source and some lines, quoted as they are. *)
Claimed(file, sink, source, lines) ==
    [NoSink EXCEPT !.complete = TRUE, !.sink = sink, !.sources = {source},
                   !.path = {source} \cup {Quote(file, l) : l \in lines}]

(* What a producer, whatever it is, may claim: any source and lines. *)
Forged(file, sink) ==
    {Claimed(file, sink, source, lines) :
        source \in {Parameter(Function(file, l), n) : l \in 1 .. sink, n \in Variables}
                       \cup {Quote(file, l) : l \in 1 .. sink}
                       \cup {Property(l) : l \in 1 .. sink},
        lines \in SUBSET (1 .. sink)}

Arrives(file, function, parameter, sink) ==
    \/ parameter \in Flow(file, function, sink)
    \/ Assigned(file, parameter, function + 1, sink - 1)

(* What the checker verifies is true of an execution: the lines of the path
   hand a value on to the sink, or declare a parameter that does, and so does
   the parameter that is named or, in JavaScript, Java and Ruby, the request
   property, unless its variable is assigned again in between, which the checker
   does not look for. *)
VerifiedReachesSink ==
    LET file == Latest IN
    claim = NoClaim =>  \* the file alone decides it
    \A sink \in {l \in Lines : file.body[l].kind = "sink"} :
        \A slice \in Forged(file, sink) :
            VerdictOn(file, slice) = "verified" =>
            IF file.language = "python"
            THEN \A item \in slice.path :
                    IF item.parameter = None
                    THEN \/ item.line \in {sink} \cup Flow(file, Function(file, sink), sink)
                         \/ /\ item.line = Function(file, sink)
                            /\ \E n \in Parameters(file, item.line) : Arrives(file, item.line, n, sink)
                    ELSE Arrives(file, item.line, item.parameter, sink)
            ELSE \A item \in slice.sources :
                    \/ item = Property(item.line) /\ file.body[sink].loads = {Request}
                    \/ item.line \in Flow(file, 0, sink)
                    \/ Assigned(file, file.body[item.line].target, item.line + 1, sink - 1)

(* list_security_claims and list_claim_verifications: the rows, one read after
   the other. *)
ListedClaim == claim

ListedVerification == verification

(* _attach_security_claims: what the reviewer is shown. *)
Shown == [claim |-> ListedClaim, verification |-> ListedVerification]

(* The verification beside a claim is the checker's verdict on that claim,
   when no challenge of the finding is between the two writes, unless the rows
   were left by two challenges that overlapped, or by one that died. *)
VerificationIsOfClaim ==
    (/\ claim # NoClaim /\ ~torn
     /\ \A p \in Procs : challenge[p].pc = "idle")
    => Shown.verification =
           Check(snapshots[Shown.claim.commit], Shown.claim, Shown.claim.commit)

-----------------------------------------------------------------------------
(* The inductive invariant. *)

(* A challenge that is between its two writes holds the claim of the row,
   unless another one wrote it since; and a row that no challenge is at has its
   own verification. *)
RowsAgree ==
    ~torn =>
        /\ \A p \in Procs : challenge[p].pc = "saved" => challenge[p].certificate = claim
        /\ (claim # NoClaim /\ \A p \in Procs : challenge[p].pc = "idle")
            => /\ claim.commit > 0
               /\ verification = Check(snapshots[claim.commit], claim, claim.commit)

(* The row is what the slicer makes of the snapshot that it names. *)
ClaimIsOwn ==
    claim # NoClaim =>
        /\ claim.commit > 0
        /\ claim = Certificate(snapshots[claim.commit], finding, claim.commit)

ClaimsInv == TypeOK /\ RowsAgree /\ ClaimIsOwn
=============================================================================
