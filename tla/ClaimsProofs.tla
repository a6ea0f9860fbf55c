---------------------------- MODULE ClaimsProofs ----------------------------
(***************************************************************************)
(* Proofs about StructuralClaims, for all files, lines and commands.       *)
(***************************************************************************)
EXTENDS StructuralClaims, TLAPS, NaturalsInduction, WellFoundedInduction

(* The checker always has one of its four answers. *)
LEMMA CheckAnswers ==
    ASSUME NEW file \in Snapshots, NEW certificate, NEW commit
    PROVE  Check(file, certificate, commit) \in Answers
<1>1. file.language \in {"python", "javascript", "java", "ruby"}
  BY DEF Snapshots
<1>2. \A stands : Verdict(stands) \in Answers
  BY DEF Verdict, Answers
<1>3. ASSUME NEW mechanisms, NEW verdict \in Answers
      PROVE  Answer(mechanisms, certificate, commit, verdict) \in Answers
  BY DEF Answer, Answers
<1>4. /\ PythonCheck(file, certificate, commit) \in Answers
      /\ RubyCheck(file, certificate, commit) \in Answers
  BY <1>2, <1>3 DEF PythonCheck, PythonVerdict, RubyCheck, RubyVerdict
<1>5. /\ JavaScriptCheck(file, certificate, commit) \in Answers
      /\ JavaCheck(file, certificate, commit) \in Answers
  BY <1>2, <1>3 DEF JavaScriptCheck, JavaScriptVerdict, JavaCheck, JavaVerdict
<1> QED
  BY <1>1, <1>4, <1>5 DEF Check

(* What the slicer certifies is dated with the snapshot that it read. *)
LEMMA CertificateIsDated ==
    ASSUME NEW file, NEW about, NEW commit
    PROVE  Certificate(file, about, commit).commit = commit
BY DEF Certificate

(* A file stays one of its type when a line is edited. *)
LEMMA EditedIsFile ==
    ASSUME NEW file \in Snapshots, NEW l \in Lines, NEW s \in Statements
    PROVE  [file EXCEPT !.body[l] = s] \in Snapshots
BY DEF Snapshots

-----------------------------------------------------------------------------
LEMMA InitClaims == Init => ClaimsInv
<1> SUFFICES ASSUME Init PROVE ClaimsInv
  OBVIOUS
<1>1. PICK file \in Files : snapshots = <<file>>
  BY DEF Init
<1>2. snapshots \in Seq(Snapshots) /\ Len(snapshots) = 1
  BY <1>1, ClaimsAssumption
<1>3. NoClaim.commit = 0
  BY DEF NoClaim
<1>4. \A p \in Procs : challenge[p] = Idle
  BY DEF Init
<1>5. Idle.pc = "idle" /\ Idle.certificate.commit = 0
  BY <1>3 DEF Idle
<1>6. TypeOK
  <2>1. snapshots \in Seq(Snapshots)
    BY <1>2
  <2>2. Len(snapshots) \in 1 .. MaxCommits
    BY <1>2, ClaimsAssumption
  <2>3. crashes \in 0 .. MaxCrashes
    BY ClaimsAssumption DEF Init
  <2>4. finding \in [mechanism : Mechanisms, cited : Cited]
    BY DEF Init
  <2>5. torn \in BOOLEAN /\ raised \in BOOLEAN
    BY DEF Init
  <2>6. claim.commit \in 0 .. Len(snapshots)
    BY <1>2, <1>3 DEF Init
  <2>7. verification \in {None} \cup Answers
    BY DEF Init
  <2>8. DOMAIN challenge = Procs
    BY DEF Init
  <2>9. \A p \in Procs : challenge[p].pc \in {"idle", "saved"}
    BY <1>4, <1>5
  <2>10. \A p \in Procs : challenge[p].certificate.commit \in 0 .. Len(snapshots)
    BY <1>2, <1>4, <1>5
  <2>11. \A p \in Procs : challenge[p].pc = "saved" => challenge[p].certificate.commit > 0
    BY <1>4, <1>5
  <2> QED
    BY ONLY <2>1, <2>2, <2>3, <2>4, <2>5, <2>6, <2>7, <2>8, <2>9, <2>10, <2>11, SMT DEF TypeOK
<1>7. RowsAgree
  BY <1>4, <1>5 DEF Init, RowsAgree
<1>8. ClaimIsOwn
  BY DEF Init, ClaimIsOwn
<1> QED
  BY <1>6, <1>7, <1>8 DEF ClaimsInv

LEMMA IngestKeeps == ASSUME ClaimsInv, Ingest PROVE ClaimsInv'
<1>1. PICK l \in Lines, s \in Changes :
        snapshots' = Append(snapshots, [Latest EXCEPT !.body[l] = s])
  BY DEF Ingest
<1>2. Latest \in Snapshots
  BY DEF ClaimsInv, TypeOK, Latest
<1>3. [Latest EXCEPT !.body[l] = s] \in Snapshots
  BY <1>2, EditedIsFile, ClaimsAssumption
<1>4. /\ snapshots' \in Seq(Snapshots)
      /\ Len(snapshots') = Len(snapshots) + 1
      /\ \A i \in 1 .. Len(snapshots) : snapshots'[i] = snapshots[i]
  BY <1>1, <1>3 DEF ClaimsInv, TypeOK
<1>5. TypeOK'
  BY <1>4, ClaimsAssumption DEF ClaimsInv, TypeOK, Ingest
<1>6. RowsAgree'
  <2>1. claim.commit > 0 => claim.commit \in 1 .. Len(snapshots)
    BY DEF ClaimsInv, TypeOK
  <2> QED
    BY <2>1, <1>4 DEF ClaimsInv, RowsAgree, Ingest
<1>7. ClaimIsOwn'
  <2>1. claim.commit > 0 => claim.commit \in 1 .. Len(snapshots)
    BY DEF ClaimsInv, TypeOK
  <2> QED
    BY <2>1, <1>4 DEF ClaimsInv, ClaimIsOwn, Ingest
<1> QED
  BY <1>5, <1>6, <1>7 DEF ClaimsInv

LEMMA SaveClaimKeeps == ASSUME ClaimsInv, NEW p \in Procs, SaveClaim(p) PROVE ClaimsInv'
<1> DEFINE certificate == Certificate(Latest, finding, Len(snapshots))
<1>1. certificate.commit = Len(snapshots) /\ Len(snapshots) > 0
  BY CertificateIsDated, ClaimsAssumption DEF ClaimsInv, TypeOK
<1>2. /\ claim' = certificate
      /\ challenge' = [challenge EXCEPT ![p] = [pc |-> "saved", certificate |-> certificate]]
      /\ torn' = (\E q \in Procs \ {p} : challenge[q].pc = "saved")
      /\ UNCHANGED <<snapshots, finding, verification, raised, crashes>>
  BY DEF SaveClaim
<1> HIDE DEF certificate
<1>3. /\ challenge'[p].pc = "saved" /\ challenge'[p].certificate = certificate
      /\ \A q \in Procs \ {p} : challenge'[q] = challenge[q]
      /\ DOMAIN challenge' = Procs
  BY <1>2 DEF ClaimsInv, TypeOK
<1>4. TypeOK'
  BY <1>1, <1>2, <1>3, ClaimsAssumption DEF ClaimsInv, TypeOK
<1>5. RowsAgree'
  BY <1>2, <1>3 DEF RowsAgree
<1>6. ClaimIsOwn'
  BY <1>1, <1>2 DEF ClaimIsOwn, certificate, Latest
<1> QED
  BY <1>4, <1>5, <1>6 DEF ClaimsInv

LEMMA SaveVerificationKeeps ==
    ASSUME ClaimsInv, NEW p \in Procs, SaveVerification(p) PROVE ClaimsInv'
<1> DEFINE certificate == challenge[p].certificate
<1>1. /\ challenge[p].pc = "saved"
      /\ verification' = Check(snapshots[certificate.commit], certificate, certificate.commit)
      /\ challenge' = [challenge EXCEPT ![p] = Idle]
      /\ UNCHANGED <<snapshots, finding, claim, torn, raised, crashes>>
  BY DEF SaveVerification
<1>2. certificate.commit \in 1 .. Len(snapshots)
  BY <1>1 DEF ClaimsInv, TypeOK
<1>3. verification' \in Answers
  <2>1. snapshots[certificate.commit] \in Snapshots
    BY <1>2 DEF ClaimsInv, TypeOK
  <2> QED
    BY <1>1, <2>1, CheckAnswers
<1>4. /\ challenge'[p].pc = "idle" /\ challenge'[p].certificate.commit = 0
      /\ \A q \in Procs \ {p} : challenge'[q] = challenge[q]
      /\ DOMAIN challenge' = Procs
  BY <1>1 DEF ClaimsInv, TypeOK, Idle, NoClaim
<1>5. TypeOK'
  BY <1>1, <1>3, <1>4 DEF ClaimsInv, TypeOK
<1>6. RowsAgree'
  <2>1. ~torn => claim = certificate
    BY <1>1 DEF ClaimsInv, RowsAgree
  <2> QED
    BY <1>1, <1>2, <1>4, <2>1 DEF ClaimsInv, RowsAgree
<1>7. ClaimIsOwn'
  BY <1>1 DEF ClaimsInv, ClaimIsOwn
<1> QED
  BY <1>5, <1>6, <1>7 DEF ClaimsInv

LEMMA RaiseKeeps == ASSUME ClaimsInv, NEW p \in Procs, Raise(p) PROVE ClaimsInv'
BY DEF ClaimsInv, TypeOK, RowsAgree, ClaimIsOwn, Raise

LEMMA CrashKeeps == ASSUME ClaimsInv, NEW p \in Procs, Crash(p) PROVE ClaimsInv'
<1>1. /\ challenge'[p].pc = "idle" /\ challenge'[p].certificate.commit = 0
      /\ \A q \in Procs \ {p} : challenge'[q] = challenge[q]
      /\ DOMAIN challenge' = Procs
  BY DEF ClaimsInv, TypeOK, Crash, Idle, NoClaim
<1>2. TypeOK'
  BY <1>1, ClaimsAssumption DEF ClaimsInv, TypeOK, Crash
<1> QED
  BY <1>2 DEF ClaimsInv, RowsAgree, ClaimIsOwn, Crash

LEMMA ClaimsInductive == ClaimsInv /\ [Next]_vars => ClaimsInv'
<1> SUFFICES ASSUME ClaimsInv, [Next]_vars PROVE ClaimsInv'
  OBVIOUS
<1>1. CASE Ingest
  BY <1>1, IngestKeeps
<1>2. CASE \E p \in Procs : SaveClaim(p) \/ SaveVerification(p) \/ Raise(p) \/ Crash(p)
  BY <1>2, SaveClaimKeeps, SaveVerificationKeeps, RaiseKeeps, CrashKeeps
<1>3. CASE UNCHANGED vars
  BY <1>3 DEF vars, ClaimsInv, TypeOK, RowsAgree, ClaimIsOwn
<1> QED
  BY <1>1, <1>2, <1>3 DEF Next

(* The snapshots, the two rows and the challenges keep their types: a claim
   and a certificate name a snapshot there is, and a verification is one of
   the checker's four answers. *)
THEOREM ClaimsTyped == Spec => []TypeOK
<1>1. Spec => []ClaimsInv
  BY InitClaims, ClaimsInductive, PTL DEF Spec
<1>2. ClaimsInv => TypeOK
  BY DEF ClaimsInv
<1> QED
  BY <1>1, <1>2, PTL

(* A verification shown beside a claim is the checker's verdict on that very
   claim, for any files, any slicer and checker that answer, and any number of
   commands, but for rows of overlapping or dead challenges. *)
THEOREM VerificationsMatch == Spec => []VerificationIsOfClaim
<1>1. Spec => []ClaimsInv
  BY InitClaims, ClaimsInductive, PTL DEF Spec
<1>2. ClaimsInv => VerificationIsOfClaim
  BY DEF ClaimsInv, RowsAgree, VerificationIsOfClaim, Shown, ListedClaim,
         ListedVerification
<1> QED
  BY <1>1, <1>2, PTL

-----------------------------------------------------------------------------
(* Least and greatest numbers *)

LEMMA LeastOf ==
    ASSUME NEW S \in SUBSET Nat, S # {}
    PROVE  \E n \in S : \A m \in S : n <= m
<1> DEFINE R == OpToRel(<, Nat)
<1>1. IsWellFoundedOn(R, Nat)
  BY NatLessThanWellFounded
<1>2. \A m, n \in Nat : m < n => <<m, n>> \in R
  BY DEF OpToRel
<1> HIDE DEF R
<1>3. PICK n \in S : \A m \in S : <<m, n>> \notin R
  BY <1>1, WFMin
<1>4. ASSUME NEW m \in S
      PROVE  n <= m
  <2>1. m \in Nat /\ n \in Nat
    BY <1>3
  <2>2. ~(m < n)
    BY <1>2, <1>3, <2>1
  <2> QED BY <2>1, <2>2
<1>5. QED BY <1>4

LEMMA MinIs ==
    ASSUME NEW S \in SUBSET Nat, S # {}
    PROVE  Min(S) \in S /\ \A m \in S : Min(S) <= m
BY LeastOf DEF Min

LEMMA MaxIs ==
    ASSUME NEW n \in Nat, NEW S \in SUBSET (0 .. n), S # {}
    PROVE  Max(S) \in S /\ \A m \in S : m <= Max(S)
<1> DEFINE T == {n - m : m \in S}
<1>1. T \in SUBSET Nat
  OBVIOUS
<1>2. T # {}
  <2>1. PICK m \in S : TRUE
    OBVIOUS
  <2>2. n - m \in T
    BY <2>1
  <2> QED BY <2>2
<1>3. PICK t \in T : \A u \in T : t <= u
  BY <1>1, <1>2, LeastOf
<1>4. PICK m \in S : t = n - m
  BY <1>3
<1>5. \A k \in S : n - k \in T
  OBVIOUS
<1>6. ASSUME NEW k \in S
      PROVE  k <= m
  <2>1. n - m <= n - k
    BY <1>3, <1>4, <1>5
  <2>2. k \in 0 .. n /\ m \in 0 .. n
    BY <1>4
  <2> QED BY <2>1, <2>2
<1>7. QED BY <1>4, <1>6 DEF Max

-----------------------------------------------------------------------------
(* Lines, functions and what a worklist collects *)

(* The function around a line begins at or before it, with a def. *)
LEMMA FunctionIs ==
    ASSUME NEW file \in Snapshots, NEW l \in Lines
    PROVE  /\ Function(file, l) \in 0 .. l
           /\ Function(file, l) = 0 \/ file.body[Function(file, l)].kind = "def"
<1> DEFINE S == {0} \cup {d \in 1 .. l : file.body[d].kind = "def"}
<1>1. l \in Nat
  BY ClaimsAssumption DEF Lines
<1>2. S \in SUBSET (0 .. l) /\ S # {}
  BY <1>1
<1>3. Max(S) \in S
  BY <1>1, <1>2, MaxIs
<1> QED
  BY <1>1, <1>3 DEF Function

(* A sink is not the line of its function. *)
LEMMA FunctionOfSink ==
    ASSUME NEW file \in Snapshots, NEW l \in Lines, file.body[l].kind = "sink"
    PROVE  Function(file, l) \in 0 .. l - 1
<1>1. Function(file, l) # l
  BY FunctionIs, ClaimsAssumption DEF Lines
<1>2. l \in Nat \ {0}
  BY ClaimsAssumption DEF Lines
<1> QED
  BY <1>1, <1>2, FunctionIs

LEMMA ReachingHas ==
    ASSUME NEW uses, NEW sink \in Nat \ {0}
    PROVE  /\ Reaching(uses, sink) \subseteq 1 .. sink
           /\ sink \in Reaching(uses, sink)
           /\ \A u \in uses : /\ u[1] \in 1 .. sink
                              /\ u[2] \in Reaching(uses, sink)
                              => u[1] \in Reaching(uses, sink)
BY DEF Reaching

LEMMA ReachingLeast ==
    ASSUME NEW uses, NEW sink \in Nat \ {0}, NEW C \in SUBSET (1 .. sink),
           sink \in C, \A u \in uses : u[2] \in C => u[1] \in C
    PROVE  Reaching(uses, sink) \subseteq C
BY DEF Reaching

LEMMA StatementIs ==
    ASSUME NEW file \in Snapshots, NEW l \in Lines
    PROVE  /\ file.body[l] \in Statements
           /\ file.body[l].target \in Variables
           /\ file.body[l].loads \subseteq Variables
BY DEF Snapshots, Statements

(* The checker's lines are the sink and assignments of its function. *)
LEMMA VisitedLines ==
    ASSUME NEW file \in Snapshots, NEW sink \in Lines, file.body[sink].kind = "sink",
           NEW l \in Visited(file, sink)
    PROVE  l = sink \/ (l \in Function(file, sink) + 1 .. sink /\ IsAssignment(file.body[l]))
<1> DEFINE function == Function(file, sink)
           uses == CheckerUses(file, function, sink)
           C == {m \in 1 .. sink :
                    m = sink \/ (m \in function + 1 .. sink /\ IsAssignment(file.body[m]))}
<1>1. sink \in Nat \ {0} /\ function \in 0 .. sink - 1
  BY FunctionOfSink, ClaimsAssumption DEF Lines
<1> HIDE DEF function
<1>2. \A u \in uses : u[1] \in function + 1 .. sink /\ IsAssignment(file.body[u[1]])
  BY <1>1 DEF CheckerUses
<1>3. sink \in C /\ C \in SUBSET (1 .. sink)
  BY <1>1
<1>4. \A u \in uses : u[1] \in C
  BY <1>1, <1>2
<1> HIDE DEF C
<1>5. Reaching(uses, sink) \subseteq C
  BY <1>1, <1>3, <1>4, ReachingLeast
<1>6. l \in C
  BY <1>5 DEF Visited, function
<1> QED
  BY <1>6 DEF C, function

(* The slicer's lines are among the checker's when they agree about the request
   object. *)
LEMMA SliceIsVisited ==
    ASSUME NEW file \in Snapshots, NEW sink \in Lines, file.body[sink].kind = "sink",
           Request \in file.body[sink].loads =>
               ~Assigned(file, Request, Function(file, sink) + 1, sink - 1)
    PROVE  Slice(file, Function(file, sink), sink) \subseteq Visited(file, sink)
<1> DEFINE function == Function(file, sink)
           uses == CheckerUses(file, function, sink)
           C == Visited(file, sink)
<1>1. sink \in Nat \ {0} /\ function \in 0 .. sink - 1
  BY FunctionOfSink, ClaimsAssumption DEF Lines
<1>2. C = Reaching(uses, sink)
  BY DEF Visited
<1>3. C \in SUBSET (1 .. sink) /\ sink \in C
  BY <1>1, <1>2, ReachingHas
<1>4. \A l \in C : l = sink \/ IsAssignment(file.body[l])
  BY VisitedLines
<1> HIDE DEF C
<1>5. ASSUME NEW u \in SlicerUses(file, function, sink), u[2] \in C
      PROVE  u[1] \in C
  <2> DEFINE name == file.body[u[1]].target
  <2>1. /\ u \in (function + 1 .. sink) \X (function + 1 .. sink)
        /\ u[1] \in function + 1 .. sink /\ u[2] \in function + 1 .. sink
        /\ u[1] < u[2] /\ IsAssignment(file.body[u[1]])
        /\ name \in Followed(file, u[2]) \ Parameters(file, function)
        /\ \A m \in u[1] + 1 .. u[2] - 1 :
            IsAssignment(file.body[m]) => file.body[m].target # name
    BY <1>1, <1>5 DEF SlicerUses, function
  <2>2. name \in Loaded(file, u[2])
    <3>1. CASE u[2] = sink
      <4>1. name \in file.body[sink].loads
        BY <2>1, <3>1 DEF Followed
      <4>2. name = Request => Assigned(file, Request, function + 1, sink - 1)
        BY <1>1, <2>1, <3>1 DEF Assigned
      <4> QED
        BY <3>1, <4>1, <4>2 DEF Loaded
    <3>2. CASE u[2] # sink
      <4>1. IsAssignment(file.body[u[2]])
        BY <1>4, <1>5, <3>2
      <4> QED
        BY <2>1, <4>1 DEF Loaded, Followed, IsAssignment
    <3> QED
      BY <3>1, <3>2
  <2>3. u[1] = Max(Writes(file, function, name, u[2]))
    <3> DEFINE W == Writes(file, function, name, u[2])
    <3>1. W \in SUBSET (0 .. sink) /\ u[1] \in W
      BY <1>1, <2>1 DEF Writes
    <3>2. Max(W) \in W /\ u[1] <= Max(W)
      BY <1>1, <3>1, MaxIs
    <3>3. Max(W) \in function + 1 .. u[2] - 1 /\ IsAssignment(file.body[Max(W)])
          /\ file.body[Max(W)].target = name
      BY <3>2 DEF Writes
    <3> HIDE DEF W
    <3>4. ~(u[1] < Max(W))
      BY <1>1, <2>1, <3>3
    <3> QED
      BY <1>1, <2>1, <3>2, <3>3, <3>4 DEF W
  <2>4. u \in uses
    BY <2>1, <2>2, <2>3 DEF CheckerUses
  <2>5. u[1] \in 1 .. sink
    BY <1>1, <2>1
  <2> QED
    BY <1>1, <1>2, <1>5, <2>4, <2>5, ReachingHas
<1>6. Reaching(SlicerUses(file, function, sink), sink) \subseteq C
  BY <1>1, <1>3, <1>5, ReachingLeast
<1> QED
  BY <1>6 DEF Slice, C, function

-----------------------------------------------------------------------------
(* What the slicer certifies the checker finds again *)

LEMMA NearestIsSink ==
    ASSUME NEW file \in Snapshots, NEW function \in Nat, NEW cited \in Lines,
           HasSink(file, function)
    PROVE  LET sink == NearestSink(file, function, cited)
           IN  sink \in Lines /\ sink > function /\ file.body[sink].kind = "sink"
<1> DEFINE sinks == {l \in Lines : l > function /\ file.body[l].kind = "sink"}
           Distance(l) == IF l < cited THEN cited - l ELSE l - cited
           nearest == {l \in sinks : \A m \in sinks : Distance(l) <= Distance(m)}
           distances == {Distance(l) : l \in sinks}
<1>1. Lines \subseteq Nat
  BY ClaimsAssumption DEF Lines
<1>2. PICK l \in sinks : TRUE
  BY DEF HasSink
<1>3. \A m \in sinks : Distance(m) \in Nat
  BY <1>1
<1> HIDE DEF Distance
<1>4. distances \in SUBSET Nat /\ Distance(l) \in distances
  BY <1>2, <1>3
<1>5. PICK d \in distances : \A e \in distances : d <= e
  BY <1>4, LeastOf
<1>6. PICK m \in sinks : d = Distance(m)
  BY <1>5
<1>7. m \in nearest
  BY <1>5, <1>6
<1>8. nearest \in SUBSET Nat /\ nearest # {}
  BY <1>1, <1>7
<1>9. Min(nearest) \in nearest
  BY <1>8, MinIs
<1>10. Min(nearest) \in sinks
  BY <1>9
<1> QED
  BY <1>10 DEF NearestSink, Distance

(* Python: the closure of the checker has the lines of the slice and the
   parameters that they load. *)
LEMMA PythonStands ==
    ASSUME NEW file \in Snapshots, finding.cited \in Lines, NEW slice,
           slice = PythonSlice(file, finding.cited), slice.complete,
           file.language = "python", ~Divergent(file, slice)
    PROVE  PythonVerdict(file, slice) = "verified"
<1> DEFINE cited == finding.cited
           function == Function(file, cited)
           sink == NearestSink(file, function, cited)
           lines == Slice(file, function, sink)
           parameters == (UNION {Followed(file, l) : l \in lines}) \cap Parameters(file, function)
           requests == {l \in lines \ {sink} : Request \in file.body[l].loads}
           sources == {Parameter(function, n) : n \in parameters}
                          \cup {Quote(file, l) : l \in requests}
           guards == {g \in Lines : g > function /\ file.body[g].kind = "guard"}
<1>1. HasSink(file, function)
  BY DEF PythonSlice, NoSink
<1>2. slice = [complete |-> sources # {}, sources |-> sources,
               path |-> sources \cup {Quote(file, l) : l \in lines}, sink |-> sink,
               guards |-> {Quote(file, l) : l \in guards},
               context |-> Context(file, function)]
  BY <1>1 DEF PythonSlice
<1>3. function \in Nat
  BY FunctionIs, ClaimsAssumption DEF Lines
<1>4. sink \in Lines /\ sink > function /\ file.body[sink].kind = "sink"
  BY <1>1, <1>3, NearestIsSink
<1> HIDE DEF function, sink, lines, sources, guards
<1>a. /\ slice.sources = sources /\ slice.path = sources \cup {Quote(file, l) : l \in lines}
      /\ slice.sink = sink /\ slice.context = Context(file, function)
      /\ slice.guards = {Quote(file, l) : l \in guards}
  BY <1>2
<1>5. /\ file.body[sink].count = 1
      /\ Function(file, sink) = function
      /\ "guarded in argument" \notin Context(file, function)
      /\ \A item \in slice.guards : Function(file, item.line) = function
      /\ Request \in file.body[sink].loads =>
            /\ Request \notin Parameters(file, function)
            /\ ~Assigned(file, Request, function + 1, sink - 1)
  BY <1>a DEF Divergent, function
<1>6. lines \subseteq Visited(file, sink)
  BY <1>4, <1>5, SliceIsVisited DEF lines
<1>7. \A l \in lines : l = sink \/ IsAssignment(file.body[l])
  BY <1>4, <1>6, VisitedLines
<1>8. lines \subseteq Lines
  BY <1>4, <1>6, ReachingHas, ClaimsAssumption DEF Visited, Lines
<1>9. parameters \subseteq Variables
  <2>1. \A l \in lines : Followed(file, l) \subseteq Variables
    BY <1>8, StatementIs DEF Followed
  <2> QED BY <2>1
<1>10. parameters \subseteq ReachedParameters(file, sink)
  <2>1. ASSUME NEW l \in lines, NEW n \in Followed(file, l), n \in Parameters(file, function)
        PROVE  n \in Loaded(file, l)
    <3>1. CASE l = sink
      BY <1>4, <1>5, <2>1, <3>1 DEF Followed, Loaded
    <3>2. CASE l # sink
      <4>1. IsAssignment(file.body[l])
        BY <1>7, <3>2
      <4> QED
        BY <2>1, <4>1, <1>8, StatementIs DEF Followed, Loaded, IsAssignment
    <3> QED BY <3>1, <3>2
  <2>2. ASSUME NEW n \in parameters
        PROVE  n \in ReachedParameters(file, sink)
    <3>1. PICK l \in lines : n \in Followed(file, l)
      OBVIOUS
    <3>2. n \in Loaded(file, l) /\ l \in Visited(file, sink)
      BY <1>6, <2>1, <3>1
    <3> QED
      BY <3>2, <1>5 DEF ReachedParameters
  <2> QED BY <2>2
<1>11. SinkStands(file, slice)
  <2>1. ASSUME NEW item \in slice.path \cup slice.guards
        PROVE  Quoted(file, item)
    <3>1. CASE \E l : item = Quote(file, l)
      BY <3>1 DEF Quoted, Quote
    <3>2. CASE \E n \in parameters : item = Parameter(function, n)
      BY <3>2, <1>9, ClaimsAssumption DEF Quoted, Parameter
    <3> QED
      BY <1>a, <2>1, <3>1, <3>2 DEF sources
  <2> QED
    BY <1>a, <1>4, <1>5, <2>1 DEF SinkStands
<1>12. ContextHolds(file, slice)
  BY <1>a, <1>5 DEF ContextHolds, Recognized
<1>13. PathCloses(file, slice)
  <2>1. ASSUME NEW item \in slice.sources, item.parameter # None
        PROVE  item.parameter \in ReachedParameters(file, sink) /\ item.line = function
    <3>1. \A l : item # Quote(file, l)
      BY <2>1 DEF Quote
    <3>2. PICK n \in parameters : item = Parameter(function, n)
      BY <1>a, <3>1 DEF sources
    <3> QED
      BY <3>2, <1>10 DEF Parameter
  <2>2. ASSUME NEW item \in slice.path, item.parameter = None
        PROVE  item.line \in Visited(file, sink)
    <3>1. \A n \in parameters : item # Parameter(function, n)
      BY <2>2, <1>9, ClaimsAssumption DEF Parameter
    <3>2. PICK l \in lines : item = Quote(file, l)
      BY <1>a, <3>1 DEF sources
    <3> QED
      BY <3>2, <1>6 DEF Quote
  <2>3. slice.sink = sink
    BY <1>a
  <2>4. {item.line : item \in {q \in slice.path : q.parameter = None}} \subseteq Closure(file, sink)
    BY <2>2 DEF Closure
  <2> QED
    BY <1>5, <2>1, <2>3, <2>4 DEF PathCloses
<1> QED
  BY <1>11, <1>12, <1>13 DEF PythonVerdict, Verdict

(* JavaScript, Java and Ruby: the checker finds the property in the sink or,
   but for Ruby, the declaration. *)
LEMMA ShapeStands ==
    ASSUME NEW file \in Snapshots, NEW cited \in Lines, NEW variables \in BOOLEAN, NEW slice,
           slice = ShapeSlice(file, cited, variables), slice.complete,
           file.language # "python"
    PROVE  /\ SinkStands(file, slice) /\ slice.sink = cited
           /\ \/ file.body[cited].loads = {Request} /\ Property(cited) \in slice.sources
              \/ variables /\ DeclarationQuoted(file, slice)
<1> DEFINE argument == file.body[cited].loads
           declared == {l \in Lines : \E n \in argument : l \in Declarations(file, n, cited)}
           sources == CASE argument = {Request} -> {Property(cited)}
                        [] variables /\ IsVariable(argument) /\ declared # {} ->
                               {Quote(file, Max(declared))}
                        [] OTHER -> {}
<1>1. file.body[cited].kind = "sink" /\ file.body[cited].count = 1
  BY DEF ShapeSlice, NoSink
<1>2. slice = [complete |-> sources # {}, sources |-> sources,
               path |-> sources \cup {Quote(file, cited)}, sink |-> cited,
               guards |-> {}, context |-> {}]
  BY <1>1 DEF ShapeSlice
<1>a. argument = {Request} => sources = {Property(cited)}
  <2> DEFINE Q == variables /\ IsVariable(argument) /\ declared # {}
             F == {Quote(file, Max(declared))}
  <2>1. argument = {Request} => ~Q
    BY DEF IsVariable
  <2> HIDE DEF Q, F, declared
  <2>2. argument = {Request} =>
          (CASE argument = {Request} -> {Property(cited)} [] Q -> F [] OTHER -> {}) = {Property(cited)}
    BY <2>1
  <2> QED BY <2>2 DEF Q, F
<1>b. argument # {Request} =>
        \/ sources = {}
        \/ /\ variables /\ IsVariable(argument) /\ declared # {}
           /\ sources = {Quote(file, Max(declared))}
  <2> HIDE DEF declared
  <2> QED OBVIOUS
<1> HIDE DEF declared, sources
<1>c. sources # {}
  <2>1. slice.complete = (sources # {})
    BY ONLY <1>2, Zenon
  <2> QED BY <2>1, Zenon
<1>3. CASE argument = {Request}
  <2>1. sources = {Property(cited)}
    BY <1>3, <1>a
  <2>2. Quoted(file, Property(cited)) /\ Quoted(file, Quote(file, cited))
    BY <1>3 DEF Quoted, Property, Quote
  <2> QED
    BY <1>1, <1>2, <1>3, <2>1, <2>2 DEF SinkStands
<1>4. CASE argument # {Request}
  <2>1. variables /\ IsVariable(argument) /\ declared # {}
    BY <1>4, <1>b, <1>c
  <2>2. sources = {Quote(file, Max(declared))}
    BY <1>4, <1>b, <1>c
  <2>3. Max(declared) \in declared
    <3>1. Length \in Nat /\ declared \in SUBSET (0 .. Length)
      BY ClaimsAssumption DEF Lines, declared
    <3> QED BY <2>1, <3>1, MaxIs
  <2>4. \A l : Quoted(file, Quote(file, l))
    BY DEF Quoted, Quote
  <2>5. SinkStands(file, slice)
    BY <1>1, <1>2, <2>2, <2>4 DEF SinkStands
  <2>6. DeclarationQuoted(file, slice)
    <3>1. slice.sink = cited /\ Quote(file, Max(declared)) \in slice.sources
      BY <1>2, <2>2
    <3>2. PICK n \in argument : Max(declared) \in Declarations(file, n, cited)
      BY <2>3 DEF declared
    <3>3. Max(declared) \in Lines
      BY <2>3 DEF declared
    <3> QED
      BY <2>1, <3>1, <3>2, <3>3 DEF DeclarationQuoted
  <2> QED
    BY <1>2, <2>1, <2>5, <2>6
<1> QED
  BY <1>3, <1>4

LEMMA CertificateStands ==
    ASSUME NEW file \in Snapshots, finding.cited \in Lines, NEW commit, NEW certificate,
           certificate = Certificate(file, finding, commit),
           certificate.mechanism \in Supported(file.language), certificate.slice.complete,
           ~Divergent(file, certificate.slice)
    PROVE  Check(file, certificate, commit) = "verified"
<1> DEFINE slice == certificate.slice
<1>1. /\ certificate.commit = commit /\ certificate.mechanism = finding.mechanism
      /\ slice = CASE file.language = "python" -> PythonSlice(file, finding.cited)
                   [] file.language = "javascript" -> JavaScriptSlice(file, finding.cited)
                   [] file.language = "java" -> JavaSlice(file, finding.cited)
                   [] file.language = "ruby" -> RubySlice(file, finding.cited)
  BY DEF Certificate
<1> HIDE DEF slice
<1>2. slice.complete /\ ~Divergent(file, slice)
  BY DEF slice
<1>3. Check(file, certificate, commit) = VerdictOn(file, slice)
  <2>1. \A verdict : Answer(Supported(file.language), certificate, commit, verdict) = verdict
    BY <1>1, <1>2 DEF Answer, slice
  <2>2. file.language \in {"python", "javascript", "java", "ruby"}
    BY DEF Snapshots
  <2> QED
    BY <2>1, <2>2 DEF Check, VerdictOn, PythonCheck, JavaScriptCheck, JavaCheck, RubyCheck,
                      slice
<1>4. CASE file.language = "python"
  <2>1. slice = PythonSlice(file, finding.cited)
    BY <1>1, <1>4
  <2> QED
    BY <1>2, <1>3, <1>4, <2>1, PythonStands DEF VerdictOn
<1>5. CASE file.language \in {"javascript", "java"}
  <2>1. slice = ShapeSlice(file, finding.cited, TRUE)
    BY <1>1, <1>5 DEF JavaScriptSlice, JavaSlice
  <2>2. /\ SinkStands(file, slice) /\ slice.sink = finding.cited
        /\ \/ /\ file.body[finding.cited].loads = {Request}
              /\ Property(finding.cited) \in slice.sources
           \/ DeclarationQuoted(file, slice)
    <3>1. TRUE \in BOOLEAN /\ file.language # "python"
      BY <1>5
    <3> QED
      BY <1>2, <2>1, <3>1, ShapeStands
  <2>3. JavaScriptVerdict(file, slice) = "verified" /\ JavaVerdict(file, slice) = "verified"
    <3>1. Property(finding.cited).line = finding.cited
      BY DEF Property
    <3>2. ArgumentQuoted(file, slice) \/ DeclarationQuoted(file, slice)
      BY <2>2, <3>1 DEF ArgumentQuoted
    <3> QED
      BY <2>2, <3>2 DEF JavaScriptVerdict, JavaVerdict, Verdict
  <2> QED
    BY <1>3, <1>5, <2>3 DEF VerdictOn
<1>6. CASE file.language = "ruby"
  <2>1. slice = ShapeSlice(file, finding.cited, FALSE)
    BY <1>1, <1>6 DEF RubySlice
  <2>2. /\ SinkStands(file, slice) /\ slice.sink = finding.cited
        /\ file.body[slice.sink].loads = {Request} /\ Property(slice.sink) \in slice.sources
    <3>1. PICK variables \in BOOLEAN : variables = FALSE
      OBVIOUS
    <3>2. slice = ShapeSlice(file, finding.cited, variables) /\ file.language # "python"
      BY <1>6, <2>1, <3>1
    <3>3. ~variables
      BY <3>1
    <3> QED
      BY <1>2, <3>2, <3>3, ShapeStands
  <2> QED
    BY <1>3, <1>6, <2>2 DEF VerdictOn, RubyVerdict, Verdict
<1> QED
  BY <1>4, <1>5, <1>6 DEF Snapshots

(* What the slicer certifies of a snapshot the checker, which follows the
   assignments in its own way, finds in it again, for any files of any length:
   but for the ways in which they differ, no finding is put before the reviewer
   with a claim of the tool's own that the tool refutes. *)
THEOREM CertificatesStand == Spec => []OwnCertificateStands
<1>1. Spec => []ClaimsInv
  BY InitClaims, ClaimsInductive, PTL DEF Spec
<1>2. ASSUME ClaimsInv PROVE OwnCertificateStands
  <2> SUFFICES ASSUME claim # NoClaim,
                      claim.mechanism \in Supported(snapshots[claim.commit].language),
                      claim.slice.complete,
                      ~Divergent(snapshots[claim.commit], claim.slice)
               PROVE  Check(snapshots[claim.commit], claim, claim.commit) = "verified"
    BY DEF OwnCertificateStands
  <2>1. claim = Certificate(snapshots[claim.commit], finding, claim.commit)
    BY <1>2 DEF ClaimsInv, ClaimIsOwn
  <2>2. claim.commit \in 1 .. Len(snapshots)
    BY <1>2 DEF ClaimsInv, ClaimIsOwn, TypeOK
  <2>3. snapshots[claim.commit] \in Snapshots /\ finding.cited \in Lines
    BY <1>2, <2>2, ClaimsAssumption DEF ClaimsInv, TypeOK
  <2> QED
    BY <2>1, <2>3, CertificateStands
<1> QED
  BY <1>1, <1>2, PTL

-----------------------------------------------------------------------------
(* What the checker verifies is true of an execution *)

IsRun(file, first, last, start, g) ==
    g = [l \in first .. last |-> IF l = first THEN start ELSE Executed(file, l, g[l - 1])]

(* A run that is defined from a line to the next one exists. *)
LEMMA RunExists ==
    ASSUME NEW file, NEW first \in Nat, NEW n \in Nat, NEW start
    PROVE  \E g : IsRun(file, first, first + n, start, g)
<1> USE DEF IsRun
<1> DEFINE Run(k, g) == g = [l \in first .. first + k |->
                                IF l = first THEN start ELSE Executed(file, l, g[l - 1])]
           bad == {k \in Nat : ~\E g : Run(k, g)}
<1>1. SUFFICES ASSUME n \in bad PROVE FALSE
  OBVIOUS
<1>2. PICK k \in bad : \A m \in bad : k <= m
  BY <1>1, LeastOf
<1>3. k \in Nat /\ ~\E g : Run(k, g)
  BY <1>2
<1>n. k # 0 => k - 1 \in Nat /\ k - 1 \notin bad
  <2> HIDE DEF bad
  <2>1. k # 0 => k - 1 \in Nat /\ ~(k <= k - 1)
    BY <1>3
  <2> QED BY <1>2, <2>1
<1>4. CASE k = 0
  <2> DEFINE g == [l \in first .. first |-> start]
  <2>1. g = [l \in first .. first + 0 |->
                IF l = first THEN start ELSE Executed(file, l, g[l - 1])]
    OBVIOUS
  <2> QED
    BY <1>3, <1>4, <2>1
<1>5. CASE k # 0
  <2>1. k - 1 \in Nat /\ k - 1 \notin bad
    BY <1>n, <1>5
  <2>2. PICK h : Run(k - 1, h)
    BY <2>1
  <2>3. /\ \A l \in first .. first + (k - 1) :
            h[l] = IF l = first THEN start ELSE Executed(file, l, h[l - 1])
    BY <2>2
  <2> HIDE DEF Run
  <2> DEFINE g == [l \in first .. first + k |->
                      IF l = first THEN start ELSE Executed(file, l, h[l - 1])]
  <2>4. \A l \in first .. first + k : l # first => g[l - 1] = h[l - 1]
    <3> SUFFICES ASSUME NEW l \in first .. first + k, l # first
                 PROVE  g[l - 1] = h[l - 1]
      OBVIOUS
    <3>1. l - 1 \in first .. first + k /\ l - 1 \in first .. first + (k - 1)
      BY <1>3
    <3> QED
      BY <2>3, <3>1
  <2>5. g = [l \in first .. first + k |->
                IF l = first THEN start ELSE Executed(file, l, g[l - 1])]
    <3> DEFINE e == [l \in first .. first + k |->
                        IF l = first THEN start ELSE Executed(file, l, g[l - 1])]
    <3>1. \A l \in first .. first + k : g[l] = e[l]
      BY <2>4
    <3> QED
      BY <3>1
  <2> QED
    BY <1>3, <2>5 DEF Run
<1> QED
  BY <1>4, <1>5

AtEntry(file, function) == [n \in Variables |-> {n} \cap Parameters(file, function)]

(* What the variables hold: the parameters themselves at first, then what each
   line makes of it. *)
LEMMA HeldIs ==
    ASSUME NEW file, NEW function \in Nat, NEW last \in Nat, function <= last
    PROVE  LET held == Held(file, function, last) IN
           /\ held[function] = AtEntry(file, function)
           /\ \A l \in function + 1 .. last : held[l] = Executed(file, l, held[l - 1])
<1> DEFINE start == AtEntry(file, function)
           held == Held(file, function, last)
<1>1. PICK n \in Nat : function + n = last
  <2>1. last - function \in Nat /\ function + (last - function) = last
    OBVIOUS
  <2> QED BY <2>1
<1> HIDE DEF start
<1>r. \E g : IsRun(file, function, function + n, start, g)
  BY RunExists
<1>2. \E g : IsRun(file, function, last, start, g)
  BY <1>1, <1>r
<1>3. held = CHOOSE g : IsRun(file, function, last, start, g)
  BY DEF Held, start, IsRun, AtEntry
<1> HIDE DEF held
<1>i. IsRun(file, function, last, start, held)
  BY <1>2, <1>3
<1>4. held = [l \in function .. last |->
                 IF l = function THEN start ELSE Executed(file, l, held[l - 1])]
  BY <1>i DEF IsRun
<1>5. held[function] = start
  BY <1>4
<1>6. \A l \in function + 1 .. last : held[l] = Executed(file, l, held[l - 1])
  BY <1>4
<1> QED
  BY <1>5, <1>6 DEF held, start

(* There is a set of what it holds for each variable, after each line. *)
LEMMA HeldTyped ==
    ASSUME NEW file \in Snapshots, NEW function \in Nat, NEW last \in 0 .. Length,
           function <= last, NEW l \in function .. last
    PROVE  DOMAIN Held(file, function, last)[l] = Variables
<1> DEFINE held == Held(file, function, last)
           bad == {k \in function .. last : DOMAIN held[k] # Variables}
<1>a. last \in Nat
  BY ClaimsAssumption
<1>b. ASSUME NEW k \in function + 1 .. last
      PROVE  held[k] = Executed(file, k, held[k - 1])
  BY <1>a, HeldIs
<1>1. /\ DOMAIN held[function] = Variables
      /\ \A k \in function + 1 .. last : held[k] = Executed(file, k, held[k - 1])
  <2>1. held[function] = AtEntry(file, function)
    BY <1>a, HeldIs
  <2>2. DOMAIN held[function] = Variables
    BY <2>1 DEF AtEntry
  <2> HIDE DEF held
  <2> QED
    BY <1>b, <2>2
<1> HIDE DEF held
<1>2. SUFFICES ASSUME bad # {} PROVE FALSE
  BY DEF held
<1>3. bad \in SUBSET Nat
  BY ClaimsAssumption
<1>4. PICK k \in bad : \A m \in bad : k <= m
  BY <1>2, <1>3, LeastOf
<1>5. k # function
  BY <1>1, <1>4
<1>6. k - 1 \in function .. last /\ k - 1 \notin bad /\ k \in function + 1 .. last
  BY <1>4, <1>5, ClaimsAssumption
<1>7. held[k] = Executed(file, k, held[k - 1]) /\ DOMAIN held[k - 1] = Variables
  BY <1>1, <1>6
<1> QED
  BY <1>4, <1>7 DEF Executed

LEMMA HeldFirst ==
    ASSUME NEW file, NEW function \in Nat, NEW last \in 0 .. Length, function <= last,
           NEW n \in Variables
    PROVE  Held(file, function, last)[function][n] = {n} \cap Parameters(file, function)
<1>1. last \in Nat
  BY ClaimsAssumption
<1>2. Held(file, function, last)[function] = AtEntry(file, function)
  BY <1>1, HeldIs
<1> QED
  BY <1>2 DEF AtEntry

LEMMA HeldStep ==
    ASSUME NEW file \in Snapshots, NEW function \in Nat, NEW last \in 0 .. Length,
           function <= last, NEW l \in function + 1 .. last
    PROVE  LET held == Held(file, function, last)
           IN  held[l] = Executed(file, l, held[l - 1]) /\ DOMAIN held[l - 1] = Variables
<1>1. last \in Nat /\ l - 1 \in function .. last
  BY ClaimsAssumption
<1> DEFINE held == Held(file, function, last)
<1>2. held[l] = Executed(file, l, held[l - 1])
  BY <1>1, HeldIs
<1>3. DOMAIN held[l - 1] = Variables
  BY <1>1, HeldTyped
<1> QED
  BY <1>2, <1>3

(* A variable that is not assigned in between keeps what it holds. *)
LEMMA HeldStays ==
    ASSUME NEW file \in Snapshots, NEW function \in Nat, NEW last \in 0 .. Length,
           NEW i \in function .. last, NEW j \in i .. last, NEW name \in Variables,
           ~Assigned(file, name, i + 1, j)
    PROVE  Held(file, function, last)[j][name] = Held(file, function, last)[i][name]
<1> DEFINE held == Held(file, function, last)
           bad == {k \in i .. j : held[k][name] # held[i][name]}
<1>1. function <= last
  BY ClaimsAssumption
<1>b. \A k \in function + 1 .. last : held[k] = Executed(file, k, held[k - 1])
  BY <1>1, HeldStep
<1>c. \A k \in function .. last : DOMAIN held[k] = Variables
  BY <1>1, HeldTyped
<1> HIDE DEF held
<1>2. /\ \A k \in function + 1 .. last : held[k] = Executed(file, k, held[k - 1])
      /\ \A k \in function .. last : DOMAIN held[k] = Variables
  BY <1>b, <1>c
<1>3. SUFFICES ASSUME bad # {} PROVE FALSE
  BY ClaimsAssumption DEF held
<1>4. bad \in SUBSET Nat
  BY ClaimsAssumption
<1>5. PICK k \in bad : \A m \in bad : k <= m
  BY <1>3, <1>4, LeastOf
<1>6. k # i
  BY <1>5
<1>7. /\ k - 1 \in i .. j /\ k - 1 \notin bad /\ k \in i + 1 .. j
      /\ k \in function + 1 .. last /\ k - 1 \in function .. last
  BY <1>5, <1>6, ClaimsAssumption
<1>8. ~(IsAssignment(file.body[k]) /\ file.body[k].target = name)
  BY <1>7 DEF Assigned
<1>9. held[k] = Executed(file, k, held[k - 1]) /\ DOMAIN held[k - 1] = Variables
  BY <1>2, <1>7
<1>10. held[k][name] = held[k - 1][name]
  BY <1>8, <1>9 DEF Executed
<1> QED
  BY <1>5, <1>7, <1>10

(* What an assignment leaves in its target: its line, what the variables that it
   loads held, and, augmented, what the target held. *)
LEMMA HeldByTarget ==
    ASSUME NEW file \in Snapshots, NEW function \in Nat, NEW last \in 0 .. Length,
           NEW l \in function + 1 .. last, l \in Lines, IsAssignment(file.body[l])
    PROVE  LET held == Held(file, function, last)
               target == file.body[l].target
           IN  /\ l \in held[l][target]
               /\ \A n \in Loaded(file, l) \cup file.body[l].loads :
                    held[l - 1][n] \subseteq held[l][target]
<1> DEFINE held == Held(file, function, last)
           target == file.body[l].target
           s == file.body[l]
<1>1. function <= last /\ l - 1 \in function .. last
  BY ClaimsAssumption
<1>2. held[l] = Executed(file, l, held[l - 1]) /\ DOMAIN held[l - 1] = Variables
  BY <1>1, HeldStep
<1>3. target \in Variables
  BY StatementIs
<1> HIDE DEF held
<1>4. held[l][target] = {l} \cup (IF s.kind = "augment" THEN held[l - 1][target] ELSE {})
                            \cup UNION {held[l - 1][n] : n \in s.loads}
  BY <1>2, <1>3 DEF Executed
<1>5. ASSUME NEW n \in Loaded(file, l) \cup s.loads
      PROVE  held[l - 1][n] \subseteq held[l][target]
  <2>1. n \in s.loads \/ (s.kind = "augment" /\ n = target)
    BY <1>5 DEF Loaded
  <2> QED
    BY <1>4, <2>1
<1> QED
  BY <1>4, <1>5 DEF held

(* The lines that the checker visits hand a value on to the sink. *)
LEMMA VisitedReaches ==
    ASSUME NEW file \in Snapshots, NEW sink \in Lines, file.body[sink].kind = "sink"
    PROVE  LET function == Function(file, sink)
               held == Held(file, function, sink - 1)
           IN  \A l \in Visited(file, sink) :
                  \/ l = sink
                  \/ /\ l \in function + 1 .. sink - 1 /\ IsAssignment(file.body[l])
                     /\ held[l][file.body[l].target] \subseteq Flow(file, function, sink)
<1> DEFINE function == Function(file, sink)
           held == Held(file, function, sink - 1)
           flow == Flow(file, function, sink)
           uses == CheckerUses(file, function, sink)
           Hands(l) == /\ l \in function + 1 .. sink - 1 /\ IsAssignment(file.body[l])
                       /\ held[l][file.body[l].target] \subseteq flow
           C == {l \in 1 .. sink : l = sink \/ Hands(l)}
<1>1. sink \in Nat \ {0} /\ sink <= Length /\ function \in 0 .. sink - 1
  BY FunctionOfSink, ClaimsAssumption DEF Lines
<1>2. \A n \in file.body[sink].loads : held[sink - 1][n] \subseteq flow
  BY DEF Flow
<1>3. sink \in C /\ C \in SUBSET (1 .. sink)
  BY <1>1
<1>4. ASSUME NEW u \in uses, u[2] \in C
      PROVE  u[1] \in C
  <2> DEFINE i == u[1]
             j == u[2]
             name == file.body[i].target
  <2>1. /\ i \in function + 1 .. sink /\ j \in function + 1 .. sink /\ i < j
        /\ IsAssignment(file.body[i])
        /\ name \in Loaded(file, j)
        /\ i = Max(Writes(file, function, name, j))
    BY <1>1, <1>4 DEF CheckerUses
  <2> HIDE DEF i, j
  <2>2. i \in Lines /\ j \in Lines /\ i \in 1 .. sink /\ i \in function + 1 .. sink - 1
    BY <1>1, <2>1, ClaimsAssumption DEF Lines
  <2>3. ~Assigned(file, name, i + 1, j - 1)
    <3> DEFINE W == Writes(file, function, name, j)
    <3> SUFFICES ASSUME Assigned(file, name, i + 1, j - 1) PROVE FALSE
      OBVIOUS
    <3>1. PICK m \in i + 1 .. j - 1 : IsAssignment(file.body[m]) /\ file.body[m].target = name
      BY DEF Assigned
    <3>2. m \in W /\ W \in SUBSET (0 .. sink)
      <4> HIDE DEF function, name
      <4>1. m \in function + 1 .. j - 1 /\ function + 1 .. j - 1 \subseteq 0 .. sink
        BY <1>1, <2>1
      <4> QED
        BY <3>1, <4>1 DEF Writes
    <3>3. m <= Max(W)
      BY <1>1, <3>2, MaxIs
    <3> HIDE DEF W
    <3>4. Max(W) = i
      BY <2>1 DEF W
    <3> QED
      BY <1>1, <2>1, <3>1, <3>3, <3>4
  <2>4. held[j - 1][name] = held[i][name]
    <3>1. /\ function \in Nat /\ sink - 1 \in 0 .. Length
          /\ i \in function .. sink - 1 /\ j - 1 \in i .. sink - 1
      BY <1>1, <2>1, ClaimsAssumption
    <3>2. name \in Variables
      BY <2>2, StatementIs
    <3> HIDE DEF function, name
    <3> QED
      BY <2>3, <3>1, <3>2, HeldStays
  <2>5. held[j - 1][name] \subseteq flow
    <3>1. CASE j = sink
      <4>1. name \in file.body[sink].loads
        BY <2>1, <3>1 DEF Loaded
      <4> QED
        BY <1>2, <3>1, <4>1
    <3>2. CASE j # sink
      <4>1. Hands(j)
        BY <1>4, <3>2 DEF j
      <4>2. function \in Nat /\ sink - 1 \in 0 .. Length
        BY <1>1, ClaimsAssumption
      <4>3. held[j - 1][name] \subseteq held[j][file.body[j].target]
        <5> HIDE DEF function, name
        <5> QED
          BY <2>1, <2>2, <4>1, <4>2, HeldByTarget
      <4> QED
        BY <4>1, <4>3
    <3> QED
      BY <3>1, <3>2
  <2>6. Hands(i)
    BY <2>1, <2>2, <2>4, <2>5
  <2> QED
    BY <2>2, <2>6 DEF i
<1> HIDE DEF C
<1>5. Reaching(uses, sink) \subseteq C
  BY <1>1, <1>3, <1>4, ReachingLeast
<1>6. Visited(file, sink) \subseteq C
  BY <1>5 DEF Visited
<1> QED
  BY <1>6 DEF C

(* A parameter that the checker finds reaches the sink, unless it is assigned. *)
LEMMA ParameterReaches ==
    ASSUME NEW file \in Snapshots, NEW sink \in Lines, file.body[sink].kind = "sink",
           NEW name \in ReachedParameters(file, sink),
           ~Assigned(file, name, Function(file, sink) + 1, sink - 1)
    PROVE  name \in Flow(file, Function(file, sink), sink)
<1> DEFINE function == Function(file, sink)
           held == Held(file, function, sink - 1)
           flow == Flow(file, function, sink)
<1>1. sink \in Nat \ {0} /\ sink - 1 \in 0 .. Length /\ function \in 0 .. sink - 1
  BY FunctionOfSink, ClaimsAssumption DEF Lines
<1>2. PICK l \in Visited(file, sink) : name \in Loaded(file, l)
  BY DEF ReachedParameters
<1>3. name \in Parameters(file, function)
  BY DEF ReachedParameters
<1>4. \/ l = sink
      \/ /\ l \in function + 1 .. sink - 1 /\ IsAssignment(file.body[l])
         /\ held[l][file.body[l].target] \subseteq flow
  BY VisitedReaches
<1>5. l \in Lines
  BY <1>1, <1>4, ClaimsAssumption DEF Lines
<1>6. name \in Variables
  BY <1>2, <1>5, StatementIs DEF Loaded
<1>7. ASSUME NEW j \in function .. sink - 1
      PROVE  name \in held[j][name]
  <2>1. ~Assigned(file, name, function + 1, j)
    BY <1>1 DEF Assigned
  <2>2. held[j][name] = held[function][name]
    <3>1. function \in Nat /\ function \in function .. sink - 1
      BY <1>1
    <3> HIDE DEF function
    <3> QED
      BY <1>1, <1>6, <2>1, <3>1, HeldStays
  <2>3. held[function][name] = {name} \cap Parameters(file, function)
    <3>1. function \in Nat /\ function <= sink - 1
      BY <1>1
    <3> HIDE DEF function
    <3> QED
      BY <1>1, <1>6, <3>1, HeldFirst
  <2> QED
    BY <1>3, <2>2, <2>3
<1>8. CASE l = sink
  <2>1. name \in file.body[sink].loads
    BY <1>2, <1>8 DEF Loaded
  <2>2. name \in held[sink - 1][name]
    BY <1>1, <1>7
  <2> QED
    BY <2>1, <2>2 DEF Flow
<1>9. CASE l # sink
  <2>1. /\ l \in function + 1 .. sink - 1 /\ IsAssignment(file.body[l])
        /\ held[l][file.body[l].target] \subseteq flow
    BY <1>4, <1>9
  <2>2. held[l - 1][name] \subseteq held[l][file.body[l].target]
    <3>1. function \in Nat
      BY <1>1
    <3> HIDE DEF function
    <3> QED
      BY <1>1, <1>2, <1>5, <2>1, <3>1, HeldByTarget
  <2>3. name \in held[l - 1][name]
    BY <1>1, <1>7, <2>1
  <2> QED
    BY <2>1, <2>2, <2>3
<1> QED
  BY <1>8, <1>9

(* A declaration that the checker finds reaches the sink, unless its variable is
   assigned again. *)
LEMMA DeclarationReaches ==
    ASSUME NEW file \in Snapshots, NEW sink \in Lines, NEW name \in file.body[sink].loads,
           NEW l \in Declarations(file, name, sink),
           ~Assigned(file, name, l + 1, sink - 1)
    PROVE  l \in Flow(file, 0, sink) /\ name = file.body[l].target
<1> DEFINE held == Held(file, 0, sink - 1)
<1>1. /\ l \in 1 .. sink - 1 /\ IsAssignment(file.body[l])
      /\ file.body[l].target = name
  BY DEF Declarations, IsAssignment
<1>2. sink - 1 \in 0 .. Length /\ l \in Lines /\ l \in 0 + 1 .. sink - 1
      /\ l \in 0 .. sink - 1 /\ sink - 1 \in l .. sink - 1 /\ 0 \in Nat
  BY <1>1, ClaimsAssumption DEF Lines
<1>3. name \in Variables
  BY StatementIs
<1>4. l \in held[l][name]
  BY <1>1, <1>2, HeldByTarget
<1>5. held[sink - 1][name] = held[l][name]
  BY <1>2, <1>3, HeldStays
<1> QED
  BY <1>1, <1>4, <1>5 DEF Flow

(* The claims about a sink quote lines, and one source. *)
LEMMA ForgedIs ==
    ASSUME NEW file \in Snapshots, NEW sink \in Lines, NEW slice \in Forged(file, sink)
    PROVE  \E source :
           /\ slice.sink = sink /\ slice.sources = {source}
           /\ \A item \in slice.path :
                item = source \/ \E l \in 1 .. sink : item = Quote(file, l)
<1>1. PICK source, lines : lines \subseteq 1 .. sink /\ slice = Claimed(file, sink, source, lines)
  BY DEF Forged
<1>2. /\ slice.sink = sink /\ slice.sources = {source}
      /\ slice.path = {source} \cup {Quote(file, l) : l \in lines}
  BY <1>1 DEF NoSink, Claimed
<1> QED
  BY <1>1, <1>2

(* What the checker verifies of a Python claim. *)
LEMMA PythonReaches ==
    ASSUME NEW file \in Snapshots, NEW sink \in Lines, file.body[sink].kind = "sink",
           NEW slice \in Forged(file, sink), PythonVerdict(file, slice) = "verified",
           NEW item \in slice.path
    PROVE  IF item.parameter = None
           THEN \/ item.line \in {sink} \cup Flow(file, Function(file, sink), sink)
                \/ /\ item.line = Function(file, sink)
                   /\ \E n \in Parameters(file, item.line) : Arrives(file, item.line, n, sink)
           ELSE Arrives(file, item.line, item.parameter, sink)
<1> DEFINE function == Function(file, sink)
<1>1. slice.sink = sink
  BY ForgedIs
<1>2. PathCloses(file, slice)
  BY DEF PythonVerdict, Verdict
<1>3. ASSUME NEW n \in ReachedParameters(file, sink)
      PROVE  n \in Parameters(file, function) /\ Arrives(file, function, n, sink)
  BY ParameterReaches DEF Arrives, ReachedParameters
<1>4. CASE item.parameter = None
  <2>1. item.line \in Closure(file, sink)
    BY <1>1, <1>2, <1>4 DEF PathCloses
  <2>2. CASE item.line \in Visited(file, sink) /\ item.line # sink
    <3>1. PICK l \in Visited(file, sink) : l = item.line
      BY <2>2
    <3>2. /\ l \in function + 1 .. sink - 1 /\ IsAssignment(file.body[l])
          /\ Held(file, function, sink - 1)[l][file.body[l].target]
                 \subseteq Flow(file, function, sink)
      BY <2>2, <3>1, VisitedReaches
    <3>3. sink \in Nat \ {0} /\ function \in 0 .. sink - 1 /\ sink - 1 \in 0 .. Length
      BY FunctionOfSink, ClaimsAssumption DEF Lines
    <3>4. l \in Lines /\ function \in Nat
      BY <3>2, <3>3, ClaimsAssumption DEF Lines
    <3> HIDE DEF function
    <3>5. l \in Held(file, function, sink - 1)[l][file.body[l].target]
      BY <3>2, <3>3, <3>4, HeldByTarget
    <3> QED
      BY <1>4, <3>1, <3>2, <3>5 DEF function
  <2>3. CASE item.line \notin Visited(file, sink)
    <3>1. item.line = function /\ ReachedParameters(file, sink) # {}
      BY <2>1, <2>3 DEF Closure
    <3> QED
      BY <1>3, <1>4, <3>1
  <2> QED
    BY <1>4, <2>2, <2>3
<1>5. CASE item.parameter # None
  <2>1. item \in slice.sources
    BY <1>5, ForgedIs DEF Quote
  <2>2. item.parameter \in ReachedParameters(file, sink) /\ item.line = function
    BY <1>1, <1>2, <1>5, <2>1 DEF PathCloses
  <2> QED
    BY <1>3, <1>5, <2>2
<1> QED
  BY <1>4, <1>5

(* And in JavaScript, Java and Ruby. *)
LEMMA ShapeReaches ==
    ASSUME NEW file \in Snapshots, NEW sink \in Lines, NEW slice \in Forged(file, sink),
           NEW item \in slice.sources,
           \/ ArgumentQuoted(file, slice) \/ DeclarationQuoted(file, slice)
           \/ file.body[sink].loads = {Request} /\ Property(sink) \in slice.sources
    PROVE  \/ item = Property(item.line) /\ file.body[sink].loads = {Request}
           \/ item.line \in Flow(file, 0, sink)
           \/ Assigned(file, file.body[item.line].target, item.line + 1, sink - 1)
<1>1. slice.sink = sink /\ \A other \in slice.sources : other = item
  BY ForgedIs
<1>2. CASE \/ ArgumentQuoted(file, slice)
           \/ file.body[sink].loads = {Request} /\ Property(sink) \in slice.sources
  <2>1. file.body[sink].loads = {Request}
    BY <1>1, <1>2 DEF ArgumentQuoted
  <2>2. \E other \in slice.sources : other = Property(other.line)
    BY <1>2 DEF ArgumentQuoted, Property
  <2> QED
    BY <1>1, <2>1, <2>2
<1>3. CASE DeclarationQuoted(file, slice)
  <2>1. PICK n \in file.body[sink].loads, l \in Lines :
            l \in Declarations(file, n, sink) /\ Quote(file, l) \in slice.sources
    BY <1>1, <1>3 DEF DeclarationQuoted
  <2>2. item.line = l
    BY <1>1, <2>1 DEF Quote
  <2>3. file.body[l].target = n
    BY <2>1 DEF Declarations
  <2> QED
    BY <2>1, <2>2, <2>3, DeclarationReaches
<1> QED
  BY <1>2, <1>3

(* The checker trusts nothing: whatever a producer claims about a sink, what the
   checker verifies is true of an execution of the file, for any file.  The lines
   of the path hand a value on to the sink, and so does the source, but for
   a reassignment that the checker does not look for. *)
THEOREM VerifiedIsReached == Spec => []VerifiedReachesSink
<1>1. Spec => []ClaimsInv
  BY InitClaims, ClaimsInductive, PTL DEF Spec
<1>2. ASSUME ClaimsInv PROVE VerifiedReachesSink
  <2> DEFINE file == Latest
  <2>1. file \in Snapshots
    BY <1>2 DEF ClaimsInv, TypeOK, Latest
  <2> HIDE DEF file
  <2>2. SUFFICES ASSUME NEW sink \in {l \in Lines : file.body[l].kind = "sink"},
                        NEW slice \in Forged(file, sink), VerdictOn(file, slice) = "verified"
        PROVE  IF file.language = "python"
               THEN \A item \in slice.path :
                       IF item.parameter = None
                       THEN \/ item.line \in {sink} \cup Flow(file, Function(file, sink), sink)
                            \/ /\ item.line = Function(file, sink)
                               /\ \E n \in Parameters(file, item.line) :
                                    Arrives(file, item.line, n, sink)
                       ELSE Arrives(file, item.line, item.parameter, sink)
               ELSE \A item \in slice.sources :
                       \/ item = Property(item.line) /\ file.body[sink].loads = {Request}
                       \/ item.line \in Flow(file, 0, sink)
                       \/ Assigned(file, file.body[item.line].target, item.line + 1, sink - 1)
    BY DEF VerifiedReachesSink, file
  <2>3. sink \in Lines /\ file.body[sink].kind = "sink"
    OBVIOUS
  <2>4. CASE file.language = "python"
    <3>1. PythonVerdict(file, slice) = "verified"
      BY <2>2, <2>4 DEF VerdictOn
    <3> QED
      BY <2>1, <2>3, <2>4, <3>1, PythonReaches
  <2>5. CASE file.language # "python"
    <3>1. file.language \in {"javascript", "java", "ruby"}
      BY <2>1, <2>5 DEF Snapshots
    <3>2. slice.sink = sink
      BY <2>1, <2>3, ForgedIs
    <3>3. \/ ArgumentQuoted(file, slice) \/ DeclarationQuoted(file, slice)
          \/ file.body[sink].loads = {Request} /\ Property(sink) \in slice.sources
      BY <2>2, <3>1, <3>2 DEF VerdictOn, JavaScriptVerdict, JavaVerdict, RubyVerdict, Verdict
    <3> QED
      BY <2>1, <2>3, <2>5, <3>3, ShapeReaches
  <2> QED
    BY <2>4, <2>5
<1> QED
  BY <1>1, <1>2, PTL

=============================================================================
