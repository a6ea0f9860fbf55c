---------------------------- MODULE IngestionProofs ----------------------------
(***************************************************************************)
(* What TLAPS proves of Migrations and Ingestion, for every set of scripts *)
(* of any length, of commands and of sources, and any number of jobs,      *)
(* edits, failures and deaths.                                             *)
(***************************************************************************)
EXTENDS Ingestion, WellFoundedInduction, TLAPS

OpeningType ==
    [pc : {"closed", "script", "open"}, already : SUBSET Versions,
     version : Versions \cup {0}, statement : Nat \ {0}]

RowType == [repo : Repos, source : Sources, commit : Contents]

-----------------------------------------------------------------------------
(* The schema *)

LEMMA LeastVersion ==
    ASSUME NEW S, S \subseteq Nat, S # {}
    PROVE  Min(S) \in S /\ \A v \in S : Min(S) <= v
<1> DEFINE R == OpToRel(<, Nat)
<1>1. /\ \A x, y \in Nat : x < y => <<x, y>> \in R
      /\ IsWellFoundedOn(R, Nat)
  BY NatLessThanWellFounded DEF OpToRel
<1> HIDE DEF R
<1>2. PICK m \in S : \A v \in S : <<v, m>> \notin R
  <2>1. IsWellFoundedOn(R, Nat)
    BY <1>1
  <2>2. QED BY <2>1, WFMin
<1>3. ASSUME NEW v \in S PROVE m <= v
  <2>1. ~(v < m)
    BY <1>1, <1>2
  <2>2. m \in Int /\ v \in Int
    OBVIOUS
  <2>3. QED BY <2>1, <2>2
<1>4. QED BY <1>3 DEF Min

LEMMA NextIsFirst ==
    ASSUME NEW already
    PROVE  \/ NextVersion(already) = 0
           \/ /\ NextVersion(already) # 0
              /\ NextVersion(already) \in Versions
              /\ \A w \in Versions : w < NextVersion(already) => w \in already
<1>1. CASE Versions \subseteq already
  BY <1>1 DEF NextVersion
<1>2. CASE ~(Versions \subseteq already)
  <2> DEFINE S == Versions \ already
             m == Min(S)
  <2>1. m \in S /\ \A v \in S : m <= v
    BY <1>2, LeastVersion, MigrationsAssumption
  <2>2. NextVersion(already) = m
    BY <1>2 DEF NextVersion
  <2>3. \A w \in Versions : w < m => w \in already
    <3> SUFFICES ASSUME NEW w \in Versions, w < m, w \notin already PROVE FALSE
      OBVIOUS
    <3> HIDE DEF m
    <3>1. m <= w /\ m \in Nat /\ w \in Nat
      BY <2>1, MigrationsAssumption
    <3>2. QED BY <3>1
  <2>4. m # 0
    BY <2>1, MigrationsAssumption
  <2>5. QED BY <2>1, <2>2, <2>3, <2>4
<1>3. QED BY <1>1, <1>2

(* What counts as executed, and where one command stands in terms of it. *)
Effects == executed \cup undone

Through(v, I, effects) == \A i \in I : <<v, i>> \in Lasting => <<v, i>> \in effects

Standing(x, effects, known) ==
    /\ x \in OpeningType
    /\ x.already \subseteq known
    /\ x.pc = "script" =>
        /\ x.version \in Versions
        /\ Through(x.version, 1 .. x.statement - 1, effects)
        /\ \A w \in Versions : w < x.version => w \in x.already

SetsOK(done, known, twice, dead) ==
    /\ done \subseteq Statements /\ twice \subseteq Statements
    /\ known \subseteq Versions /\ dead \subseteq Versions

LEMMA SchemaInvIs ==
    SchemaInv <=> /\ SetsOK(executed, recorded, undone, cut)
                  /\ opening \in [Procs -> OpeningType]
                  /\ \A p \in Procs : Standing(opening[p], Effects, recorded)
                  /\ RecordedIsApplied
BY DEF SchemaInv, SchemaTypeOK, SetsOK, Standing, Through, Effects, Migrating, InEffect,
       OpeningType

LEMMA ClosedStands ==
    ASSUME NEW effects, NEW known
    PROVE  Standing(Closed, effects, known)
BY MigrationsAssumption DEF Standing, Closed, OpeningType

LEMMA StandsOn ==
    ASSUME NEW x, NEW effects, NEW known, NEW effects1, NEW known1,
           Standing(x, effects, known), effects \subseteq effects1, known \subseteq known1
    PROVE  Standing(x, effects1, known1)
BY DEF Standing, Through

(* A step of one command that leaves the others where they stand ... *)
LEMMA OneMoves ==
    ASSUME SchemaInv, NEW p \in Procs, NEW x,
           opening' = [opening EXCEPT ![p] = x], Standing(x, Effects', recorded'),
           \A q \in Procs \ {p} : Standing(opening[q], Effects', recorded'),
           SetsOK(executed', recorded', undone', cut'), RecordedIsApplied'
    PROVE  SchemaInv'
<1>1. x \in OpeningType
  BY DEF Standing
<1>2. opening' \in [Procs -> OpeningType]
  BY <1>1, SchemaInvIs
<1>3. ASSUME NEW q \in Procs PROVE Standing(opening'[q], Effects', recorded')
  <2>1. CASE q = p
    BY <2>1, SchemaInvIs
  <2>2. CASE q # p
    <3>1. opening'[q] = opening[q]
      BY <2>2, SchemaInvIs
    <3>2. QED BY <2>2, <3>1
  <2>3. QED BY <2>1, <2>2
<1>4. QED
  BY <1>2, <1>3 DEF SchemaInv, SchemaTypeOK, SetsOK, Standing, Through, Effects, Migrating,
                    InEffect, OpeningType

(* ... as it does when nothing is lost of what is there. *)
LEMMA OneMovesOn ==
    ASSUME SchemaInv, NEW p \in Procs, NEW x,
           opening' = [opening EXCEPT ![p] = x], Standing(x, Effects', recorded'),
           executed' = executed, undone' = undone, recorded \subseteq recorded',
           SetsOK(executed', recorded', undone', cut'), RecordedIsApplied'
    PROVE  SchemaInv'
<1>1. Effects' = Effects
  BY DEF Effects
<1>2. \A q \in Procs \ {p} : Standing(opening[q], Effects, recorded)
  BY SchemaInvIs
<1>3. ASSUME NEW q \in Procs \ {p} PROVE Standing(opening[q], Effects', recorded')
  <2>1. Standing(opening[q], Effects, recorded) /\ Effects \subseteq Effects'
    BY <1>1, <1>2
  <2>2. QED BY <2>1, StandsOn
<1>4. QED BY <1>3, OneMoves

LEMMA TurnStands ==
    ASSUME SchemaInv, NEW p \in Procs, NEW already, already \subseteq recorded',
           Turn(p, already), executed' = executed, undone' = undone,
           recorded \subseteq recorded', recorded' \subseteq Versions, cut' = cut,
           RecordedIsApplied'
    PROVE  SchemaInv'
<1> DEFINE next == NextVersion(already)
           x == [pc |-> IF next = 0 THEN "open" ELSE "script",
                 already |-> already, version |-> next, statement |-> 1]
<1>1. opening' = [opening EXCEPT ![p] = x]
  BY DEF Turn
<1>2. Standing(x, Effects', recorded')
  <2>1. next = 0 \/ (/\ next # 0
                     /\ next \in Versions
                     /\ \A w \in Versions : w < next => w \in already)
    BY NextIsFirst
  <2> HIDE DEF next
  <2>2. 1 .. x.statement - 1 = {}
    OBVIOUS
  <2>3. x \in OpeningType
    BY <2>1 DEF OpeningType
  <2>4. QED BY <2>1, <2>2, <2>3 DEF Standing, Through
<1>3. QED
  <2> HIDE DEF x
  <2>1. SetsOK(executed', recorded', undone', cut')
    BY SchemaInvIs DEF SetsOK
  <2>2. QED BY <1>1, <1>2, <2>1, OneMovesOn

LEMMA OpenKeeps ==
    ASSUME SchemaInv, NEW p \in Procs, Open(p)
    PROVE  SchemaInv'
<1>1. /\ Turn(p, recorded)
      /\ executed' = executed /\ recorded' = recorded
      /\ undone' = undone /\ cut' = cut
  BY DEF Open
<1>2. RecordedIsApplied' /\ recorded' \subseteq Versions
  BY <1>1, SchemaInvIs DEF RecordedIsApplied, InEffect, SetsOK
<1>3. QED BY <1>1, <1>2, TurnStands

(* A command may execute its next statement. *)
LEMMA AtStatement ==
    ASSUME SchemaInv, NEW p \in Procs, Execute(p), NEW v, NEW j,
           v = opening[p].version, j = opening[p].statement
    PROVE  /\ v \in Versions /\ v \in Nat /\ j \in Nat \ {0}
           /\ <<v, j>> \in Statements
           /\ opening[p] \in OpeningType /\ opening[p].pc = "script"
<1>1. /\ Standing(opening[p], Effects, recorded)
      /\ opening[p].pc = "script" /\ j <= Size[v]
  BY SchemaInvIs DEF Execute
<1>2. /\ opening[p] \in OpeningType /\ v \in Versions
      /\ v \in Nat /\ j \in Nat \ {0} /\ Size[v] \in Nat
  BY <1>1, MigrationsAssumption DEF Standing, OpeningType
<1>3. j \in 1 .. Size[v]
  BY <1>1, <1>2
<1>4. QED BY <1>1, <1>2, <1>3 DEF Statements

(* What a statement takes away from a script that is on record, that another command
   is at, or that it comes later in, counts as undone, or does not last. *)
LEMMA NothingLost ==
    ASSUME SchemaInv, NEW p \in Procs, Execute(p), NEW it, NEW v, NEW i \in Nat,
           it = <<opening[p].version, opening[p].statement>>,
           executed' = (executed \ Undoes[it]) \cup {it},
           undone' = undone \cup IF Repeats(p) THEN Undoes[it] \cap executed ELSE {},
           <<v, i>> \in Lasting, <<v, i>> \in Effects,
           \/ v \in recorded
           \/ \E q \in Procs \ {p} : opening[q].pc = "script" /\ opening[q].version = v
           \/ v = opening[p].version /\ i < opening[p].statement
    PROVE  <<v, i>> \in Effects'
<1> SUFFICES ASSUME <<v, i>> \in executed, <<v, i>> \in Undoes[it], ~Repeats(p)
             PROVE  FALSE
  BY DEF Effects
<1> DEFINE w == opening[p].version
           j == opening[p].statement
<1>1. /\ w \in Versions /\ w \in Nat /\ j \in Nat /\ it \in Statements
      /\ it[1] = w /\ it[2] = j
  BY AtStatement
<1>2. v \in Versions /\ v \in Nat
  BY MigrationsAssumption DEF Lasting, Statements
<1>3. ~After(it, <<v, i>>)
  BY <1>1 DEF Lasting
<1>4. w < v \/ (w = v /\ j <= i)
  <2>1. ~(v < w) /\ ~(v = w /\ i < j)
    BY <1>1, <1>3 DEF After
  <2> HIDE DEF w, j
  <2>2. QED BY <1>1, <1>2, <2>1
<1>5. w \notin recorded /\ ~\E q \in Procs \ {p} : /\ opening[q].pc = "script"
                                                 /\ opening[q].version = w
  BY DEF Repeats
<1>6. v \notin recorded
  <2>1. v \in recorded => \A u \in Versions : u < v => u \in recorded
    BY SchemaInvIs DEF RecordedIsApplied
  <2> HIDE DEF w, j
  <2>2. QED BY <1>1, <1>4, <1>5, <2>1
<1>7. ~\E q \in Procs \ {p} : opening[q].pc = "script" /\ opening[q].version = v
  <2> SUFFICES ASSUME NEW q \in Procs \ {p}, opening[q].pc = "script",
                      opening[q].version = v
               PROVE  FALSE
    OBVIOUS
  <2>1. Standing(opening[q], Effects, recorded)
    BY SchemaInvIs
  <2>2. w < v => w \in recorded
    BY <1>1, <2>1 DEF Standing
  <2>3. QED BY <1>4, <1>5, <2>2
<1>8. v = w /\ i < j
  BY <1>6, <1>7
<1> HIDE DEF w, j
<1>9. QED BY <1>1, <1>2, <1>4, <1>8

LEMMA ExecuteKeeps ==
    ASSUME SchemaInv, NEW p \in Procs, Execute(p)
    PROVE  SchemaInv'
<1>0. PICK y : y = opening[p]
  OBVIOUS
<1>a. PICK it : it = <<opening[p].version, opening[p].statement>>
  OBVIOUS
<1>1. /\ Standing(y, Effects, recorded) /\ y \in OpeningType /\ y.pc = "script"
      /\ it \in Statements /\ y.statement \in Nat \ {0} /\ y.version \in Versions
      /\ it = <<y.version, y.statement>>
  BY <1>0, <1>a, SchemaInvIs, AtStatement
<1>2. /\ recorded' = recorded /\ cut' = cut
      /\ SetsOK(executed, recorded, undone, cut) /\ RecordedIsApplied
  BY SchemaInvIs DEF Execute
<1>3. CASE Refuses(it, executed)
  <2>1. /\ opening' = [opening EXCEPT ![p] = Closed]
        /\ executed' = executed /\ undone' = undone
    BY <1>3, <1>a DEF Execute
  <2>2. SetsOK(executed', recorded', undone', cut')
    BY <1>2, <2>1 DEF SetsOK
  <2>3. RecordedIsApplied'
    BY <1>2, <2>1 DEF RecordedIsApplied, InEffect
  <2>4. Standing(Closed, Effects', recorded') /\ recorded \subseteq recorded'
    BY <1>2, ClosedStands
  <2>5. QED BY <2>1, <2>2, <2>3, <2>4, OneMovesOn
<1>4. CASE ~Refuses(it, executed)
  <2>1. PICK x : x = [y EXCEPT !.statement = y.statement + 1]
    OBVIOUS
  <2>2. /\ opening' = [opening EXCEPT ![p] = x]
        /\ executed' = (executed \ Undoes[it]) \cup {it}
        /\ undone' = undone \cup IF Repeats(p) THEN Undoes[it] \cap executed ELSE {}
    BY <1>4, <1>0, <1>a, <2>1 DEF Execute
  <2>3. SetsOK(executed', recorded', undone', cut')
    BY <1>1, <1>2, <2>2 DEF SetsOK
  <2>4. ASSUME NEW v, NEW I, I \subseteq Nat, Through(v, I, Effects),
               \/ v \in recorded
               \/ \E q \in Procs \ {p} : opening[q].pc = "script" /\ opening[q].version = v
               \/ v = opening[p].version /\ \A i \in I : i < opening[p].statement
        PROVE  Through(v, I, Effects')
    <3> SUFFICES ASSUME NEW i \in I, <<v, i>> \in Lasting PROVE <<v, i>> \in Effects'
      BY DEF Through
    <3>1. i \in Nat /\ <<v, i>> \in Effects
      BY <2>4 DEF Through
    <3>2. \/ v \in recorded
          \/ \E q \in Procs \ {p} : opening[q].pc = "script" /\ opening[q].version = v
          \/ v = opening[p].version /\ i < opening[p].statement
      BY <2>4
    <3>3. QED BY <1>a, <2>2, <3>1, <3>2, NothingLost
  <2>5. RecordedIsApplied'
    <3>1. ASSUME NEW v \in recorded PROVE Through(v, 1 .. Size[v], Effects')
      <4>1. Through(v, 1 .. Size[v], Effects)
        BY <1>2 DEF RecordedIsApplied, InEffect, Through, Effects
      <4>2. 1 .. Size[v] \subseteq Nat
        OBVIOUS
      <4>3. QED BY <2>4, <4>1, <4>2
    <3>2. QED BY <1>2, <3>1 DEF RecordedIsApplied, InEffect, Through, Effects
  <2>6. ASSUME NEW q \in Procs \ {p} PROVE Standing(opening[q], Effects', recorded')
    <3>1. Standing(opening[q], Effects, recorded)
      BY SchemaInvIs
    <3>2. opening[q].pc = "script" =>
              Through(opening[q].version, 1 .. opening[q].statement - 1, Effects')
      <4> SUFFICES ASSUME opening[q].pc = "script"
                   PROVE  Through(opening[q].version, 1 .. opening[q].statement - 1, Effects')
        OBVIOUS
      <4>1. Through(opening[q].version, 1 .. opening[q].statement - 1, Effects)
        BY <3>1 DEF Standing
      <4>2. 1 .. opening[q].statement - 1 \subseteq Nat
        OBVIOUS
      <4>3. QED BY <2>4, <4>1, <4>2
    <3>3. QED BY <1>2, <3>1, <3>2 DEF Standing
  <2>7. Standing(x, Effects', recorded')
    <3>1. /\ x \in OpeningType
          /\ x.already = y.already /\ x.version = y.version /\ x.pc = "script"
          /\ x.statement = y.statement + 1
      <4>1. y.statement + 1 \in Nat \ {0}
        BY <1>1
      <4>2. QED BY <1>1, <2>1, <4>1 DEF OpeningType
    <3>2. Through(y.version, 1 .. y.statement - 1, Effects')
      <4>1. Through(y.version, 1 .. y.statement - 1, Effects)
        BY <1>1 DEF Standing
      <4>2. 1 .. y.statement - 1 \subseteq Nat
        OBVIOUS
      <4>3. \A i \in 1 .. y.statement - 1 : i < y.statement
        BY <1>1
      <4>4. QED BY <1>0, <2>4, <4>1, <4>2, <4>3
    <3>3. it \in Effects'
      BY <2>2 DEF Effects
    <3>4. Through(x.version, 1 .. x.statement - 1, Effects')
      <4>1. \A i \in 1 .. x.statement - 1 : i = y.statement \/ i \in 1 .. y.statement - 1
        BY <1>1, <3>1
      <4>2. QED BY <1>1, <3>1, <3>2, <3>3, <4>1 DEF Through
    <3>5. QED BY <1>1, <1>2, <3>1, <3>4 DEF Standing
  <2>8. QED BY <2>2, <2>3, <2>5, <2>6, <2>7, OneMoves
<1>5. QED BY <1>3, <1>4

LEMMA RecordKeeps ==
    ASSUME SchemaInv, NEW p \in Procs, RecordVersion(p)
    PROVE  SchemaInv'
<1> DEFINE y == opening[p]
           version == y.version
<1>1. Standing(y, Effects, recorded) /\ y \in OpeningType
  BY SchemaInvIs DEF Standing
<1>2. y.pc = "script" /\ y.statement > Size[version]
  BY DEF RecordVersion
<1>3. /\ version \in Versions
      /\ Through(version, 1 .. y.statement - 1, Effects)
      /\ \A w \in Versions : w < version => w \in recorded
  BY <1>1, <1>2 DEF Standing
<1>4. /\ executed' = executed /\ undone' = undone /\ cut' = cut
      /\ recorded' = recorded \cup {version}
      /\ recorded' \subseteq Versions
      /\ SetsOK(executed', recorded', undone', cut')
  BY <1>3, SchemaInvIs DEF RecordVersion, SetsOK
<1>5. RecordedIsApplied'
  <2>1. InEffect(version, 1 .. Size[version])
    <3>1. y.statement \in Nat /\ Size[version] \in Nat
      BY <1>1, <1>3, MigrationsAssumption DEF OpeningType
    <3>2. \A i \in 1 .. Size[version] : i \in 1 .. y.statement - 1
      BY <1>2, <3>1
    <3>3. QED BY <1>3, <3>2 DEF InEffect, Through, Effects
  <2>2. RecordedIsApplied
    BY SchemaInvIs
  <2> HIDE DEF version
  <2>3. QED BY <1>3, <1>4, <2>1, <2>2 DEF RecordedIsApplied, InEffect
<1>6. CASE version \in recorded
  <2>1. opening' = [opening EXCEPT ![p] = Closed]
    BY <1>6 DEF RecordVersion
  <2>2. QED BY <1>4, <1>5, <2>1, ClosedStands, OneMovesOn
<1>7. CASE version \notin recorded
  <2>1. Turn(p, y.already \cup {version})
    BY <1>7 DEF RecordVersion
  <2>2. y.already \cup {version} \subseteq recorded'
    BY <1>1, <1>4 DEF Standing
  <2>3. QED BY <1>4, <1>5, <2>1, <2>2, TurnStands
<1>8. QED BY <1>6, <1>7

LEMMA CutKeeps ==
    ASSUME SchemaInv, NEW p \in Procs, CloseCut(p)
    PROVE  SchemaInv'
<1>1. /\ opening' = [opening EXCEPT ![p] = Closed]
      /\ executed' = executed /\ recorded' = recorded /\ undone' = undone
      /\ cut' = cut \cup {v \in {opening[p].version} : opening[p].pc = "script"}
  BY DEF CloseCut
<1>2. opening[p].pc = "script" => opening[p].version \in Versions
  BY SchemaInvIs DEF Standing
<1>3. SetsOK(executed', recorded', undone', cut')
  BY <1>1, <1>2, SchemaInvIs DEF SetsOK
<1>4. RecordedIsApplied'
  BY <1>1, SchemaInvIs DEF RecordedIsApplied, InEffect
<1>5. QED BY <1>1, <1>3, <1>4, ClosedStands, OneMovesOn

LEMMA SchemaSame ==
    ASSUME SchemaInv, UNCHANGED schemaVars
    PROVE  SchemaInv'
BY DEF schemaVars, SchemaInv, SchemaTypeOK, Migrating, RecordedIsApplied, InEffect

LEMMA SchemaStarts ==
    ASSUME Init
    PROVE  SchemaInv
<1>1. /\ executed = {} /\ recorded = {} /\ undone = {} /\ cut = {}
      /\ opening = [p \in Procs |-> Closed]
  BY DEF Init, SchemaInit
<1>2. \A p \in Procs : Standing(opening[p], Effects, recorded)
  BY <1>1, ClosedStands
<1>3. opening \in [Procs -> OpeningType]
  BY <1>1, <1>2 DEF Standing
<1>4. RecordedIsApplied /\ SetsOK(executed, recorded, undone, cut)
  BY <1>1 DEF RecordedIsApplied, SetsOK
<1>5. QED BY <1>2, <1>3, <1>4, SchemaInvIs

LEMMA SchemaNext ==
    ASSUME SchemaInv, [Next]_vars
    PROVE  SchemaInv'
<1>1. CASE UNCHANGED schemaVars
  BY <1>1, SchemaSame
<1>2. ASSUME NEW p \in Procs, OpenDatabase(p) PROVE SchemaInv'
  BY <1>2, OpenKeeps, ExecuteKeeps, RecordKeeps DEF OpenDatabase, SchemaStep
<1>3. ASSUME NEW p \in Procs, Crash(p) PROVE SchemaInv'
  BY <1>3, CutKeeps DEF Crash
<1>4. ASSUME NEW o \in Origins, Edit(o) \/ Commit(o) PROVE UNCHANGED schemaVars
  BY <1>4 DEF Edit, Commit
<1>5. ASSUME NEW p \in Procs, NEW s \in Sources, NEW v \in Views, Resolve(p, s, v)
      PROVE  UNCHANGED schemaVars
  BY <1>5 DEF Resolve
<1>6. ASSUME NEW p \in Procs,
             \/ Prepare(p) \/ Refuse(p) \/ Reuse(p)
             \/ BeginCopy(p) \/ EndCopy(p) \/ RecordSnapshot(p)
      PROVE  UNCHANGED schemaVars
  BY <1>6 DEF Prepare, Refuse, Reuse, BeginCopy, EndCopy, RecordSnapshot
<1>7. UNCHANGED vars => UNCHANGED schemaVars
  BY DEF vars
<1>8. QED BY <1>1, <1>2, <1>3, <1>4, <1>5, <1>6, <1>7 DEF Next, Step

(* A version on record stands for every earlier one and for the lasting effects of
   its script, any number of commands in init_db at once, except for what a script
   that is executed again has undone: so for as long as no such script is. *)
THEOREM SchemaIsApplied == Spec => []RecordedIsApplied
<1>1. Init => SchemaInv
  BY SchemaStarts
<1>2. SchemaInv /\ [Next]_vars => SchemaInv'
  BY SchemaNext
<1>3. SchemaInv => RecordedIsApplied
  BY DEF SchemaInv
<1>4. QED BY <1>1, <1>2, <1>3, PTL DEF Spec

-----------------------------------------------------------------------------
(* Types, and where the commands stand *)

Seen(s, o) == \E v \in Views : o = Identity[v][s]

Fits(x) ==
    /\ x \in JobType
    /\ x.pc # "idle" => x.source \in Sources /\ x.repo \in Repos /\ Seen(x.source, x.origin)
    /\ x.pc \in {"look", "copy", "record"} => x.key \in Contents

HeldOK(h) == h \in [Origins -> [tree : Contents, head : Contents, mtime : 1 .. MaxEdits]]
ClonesOK(c) ==
    c \in [Repos -> DirType] /\ \A r \in Repos : c[r] = NoDir \/ c[r].content \in Contents
DirsOK(ds) ==
    /\ ds \in [Repos \X Contents -> DirType]
    /\ \A d \in Repos \X Contents : ds[d].content = None => ds[d] = NoDir
JobsOK(j) == j \in [Procs -> JobType] /\ \A p \in Procs : Fits(j[p])
MarksOK(f, c) == f \subseteq Repos \X Contents /\ c \subseteq Repos
CountsOK(js, es, cs) == js \in 0 .. MaxJobs /\ es \in 1 .. MaxEdits /\ cs \in 0 .. MaxCrashes

LEMMA SteadyIs ==
    Steady <=> /\ SchemaTypeOK
               /\ HeldOK(held) /\ ClonesOK(clones) /\ DirsOK(dirs)
               /\ rows \in Seq(RowType)
               /\ JobsOK(job)
               /\ MarksOK(flawed, contested) /\ CountsOK(jobs, edits, crashes)
BY DEF Steady, TypeOK, Engaged, Fits, Seen, HeldOK, ClonesOK, DirsOK, JobsOK, MarksOK,
       CountsOK, RowType

LEMMA SteadyAgain ==
    ASSUME SchemaTypeOK', HeldOK(held'), ClonesOK(clones'), DirsOK(dirs'),
           rows' \in Seq(RowType), JobsOK(job'),
           MarksOK(flawed', contested'), CountsOK(jobs', edits', crashes')
    PROVE Steady'
BY DEF Steady, TypeOK, Engaged, Fits, Seen, HeldOK, ClonesOK, DirsOK, JobsOK, MarksOK,
       CountsOK, RowType

LEMMA IdleFits == Fits(Idle)
BY DEF Fits, Idle, JobType

LEMMA NoDirIsDir == NoDir \in DirType
BY IngestionAssumption DEF NoDir, DirType

LEMMA JobMoves ==
    ASSUME JobsOK(job), NEW p \in Procs, NEW x, Fits(x),
           job' = [job EXCEPT ![p] = x]
    PROVE  JobsOK(job')
BY DEF JobsOK, Fits

LEMMA Fit ==
    ASSUME JobsOK(job), NEW p \in Procs, job[p].pc # "idle"
    PROVE  /\ Fits(job[p])
           /\ job[p].source \in Sources /\ job[p].repo \in Repos /\ job[p].origin \in Origins
           /\ job[p].pc \in {"look", "copy", "record"} =>
                 job[p].key \in Contents /\ At(p) \in Repos \X Contents
BY DEF JobsOK, Fits, At, Seen, Origins

LEMMA JobGoesOn ==
    ASSUME JobsOK(job), NEW p \in Procs, job[p].pc \in {"look", "copy", "record"},
           NEW pc \in {"copy", "record"}, job' = [job EXCEPT ![p].pc = pc]
    PROVE  JobsOK(job')
<1>1. PICK x : x = [job[p] EXCEPT !.pc = pc]
  OBVIOUS
<1>2. job' = [job EXCEPT ![p] = x]
  BY <1>1
<1>3. Fits(x)
  BY <1>1 DEF JobsOK, Fits, JobType
<1>4. QED BY <1>2, <1>3, JobMoves

LEMMA CleanUpTyped ==
    ASSUME ClonesOK(clones), NEW p \in Procs, CleanUp(p)
    PROVE  ClonesOK(clones')
BY NoDirIsDir DEF ClonesOK, CleanUp

LEMMA DirMade ==
    ASSUME DirsOK(dirs), NEW d \in Repos \X Contents, NEW x \in DirType, x.content # None,
           dirs' = [dirs EXCEPT ![d] = x]
    PROVE  DirsOK(dirs')
BY DEF DirsOK

(* What the upsert leaves: rows that were there, and the one it wrote. *)
LEMMA UpsertedIs ==
    ASSUME rows \in Seq(RowType), NEW row \in RowType
    PROVE  /\ Upserted(row) \in Seq(RowType)
           /\ \A i \in DOMAIN Upserted(row) :
                \/ Upserted(row)[i] = row
                \/ i \in DOMAIN rows /\ Upserted(row)[i] = rows[i]
<1> DEFINE Same(i) == rows[i].repo = row.repo /\ rows[i].commit = row.commit
<1>1. CASE \E i \in DOMAIN rows : Same(i)
  <2> DEFINE new == [i \in DOMAIN rows |-> IF Same(i) THEN row ELSE rows[i]]
  <2>1. Upserted(row) = new
    BY <1>1 DEF Upserted
  <2>2. DOMAIN rows = 1 .. Len(rows) /\ Len(rows) \in Nat
    OBVIOUS
  <2>3. \A i \in DOMAIN rows : new[i] = row \/ new[i] = rows[i]
    OBVIOUS
  <2>4. \A i \in 1 .. Len(rows) : new[i] \in RowType
    BY <2>2, <2>3
  <2>5. new \in [1 .. Len(rows) -> RowType]
    BY <2>2, <2>4
  <2>6. new \in Seq(RowType)
    BY <2>2, <2>5
  <2>7. QED BY <2>1, <2>3, <2>6
<1>2. CASE ~\E i \in DOMAIN rows : Same(i)
  <2>1. Upserted(row) = Append(rows, row)
    BY <1>2 DEF Upserted
  <2>2. QED BY <2>1
<1>3. QED BY <1>1, <1>2

LEMMA SteadyStarts ==
    ASSUME Init
    PROVE Steady
<1>1. SchemaTypeOK
  BY SchemaStarts DEF SchemaInv
<1>2. HeldOK(held) /\ CountsOK(jobs, edits, crashes)
  BY IngestionAssumption DEF Init, HeldOK, CountsOK
<1>3. ClonesOK(clones) /\ DirsOK(dirs)
  BY NoDirIsDir DEF Init, ClonesOK, DirsOK
<1>4. JobsOK(job)
  BY IdleFits DEF Init, JobsOK, Fits
<1>5. rows \in Seq(RowType) /\ MarksOK(flawed, contested)
  BY DEF Init, MarksOK
<1>6. QED BY <1>1, <1>2, <1>3, <1>4, <1>5, SteadyIs

LEMMA ResolvedIs ==
    ASSUME NEW s \in Sources, NEW requested \in Names \cup {None}, NEW v \in Views,
           Resolved(s, requested, v) # None
    PROVE  /\ Resolved(s, requested, v) \in Repos
           /\ Free(Resolved(s, requested, v), s, v)
<1> DEFINE candidate == IF requested = None THEN Slug[s] ELSE requested
           hashed == Hashed[Slug[s]][Identity[v][s]]
<1>1. candidate \in Repos /\ hashed \in Repos
  BY DEF Repos, Names, Origins
<1>2. CASE Free(candidate, s, v)
  <2>1. Resolved(s, requested, v) = candidate
    BY <1>2 DEF Resolved
  <2>2. QED BY <1>1, <1>2, <2>1
<1>3. CASE ~Free(candidate, s, v) /\ requested = None /\ Free(hashed, s, v)
  <2>1. Resolved(s, requested, v) = hashed
    BY <1>3 DEF Resolved
  <2>2. QED BY <1>1, <1>3, <2>1
<1>4. CASE ~Free(candidate, s, v) /\ ~(requested = None /\ Free(hashed, s, v))
  <2>1. Resolved(s, requested, v) = None
    BY <1>4 DEF Resolved
  <2>2. QED BY <2>1
<1>5. QED BY <1>2, <1>3, <1>4

(* What Resolve does to the jobs. *)
Started(s, o, r) == [pc |-> "prepare", source |-> s, origin |-> o, repo |-> r, key |-> None]

ShareId(p, r, o) ==
    {x \in {r} : \E q \in Procs \ {p} : job[q].repo = x /\ job[q].origin # o}

LEMMA ResolveMoves ==
    ASSUME NEW p \in Procs, NEW s \in Sources, NEW v \in Views, Resolve(p, s, v),
           NEW o, o = Identity[v][s]
    PROVE  \/ job' = job /\ contested' = contested
           \/ \E r \in Repos :
                /\ Free(r, s, v)
                /\ job' = [job EXCEPT ![p] = Started(s, o, r)]
                /\ contested' = contested \cup ShareId(p, r, o)
<1>1. PICK requested \in Names \cup {None} :
        LET repo == Resolved(s, requested, v)
            origin == Identity[v][s]
        IN  IF repo = None \/ Kind[origin] = "nothing"
            THEN UNCHANGED <<job, contested>>
            ELSE /\ job' = [job EXCEPT ![p] = [pc |-> "prepare", source |-> s, origin |-> origin,
                                              repo |-> repo, key |-> None]]
                 /\ contested' = contested \cup {r \in {repo} :
                        \E q \in Procs \ {p} : job[q].repo = r /\ job[q].origin # origin}
  BY DEF Resolve
<1> DEFINE repo == Resolved(s, requested, v)
<1>2. repo # None => repo \in Repos /\ Free(repo, s, v)
  BY ResolvedIs
<1> HIDE DEF repo
<1>3. CASE repo = None \/ Kind[o] = "nothing"
  BY <1>1, <1>3 DEF repo
<1>4. CASE ~(repo = None \/ Kind[o] = "nothing")
  <2>1. /\ job' = [job EXCEPT ![p] = Started(s, o, repo)]
        /\ contested' = contested \cup ShareId(p, repo, o)
    BY <1>1, <1>4 DEF repo, Started, ShareId
  <2>2. QED BY <1>2, <1>4, <2>1
<1>5. QED BY <1>3, <1>4

LEMMA SteadyNext ==
    ASSUME Steady, SchemaTypeOK', Next
    PROVE Steady'
<1> DEFINE Rest == UNCHANGED <<held, clones, dirs, rows, job, flawed, contested, jobs, edits, crashes>>
<1>0. /\ HeldOK(held) /\ ClonesOK(clones) /\ DirsOK(dirs) /\ rows \in Seq(RowType)
      /\ JobsOK(job) /\ MarksOK(flawed, contested) /\ CountsOK(jobs, edits, crashes)
  BY SteadyIs
<1>a. /\ MaxJobs \in Nat /\ MaxEdits \in Nat \ {0} /\ MaxCrashes \in Nat
      /\ None \notin Contents
  BY IngestionAssumption
<1>1. ASSUME NEW o \in Origins, Edit(o) PROVE Steady'
  <2>1. edits' \in 1 .. MaxEdits
    BY <1>0, <1>1, <1>a DEF Edit, CountsOK
  <2>2. PICK content \in Contents, atRoot \in BOOLEAN :
          held' = [held EXCEPT ![o] =
                     [tree |-> content,
                      head |-> IF Kind[o] = "worktree" THEN held[o].head ELSE content,
                      mtime |-> IF atRoot THEN edits + 1 ELSE held[o].mtime]]
    BY <1>1 DEF Edit
  <2>3. /\ held[o].head \in Contents
        /\ held[o].mtime \in 1 .. MaxEdits
    BY <1>0 DEF HeldOK
  <2>4. edits' = edits + 1
    BY <1>1 DEF Edit
  <2>5. HeldOK(held')
    BY <1>0, <2>1, <2>2, <2>3, <2>4 DEF HeldOK
  <2>6. /\ UNCHANGED <<clones, dirs, rows, job, flawed, contested, jobs, crashes>>
        /\ CountsOK(jobs', edits', crashes')
    BY <1>0, <1>1, <2>1 DEF Edit, CountsOK
  <2>7. QED BY <1>0, <2>5, <2>6, SteadyAgain
<1>2. ASSUME NEW o \in Origins, Commit(o) PROVE Steady'
  <2>1. HeldOK(held')
    BY <1>0, <1>2 DEF Commit, HeldOK
  <2>2. UNCHANGED <<clones, dirs, rows, job, flawed, contested, jobs, edits, crashes>>
    BY <1>2 DEF Commit
  <2>3. QED BY <1>0, <2>1, <2>2, SteadyAgain
<1>3. ASSUME NEW p \in Procs, NEW s \in Sources, NEW v \in Views, Resolve(p, s, v)
      PROVE Steady'
  <2>1. UNCHANGED <<held, clones, dirs, rows, flawed, edits, crashes>>
    BY <1>3 DEF Resolve
  <2>2. CountsOK(jobs', edits', crashes')
    BY <1>0, <1>3, <1>a, <2>1 DEF Resolve, CountsOK
  <2>3. JobsOK(job') /\ MarksOK(flawed', contested')
    <3>1. CASE job' = job /\ contested' = contested
      BY <1>0, <2>1, <3>1
    <3>2. PICK o : o = Identity[v][s]
      OBVIOUS
    <3>3. ASSUME NEW r \in Repos,
                 job' = [job EXCEPT ![p] = Started(s, o, r)],
                 contested' = contested \cup ShareId(p, r, o)
          PROVE  JobsOK(job') /\ MarksOK(flawed', contested')
      <4>1. PICK x : x = Started(s, o, r)
        OBVIOUS
      <4>2. Seen(s, o) /\ o \in Origins
        BY <3>2 DEF Seen, Origins
      <4>3. Fits(x)
        BY <4>1, <4>2 DEF Fits, JobType, Started
      <4>4. JobsOK(job')
        BY <1>0, <3>3, <4>1, <4>3, JobMoves
      <4>5. MarksOK(flawed', contested')
        BY <1>0, <2>1, <3>3 DEF MarksOK, ShareId
      <4>6. QED BY <4>4, <4>5
    <3>4. QED BY <1>3, <3>1, <3>2, <3>3, ResolveMoves
  <2>4. QED BY <1>0, <2>1, <2>2, <2>3, SteadyAgain
<1>4. ASSUME NEW p \in Procs, Prepare(p) PROVE Steady'
  <2>1. /\ UNCHANGED <<held, dirs, rows, flawed, contested, jobs, edits, crashes>>
        /\ job[p].pc = "prepare"
    BY <1>4 DEF Prepare
  <2>2. /\ job[p].source \in Sources /\ job[p].repo \in Repos /\ job[p] \in JobType
        /\ job[p].origin \in Origins /\ Seen(job[p].source, job[p].origin)
    BY <1>0, <2>1, Fit DEF Fits
  <2>3. held[job[p].origin].head \in Contents /\ edits \in 0 .. MaxEdits
    BY <1>0, <1>a, <2>2 DEF HeldOK, CountsOK
  <2>4. JobsOK(job')
    <3>1. PICK x : x = [job[p] EXCEPT !.pc = "look", !.key = held[job[p].origin].head]
      OBVIOUS
    <3>2. job' = [job EXCEPT ![p] = x]
      BY <1>4, <3>1 DEF Prepare
    <3>3. Fits(x)
      BY <2>2, <2>3, <3>1 DEF Fits, JobType
    <3>4. QED BY <1>0, <3>2, <3>3, JobMoves
  <2>5. ClonesOK(clones')
    <3>1. [content |-> held[job[p].origin].head, mtime |-> edits] \in DirType
      BY <2>3 DEF DirType
    <3>2. QED BY <1>0, <1>4, <2>2, <2>3, <3>1 DEF Prepare, ClonesOK
  <2>6. QED BY <1>0, <2>1, <2>4, <2>5, SteadyAgain
<1>5. ASSUME NEW p \in Procs, Refuse(p) PROVE Steady'
  <2>1. /\ UNCHANGED <<held, dirs, rows, flawed, contested, jobs, edits, crashes>>
        /\ job' = [job EXCEPT ![p] = Idle]
        /\ CleanUp(p)
    BY <1>5 DEF Refuse, CleanUp
  <2>2. QED BY <1>0, <2>1, IdleFits, JobMoves, CleanUpTyped, SteadyAgain
<1>6. ASSUME NEW p \in Procs, Reuse(p) PROVE Steady'
  <2>1. /\ UNCHANGED <<held, dirs, rows, contested, jobs, edits, crashes>>
        /\ job' = [job EXCEPT ![p].pc = "record"]
        /\ CleanUp(p)
        /\ job[p].pc = "look"
        /\ flawed' \subseteq flawed \cup {At(p)}
    BY <1>6 DEF Reuse
  <2>2. MarksOK(flawed', contested')
    BY <1>0, <2>1, Fit DEF MarksOK
  <2>3. QED BY <1>0, <2>1, <2>2, JobGoesOn, CleanUpTyped, SteadyAgain
<1>7. ASSUME NEW p \in Procs, BeginCopy(p) PROVE Steady'
  <2>1. /\ UNCHANGED <<held, clones, rows, flawed, contested, jobs, edits, crashes>>
        /\ job' = [job EXCEPT ![p].pc = "copy"]
        /\ job[p].pc = "look"
        /\ dirs' = [dirs EXCEPT ![At(p)] = [content |-> "partial", mtime |-> edits]]
    BY <1>7 DEF BeginCopy
  <2>2. DirsOK(dirs')
    <3>1. PICK x : x = [content |-> "partial", mtime |-> edits]
      OBVIOUS
    <3>2. x \in DirType /\ x.content # None
      BY <1>0, <1>a, <3>1 DEF DirType, CountsOK, None
    <3>3. At(p) \in Repos \X Contents
      BY <1>0, <2>1, Fit
    <3>4. QED BY <1>0, <2>1, <3>1, <3>2, <3>3, DirMade
  <2>3. QED BY <1>0, <2>1, <2>2, JobGoesOn, SteadyAgain
<1>8. ASSUME NEW p \in Procs, EndCopy(p) PROVE Steady'
  <2>1. /\ UNCHANGED <<held, rows, contested, jobs, edits, crashes>>
        /\ job[p].pc = "copy"
        /\ flawed' \subseteq flawed \cup {At(p)}
    BY <1>8 DEF EndCopy
  <2>2. At(p) \in Repos \X Contents /\ job[p].origin \in Origins /\ job[p].repo \in Repos
    BY <1>0, <2>1, Fit
  <2>3. MarksOK(flawed', contested')
    BY <1>0, <2>1, <2>2 DEF MarksOK
  <2>4. CASE Found(p) = NoDir
    <3>1. job' = [job EXCEPT ![p] = Idle] /\ UNCHANGED <<dirs, clones>>
      BY <1>8, <2>4 DEF EndCopy
    <3>2. QED BY <1>0, <2>1, <2>3, <3>1, IdleFits, JobMoves, SteadyAgain
  <2>5. CASE Found(p) # NoDir
    <3>1. /\ job' = [job EXCEPT ![p].pc = "record"]
          /\ dirs' = [dirs EXCEPT ![At(p)] = Found(p)]
          /\ CleanUp(p)
      BY <1>8, <2>5 DEF EndCopy
    <3>2. Found(p) \in DirType /\ Found(p).content # None
      <4>1. CASE Kind[job[p].origin] # "remote"
        <5>1. /\ held[job[p].origin].tree \in Contents
              /\ held[job[p].origin].mtime \in 0 .. MaxEdits
          BY <1>0, <2>2 DEF HeldOK
        <5>2. Found(p) = [content |-> held[job[p].origin].tree,
                          mtime |-> held[job[p].origin].mtime]
          BY <4>1 DEF Found
        <5>3. QED BY <1>a, <5>1, <5>2 DEF DirType
      <4>2. CASE Kind[job[p].origin] = "remote"
        <5>1. Found(p) = clones[job[p].repo]
          BY <4>2 DEF Found
        <5>2. QED BY <1>0, <1>a, <2>2, <2>5, <5>1 DEF ClonesOK
      <4>3. QED BY <4>1, <4>2
    <3>3. DirsOK(dirs')
      BY <1>0, <2>2, <3>1, <3>2, DirMade
    <3>4. QED BY <1>0, <2>1, <2>3, <3>1, <3>3, JobGoesOn, CleanUpTyped, SteadyAgain
  <2>6. QED BY <2>4, <2>5
<1>9. ASSUME NEW p \in Procs, RecordSnapshot(p) PROVE Steady'
  <2>1. /\ UNCHANGED <<held, clones, dirs, flawed, contested, jobs, edits, crashes>>
        /\ job' = [job EXCEPT ![p] = Idle]
        /\ job[p].pc = "record"
        /\ rows' = Upserted(Row(job[p].repo, job[p].source, job[p].key))
    BY <1>9 DEF RecordSnapshot
  <2>2. Row(job[p].repo, job[p].source, job[p].key) \in RowType
    BY <1>0, <2>1, Fit DEF Row, RowType
  <2>3. rows' \in Seq(RowType)
    BY <1>0, <2>1, <2>2, UpsertedIs
  <2>4. QED BY <1>0, <2>1, <2>3, IdleFits, JobMoves, SteadyAgain
<1>10. ASSUME NEW p \in Procs, OpenDatabase(p) PROVE Steady'
  BY <1>0, <1>10, SteadyAgain DEF OpenDatabase, ingestVars
<1>11. ASSUME NEW p \in Procs, Crash(p) PROVE Steady'
  <2>1. /\ UNCHANGED <<held, clones, dirs, rows, contested, jobs, edits>>
        /\ job' = [job EXCEPT ![p] = Idle]
        /\ flawed' = flawed \cup {d \in {At(p)} : job[p].pc = "copy"}
    BY <1>11 DEF Crash
  <2>2. CountsOK(jobs', edits', crashes')
    BY <1>0, <1>11, <1>a DEF Crash, CountsOK
  <2>3. MarksOK(flawed', contested')
    BY <1>0, <2>1, Fit DEF MarksOK
  <2>4. QED BY <1>0, <2>1, <2>2, <2>3, IdleFits, JobMoves, SteadyAgain
<1>12. QED
  BY <1>1, <1>2, <1>3, <1>4, <1>5, <1>6, <1>7, <1>8, <1>9, <1>10, <1>11 DEF Next, Step

LEMMA SteadyStays ==
    ASSUME Steady, UNCHANGED vars
    PROVE Steady'
<1>1. SchemaTypeOK'
  BY DEF vars, schemaVars, Steady, TypeOK, SchemaTypeOK
<1>2. QED BY <1>1, SteadyIs, SteadyAgain DEF vars, ingestVars

LEMMA SteadyAlways == Spec => [](SchemaInv /\ Steady)
<1>1. Init => SchemaInv /\ Steady
  BY SchemaStarts, SteadyStarts
<1>2. SchemaInv /\ Steady /\ [Next]_vars => SchemaInv' /\ Steady'
  <2> SUFFICES ASSUME SchemaInv, Steady, [Next]_vars PROVE SchemaInv' /\ Steady'
    OBVIOUS
  <2>1. SchemaInv'
    BY SchemaNext
  <2>2. SchemaTypeOK'
    BY <2>1 DEF SchemaInv
  <2>3. QED BY <2>1, <2>2, SteadyNext, SteadyStays
<1>3. QED BY <1>1, <1>2, PTL DEF Spec

(* Every variable stays in its domain; a command has a source, an id and a
   database where it needs one. *)
THEOREM IngestionTyped == Spec => []TypeOK
<1>1. Steady => TypeOK
  BY DEF Steady
<1>2. QED BY <1>1, SteadyAlways, PTL

-----------------------------------------------------------------------------
(* Whose id it is *)

(* Both facts of Exclusive, of any jobs. *)
Clear(x, j, rs) ==
    /\ \A i \in DOMAIN rs : rs[i].repo = x.repo /\ Fixed(rs[i].source)
            => \A v \in Views : Identity[v][rs[i].source] = x.origin
    /\ \A q \in Procs : j[q].pc # "idle" /\ j[q].repo = x.repo => j[q].origin = x.origin

LEMMA OwnedIs ==
    OwnedInv <=> /\ OneSourcePerRepo
                 /\ \A p \in Procs : job[p].pc # "idle" /\ job[p].repo \notin contested
                                        => Clear(job[p], job, rows)
BY DEF OwnedInv, Exclusive, Clear

LEMMA OwnedAgain ==
    ASSUME OneSourcePerRepo',
           \A p \in Procs : job'[p].pc # "idle" /\ job'[p].repo \notin contested'
                                => Clear(job'[p], job', rows')
    PROVE  OwnedInv'
BY DEF OwnedInv, Exclusive, Clear

(* Jobs that go on or end, and nothing recorded. *)
LEMMA OwnedQuiet ==
    ASSUME OwnedInv, rows' = rows, contested \subseteq contested',
           \A p \in Procs : job'[p].pc # "idle" =>
                /\ job[p].pc # "idle"
                /\ job'[p].repo = job[p].repo /\ job'[p].origin = job[p].origin
    PROVE  OwnedInv'
<1>1. OneSourcePerRepo'
  BY OwnedIs DEF OneSourcePerRepo
<1>2. ASSUME NEW p \in Procs, job'[p].pc # "idle", job'[p].repo \notin contested'
      PROVE  Clear(job'[p], job', rows')
  <2>1. Clear(job[p], job, rows)
    BY <1>2, OwnedIs
  <2>2. job'[p].repo = job[p].repo /\ job'[p].origin = job[p].origin
    BY <1>2
  <2>3. QED BY <2>1, <2>2 DEF Clear
<1>3. QED BY <1>1, <1>2, OwnedAgain

LEMMA OwnedResolve ==
    ASSUME Steady, OwnedInv, NEW p \in Procs, NEW s \in Sources, NEW v \in Views,
           Resolve(p, s, v)
    PROVE  OwnedInv'
<1>0. JobsOK(job)
  BY SteadyIs
<1>1. rows' = rows
  BY DEF Resolve
<1>2. CASE job' = job /\ contested' = contested
  BY <1>1, <1>2, OwnedQuiet
<1>3. PICK o : o = Identity[v][s]
  OBVIOUS
<1>4. ASSUME NEW r \in Repos, Free(r, s, v),
             job' = [job EXCEPT ![p] = Started(s, o, r)],
             contested' = contested \cup ShareId(p, r, o)
      PROVE  OwnedInv'
  <2>1. OneSourcePerRepo'
    BY <1>1, <1>4, OwnedIs DEF OneSourcePerRepo
  <2>2. /\ job'[p].repo = r /\ job'[p].origin = o
        /\ \A q \in Procs \ {p} : job'[q] = job[q]
    BY <1>0, <1>4 DEF JobsOK, Started
  <2>3. r \notin contested' =>
            \A q \in Procs \ {p} : job[q].repo = r => job[q].origin = o
    BY <1>4 DEF ShareId
  <2>4. \A i \in DOMAIN rows : rows[i].repo = r /\ Fixed(rows[i].source)
            => \A w \in Views : Identity[w][rows[i].source] = o
    BY <1>3, <1>4 DEF Free, Fixed
  <2>5. ASSUME NEW q \in Procs, job'[q].pc # "idle", job'[q].repo \notin contested'
        PROVE  Clear(job'[q], job', rows')
    <3>1. CASE q = p
      BY <1>1, <2>2, <2>3, <2>4, <2>5, <3>1 DEF Clear
    <3>2. CASE q # p
      <4>1. Clear(job[q], job, rows)
        BY <1>4, <2>2, <2>5, <3>2, OwnedIs
      <4>2. job[q].repo = r => job[q].origin = o
        BY <2>2, <2>3, <2>5, <3>2
      <4>3. QED BY <1>1, <2>2, <3>2, <4>1, <4>2 DEF Clear
    <3>3. QED BY <3>1, <3>2
  <2>6. QED BY <2>1, <2>5, OwnedAgain
<1>5. QED BY <1>2, <1>3, <1>4, ResolveMoves

LEMMA OwnedRecord ==
    ASSUME Steady, OwnedInv, NEW p \in Procs, RecordSnapshot(p)
    PROVE  OwnedInv'
<1> DEFINE row == Row(job[p].repo, job[p].source, job[p].key)
<1>0. JobsOK(job) /\ rows \in Seq(RowType)
  BY SteadyIs
<1>1. /\ job[p].pc = "record"
      /\ rows' = Upserted(row)
      /\ job' = [job EXCEPT ![p] = Idle]
      /\ contested' = contested
  BY DEF RecordSnapshot
<1>2. row \in RowType /\ row.repo = job[p].repo /\ row.source = job[p].source
  BY <1>0, <1>1, Fit DEF Row, RowType
<1>a. Fixed(row.source) => \A v \in Views : Identity[v][row.source] = job[p].origin
  <2>1. Seen(job[p].source, job[p].origin)
    BY <1>0, <1>1, Fit DEF Fits
  <2>2. QED BY <1>2, <2>1 DEF Seen, Fixed
<1> HIDE DEF row
<1>3. \A i \in DOMAIN rows' : rows'[i] = row \/ (i \in DOMAIN rows /\ rows'[i] = rows[i])
  BY <1>0, <1>1, <1>2, UpsertedIs
<1>4. row.repo \notin contested => Clear(job[p], job, rows)
  BY <1>1, <1>2, OwnedIs
<1>5. OneSourcePerRepo'
  <2>1. ASSUME NEW i \in DOMAIN rows', NEW j \in DOMAIN rows',
               rows'[i].repo = rows'[j].repo, rows'[i].repo \notin contested,
               Fixed(rows'[i].source), Fixed(rows'[j].source), NEW v \in Views
        PROVE  Identity[v][rows'[i].source] = Identity[v][rows'[j].source]
    <3>1. CASE rows'[i] = row /\ rows'[j] = row
      BY <3>1
    <3>2. CASE rows'[i] = row /\ j \in DOMAIN rows /\ rows'[j] = rows[j]
      <4>1. Identity[v][row.source] = job[p].origin
        BY <1>a, <2>1, <3>2
      <4>2. Identity[v][rows[j].source] = job[p].origin
        BY <1>2, <1>4, <2>1, <3>2 DEF Clear
      <4>3. QED BY <3>2, <4>1, <4>2
    <3>3. CASE rows'[j] = row /\ i \in DOMAIN rows /\ rows'[i] = rows[i]
      <4>1. Identity[v][row.source] = job[p].origin
        BY <1>a, <2>1, <3>3
      <4>2. Identity[v][rows[i].source] = job[p].origin
        BY <1>2, <1>4, <2>1, <3>3 DEF Clear
      <4>3. QED BY <3>3, <4>1, <4>2
    <3>4. CASE /\ i \in DOMAIN rows /\ rows'[i] = rows[i]
               /\ j \in DOMAIN rows /\ rows'[j] = rows[j]
      BY <2>1, <3>4, OwnedIs DEF OneSourcePerRepo
    <3>5. QED BY <1>3, <3>1, <3>2, <3>3, <3>4
  <2>2. QED BY <1>1, <2>1 DEF OneSourcePerRepo
<1>6. \A q \in Procs : job'[q].pc # "idle" => q # p /\ job'[q] = job[q]
  BY <1>0, <1>1 DEF JobsOK, Idle
<1>7. ASSUME NEW q \in Procs, job'[q].pc # "idle", job'[q].repo \notin contested'
      PROVE  Clear(job'[q], job', rows')
  <2>1. Clear(job[q], job, rows) /\ job'[q] = job[q]
    BY <1>1, <1>6, <1>7, OwnedIs
  <2>2. job[p].repo = job[q].repo => job[p].origin = job[q].origin
    BY <1>1, <2>1 DEF Clear
  <2>3. ASSUME NEW i \in DOMAIN rows', rows'[i].repo = job[q].repo, Fixed(rows'[i].source),
               NEW v \in Views
        PROVE  Identity[v][rows'[i].source] = job[q].origin
    <3>1. CASE rows'[i] = row
      BY <1>2, <1>a, <2>2, <2>3, <3>1
    <3>2. CASE i \in DOMAIN rows /\ rows'[i] = rows[i]
      BY <2>1, <2>3, <3>2 DEF Clear
    <3>3. QED BY <1>3, <3>1, <3>2
  <2>4. QED BY <1>6, <2>1, <2>3 DEF Clear
<1>8. QED BY <1>5, <1>7, OwnedAgain

LEMMA OwnedNext ==
    ASSUME Steady, OwnedInv, [Next]_vars
    PROVE  OwnedInv'
<1> DEFINE Quiet ==
        \A p \in Procs : job'[p].pc # "idle" =>
            /\ job[p].pc # "idle"
            /\ job'[p].repo = job[p].repo /\ job'[p].origin = job[p].origin
<1>0. JobsOK(job)
  BY SteadyIs
<1>a. ASSUME NEW p \in Procs, job' = [job EXCEPT ![p] = Idle] PROVE Quiet
  BY <1>0, <1>a DEF JobsOK, Idle
<1>b. ASSUME NEW p \in Procs, job[p].pc # "idle", NEW pc, job' = [job EXCEPT ![p].pc = pc]
      PROVE  Quiet
  BY <1>0, <1>b DEF JobsOK, JobType
<1>1. ASSUME NEW o \in Origins, Edit(o) \/ Commit(o) PROVE OwnedInv'
  BY <1>1, OwnedQuiet DEF Edit, Commit
<1>2. ASSUME NEW p \in Procs, NEW s \in Sources, NEW v \in Views, Resolve(p, s, v)
      PROVE  OwnedInv'
  BY <1>2, OwnedResolve
<1>3. ASSUME NEW p \in Procs, Prepare(p) PROVE OwnedInv'
  <2>1. /\ job[p].pc = "prepare"
        /\ job' = [job EXCEPT ![p].pc = "look", ![p].key = held[job[p].origin].head]
        /\ rows' = rows /\ contested' = contested
    BY <1>3 DEF Prepare
  <2>2. Quiet
    BY <1>0, <2>1 DEF JobsOK, JobType
  <2>3. QED BY <2>1, <2>2, OwnedQuiet
<1>4. ASSUME NEW p \in Procs, Refuse(p) PROVE OwnedInv'
  BY <1>4, <1>a, OwnedQuiet DEF Refuse
<1>5. ASSUME NEW p \in Procs, Reuse(p) \/ BeginCopy(p) PROVE OwnedInv'
  <2>1. /\ job[p].pc # "idle" /\ rows' = rows /\ contested' = contested
        /\ \E pc : job' = [job EXCEPT ![p].pc = pc]
    BY <1>5 DEF Reuse, BeginCopy
  <2>2. QED BY <1>b, <2>1, OwnedQuiet
<1>6. ASSUME NEW p \in Procs, EndCopy(p) PROVE OwnedInv'
  <2>1. /\ job[p].pc # "idle" /\ rows' = rows /\ contested' = contested
        /\ \/ job' = [job EXCEPT ![p] = Idle]
           \/ job' = [job EXCEPT ![p].pc = "record"]
    BY <1>6 DEF EndCopy
  <2>2. QED BY <1>a, <1>b, <2>1, OwnedQuiet
<1>7. ASSUME NEW p \in Procs, RecordSnapshot(p) PROVE OwnedInv'
  BY <1>7, OwnedRecord
<1>8. ASSUME NEW p \in Procs, OpenDatabase(p) PROVE OwnedInv'
  BY <1>8, OwnedQuiet DEF OpenDatabase, ingestVars
<1>9. ASSUME NEW p \in Procs, Crash(p) PROVE OwnedInv'
  BY <1>9, <1>a, OwnedQuiet DEF Crash
<1>10. CASE UNCHANGED vars
  BY <1>10, OwnedQuiet DEF vars, ingestVars
<1>11. QED
  BY <1>1, <1>2, <1>3, <1>4, <1>5, <1>6, <1>7, <1>8, <1>9, <1>10 DEF Next, Step

(* The rows of a repository id that have one meaning everywhere come from one origin,
   whatever ids are asked for, and in whatever directory: ingest_repo, by any number of
   commands that do not resolve one id for two origins at the same time. *)
THEOREM IdsAreKept == Spec => []OneSourcePerRepo
<1>1. Init => OwnedInv
  <2> SUFFICES ASSUME Init PROVE OwnedInv
    OBVIOUS
  <2>1. rows = <<>> /\ \A p \in Procs : job[p].pc = "idle"
    BY DEF Init, Idle
  <2>2. OneSourcePerRepo
    BY <2>1 DEF OneSourcePerRepo
  <2>3. QED BY <2>1, <2>2, OwnedIs
<1>2. Steady /\ OwnedInv /\ [Next]_vars => OwnedInv'
  BY OwnedNext
<1>3. OwnedInv => OneSourcePerRepo
  BY DEF OwnedInv
<1>4. QED BY <1>1, <1>2, <1>3, SteadyAlways, PTL DEF Spec

-----------------------------------------------------------------------------
(* What a snapshot holds *)

Place(x) == <<x.repo, x.key>>

Alone(j, ds) ==
    /\ \A p \in Procs : j[p].pc = "copy" => ds[Place(j[p])].content = "partial"
    /\ \A p, q \in Procs :
            j[p].pc = "copy" /\ j[q].pc = "copy" /\ Place(j[p]) = Place(j[q]) => p = q
Whole(j, ds, f) ==
    \A d \in (Repos \X Contents) \ f :
        ds[d] # NoDir /\ (\A p \in Procs : j[p].pc = "copy" => Place(j[p]) # d)
        => ds[d].content = d[2]
Ready(j, ds, f) ==
    \A p \in Procs : j[p].pc = "record" /\ Place(j[p]) \notin f
                        => ds[Place(j[p])].content = j[p].key
Kept(rs, ds, f) ==
    \A i \in DOMAIN rs :
        <<rs[i].repo, rs[i].commit>> \notin f
        => ds[<<rs[i].repo, rs[i].commit>>].content = rs[i].commit

LEMMA CopiedIs ==
    CopiedInv <=> /\ Alone(job, dirs) /\ Whole(job, dirs, flawed)
                  /\ Ready(job, dirs, flawed) /\ Kept(rows, dirs, flawed)
<1>1. \A d : Copying(d) = {} <=> \A p \in Procs : job[p].pc = "copy" => Place(job[p]) # d
  BY DEF Copying, At, Place
<1>2. Whole(job, dirs, flawed) <=>
        \A d \in (Repos \X Contents) \ flawed :
            dirs[d] # NoDir /\ Copying(d) = {} => dirs[d].content = d[2]
  BY <1>1 DEF Whole
<1>3. Alone(job, dirs) <=>
        \A p \in Procs : job[p].pc = "copy" =>
            dirs[At(p)].content = "partial" /\ Copying(At(p)) = {p}
  BY DEF Alone, Copying, At, Place
<1>4. Ready(job, dirs, flawed) <=>
        \A p \in Procs : job[p].pc = "record" /\ At(p) \notin flawed =>
            dirs[At(p)].content = job[p].key
  BY DEF Ready, At, Place
<1>5. Kept(rows, dirs, flawed) <=> RecordedIsWhole
  BY DEF Kept, RecordedIsWhole
<1>6. QED BY <1>2, <1>3, <1>4, <1>5 DEF CopiedInv

LEMMA CopiedAgain ==
    ASSUME Alone(job', dirs'), Whole(job', dirs', flawed'),
           Ready(job', dirs', flawed'), Kept(rows', dirs', flawed')
    PROVE  CopiedInv'
<1>1. \A d : Copying(d)' = {} <=> \A p \in Procs : job'[p].pc = "copy" => Place(job'[p]) # d
  BY DEF Copying, At, Place
<1>2. \A d \in (Repos \X Contents) \ flawed' :
            dirs'[d] # NoDir /\ Copying(d)' = {} => dirs'[d].content = d[2]
  BY <1>1 DEF Whole
<1>3. \A p \in Procs : job'[p].pc = "copy" =>
            dirs'[At(p)'].content = "partial" /\ Copying(At(p))' = {p}
  BY DEF Alone, Copying, At, Place
<1>4. \A p \in Procs : job'[p].pc = "record" /\ At(p)' \notin flawed' =>
            dirs'[At(p)'].content = job'[p].key
  BY DEF Ready, At, Place
<1>5. RecordedIsWhole'
  BY DEF Kept, RecordedIsWhole
<1>6. QED BY <1>2, <1>3, <1>4, <1>5 DEF CopiedInv

(* Steps that write no directory and no row: a command that stops copying
   leaves the snapshot flawed, one that is through has found what it needs. *)
LEMMA CopiedQuiet ==
    ASSUME CopiedInv, rows' = rows, dirs' = dirs, flawed \subseteq flawed',
           \A q \in Procs : job'[q].pc = "copy" =>
                job[q].pc = "copy" /\ Place(job'[q]) = Place(job[q]),
           \A q \in Procs : job[q].pc = "copy" =>
                job'[q].pc = "copy" \/ Place(job[q]) \in flawed',
           \A q \in Procs : job'[q].pc = "record" /\ Place(job'[q]) \notin flawed' =>
                dirs[Place(job'[q])].content = job'[q].key
    PROVE  CopiedInv'
<1>0. /\ Alone(job, dirs) /\ Whole(job, dirs, flawed)
      /\ Ready(job, dirs, flawed) /\ Kept(rows, dirs, flawed)
  BY CopiedIs
<1>1. Alone(job', dirs')
  BY <1>0 DEF Alone
<1>2. Whole(job', dirs', flawed')
  <2> SUFFICES ASSUME NEW d \in (Repos \X Contents) \ flawed', dirs[d] # NoDir,
                      \A p \in Procs : job'[p].pc = "copy" => Place(job'[p]) # d
               PROVE  dirs[d].content = d[2]
    BY DEF Whole
  <2>1. \A p \in Procs : job[p].pc = "copy" => Place(job[p]) # d
    OBVIOUS
  <2>2. QED BY <1>0, <2>1 DEF Whole
<1>3. Ready(job', dirs', flawed')
  BY DEF Ready
<1>4. Kept(rows', dirs', flawed')
  BY <1>0 DEF Kept
<1>5. QED BY <1>1, <1>2, <1>3, <1>4, CopiedAgain

(* The same, of a step in which no command is through. *)
LEMMA CopiedStill ==
    ASSUME CopiedInv, rows' = rows, dirs' = dirs, flawed \subseteq flawed',
           \A q \in Procs : job'[q] # job[q] =>
                /\ job'[q].pc \notin {"copy", "record"}
                /\ job[q].pc = "copy" => Place(job[q]) \in flawed'
    PROVE  CopiedInv'
<1>1. Ready(job, dirs, flawed)
  BY CopiedIs
<1>2. \A q \in Procs : job'[q].pc = "record" /\ Place(job'[q]) \notin flawed' =>
                dirs[Place(job'[q])].content = job'[q].key
  BY <1>1 DEF Ready
<1>3. QED BY <1>2, CopiedQuiet

LEMMA CopiedReuse ==
    ASSUME Steady, CopiedInv, NEW p \in Procs, Reuse(p)
    PROVE  CopiedInv'
<1>0. JobsOK(job) /\ DirsOK(dirs) /\ Ready(job, dirs, flawed) /\ Whole(job, dirs, flawed)
  BY SteadyIs, CopiedIs
<1>1. /\ job[p].pc = "look" /\ dirs[At(p)] # NoDir
      /\ job' = [job EXCEPT ![p].pc = "record"]
      /\ rows' = rows /\ dirs' = dirs
      /\ flawed' = IF Copying(At(p)) = {} THEN flawed ELSE flawed \cup {At(p)}
  BY DEF Reuse
<1>2. /\ job'[p].pc = "record" /\ Place(job'[p]) = At(p) /\ job'[p].key = job[p].key
      /\ \A q \in Procs \ {p} : job'[q] = job[q]
  BY <1>0, <1>1 DEF JobsOK, JobType, Place, At
<1>3. At(p) \notin flawed' => dirs[At(p)].content = job[p].key
  <2> SUFFICES ASSUME At(p) \notin flawed' PROVE dirs[At(p)].content = job[p].key
    OBVIOUS
  <2>1. Copying(At(p)) = {} /\ At(p) \notin flawed
    BY <1>1
  <2>2. At(p) \in (Repos \X Contents) \ flawed /\ At(p)[2] = job[p].key
    BY <1>0, <1>1, <2>1, Fit DEF At
  <2>3. \A q \in Procs : job[q].pc = "copy" => Place(job[q]) # At(p)
    BY <2>1 DEF Copying, Place, At
  <2>4. QED BY <1>0, <1>1, <2>2, <2>3 DEF Whole
<1>4. \A q \in Procs : job'[q].pc = "record" /\ Place(job'[q]) \notin flawed' =>
            dirs[Place(job'[q])].content = job'[q].key
  BY <1>0, <1>1, <1>2, <1>3 DEF Ready
<1>5. QED BY <1>1, <1>2, <1>4, CopiedQuiet

LEMMA CopiedBegin ==
    ASSUME Steady, CopiedInv, NEW p \in Procs, BeginCopy(p)
    PROVE  CopiedInv'
<1> DEFINE d0 == At(p)
<1>0. /\ JobsOK(job) /\ DirsOK(dirs) /\ rows \in Seq(RowType)
      /\ Alone(job, dirs) /\ Whole(job, dirs, flawed)
      /\ Ready(job, dirs, flawed) /\ Kept(rows, dirs, flawed)
  BY SteadyIs, CopiedIs
<1>1. /\ job[p].pc = "look" /\ dirs[d0] = NoDir
      /\ job' = [job EXCEPT ![p].pc = "copy"]
      /\ rows' = rows /\ flawed' = flawed
      /\ dirs' = [dirs EXCEPT ![d0] = [content |-> "partial", mtime |-> edits]]
  BY DEF BeginCopy
<1>2. d0 \in Repos \X Contents
  BY <1>0, <1>1, Fit
<1>3. /\ job'[p].pc = "copy" /\ Place(job'[p]) = d0
      /\ \A q \in Procs \ {p} : job'[q] = job[q]
  BY <1>0, <1>1 DEF JobsOK, JobType, Place, At
<1>4. /\ dirs'[d0].content = "partial"
      /\ \A d \in Repos \X Contents : d # d0 => dirs'[d] = dirs[d]
      /\ dirs[d0].content = None /\ None # "partial" /\ None \notin Contents
  BY <1>0, <1>1, <1>2, IngestionAssumption DEF DirsOK, NoDir, None
<1>5. \A q \in Procs : job[q].pc \in {"look", "copy", "record"} =>
            Place(job[q]) \in Repos \X Contents /\ job[q].key \in Contents
  BY <1>0, Fit DEF Place, At
<1> HIDE DEF d0
<1>6. Alone(job', dirs')
  <2>1. \A q \in Procs \ {p} : job[q].pc = "copy" => Place(job[q]) # d0
    BY <1>0, <1>4 DEF Alone
  <2>2. \A q \in Procs : job'[q].pc = "copy" => dirs'[Place(job'[q])].content = "partial"
    BY <1>0, <1>3, <1>4, <1>5, <2>1 DEF Alone
  <2>3. QED BY <1>0, <1>3, <2>1, <2>2 DEF Alone
<1>7. Whole(job', dirs', flawed')
  <2> SUFFICES ASSUME NEW d \in (Repos \X Contents) \ flawed, dirs'[d] # NoDir,
                      \A q \in Procs : job'[q].pc = "copy" => Place(job'[q]) # d
               PROVE  dirs'[d].content = d[2]
    BY <1>1 DEF Whole
  <2>1. d # d0
    BY <1>3
  <2>2. \A q \in Procs : job[q].pc = "copy" => Place(job[q]) # d
    BY <1>1, <1>3
  <2>3. QED BY <1>0, <1>4, <2>1, <2>2 DEF Whole
<1>8. Ready(job', dirs', flawed')
  BY <1>0, <1>1, <1>3, <1>4, <1>5 DEF Ready
<1>9. Kept(rows', dirs', flawed')
  <2> SUFFICES ASSUME NEW i \in DOMAIN rows,
                      <<rows[i].repo, rows[i].commit>> \notin flawed
               PROVE  dirs'[<<rows[i].repo, rows[i].commit>>].content = rows[i].commit
    BY <1>1 DEF Kept
  <2>1. rows[i] \in RowType
    BY <1>0
  <2>2. dirs[<<rows[i].repo, rows[i].commit>>].content = rows[i].commit
    BY <1>0 DEF Kept
  <2>3. <<rows[i].repo, rows[i].commit>> \in Repos \X Contents /\ rows[i].commit \in Contents
    BY <2>1 DEF RowType
  <2>4. QED BY <1>4, <2>2, <2>3
<1>10. QED BY <1>6, <1>7, <1>8, <1>9, CopiedAgain

LEMMA CopiedEnd ==
    ASSUME Steady, CopiedInv, NEW p \in Procs, EndCopy(p)
    PROVE  CopiedInv'
<1> DEFINE d0 == At(p)
<1>0. /\ JobsOK(job) /\ DirsOK(dirs) /\ rows \in Seq(RowType)
      /\ Alone(job, dirs) /\ Whole(job, dirs, flawed)
      /\ Ready(job, dirs, flawed) /\ Kept(rows, dirs, flawed)
  BY SteadyIs, CopiedIs
<1>1. /\ job[p].pc = "copy" /\ rows' = rows
      /\ flawed' = IF Found(p).content = job[p].key THEN flawed ELSE flawed \cup {d0}
  BY DEF EndCopy
<1>2. /\ d0 \in Repos \X Contents /\ d0[2] = job[p].key /\ job[p].key \in Contents
      /\ Place(job[p]) = d0
  BY <1>0, <1>1, Fit DEF At, Place
<1>3. CASE Found(p) = NoDir
  <2>1. job' = [job EXCEPT ![p] = Idle] /\ dirs' = dirs
    BY <1>3 DEF EndCopy
  <2>2. d0 \in flawed'
    BY <1>1, <1>2, <1>3, IngestionAssumption DEF NoDir
  <2>3. job'[p].pc = "idle" /\ \A q \in Procs \ {p} : job'[q] = job[q]
    BY <1>0, <2>1 DEF JobsOK, Idle
  <2>4. flawed \subseteq flawed'
    BY <1>1
  <2>5. QED BY <1>1, <1>2, <2>1, <2>2, <2>3, <2>4, CopiedStill
<1>4. CASE Found(p) # NoDir
  <2>1. /\ job' = [job EXCEPT ![p].pc = "record"]
        /\ dirs' = [dirs EXCEPT ![d0] = Found(p)]
    BY <1>4 DEF EndCopy
  <2>2. /\ job'[p].pc = "record" /\ Place(job'[p]) = d0 /\ job'[p].key = job[p].key
        /\ \A q \in Procs \ {p} : job'[q] = job[q]
    BY <1>0, <2>1 DEF JobsOK, JobType, Place, At
  <2>3. /\ dirs'[d0] = Found(p)
        /\ \A d \in Repos \X Contents : d # d0 => dirs'[d] = dirs[d]
        /\ d0 \notin flawed' => dirs'[d0].content = job[p].key
    BY <1>0, <1>1, <1>2, <2>1 DEF DirsOK
  <2>4. \A q \in Procs : job[q].pc \in {"look", "copy", "record"} =>
            Place(job[q]) \in Repos \X Contents
    BY <1>0, Fit DEF Place, At
  <2>5. \A q \in Procs \ {p} : job[q].pc = "copy" => Place(job[q]) # d0
    BY <1>0, <1>1, <1>2 DEF Alone
  <2>6. flawed \subseteq flawed' /\ d0[2] = job[p].key
    BY <1>1, <1>2
  <2> HIDE DEF d0
  <2>7. Alone(job', dirs')
    <3>1. \A q \in Procs : job'[q].pc = "copy" => q # p /\ job'[q] = job[q]
      BY <2>2
    <3>2. QED BY <1>0, <2>3, <2>4, <2>5, <3>1 DEF Alone
  <2>8. Whole(job', dirs', flawed')
    <3> SUFFICES ASSUME NEW d \in (Repos \X Contents) \ flawed', dirs'[d] # NoDir,
                        \A q \in Procs : job'[q].pc = "copy" => Place(job'[q]) # d
                 PROVE  dirs'[d].content = d[2]
      BY DEF Whole
    <3>1. CASE d = d0
      BY <2>3, <2>6, <3>1
    <3>2. CASE d # d0
      <4>1. \A q \in Procs : job[q].pc = "copy" => Place(job[q]) # d
        BY <1>2, <2>2, <3>2
      <4>2. QED BY <1>0, <2>3, <2>6, <3>2, <4>1 DEF Whole
    <3>3. QED BY <3>1, <3>2
  <2>9. Ready(job', dirs', flawed')
    <3> SUFFICES ASSUME NEW q \in Procs, job'[q].pc = "record", Place(job'[q]) \notin flawed'
                 PROVE  dirs'[Place(job'[q])].content = job'[q].key
      BY DEF Ready
    <3>1. CASE q = p
      BY <2>2, <2>3, <3>1
    <3>2. CASE q # p
      <4>1. /\ job'[q] = job[q] /\ job[q].pc = "record"
            /\ Place(job[q]) \in Repos \X Contents
        BY <2>2, <2>4, <3>2
      <4>2. dirs[Place(job[q])].content = job[q].key
        BY <1>0, <2>6, <4>1 DEF Ready
      <4>3. CASE Place(job[q]) = d0
        <5>1. job[q].key = job[p].key
          BY <2>6, <4>3 DEF Place
        <5>2. QED BY <2>3, <3>2, <4>1, <4>3, <5>1
      <4>4. CASE Place(job[q]) # d0
        BY <2>3, <4>1, <4>2, <4>4
      <4>5. QED BY <4>3, <4>4
    <3>3. QED BY <3>1, <3>2
  <2>10. Kept(rows', dirs', flawed')
    <3> SUFFICES ASSUME NEW i \in DOMAIN rows,
                        <<rows[i].repo, rows[i].commit>> \notin flawed'
                 PROVE  dirs'[<<rows[i].repo, rows[i].commit>>].content = rows[i].commit
      BY <1>1 DEF Kept
    <3> DEFINE d == <<rows[i].repo, rows[i].commit>>
    <3>1. d \in Repos \X Contents /\ d[2] = rows[i].commit
      <4>1. rows[i] \in RowType
        BY <1>0
      <4>2. QED BY <4>1 DEF RowType
    <3>2. dirs[d].content = rows[i].commit
      BY <1>0, <2>6 DEF Kept
    <3> HIDE DEF d
    <3>3. CASE d = d0
      BY <2>3, <2>6, <3>1, <3>3 DEF d
    <3>4. CASE d # d0
      BY <2>3, <3>1, <3>2, <3>4 DEF d
    <3>5. QED BY <3>3, <3>4
  <2>11. QED BY <2>7, <2>8, <2>9, <2>10, CopiedAgain
<1>5. QED BY <1>3, <1>4

LEMMA CopiedRecord ==
    ASSUME Steady, CopiedInv, NEW p \in Procs, RecordSnapshot(p)
    PROVE  CopiedInv'
<1> DEFINE row == Row(job[p].repo, job[p].source, job[p].key)
<1>0. /\ JobsOK(job) /\ rows \in Seq(RowType)
      /\ Alone(job, dirs) /\ Whole(job, dirs, flawed)
      /\ Ready(job, dirs, flawed) /\ Kept(rows, dirs, flawed)
  BY SteadyIs, CopiedIs
<1>1. /\ job[p].pc = "record"
      /\ rows' = Upserted(row)
      /\ job' = [job EXCEPT ![p] = Idle]
      /\ dirs' = dirs /\ flawed' = flawed
  BY DEF RecordSnapshot
<1>2. /\ row \in RowType
      /\ <<row.repo, row.commit>> = Place(job[p]) /\ row.commit = job[p].key
  BY <1>0, <1>1, Fit DEF Row, RowType, Place
<1> HIDE DEF row
<1>3. \A i \in DOMAIN rows' : rows'[i] = row \/ (i \in DOMAIN rows /\ rows'[i] = rows[i])
  BY <1>0, <1>1, <1>2, UpsertedIs
<1>4. job'[p].pc = "idle" /\ \A q \in Procs \ {p} : job'[q] = job[q]
  BY <1>0, <1>1 DEF JobsOK, Idle
<1>5. Alone(job', dirs')
  BY <1>0, <1>1, <1>4 DEF Alone
<1>6. Whole(job', dirs', flawed')
  <2>1. \A d : (\A q \in Procs : job'[q].pc = "copy" => Place(job'[q]) # d)
            => \A q \in Procs : job[q].pc = "copy" => Place(job[q]) # d
    BY <1>1, <1>4
  <2>2. QED BY <1>0, <1>1, <2>1 DEF Whole
<1>7. Ready(job', dirs', flawed')
  BY <1>0, <1>1, <1>4 DEF Ready
<1>8. <<row.repo, row.commit>> \notin flawed =>
            dirs[<<row.repo, row.commit>>].content = row.commit
  BY <1>0, <1>1, <1>2 DEF Ready
<1>9. Kept(rows', dirs', flawed')
  BY <1>0, <1>1, <1>3, <1>8 DEF Kept
<1>10. QED BY <1>5, <1>6, <1>7, <1>9, CopiedAgain

LEMMA CopiedNext ==
    ASSUME Steady, CopiedInv, [Next]_vars
    PROVE  CopiedInv'
<1>0. JobsOK(job)
  BY SteadyIs
<1>a. ASSUME NEW p \in Procs, NEW x, job' = [job EXCEPT ![p] = x]
      PROVE  job'[p] = x /\ \A q \in Procs \ {p} : job'[q] = job[q]
  BY <1>0, <1>a DEF JobsOK
<1>1. ASSUME NEW o \in Origins, Edit(o) \/ Commit(o) PROVE CopiedInv'
  BY <1>1, CopiedStill DEF Edit, Commit
<1>2. ASSUME NEW p \in Procs, NEW s \in Sources, NEW v \in Views, Resolve(p, s, v)
      PROVE  CopiedInv'
  <2>1. /\ rows' = rows /\ dirs' = dirs /\ flawed' = flawed /\ job[p].pc = "idle"
    BY <1>2 DEF Resolve
  <2>2. \A o, r : Started(s, o, r).pc = "prepare"
    BY DEF Started
  <2>3. \/ job' = job
        \/ \E x : job' = [job EXCEPT ![p] = x] /\ x.pc = "prepare"
    BY <1>2, <2>2, ResolveMoves
  <2>4. QED BY <1>a, <2>1, <2>3, CopiedStill
<1>3. ASSUME NEW p \in Procs, Prepare(p) PROVE CopiedInv'
  <2>1. /\ rows' = rows /\ dirs' = dirs /\ flawed' = flawed /\ job[p].pc = "prepare"
        /\ job' = [job EXCEPT ![p].pc = "look", ![p].key = held[job[p].origin].head]
    BY <1>3 DEF Prepare
  <2>2. job'[p].pc = "look" /\ \A q \in Procs \ {p} : job'[q] = job[q]
    BY <1>0, <2>1 DEF JobsOK, JobType
  <2>3. QED BY <2>1, <2>2, CopiedStill
<1>4. ASSUME NEW p \in Procs, Refuse(p) PROVE CopiedInv'
  <2>1. /\ rows' = rows /\ dirs' = dirs /\ flawed' = flawed
        /\ job[p].pc # "copy" /\ job' = [job EXCEPT ![p] = Idle]
    BY <1>4 DEF Refuse
  <2>2. QED BY <1>a, <2>1, CopiedStill DEF Idle
<1>5. ASSUME NEW p \in Procs, Reuse(p) PROVE CopiedInv'
  BY <1>5, CopiedReuse
<1>6. ASSUME NEW p \in Procs, BeginCopy(p) PROVE CopiedInv'
  BY <1>6, CopiedBegin
<1>7. ASSUME NEW p \in Procs, EndCopy(p) PROVE CopiedInv'
  BY <1>7, CopiedEnd
<1>8. ASSUME NEW p \in Procs, RecordSnapshot(p) PROVE CopiedInv'
  BY <1>8, CopiedRecord
<1>9. ASSUME NEW p \in Procs, OpenDatabase(p) PROVE CopiedInv'
  BY <1>9, CopiedStill DEF OpenDatabase, ingestVars
<1>10. ASSUME NEW p \in Procs, Crash(p) PROVE CopiedInv'
  <2>1. /\ rows' = rows /\ dirs' = dirs
        /\ flawed' = flawed \cup {d \in {At(p)} : job[p].pc = "copy"}
        /\ job' = [job EXCEPT ![p] = Idle]
    BY <1>10 DEF Crash
  <2>2. job[p].pc = "copy" => Place(job[p]) \in flawed'
    BY <2>1 DEF Place, At
  <2>3. QED BY <1>a, <2>1, <2>2, CopiedStill DEF Idle
<1>11. CASE UNCHANGED vars
  BY <1>11, CopiedStill DEF vars, ingestVars
<1>12. QED
  BY <1>1, <1>2, <1>3, <1>4, <1>5, <1>6, <1>7, <1>8, <1>9, <1>10, <1>11 DEF Next, Step

LEMMA CopiedAlways == Spec => [](Steady /\ CopiedInv)
<1>1. Init => CopiedInv
  <2> SUFFICES ASSUME Init PROVE CopiedInv
    OBVIOUS
  <2>1. /\ rows = <<>>
        /\ \A d \in Repos \X Contents : dirs[d] = NoDir
        /\ \A p \in Procs : job[p].pc = "idle"
    BY DEF Init, Idle
  <2>2. QED BY <2>1, CopiedIs DEF Alone, Whole, Ready, Kept
<1>2. Steady /\ CopiedInv /\ [Next]_vars => CopiedInv'
  BY CopiedNext
<1>3. QED BY <1>1, <1>2, SteadyAlways, PTL DEF Spec

(* A recorded snapshot holds what its key names, except for the flaws that are
   listed: the copy, and the row after it, of ingest_repo. *)
THEOREM SnapshotsAreWhole == Spec => []RecordedIsWhole
<1>1. CopiedInv => RecordedIsWhole
  BY DEF CopiedInv
<1>2. QED BY <1>1, CopiedAlways, PTL

(* No step writes a snapshot that was copied: the directory that is there is
   taken as it is. *)
THEOREM SnapshotsStay == Spec => SnapshotStays
<1> DEFINE Stay == \A d \in Repos \X Contents :
                        dirs[d].content \notin {None, "partial"} => dirs'[d] = dirs[d]
<1>1. ASSUME Steady, CopiedInv, Next PROVE Stay
  <2>0. /\ JobsOK(job) /\ DirsOK(dirs) /\ Alone(job, dirs)
    BY <1>1, SteadyIs, CopiedIs
  <2>1. ASSUME NEW d0 \in Repos \X Contents, dirs[d0].content \in {None, "partial"}, NEW x,
               dirs' = [dirs EXCEPT ![d0] = x]
        PROVE  Stay
    BY <2>0, <2>1 DEF DirsOK
  <2>2. dirs' = dirs => Stay
    OBVIOUS
  <2> HIDE DEF Stay
  <2>3. ASSUME NEW p \in Procs, BeginCopy(p) PROVE Stay
    <3>1. /\ At(p) \in Repos \X Contents
          /\ dirs[At(p)].content \in {None, "partial"}
      BY <2>0, <2>3, Fit DEF BeginCopy, NoDir
    <3>2. PICK x : dirs' = [dirs EXCEPT ![At(p)] = x]
      BY <2>3 DEF BeginCopy
    <3>3. QED BY <2>1, <3>1, <3>2
  <2>4. ASSUME NEW p \in Procs, EndCopy(p) PROVE Stay
    <3>1. /\ At(p) \in Repos \X Contents
          /\ dirs[At(p)].content \in {None, "partial"}
      <4>1. job[p].pc = "copy"
        BY <2>4 DEF EndCopy
      <4>2. dirs[Place(job[p])].content = "partial"
        BY <2>0, <4>1 DEF Alone
      <4>3. QED BY <2>0, <4>1, <4>2, Fit DEF At, Place
    <3>2. \/ dirs' = dirs
          \/ dirs' = [dirs EXCEPT ![At(p)] = Found(p)]
      BY <2>4 DEF EndCopy
    <3>3. QED BY <2>1, <2>2, <3>1, <3>2
  <2>5. ASSUME NEW o \in Origins, Edit(o) \/ Commit(o) PROVE dirs' = dirs
    BY <2>5 DEF Edit, Commit
  <2>6. ASSUME NEW p \in Procs, NEW s \in Sources, NEW v \in Views, Resolve(p, s, v)
      PROVE  dirs' = dirs
    BY <2>6 DEF Resolve
  <2>7. ASSUME NEW p \in Procs,
               \/ Prepare(p) \/ Refuse(p) \/ Reuse(p) \/ RecordSnapshot(p)
               \/ OpenDatabase(p) \/ Crash(p)
        PROVE  dirs' = dirs
    BY <2>7 DEF Prepare, Refuse, Reuse, RecordSnapshot, OpenDatabase, ingestVars, Crash
  <2>8. QED BY <1>1, <2>2, <2>3, <2>4, <2>5, <2>6, <2>7 DEF Next, Step
<1>2. Steady /\ CopiedInv /\ [Next]_vars => [Stay]_vars
  BY <1>1
<1>3. QED BY <1>2, CopiedAlways, PTL DEF Spec, SnapshotStays

===============================================================================
